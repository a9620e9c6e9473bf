SPECIFICATION Spec
CONSTANTS
  Ids = {1, 2, 3}
  Bundles <- MCBundles
  Times <- MCTimes
  Clock = {6, 8}
  Window = 3
  MilliFrom = 20
  Milli = 10
  MaxRuns = 2
INVARIANT PickReachesRange SlowLogIsFound
PROPERTY PickIsKept
