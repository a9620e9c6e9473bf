SPECIFICATION Spec
CONSTANTS
  Keys = {"instance", "type"}
  Series <- MCSeries
  Queries <- MCQueries
  MaxSeries = 3
INVARIANT GroupsAligned LastSampleWins NothingLeftOut ScopeIgnoresOrder
INVARIANT RuntimeIsClosed OkIsTheAnalysis
