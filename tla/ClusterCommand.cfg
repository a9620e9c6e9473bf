SPECIFICATION FairSpec

CONSTANTS
  Now = 100
  Window = 10
  PageLimit = 2
  Cases <- MCCases
  Listings <- MCListings

INVARIANTS
  RequestsReachTheCluster
  OneMatchOnly
  PlatformsStayApart
  SamplesAreComplete
  OneRoute
  FlagsDecide

PROPERTIES
  CommandEnds
