CONSTANTS
  RetryMax = 2
  Statuses = {200, 304, 400, 408, 503}
SPECIFICATION FairSpec
INVARIANTS
  HookLifecycle
  OkMeansServed
PROPERTIES
  RefinesRemoteCall
  ContextBoundsCall
