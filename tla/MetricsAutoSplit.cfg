CONSTANTS
  Requests <- MCRequests
  Series = {a}
  Second = 2
SPECIFICATION Spec
INVARIANTS
  OkCoversRange
  NoHoles
  RequestsBounded
