SPECIFICATION Spec
CONSTANTS
  Points = 12
  Spacing = 60
  Findings <- MCFindings
  PeerScores = {8, 10}
  MaxMembers = 3
INVARIANT HashOrderIsInvisible UnanimityIsKept EventsInWindow PeriodsAgree
