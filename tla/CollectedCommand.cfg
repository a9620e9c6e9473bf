CONSTANTS
  MaxTickers = 3
SPECIFICATION FairSpec
INVARIANTS
  ReadyIsTrue
  WaitsAreReminded
  OutcomeIsTold
PROPERTIES
  CommandGoesQuiet
