CONSTANTS
  MaxTickers = 3
SPECIFICATION Spec
INVARIANTS
  TickersMatchGoroutines
