CONSTANTS
  Records <- FewRecords
  Items <- FewItems
  Statuses <- FewStatuses
  MaxCopies = 2
SPECIFICATION FairSpec
PROPERTIES
  ContextBoundsWait
  ReadableIsNoticed
