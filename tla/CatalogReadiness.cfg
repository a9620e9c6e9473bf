CONSTANTS
  Records <- MCRecords
  Items <- MCItems
  Statuses <- FewStatuses
  MaxCopies = 2
SPECIFICATION Spec
INVARIANTS
  OkMeansReadable
  AtMostOneTrigger
  RebuildsTheItem
  OkIsUsable
