\* A main controller with one child, and everything that may go wrong.
SPECIFICATION Spec
CONSTANTS
  client = client
  address = address
  Main = client
  Children <- OneChild
  MaxRows = 2
  Faults <- AnyFault
  TypesWhileBusy = FALSE
INVARIANTS
  TypeOK
  SavedMeansSaved
  ChildrenFollow
  NewRowIsCurrent
  BlockedSubmitCanEnd
PROPERTIES
  EditsKeepTheirRow
