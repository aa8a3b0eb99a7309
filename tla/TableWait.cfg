\* Does submitAndWait() or removeAndWait() return when the operation fails?
SPECIFICATION Spec
CONSTANTS
  client = client
  address = address
  Main = client
  Children <- OneChild
  MaxRows = 1
  Faults = {"validate"}
  TypesWhileBusy = FALSE
INVARIANTS
  WaitEndsWithOperation
