SPECIFICATION Spec
CONSTANTS
  Producers = {1}
  Nodes = {n1, n2, n3}
  Null = Null
  MaxSubmit <- MCFourSubmissions
INVARIANTS
  ListsIntact
  OwnedOnce
  NoLostWakeup
  DeletedOnce
PROPERTIES
  ImplementsFifo
