SPECIFICATION Spec
CONSTANTS
  Producers = {1, 2}
  Nodes = {n1, n2}
  Null = Null
  MaxSubmit <- MCTwoCallers
INVARIANTS
  OwnedOnce
SYMMETRY MCSymmetry
