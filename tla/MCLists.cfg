CONSTANTS
  Nodes = {n1, n2, n3, n4}
  ListHead = head
SPECIFICATION Spec
SYMMETRY MCSymmetry
INVARIANTS
  ChainsAgree
PROPERTIES
  ImplementsDeque
