CONSTANTS
  n1 = n1
  n2 = n2
  n3 = n3
  n4 = n4
  n5 = n5
  Null = Null
  Nodes <- MCNodes
  Data = {0, 1}
SPECIFICATION Spec
SYMMETRY Addresses
INVARIANTS Linked Owned
PROPERTY ImplementsFifo
