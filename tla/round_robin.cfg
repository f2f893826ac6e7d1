CONSTANTS
  a = a
  b = b
  c = c
  a1 = a1
  a2 = a2
  b1 = b1
  c1 = c1
  None = None
  Ids = {a,b,c}
  Nodes = {a1,a2,b1,c1}
  IdOf <- MCIdOf
SPECIFICATION Spec
INVARIANTS TypeOK InBounds MapConsistent
PROPERTIES KeepsPromise Rotation
