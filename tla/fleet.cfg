CONSTANTS
  d1 = d1
  Ids = {d1}
  Nodes = {n1,n2}
  IdOf <- MCIdOf
  Allocs = {a1,a2,a3}
  Servers = {s1,s2,s3}
  Ports = {1,2}
  Discs = {p1}
  Cleaners = {c1,c2}
  None = None
  MaxRestarts = 1
SPECIFICATION Spec
SYMMETRY Sym
VIEW View
CONSTRAINT Orderly
INVARIANTS TypeOK  
CHECK_DEADLOCK FALSE
