CONSTANTS
  Keys = {k1}
  Scopes = {"node","admin"}
  Requests = {w1,w2}
  Limiters = {l1,l2,l3}
  Burst = 2
  Ttl = 2
  MaxTouch = 1
  None = None
SPECIFICATION Spec
SYMMETRY Sym
INVARIANTS TypeOK   
CHECK_DEADLOCK FALSE
