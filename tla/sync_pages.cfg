CONSTANTS
  Senders = {}
  Servers = {s1, s2}
  PerPage = 1
  MaxFaults = 0
SPECIFICATION Spec
INVARIANTS FindsAll
CHECK_DEADLOCK FALSE
