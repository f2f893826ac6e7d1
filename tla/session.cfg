CONSTANTS
  Senders = {e1}
  Servers = {s1}
  PerPage = 1
  MaxFaults = 1
SPECIFICATION FairSpec
INVARIANTS TypeOK  TokenCurrent 
 
CHECK_DEADLOCK FALSE
