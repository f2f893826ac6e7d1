CONSTANTS
  Procs = {p1, p2}
  Nobody = nobody
  Retries = 1
  MaxFaults = 2
SPECIFICATION FairSpec
INVARIANTS TypeOK Settled CompletedPassed 
PROPERTIES Ends
CHECK_DEADLOCK FALSE
