CONSTANTS
  Servers = {s1,s2}
  None = None
  MaySkip = TRUE
  Ops = {"start","reinstall"}
  Faults = {"fail","cancel","crash"}
SPECIFICATION FairSpec
INVARIANTS TypeOK OneInstaller
PROPERTY StartsEnd
CHECK_DEADLOCK FALSE
