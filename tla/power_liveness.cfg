CONSTANTS
  Procs = {p1}
  Slots = {h1}
  Ops = {"start","stop","restart","kill","reset"}
  StopType = "signal"
  Saves = {TRUE,FALSE}
  Boots = {"running"}
  CanCrash = FALSE
  MaxGen = 1
SPECIFICATION FairSpec
PROPERTIES  StoppedIsDeleted
CHECK_DEADLOCK FALSE
