CONSTANTS
  Procs = {p1,p2}
  Slots = {h1}
  Ops = {"start","restart","stop","kill","reset","limit","command","pause","unpause","delete"}
  StopType = "command"
  Saves = {TRUE}
  Boots = {"offline","running","paused"}
  CanCrash = TRUE
  MaxGen = 1
SPECIFICATION Spec
SYMMETRY Sym
INVARIANTS TypeOK PowerExclusion SavedServerKept NoRunAfterDelete 
CHECK_DEADLOCK FALSE
