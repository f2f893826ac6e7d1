CONSTANTS
  Servers = {s1,s2}
  None = None
  MaySkip = FALSE
  Ops = {"start"}
  Faults = {}
SPECIFICATION Spec
PROPERTY MountsContent
CHECK_DEADLOCK FALSE
