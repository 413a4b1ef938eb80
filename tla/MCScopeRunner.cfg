SPECIFICATION FairSpec
CONSTANTS
  Handlers = {h1, h2, h3}
  Stoppers = {s1, s2}
INVARIANTS
  StopExcludes
PROPERTIES
  GateSpec
  CallsReturn
CHECK_DEADLOCK FALSE
