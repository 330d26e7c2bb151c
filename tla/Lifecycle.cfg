SPECIFICATION Spec
CONSTANTS
  MaxProcs = 3
  MaxThreads = 3
  Statuses = {1}
  None = None
INVARIANTS  ChildrenCounted ReapsTheDead ZombiesSignalled
CHECK_DEADLOCK FALSE
PROPERTIES  VanishEnds 
