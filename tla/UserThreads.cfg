SPECIFICATION Spec
CONSTANTS
  MaxThreads = 3
  Creators = {1}
  Joiners = {1}
  NULL = NULL
INVARIANTS LockExcludes  
 
CHECK_DEADLOCK FALSE
