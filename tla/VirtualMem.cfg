SPECIFICATION Spec
CONSTANTS
  Proc = {p1, p2}
  Init0 = p1
  Table = {t1, t2, t3, t4, t5}
  Frame = {f1, f2, f3, f4}
  NULL = NULL
  Dangling = Dangling
  Zero = Zero
  Old = Old
  NumPDE = 4
  PTSize = 2
  PAGE_SIZE = 4
  Word = 64
  Sections <- MCSections
  StackLow = 7
  STACK_GROWTH = 3
  MaxNew = 2
  Touchable <- MCTouchable
  Bases <- MCBases
  SwexnCalls <- MCSwexnCalls
INVARIANTS TablesOwned FramesOwned
PROPERTIES  AccessResolved
CHECK_DEADLOCK FALSE
