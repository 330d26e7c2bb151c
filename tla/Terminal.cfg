SPECIFICATION Spec
CONSTANTS
  Length = 3
  Word = 9
  CONSOLE_WIDTH = 2
  CONSOLE_HEIGHT = 2
  C_BYTE = 3
  Color <- MCColor
  Char <- MCChar
  Reader = {r1}
  Printer = printer
  None = None
  MaxLen = 2
  MaxEvents = 5
INVARIANT BufferIsQueue
PROPERTIES ConsoleIsSheet 
CHECK_DEADLOCK FALSE
