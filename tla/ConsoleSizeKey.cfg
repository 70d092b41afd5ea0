SPECIFICATION Spec
CONSTANTS
  CONSOLE_ROWS = 2
  CONSOLE_COLS = 8
  BufSize = 10
  IntModulus = 32
  ShortModulus = 16
  Corner = 12
  Deaf = Deaf
  Screens <- McScreens
  Keys <- McKeys
  MaxKeys = 1
  Settings = {"raw"}
INVARIANTS
  DefaultWithoutAnswer
CHECK_DEADLOCK FALSE
