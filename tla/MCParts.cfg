SPECIFICATION PartsSpec
CONSTANTS
  Ptr = {p1, p2, p3}
  Node = {n1, n2, n3}
  head_ = head
  Signal = {SIGINT, SIGQUIT}
  MaxSignals = 2
  Byte = {0, 1}
  MaxSize = 3
  spc = spc
  nl = nl
  hash = hash
  minus = minus
  x = x
  y = y
  Blank = spc
  NewLine = nl
  Hash = hash
  Minus = minus
  Letter <- MCLetter
  MAX_LINE_SIZE = 7
  Files <- MCFiles
  Default <- MCDefault
CHECK_DEADLOCK FALSE
INVARIANTS
  PartsTypeOK
  WalkStaysOnList
  SettingsAreRead
PROPERTIES
  ReportIsWhole HandlersEnd KeepsLog
  KeepsQueue
