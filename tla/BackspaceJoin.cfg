\* Backspace at the beginning of a line.
CONSTANTS
  a = a
  b = b
  sp = sp
  tab = tab
  pt = pt
  ld = ld
  ct = ct
  NUL = NUL
  Byte = {a, b, sp, tab, pt}
  WordByte = {a, b}
  SpaceByte = {sp, tab}
  Cont = {}
  Space = sp
  Tab = tab
  C_MODE = C_MODE
  MAKEFILE_MODE = MAKEFILE_MODE
  Mode = C_MODE
  KILL_RING_MAX = 1
  KeyBytes = {a}
  Keys = {"C-n", "Backspace"}
  InitTexts <- Texts
  StartTexts = "place"
  MaxLines = 2
  MaxLen = 4
  MaxCol = 4
SPECIFICATION MCSpec
PROPERTIES
  BackspaceKeepsTail
