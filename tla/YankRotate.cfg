\* M-y right after C-y.
CONSTANTS
  a = a
  b = b
  sp = sp
  tab = tab
  pt = pt
  ld = ld
  ct = ct
  NUL = NUL
  Byte = {a, b, sp, tab, pt}
  WordByte = {a, b}
  SpaceByte = {sp, tab}
  Cont = {}
  Space = sp
  Tab = tab
  C_MODE = C_MODE
  MAKEFILE_MODE = MAKEFILE_MODE
  Mode = C_MODE
  KILL_RING_MAX = 2
  KeyBytes = {a}
  Keys = {"C-k", "C-a", "C-n", "C-y", "ESC", "y"}
  InitTexts <- Texts
  StartTexts = "place"
  MaxLines = 2
  MaxLen = 2
  MaxCol = 2
SPECIFICATION RotateSpec
PROPERTIES
  RotatesAfterYank
