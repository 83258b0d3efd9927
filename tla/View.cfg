\* Scrolling, the mouse and opening files, over tabs and two-byte characters.
CONSTANTS
  a = a
  b = b
  sp = sp
  tab = tab
  pt = pt
  ld = ld
  ct = ct
  NUL = NUL
  Byte = {a, sp, tab, ld, ct}
  WordByte = {a, ld, ct}
  SpaceByte = {sp, tab}
  Cont = {ct}
  Space = sp
  Tab = tab
  C_MODE = C_MODE
  MAKEFILE_MODE = MAKEFILE_MODE
  Mode = C_MODE
  KILL_RING_MAX = 1
  KeyBytes = {a}
  Keys = {"C-e", "C-f", "C-d"}
  InitTexts <- ViewTexts
  StartTexts = "utf8"
  MaxLines = 3
  MaxLen = 4
  MaxCol = 4
  TABSTOP = 3
  ScreenSizes <- Screens
SPECIFICATION MCViewSpec
INVARIANTS
  ViewTypeOK
  CursorOnScreen
  TreeIsOfText
  SelectionIsRegion
PROPERTIES
  WheelScrolls
