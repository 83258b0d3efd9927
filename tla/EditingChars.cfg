\* Characters of two bytes, words and motion, in a Makefile buffer.
CONSTANTS
  a = a
  b = b
  sp = sp
  tab = tab
  pt = pt
  ld = ld
  ct = ct
  NUL = NUL
  Byte = {a, sp, tab, pt, ld, ct}
  WordByte = {a, ld, ct}
  SpaceByte = {sp, tab}
  Cont = {ct}
  Space = sp
  Tab = tab
  C_MODE = C_MODE
  MAKEFILE_MODE = MAKEFILE_MODE
  Mode = MAKEFILE_MODE
  KILL_RING_MAX = 1
  KeyBytes = {a}
  Keys = {"C-p", "C-n", "C-b", "C-f", "Tab", "C-d", "Backspace", "C-k", "ESC", "[", "d", "f", "b"}
  InitTexts <- Texts
  StartTexts = "utf8"
  MaxLines = 2
  MaxLen = 5
  MaxCol = 5
SPECIFICATION MCSpec
INVARIANTS
  CharsStayWhole
  CursorInLine
  CursorOnBoundary
PROPERTIES
  PrevWordSkipsNone
