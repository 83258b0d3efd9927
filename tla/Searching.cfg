\* Search, edit, move, search again.
CONSTANTS
  a = a
  A = A
  b = b
  sp = sp
  tab = tab
  pt = pt
  ld = ld
  ct = ct
  NUL = NUL
  Byte = {a, A, b, sp, tab, pt}
  WordByte = {a, A, b}
  SpaceByte = {sp, tab}
  Cont = {}
  Space = sp
  Tab = tab
  C_MODE = C_MODE
  MAKEFILE_MODE = MAKEFILE_MODE
  Mode = C_MODE
  KILL_RING_MAX = 1
  KeyBytes = {a}
  Keys = {"C-s", "C-r", "C-g", "Enter", "Backspace", "char", "C-f", "ESC", "C-k"}
  InitTexts <- SearchTexts
  StartTexts = "place"
  MaxLines = 2
  MaxLen = 2
  MaxCol = 2
  Fold <- Lower
  QUERY_MAX = 2
SPECIFICATION MCSearchSpec
INVARIANTS
  SearchTypeOK
  SearchIsolated
  MatchAtCursor
PROPERTIES
  ForwardFindsFirst
  RepeatVisitsAll
