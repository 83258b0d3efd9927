\* The region between a mark, which edits may leave behind, and the cursor, and
\* runs of kills of lines, words and regions, which share one entry of the ring.
CONSTANTS
  a = a
  b = b
  sp = sp
  tab = tab
  pt = pt
  ld = ld
  ct = ct
  NUL = NUL
  Byte = {a, b, sp, tab, pt}
  WordByte = {a, b}
  SpaceByte = {sp, tab}
  Cont = {}
  Space = sp
  Tab = tab
  C_MODE = C_MODE
  MAKEFILE_MODE = MAKEFILE_MODE
  Mode = C_MODE
  KILL_RING_MAX = 1
  KeyBytes = {a}
  Keys = {"C-@", "C-w", "C-k", "C-g", "C-n", "C-p", "C-f", "ESC", "d", "w", "Backspace"}
  InitTexts <- Texts
  StartTexts = "runs"
  MaxLines = 4
  MaxLen = 4
  MaxCol = 3
SPECIFICATION MCRunSpec
INVARIANTS
  TypeOK
  RunUndone
PROPERTIES
  RegionKillUndone
  EditMarksDirty
