\* Kills, appended kills, a ring of two entries that wraps around, yanks, and
\* where inserting and deleting leave the cursor.
CONSTANTS
  a = a
  b = b
  sp = sp
  tab = tab
  pt = pt
  ld = ld
  ct = ct
  NUL = NUL
  Byte = {a, b, sp, tab, pt}
  WordByte = {a, b}
  SpaceByte = {sp, tab}
  Cont = {}
  Space = sp
  Tab = tab
  C_MODE = C_MODE
  MAKEFILE_MODE = MAKEFILE_MODE
  Mode = C_MODE
  KILL_RING_MAX = 2
  KeyBytes = {a}
  Keys = {"char", "Enter", "C-o", "C-d", "C-f", "C-k", "C-y", "ESC", "d", "Backspace"}
  InitTexts <- Texts
  StartTexts = "kill"
  MaxLines = 2
  MaxLen = 2
  MaxCol = 2
SPECIFICATION MCSpec
INVARIANTS
  YankSpansPaste
PROPERTIES
  KillsKept
  LineKillUndone
  InsertKeepsTail
  DeleteKeepsHead
  KillBackKeepsTail
