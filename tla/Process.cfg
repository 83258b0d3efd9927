\* Starting, saving, failing, being interrupted or killed, and starting again.
CONSTANTS
  a = a
  cr = cr
  lf = lf
  CR = cr
  LF = lf
  NUL = NUL
  Absent = Absent
  Byte = {a, cr}
  WordByte = {a}
  SpaceByte = {cr}
  Cont = {}
  InitFiles <- MCFiles
  EditTexts <- MCTexts
  BATCH = 2
SPECIFICATION FairSpec
INVARIANTS
  TerminalRestored
  ReadsBack
PROPERTIES
  SavesKept
  Answers
