SPECIFICATION KeysSpec
CONSTANTS
  NoPath = NoPath
  Absent = Absent
  Contents = {t0, cut}
  Empty = t0
  Partial = cut
  Paths = {c}
  CPaths = {c}
  Makefiles = {}
  ESC_BUF = 32
  QUERY_BUF = 2
  C_MODE = C_MODE
  MAKEFILE_MODE = MAKEFILE_MODE
PROPERTY ArrowsTypeNothing
