SPECIFICATION KeysSpec
CONSTANTS
  NoPath = NoPath
  Absent = Absent
  Contents = {t0, t1, cut}
  Empty = t0
  Partial = cut
  Paths = {m, c}
  CPaths = {c}
  Makefiles = {m}
  ESC_BUF = 32
  QUERY_BUF = 2
  C_MODE = C_MODE
  MAKEFILE_MODE = MAKEFILE_MODE
PROPERTY ArrowsNavigateFinder
