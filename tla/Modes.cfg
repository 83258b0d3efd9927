SPECIFICATION Spec
CONSTANTS
  NoPath = NoPath
  Absent = Absent
  Contents = {t0, t1, cut}
  Empty = t0
  Partial = cut
  Paths = {m, c}
  CPaths = {c}
  Makefiles = {m}
  ESC_BUF = 2
  QUERY_BUF = 2
  C_MODE = C_MODE
  MAKEFILE_MODE = MAKEFILE_MODE
INVARIANTS TypeOK ModesExclusive
PROPERTIES OnlyFailuresHide ModesShieldText ExitHonoured
