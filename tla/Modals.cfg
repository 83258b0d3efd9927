\* The prompt and the finder over two nested projects.
CONSTANTS
  ld = ld
  ct = ct
  NUL = NUL
  Byte = {"a", "A", "b", "f", "g", "i", "o", "p", "s", ".", "/", "!", "#", "*", " ", "tab", ld, ct}
  WordByte = {"a", "A", "b", "f", "g", "i", "o", "p", "s", ld, ct}
  SpaceByte = {" ", "tab"}
  Cont = {ct}
  Space = " "
  Tab = "tab"
  Slash = "/"
  Bang = "!"
  Hash = "#"
  Star = "*"
  CAP = 4
  Fold <- MCFold
  WordBreaks = {"/", " "}
  MIN_ROWS = 2
  FINDER_MAX_ROWS = 3
  SCREEN_MARGIN = 4
  ScreenRows = {1, 7}
  Dirs <- MCDirs
  GitDirs <- MCGitDirs
  Git <- DotGit
  Gitignore <- DotIgnore
  IgnoreLines <- MCIgnoreLines
  Cwd <- MCCwd
  NoFile = NoFile
  Characters <- MCCharacters
  InitFiles <- MCInitFiles
  MaxBelow = 0
SPECIFICATION MCSpec
INVARIANTS
  TypeOK
  QueryOnBoundary
  MatchesRight
  PrefixFirst
PROPERTIES
  ListingRight
  SelectionShown
  EditIsLocal
