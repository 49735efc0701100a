CONSTANTS
  src = src
  readme = readme
  DevNull = DevNull
  NoPath = NoPath
  None = None
  Paths = {src, readme, DevNull, NoPath}
  LineNumbers = {1, 3}
  MaxLines = 9
  MaxBody = 3
SPECIFICATION Spec
SYMMETRY Symmetry
INVARIANTS
  TypeOK
  LinesAreTrue
  RefusedForCause
CHECK_DEADLOCK FALSE
