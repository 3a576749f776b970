SPECIFICATION Spec
CONSTANTS
  Names = {x}
  Values = {v}
  Frames = {f1, f2}
  Closures = {c1}
  MaxDepth = 2
  MaxCapture = 3
  Escaping = TRUE
  Main = main
  Null = null
  Unbound = unbound
  None = none
SYMMETRY Symmetry
INVARIANT ScopeLive
