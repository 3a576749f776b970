SPECIFICATION Spec
CONSTANTS
  Names = {x}
  Values = {v}
  Frames = {f1, f2, f3, f4}
  Closures = {c1, c2}
  MaxDepth = 3
  MaxCapture = 2
  Escaping = FALSE
  Main = main
  Null = null
  Unbound = unbound
  None = none
SYMMETRY Symmetry
INVARIANTS TypeOK EnvRestored ScopeLive ArgsSeeCaller NullOnlyUnderLetStar
PROPERTIES ScopeSpec SetqReadBack
