SPECIFICATION MacroSpec
CONSTANTS
  Names = {}
  Values = {v}
  Frames = {f1, f2, f3}
  Closures = {c1, c2, m1}
  MacroNames = {m1}
  MaxDepth = 3
  MaxCapture = 2
  MaxChain = 6
  Plain = TRUE
  Escaping = FALSE
  Main = main
  Null = null
  Unbound = unbound
  None = none
SYMMETRY Symmetry
INVARIANTS OnlyGlobalLeft ScopeLive
