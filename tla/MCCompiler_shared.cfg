SPECIFICATION Spec
CONSTANTS
  Functions = {f, g, h}
  Bodies <- BodiesUpTo2
  Undefined = Undefined
  Jit = Jit
  None = None
  MaxDepth = 2
  Sharing = TRUE
  Redefines = FALSE
  Forms = FALSE
SYMMETRY Symmetry
INVARIANT RunsNamed
