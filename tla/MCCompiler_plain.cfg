SPECIFICATION Spec
CONSTANTS
  Functions = {f, g, h}
  Bodies <- BodiesUpTo2
  Undefined = Undefined
  Jit = Jit
  None = None
  MaxDepth = 3
  Sharing = FALSE
  Redefines = FALSE
  Forms = FALSE
SYMMETRY Symmetry
PROPERTIES CallsSpec
