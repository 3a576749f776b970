SPECIFICATION Spec
CONSTANTS
  Functions = {f, g, h}
  Bodies <- BodiesUpTo1
  Undefined = Undefined
  Jit = Jit
  None = None
  MaxDepth = 2
  Sharing = TRUE
  Redefines = TRUE
  Forms = TRUE
SYMMETRY Symmetry
INVARIANTS TypeOK RecursesDirectly Linked InterpreterExact
