SPECIFICATION Spec
CONSTANTS
  Functions = {"f", "g"}
  Params = {"x", "y"}
  Code <- SomeCode
  Definitions <- Some
  None = None
INVARIANTS TypeOK ArgumentsArrive
PROPERTY ValueTypeRight
