SPECIFICATION Spec
CONSTANTS
  Files <- Given
  Missing = missing
  Lines <- Typical
  MaxLines = 4
INVARIANTS EachFormOnce NoneLost
PROPERTY ReadAgain
CHECK_DEADLOCK FALSE
