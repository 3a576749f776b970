SPECIFICATION Spec
CONSTANTS
  Names <- MCNames
  Program <- CapturedProgram
  Lines <- CapturedLines
  MaxLines = 4
INVARIANTS ResultsAgree
CHECK_DEADLOCK FALSE
