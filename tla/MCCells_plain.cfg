SPECIFICATION Spec
CONSTANTS
  Names <- MCNames
  Program <- PlainProgram
  Lines <- PlainLines
  MaxLines = 12
INVARIANTS ResultsAgree VariablesAgree NoneExpired
CHECK_DEADLOCK FALSE
