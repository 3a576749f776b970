SPECIFICATION NotationSpec
CONSTANTS
  Words <- MCWords
  Phrases <- MCPhrases
  Levels = 4
  MaxDepth = 2
  MaxCells = 2
  MaxLength = 6
INVARIANTS ReadsBack PrintsBack
CHECK_DEADLOCK FALSE
