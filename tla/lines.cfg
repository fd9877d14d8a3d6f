SPECIFICATION Spec
CONSTANTS
  Working = {"history", "lex", "parse", "dol", "glob"}
  MaxSteps = 2
INVARIANTS
  RefersAsManual
  ExpandsAsManual
PROPERTIES
  ReadsBack
  ParsesGrammar
  FilesFound
CHECK_DEADLOCK FALSE
