SPECIFICATION Spec
CONSTANTS
  SeedSpaces = 1
  MaxPane = 3
  MaxSpaces = 2
  Runs = 2
VIEW View
CONSTRAINT Bound
INVARIANTS TypeOK PlacedOnce ShellsHavePanes PanesHaveTerminals
PROPERTIES PanesStayPut
CHECK_DEADLOCK FALSE
