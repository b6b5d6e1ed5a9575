\* A second pass over a file may skip an alias that the first one emitted.
CONSTANTS
  x = x
  y = y
  z = z
  A = A
  B = B
  C = C
  Exports <- MCExports
  Aliases <- MCAliases
  Files <- MCPair
  NameShared = TRUE
  MaxRuns = 2
SPECIFICATION Spec
PROPERTY UntouchedSurvives
CHECK_DEADLOCK FALSE
