\* One pass over each of the files, nameSharedSchemas on.
CONSTANTS
  x = x
  y = y
  z = z
  A = A
  B = B
  C = C
  Exports <- MCExports
  Aliases <- MCAliases
  Files <- MCFiles
  NameShared = TRUE
  MaxRuns = 1
SPECIFICATION Spec
INVARIANTS TypeOK AliasesResolve PruneExact NoAliasCycle
CHECK_DEADLOCK FALSE
