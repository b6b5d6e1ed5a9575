\* The graphs and the exports of MCWalker, walked for types and for JSON
CONSTANTS
  Graphs <- MCGraphs
  Exports <- MCExports
  Root = 1
  MaxDepth = 5
SPECIFICATION Spec
INVARIANTS ReferencesResolve NamesDistinct HoistedOnCycle GuardEndsWalk
