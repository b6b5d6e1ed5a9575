\* The synchronous calls of MCCompiled, and the async call on some of them.
CONSTANTS
  Definitions <- MCDefinitions
  Schemas <- MCSchemas
  Inputs <- MCInputs
  Configs <- MCConfigs
  Run <- MCRun
  Calls <- MCCalls
  Rank <- MCRank
  Step <- MCStep
  Cursors <- MCCursors
  AsyncSchemas <- MCAsyncSchemas
  Changes <- MCChanges
  MaxChanges = 1
SPECIFICATION AsyncSpec
INVARIANTS ByteIdentical UntypedFails RejectStopsAtFirst GateAgrees AsyncAgrees SuccessIsWhole
CHECK_DEADLOCK FALSE
