\* Inplace mode, where the source is its own output: the watcher comes to rest.
CONSTANTS
  a = a
  b = b
  h = h
  tsconfig = tsconfig
  Sources <- MCSources
  Order <- MCOrder
  Helpers <- MCHelpers
  Tsconfig = tsconfig
  Imports <- ImportsHelper
  Mode = "inplace"
  UserOps = {"edit", "create", "delete"}
  StartupEdits = TRUE
  MaxVersion = 3
  MaxRuns = 1
SPECIFICATION FairSpec
PROPERTY ComesToRest
CHECK_DEADLOCK FALSE
