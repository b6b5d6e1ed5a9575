\* Sidecar mode: two edits of any kind, two runs, kill and close anywhere.
CONSTANTS
  a = a
  b = b
  h = h
  tsconfig = tsconfig
  Sources <- MCSources
  Order <- MCOrder
  Helpers <- MCHelpers
  Tsconfig = tsconfig
  Imports <- ImportsHelper
  Mode = "sidecar"
  UserOps = {"edit", "create", "delete"}
  StartupEdits = FALSE
  MaxVersion = 3
  MaxRuns = 2
SPECIFICATION FairSpec
INVARIANTS TypeOK FreshWhenQuiet TimerIffBatched
PROPERTY ComesToRest
CHECK_DEADLOCK FALSE
