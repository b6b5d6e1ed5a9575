\* Two environments, two edits, four passes, three configurations or servers.
CONSTANTS
  client = client
  ssr = ssr
  Environments <- MCEnvironments
  MaxEdits = 2
  MaxPasses = 4
  MaxConfigs = 3
  MaxServers = 3
SYMMETRY Symmetry
SPECIFICATION ViteSpec
INVARIANTS OneGeneratePerWave NewConfigNewPass RebuildSeesEdits
  WatchedWhileUp NoOrphanWatcher
PROPERTIES NeverSamePass SharedPassSpec
CHECK_DEADLOCK FALSE
