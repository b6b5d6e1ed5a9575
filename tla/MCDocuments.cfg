\* Two sources of the same base name, which outDir puts on one path, with up
\* to two exports each; three configurations of the project, with and without
\* --out.
CONSTANTS
  Sources <- MCSources
  Contents <- MCContents
  ConfigFiles <- MCConfigFiles
  OutArguments <- MCOutArguments
  Modules <- MCModules
SPECIFICATION DocumentsSpec
INVARIANTS NoEnvelopeLeft DocumentOfEachSource EverySourceAnswered
PROPERTIES CallSpec CommandEnds
CHECK_DEADLOCK FALSE
