\* Two sources, three passes, two faults, one kill.
CONSTANTS
  a = a
  b = b
  Sources <- MCSources
  MaxPasses = 3
  MaxFaults = 2
  MaxKills = 1
SYMMETRY Symmetry
SPECIFICATION Spec
INVARIANTS TypeOK NothingLeft AnswersAreCurrent
CHECK_DEADLOCK FALSE
