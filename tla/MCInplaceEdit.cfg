\* The same, with an edit at any moment.
CONSTANTS
  Types = {A, B}
  Schemas = {a, b}
  Values = {u, v}
  Texts = {"x"}
  MaxLines = 8
  MaxEdits = 3
  EditWhilePassing = TRUE
SPECIFICATION Spec
SYMMETRY MCSymmetry
PROPERTIES TextKept
CHECK_DEADLOCK FALSE
