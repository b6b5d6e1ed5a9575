\* Two aliases over two schemas, no edit while a pass is under way.
CONSTANTS
  Types = {A, B}
  Schemas = {a, b}
  Values = {u, v}
  Texts = {"x"}
  MaxLines = 8
  MaxEdits = 3
  EditWhilePassing = FALSE
SPECIFICATION Spec
SYMMETRY MCSymmetry
PROPERTIES TextKept PassConverges
CHECK_DEADLOCK FALSE
