SPECIFICATION Spec
CONSTANTS
  Names = {a, b}
  Values = {x, y}
  Raw = Raw
  Freed = Freed
  Fit = 2
  MaxSize = 4
  Aliasing = TRUE
CHECK_DEADLOCK FALSE
PROPERTIES
  VectorsAreSequences
