CONSTANTS
  a = a
  b = b
  Vals <- TwoVals
  MaxLen = 3
  Width = 4
SYMMETRY ValSymmetry
SPECIFICATION Spec
INVARIANT EmptyDiffMeansSame
CHECK_DEADLOCK FALSE
