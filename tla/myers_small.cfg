CONSTANTS
  a = a
  b = b
  Vals <- TwoVals
  MaxLen = 5
  Width = 5
SYMMETRY ValSymmetry
SPECIFICATION Spec
INVARIANT DiffIsShortest
CHECK_DEADLOCK FALSE
