CONSTANTS
  a = a
  Empty = Empty
  Texts <- OneText
  MaxLen = 3
  Limits = {1, 2}
  LinesBefore = 1
  LinesAfter = 1
SPECIFICATION FairSpec
PROPERTY Terminates
CHECK_DEADLOCK FALSE
