CONSTANTS
  g1 = g1
  g2 = g2
  g3 = g3
  o1 = o1
  o2 = o2
  o3 = o3
  h1 = h1
  h2 = h2
  a = a
  b = b
  m1 = m1
  m2 = m2
  k1 = k1
  k2 = k2
  e1 = e1
  e2 = e2
  blank = blank
  slash = slash
  colon = colon
  s1 = s1
  s2 = s2
  v1 = v1
  v2 = v2
  t1 = t1
  None = None
  Guards <- ThreeGuards
  Ops <- ThreeOps
  Lists <- TwoLists
  Values <- TwoValues
  Nodes <- FourNodes
  Maps <- TwoMaps
  Keys <- TwoKeys
  Objs <- ThreeOps
  Loose <- TwoLoose
  MaxDepth = 2
  Chars <- ThreeChars
  Marks <- TwoMarks
  arr_delim = slash
  MaxLen = 4
  MaxArg = 2
  MaxPieces = 5
  Sets <- TwoSets
  Vars <- TwoVars
  MaxParses = 2
  Texts <- OneText
  Empty = Empty
  MaxLines = 3
  Limits = {1, 2}
  LinesBefore = 1
  LinesAfter = 1
SYMMETRY Symmetry
SPECIFICATION LibrarySpec
INVARIANT UncalledIsHeld
INVARIANT CalledOnce
INVARIANT InStep
INVARIANT ObjectsFollowEntries
INVARIANT ResultsAreExact
INVARIANT FatalStops
INVARIANT BatchesAddUp
INVARIANT MessageIsTrue
 
PROPERTY ImplementsOrderedSets
PROPERTY ParseTellsWhy
CHECK_DEADLOCK FALSE
