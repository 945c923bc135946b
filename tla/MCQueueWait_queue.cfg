SPECIFICATION Spec
CONSTANTS
  Items = {i1, i2}
  Callers = {c1, c2}
  Workers = {w1, w2}
  UsePriorityQueue = {TRUE, FALSE}
INVARIANT TypeOK
INVARIANT DepthAccounted
INVARIANT RecordsAreOfItemsThatWait
INVARIANT WorkIsOfThisPass
SYMMETRY Symmetry
