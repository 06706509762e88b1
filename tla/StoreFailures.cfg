CONSTANTS
  k1 = k1
  k2 = k2
  small = small
  large = large
  x = x
  y = y
  Nil = Nil
  Tasks = {t1, t2, t3}
  Keys = {k1}
  Data = {small, large}
  LargeData = {large}
  Labels = {x, y}
  Reqs <- Failures
  Found = 1
  Faults = {"upload", "store", "rename", "remove"}
  MaxCrashes = 1
SYMMETRY Symmetry
SPECIFICATION Spec
INVARIANT NothingLeft
INVARIANT ETagSound
INVARIANT GetConsistent
PROPERTY ImplementsLossyObjects
