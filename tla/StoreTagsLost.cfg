CONSTANTS
  k1 = k1
  k2 = k2
  small = small
  large = large
  x = x
  y = y
  Nil = Nil
  Tasks = {t1, t2}
  Keys = {k1}
  Data = {small, large}
  LargeData = {large}
  Labels = {x, y}
  Reqs <- TagAndGet
  Found = 1
  Faults = {}
  MaxCrashes = 0
SYMMETRY Symmetry
SPECIFICATION Spec
PROPERTY ETagStoredWhenEmpty
