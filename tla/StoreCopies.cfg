CONSTANTS
  k1 = k1
  k2 = k2
  small = small
  large = large
  x = x
  y = y
  Nil = Nil
  Tasks = {t1, t2, t3}
  Keys = {k1, k2}
  Data = {small, large}
  LargeData = {large}
  Labels = {x, y}
  Reqs <- Copies
  Found = 1
  Faults = {"link"}
  MaxCrashes = 0
SYMMETRY Symmetry
SPECIFICATION Spec
INVARIANT ETagSound
