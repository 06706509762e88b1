CONSTANTS
  u1 = u1
  u2 = u2
  a = a
  b = b
  Nil = Nil
  Tasks = {t1, t2, t3}
  Ids = {u1, u2}
  Numbers = {1, 2}
  Data = {a, b}
  Reqs <- Copying
  Found <- Catalogs
  Faults = {}
  MaxPuts = 2
  MaxCrashes = 0
SYMMETRY Symmetry
SPECIFICATION Spec
PROPERTY ImplementsUploads
