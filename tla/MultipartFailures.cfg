CONSTANTS
  u1 = u1
  u2 = u2
  a = a
  b = b
  Nil = Nil
  Tasks = {t1, t2, t3}
  Ids = {u1, u2}
  Numbers = {1, 2}
  Data = {a, b}
  Reqs <- Honest
  Found <- Catalogs
  Faults = {"upload", "store", "rename"}
  MaxPuts = 1
  MaxCrashes = 2
SYMMETRY Symmetry
SPECIFICATION Spec
INVARIANT TypeOK
INVARIANT CatalogBacked
INVARIANT DirectoryGone
INVARIANT CompletedAsListed
PROPERTY PartsOwned
