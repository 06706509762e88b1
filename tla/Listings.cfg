CONSTANTS
  top = top
  d = d
  e = e
  N = 5
  Dir <- Dirs
  Top = top
  Requests <- Asked
  MaxChanges = 2
  MaxPages = 6
SPECIFICATION Spec
INVARIANT TypeOK
INVARIANT PagesWhole
INVARIANT NoneTwice
INVARIANT StableListed
PROPERTY PagingEnds
