CONSTANTS
  x = x
  y = y
  top = top
  sub = sub
  Nil = Nil
  Tasks = {t1, t2, t3}
  Keys = {x, y}
  Dirs = {top, sub}
  Top = top
  Home <- Homes
  Specials = {sub}
  Reqs <- Traffic
SYMMETRY Symmetry
SPECIFICATION Spec
INVARIANT TypeOK
PROPERTY ObjectsKept
