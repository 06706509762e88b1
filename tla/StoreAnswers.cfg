CONSTANTS
  k1 = k1
  k2 = k2
  small = small
  large = large
  x = x
  y = y
  Nil = Nil
  Tasks = {t1, t2, t3}
  Keys = {k1}
  Data = {small, large}
  LargeData = {large}
  Labels = {x, y}
  Reqs <- Queueing
  Found = 1
  Faults = {}
  MaxCrashes = 0
SPECIFICATION FairSpec
PROPERTY Answered
