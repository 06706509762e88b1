CONSTANTS
  Tasks = {t1, t2, t3}
  Suffixes = {s1, s2}
  MaxTime = 2
SPECIFICATION Spec
INVARIANT TypeOK
INVARIANT SuffixOwned
PROPERTY IdsIncrease
PROPERTY QuitStops
