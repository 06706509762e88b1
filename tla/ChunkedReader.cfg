CONSTANTS
  Uploads <- All
  Nesting = TRUE
  Forbid = FALSE
  MaxRead = 4
  PeekSize = 3
  CopySize = 2
SPECIFICATION Spec
INVARIANT TypeOK
INVARIANT OnlyPayload
INVARIANT WholeWhenOK
INVARIANT ErrorsExplained
PROPERTY ReadEnds
