CONSTANTS
  Requests = {r1, r2, r3}
  Objects = {o1, o2}
  ExclusionWait = 2
  IdleWait = 4
  SmallWait = 1
SPECIFICATION FairSpec
INVARIANT TypeOK
INVARIANT MutualExclusion
INVARIANT QueueStateGood
PROPERTY WakeupKept
PROPERTY ImplementsExclusion
PROPERTY EnterReturns
