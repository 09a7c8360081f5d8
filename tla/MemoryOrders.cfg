SPECIFICATION OrdersSpec

CONSTANTS
  NumThreads = 3
  Iterations = 2
  OrdersMod = 7

INVARIANT RaceFree
PROPERTY ImplementsScSpinlock
