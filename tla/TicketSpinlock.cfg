SPECIFICATION FairSpec

CONSTANTS
  NumThreads = 4
  Iterations = 2
  TicketMod = 5

PROPERTY ImplementsAtomicCounter
PROPERTY ImplementsFifoLock
PROPERTY Terminates
