SPECIFICATION FairSpec

CONSTANTS
  NumThreads = 3
  MaxQueueSize = 2
  NumTasks = 4
  MaxSpurious = 1

INVARIANT TypeOK
INVARIANT WorkConserving
INVARIANT TaskInOnePlace
INVARIANT StopReachesSleepers
INVARIANT DestroyIsSafe
INVARIANT ShutdownDrains
PROPERTY ImplementsTaskPool
PROPERTY Terminates
