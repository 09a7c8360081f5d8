SPECIFICATION FairSpec

CONSTANTS
  Total = 8
  Window = 7
  MaxSock = 3
  MaxHeaders = 2
  MaxBody = 2

INVARIANT ToldTheTruth
PROPERTY ImplementsPromise
PROPERTY AllArrive
