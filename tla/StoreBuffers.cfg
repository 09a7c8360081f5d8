SPECIFICATION FairSpec

CONSTANTS
  Iterations = 5
  Rounds = 3
  LockIterations = 4
  Depth = 3

INVARIANT ReportIsGenuine
INVARIANT MutualExclusion
PROPERTY ImplementsRequestReply
PROPERTY HandshakeEnds
PROPERTY ImplementsScPeterson
PROPERTY TurnKept
PROPERTY NoStarvation
