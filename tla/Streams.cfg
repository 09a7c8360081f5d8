SPECIFICATION FairSpec

CONSTANTS
  Iterations = 5
  MaxKills = 1

INVARIANT MessagesStayWhole
PROPERTY ImplementsRequestReply
PROPERTY NoneLeftWaiting

\* A process whose partner is killed too early waits in open() or accept().
CHECK_DEADLOCK FALSE
