SPECIFICATION FairSpec

CONSTANTS
  QueueIterations = 3
  MaxMsg = 2
  QueueRuns = 4
  SemIterations = 2
  SemRuns = 3
  PrioIterations = 5
  Nap = 6
  PromptSecond = 7
  PromptLate = 1
  Second = 1
  MaxLate = 3

INVARIANT RightAfterCleanEnd
INVARIANT OneLeftPerRun
INVARIANT HighestFirst
PROPERTY EveryRunEnds

\* A client of queue.c or priority_queue.c that came too early, and its server,
\* wait for ever, and so does nobody start a program that has ended.
CHECK_DEADLOCK FALSE
