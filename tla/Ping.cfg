SPECIFICATION FairSpec

CONSTANTS
  Pids = {2, 4}
  Field = 3
  Second = 1
  MaxLate = 1
  MaxSeq = 3
  MaxForeign = 1
  MaxSock = 2

INVARIANT LinesAreTrue
INVARIANT DeadlineKept
PROPERTY TimesAreHonest
PROPERTY LoopGoesOn
