SPECIFICATION Spec

CONSTANTS
  Pids = {2, 4}
  Field = 3
  Second = 1
  MaxLate = 1
  MaxSeq = 3
  MaxForeign = 1
  MaxSock = 2

INVARIANT TimedOutIsFinal
