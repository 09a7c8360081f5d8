SPECIFICATION FairSpec

CONSTANTS
  Workers = 4
  Children = 3
  Iterations = 2
  Items = 5
  MaxKills = 2

INVARIANT CountsExactly
INVARIANT NoneTooEarly
INVARIANT DeathIsNoticed
PROPERTY EndsUnlessBlocked

\* The programs end, or their threads wait for each other or for a dead owner.
CHECK_DEADLOCK FALSE
