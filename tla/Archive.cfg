SPECIFICATION Spec
CONSTANTS
  Game = {g1, g2, g3}
  Reviewed = {g1}
  Odd = {g3}
  PageLimit = 1
  MaxTime = 3
  Move = {"a", "b"}
  MaxPly = 2
  Worth <- MCWorth
  None = None
INVARIANTS
  TypeOK
  RecentIsOrdered
  SkipsOnlyNeighbours
  ReviewIsFaithful
