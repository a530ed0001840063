SPECIFICATION FairSpec
CONSTANTS
  r1 = r1  r2 = r2  r3 = r3  u1 = u1  u2 = u2  p1 = p1  p2 = p2  p3 = p3  p4 = p4
  None = None
  Workers = {w1}
  Users = {u1, u2}
  Managers = {u1}
  Rosters = {r1, r2, r3}
  Players = {p1, p2, p3, p4}
  Overall <- MCOverall
  RosterSize = 2
  OrderType = "SNAKE"
  LiveStart = TRUE
INVARIANT PicksFollowTheOrder
PROPERTY DraftEnds
CHECK_DEADLOCK FALSE
