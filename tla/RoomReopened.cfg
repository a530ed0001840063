SPECIFICATION Spec
CONSTANTS
  r1 = r1  r2 = r2  r3 = r3  u1 = u1  u2 = u2  p1 = p1  p2 = p2  p3 = p3  p4 = p4
  None = None
  Workers = {w1, w2}
  Users = {u1, u2}
  Managers = {u1}
  Rosters = {r1, r2}
  Players = {p1, p2, p3, p4}
  Overall <- Equal
  RosterSize = 1
  OrderType = "SNAKE"
  LiveStart = TRUE

PROPERTY DraftStartsOnce
CHECK_DEADLOCK FALSE
