SPECIFICATION Spec
CONSTANTS
  r1 = r1
  r2 = r2
  r3 = r3
  visitor = visitor
  staff = staff
  p1 = p1
  p2 = p2
  p3 = p3
  None = None
  Outside = Outside
  w1 = w1
  w2 = w2
  a1 = a1
  Workers = {w1, w2}
  Rosters = {r1, r2}
  Owners = {r1, r2}
  Guests = {visitor, staff}
  Moderators = {staff}
  Players = {p1, p2, p3}
  BasePlayers = {}
  Auctions = {a1}
  Offers = {}
  RosterSize = 1
  StartingBudget = 3
  Salary = 0
  StartingBids = {1}
  MaxBid = 3
  OfferPrices = {1}
  IncrementPercent = 5
  AuctionHours = 1
  AntiSnipe = 1
  MaxTime = 2
  MaxMatches = 0
  MaxTurnover = 4
  Price <- MCPrice
  RoundRewards <- NoRewards
SYMMETRY Symmetry
INVARIANTS
  PaidInIsTheLeadingBid
CHECK_DEADLOCK FALSE
