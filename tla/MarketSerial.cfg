SPECIFICATION Spec
CONSTANTS
  r1 = r1
  r2 = r2
  r3 = r3
  visitor = visitor
  staff = staff
  p1 = p1
  p2 = p2
  p3 = p3
  None = None
  Outside = Outside
  w1 = w1
  a1 = a1
  o1 = o1
  o2 = o2
  Workers = {w1}
  Rosters = {r1, r2}
  Owners = {r1, r2}
  Guests = {staff}
  Moderators = {staff}
  Players = {p1, p2, p3}
  BasePlayers = {p3}
  Auctions = {a1}
  Offers = {o1, o2}
  RosterSize = 1
  StartingBudget = 3
  Salary = 0
  StartingBids = {1}
  MaxBid = 2
  OfferPrices = {1}
  IncrementPercent = 5
  AuctionHours = 1
  AntiSnipe = 1
  MaxTime = 1
  MaxMatches = 0
  MaxTurnover = 3
  Price <- MCPrice
  RoundRewards <- NoRewards
SYMMETRY Symmetry
INVARIANTS
  TypeOK
  PaidInIsTheLeadingBid
PROPERTIES
  AuctionsKeepTheirPromise
  AcceptedOfferIsHonoured
  SquadsChangeByRight
CHECK_DEADLOCK FALSE
