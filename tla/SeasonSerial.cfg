SPECIFICATION FairSpec
CONSTANTS
  r1 = r1  r2 = r2  r3 = r3  r4 = r4  m1 = m1  m2 = m2
  None = None
  Workers = {w1}
  Rosters = {r1, r2, r3}
  VacantRosters = {r3}
  Matches = {m1, m2}
  Fixture <- TwoRounds
  Scores <- MCScores
  Proofs = {pr1}
  PointsWin = 3
  PointsDraw = 1
  CoinsWin = 5
  CoinsDraw = 2
  CoinsLoss = 1
  Wages <- MCWages
  LastRound = 2
  MaxPlayed = 2
INVARIANTS TypeOK StatementFollowsTable
PROPERTY SeasonEnds
CHECK_DEADLOCK FALSE
