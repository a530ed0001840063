SPECIFICATION Spec
CONSTANTS
  Setups <- MCSetups
  Scores <- MCScores
  MaxChanges = 0
INVARIANT TournamentGoesOn
CHECK_DEADLOCK FALSE
