-------------------------------- MODULE DraftOrder ------------------------------
(* The pure rules of draft-order.ts: whose pick it is and who plays whom.        *)
(* Rosters are numbered from 0 in draft order, picks from 0, rounds from 1.      *)
EXTENDS Integers, FiniteSets

pickCoordinate(pickNumber, rosterCount, orderType) ==
  LET round == pickNumber \div rosterCount + 1
      index == pickNumber % rosterCount
  IN [round |-> round, indexInRound |-> index,
      rosterIndex |-> IF orderType = "SNAKE" /\ round % 2 = 0
                      THEN rosterCount - 1 - index ELSE index]

\* The circle method.  With an odd number of teams index -1 is the bye; after every
\* round the last of the rotation moves to its front.
Bye == -1
Places(teamCount) == IF teamCount % 2 = 1 THEN teamCount + 1 ELSE teamCount
IndexAt(teamCount, place) == IF place < teamCount THEN place ELSE Bye

\* Mutant: the rotation also turns the fixed team.
lineupTurningAll(teamCount, round, place) ==
  IndexAt(teamCount, (place - round) % Places(teamCount))

lineup(teamCount, round, place) ==
  IF place = 0 THEN IndexAt(teamCount, 0)
  ELSE IndexAt(teamCount, 1 + ((place - 1 - round) % (Places(teamCount) - 1)))

roundRobinPairs(teamCount) ==
  LET m == Places(teamCount)
      Fixture(round, pair) ==
        LET first  == lineup(teamCount, round, pair)
            second == lineup(teamCount, round, m - 1 - pair)
        IN [round |-> round + 1,
            home  |-> IF round % 2 = 1 THEN second ELSE first,
            away  |-> IF round % 2 = 1 THEN first ELSE second]
  IN {f \in {Fixture(round, pair) : round \in 0 .. m - 2, pair \in 0 .. m \div 2 - 1} :
        f.home # Bye /\ f.away # Bye}
=============================================================================
