--------------------------------- MODULE MCCup ---------------------------------
(* A double elimination of five teams: three of them have no opponent in the     *)
(* first round of the winners, and none falls from there to the losers.           *)
EXTENDS Tournament

MCSetups == {[format |-> "DOUBLE_ELIMINATION", teamCount |-> 5, groupCount |-> 0,
              advancePerGroup |-> 0, legs |-> 1, thirdPlace |-> FALSE, bestOf |-> 1,
              allowDraws |-> FALSE, labMode |-> FALSE, stale |-> {}]}
MCScores == {<<1, 0>>}
=============================================================================
