------------------------------ MODULE MCDraftSeason -----------------------------
(* A season of three rosters and two rounds, and one of four rosters whose     *)
(* first round has two matches with no roster in common.                        *)
EXTENDS DraftSeason, TLC

CONSTANTS r1, r2, r3, r4, m1, m2

TwoRounds   == (m1 :> [round |-> 1, home |-> r1, away |-> r2])
               @@ (m2 :> [round |-> 2, home |-> r2, away |-> r3])
MCScores    == {<<1, 0>>, <<1, 1>>}
MCWages     == [r \in Rosters |-> 3]
=============================================================================
