----------------------------- MODULE MCDraftMarket ------------------------------
(* DraftMarket on a league of two or three rosters with squads of one player.    *)
EXTENDS DraftMarket, TLC

CONSTANTS r1, r2, r3, visitor, staff, p1, p2, p3

MCPrice   == [p \in Players |-> 2]
EvenRewards == {<<1, 1>>}
NoRewards == {<<0, 0>>}

\* Rosters, players, rows and workers are interchangeable; safety runs only.
Symmetry == Permutations(Rosters) \cup Permutations(Players \ BasePlayers) \cup Permutations(Auctions)
              \cup Permutations(Offers) \cup Permutations(Workers)
=============================================================================
