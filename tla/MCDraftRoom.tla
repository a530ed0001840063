------------------------------- MODULE MCDraftRoom ------------------------------
(* DraftRoom on two or three rosters and a pool of four players.                 *)
EXTENDS DraftRoom, TLC

CONSTANTS r1, r2, r3, u1, u2, p1, p2, p3, p4

MCOverall == [p \in Players |-> IF p = p1 THEN 90 ELSE 70]
Equal     == [p \in Players |-> 70]

\* Rows, players and workers are interchangeable; safety runs only.
Symmetry == Permutations(Rosters) \cup Permutations(Players) \cup Permutations(Workers)
=============================================================================
