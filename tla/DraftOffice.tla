---------------------------- MODULE DraftOffice -----------------------------
(***************************************************************************)
(* The office of a draft league: its settings, its staff, its list of      *)
(* players, and the line-ups of its rosters (draft/draft.service.ts),      *)
(* beside the steps of the draft and the market that move players.         *)
(* A request is atomic, but for the line-up: it is checked against what is *)
(* read first and written in a transaction of its own.  A formation is the *)
(* number of starters it asks for.                                         *)
(***************************************************************************)
EXTENDS Integers, FiniteSets, FiniteSetsExt

CONSTANTS Users,
          Rosters,
          Manager,       \* roster -> the user who has it
          Players,
          Formations,    \* those that are asked for
          Sizes,         \* rosterSize of the leagues that are asked for
          FIELD          \* 11: no formation has more starters

VARIABLES league,        \* status, formation and rosterSize
          staff,         \* user -> its role, or None
          formation,     \* roster -> its own
          rosterOf,      \* player -> roster, Free, or Absent from the list
          starter,       \* the players in a line-up
          asked,         \* roster -> the line-up being set, or NoLineup
          chosen,        \* history: roster -> the starters of its last line-up
          overtaken      \* history: players a line-up was written for after they had left it

vars == <<league, staff, formation, rosterOf, starter, asked, chosen, overtaken>>

None == "none"
Free == "free"
Absent == "absent"
NoLineup == [on |-> FALSE]

Squad(r) == {p \in Players : rosterOf[p] = r}

Init == /\ league = [status |-> None, formation |-> 1, rosterSize |-> 1]
        /\ staff = [u \in Users |-> None]
        /\ formation = [r \in Rosters |-> 1]
        /\ rosterOf = [p \in Players |-> Absent] /\ starter = {}
        /\ asked = [r \in Rosters |-> NoLineup]
        /\ chosen = [r \in Rosters |-> {}] /\ overtaken = {}

League == <<league, staff, formation>>
Lineups == <<rosterOf, starter, asked, chosen, overtaken>>
Exists == league.status # None
canManage(u) == Exists /\ staff[u] = "OWNER"
canModerate(u) == Exists /\ staff[u] # None
-----------------------------------------------------------------------------
(* The league.                                                             *)

isValidFormation(f) == f \in 1 .. FIELD

startersFor(f) == f

assertLeaguePlan(plan) == isValidFormation(plan.formation) /\ startersFor(plan.formation) <= plan.rosterSize

create(u, plan) ==
  /\ ~Exists /\ assertLeaguePlan(plan)
  /\ league' = [status |-> "SETUP", formation |-> plan.formation, rosterSize |-> plan.rosterSize]
  /\ staff' = [staff EXCEPT ![u] = "OWNER"]
  /\ formation' = [r \in Rosters |-> plan.formation]
  /\ UNCHANGED Lineups

\* Out of SETUP the size of the rosters stays; the status may become any.
update(u, plan, status) ==
  LET new == IF league.status = "SETUP" THEN plan ELSE [plan EXCEPT !.rosterSize = league.rosterSize] IN
  /\ canManage(u) /\ assertLeaguePlan(new)
  /\ league' = [status |-> status, formation |-> new.formation, rosterSize |-> new.rosterSize]
  /\ UNCHANGED <<staff, formation, Lineups>>

\* With the league go its staff, its rosters and its players, and line-ups being set
\* fail.
remove(u) ==
  /\ canManage(u)
  /\ league' = [league EXCEPT !.status = None]
  /\ staff' = [v \in Users |-> None]
  /\ rosterOf' = [p \in Players |-> Absent] /\ starter' = {} /\ overtaken' = {}
  /\ asked' = [r \in Rosters |-> NoLineup] /\ chosen' = [r \in Rosters |-> {}]
  /\ UNCHANGED formation
-----------------------------------------------------------------------------
(* The staff.                                                              *)

setStaff(u, v, role) ==
  /\ canManage(u) /\ role # "OWNER"
  /\ staff' = [staff EXCEPT ![v] = role]
  /\ UNCHANGED <<league, formation, Lineups>>

removeStaff(u, v) ==
  /\ canManage(u) /\ staff[v] \notin {None, "OWNER"}
  /\ staff' = [staff EXCEPT ![v] = None]
  /\ UNCHANGED <<league, formation, Lineups>>

transferOwnership(u, v) ==
  /\ canManage(u) /\ u # v
  /\ staff' = [x \in Users |-> IF x = v THEN "OWNER"
                               ELSE IF staff[x] = "OWNER" THEN "MODERATOR" ELSE staff[x]]
  /\ UNCHANGED <<league, formation, Lineups>>
-----------------------------------------------------------------------------
(* The list of players.                                                    *)

\* Who is on the list already stays as he is; replacing it empties it first, of
\* players that belong to a roster too.
importPlayers(u, players, replace) ==
  /\ canModerate(u) /\ league.status = "SETUP"
  /\ rosterOf' = [p \in Players |-> IF p \in players /\ (replace \/ rosterOf[p] = Absent) THEN Free
                                    ELSE IF replace THEN Absent ELSE rosterOf[p]]
  /\ starter' = IF replace THEN {} ELSE starter
  /\ overtaken' = IF replace THEN {} ELSE overtaken
  /\ UNCHANGED <<League, asked, chosen>>

\* Mutant: a player who is moved goes on starting.
StartsOn(p) == UNCHANGED <<League, starter, asked, chosen, overtaken>>

StartsNowhere(p) == /\ starter' = starter \ {p} /\ overtaken' = overtaken \ {p}
                    /\ UNCHANGED <<League, asked, chosen>>

removePlayer(u, p) ==
  /\ canModerate(u) /\ rosterOf[p] = Free
  /\ rosterOf' = [rosterOf EXCEPT ![p] = Absent] /\ StartsNowhere(p)

\* commitPick, and signings of the market: whether he starts is left as it was.
Signed(r, p) ==
  /\ Exists /\ rosterOf[p] = Free /\ Cardinality(Squad(r)) < league.rosterSize
  /\ rosterOf' = [rosterOf EXCEPT ![p] = r]
  /\ UNCHANGED <<League, starter, asked, chosen, overtaken>>

\* Offers accepted, auctions won and players released: he starts nowhere.
Traded(r, p) ==
  /\ rosterOf[p] \in Rosters \ {r}
  /\ r = Free \/ Cardinality(Squad(r)) < league.rosterSize
  /\ rosterOf' = [rosterOf EXCEPT ![p] = r] /\ StartsNowhere(p)
-----------------------------------------------------------------------------
(* The line-up.                                                            *)

\* The formation that comes with the tactics is not looked at.
setTactics(u, r, f) ==
  /\ Exists /\ (Manager[r] = u \/ canModerate(u))
  /\ formation' = [formation EXCEPT ![r] = f]
  /\ UNCHANGED <<league, staff, Lineups>>

\* What the request is checked against is read here.
setLineup(r, f, starters) ==
  /\ Exists /\ ~asked[r].on
  /\ isValidFormation(f) /\ starters \subseteq Squad(r)
  /\ Cardinality(starters) <= Min({startersFor(f), league.rosterSize})
  /\ asked' = [asked EXCEPT ![r] = [on |-> TRUE, formation |-> f, starters |-> starters]]
  /\ UNCHANGED <<League, rosterOf, starter, chosen, overtaken>>

\* A player who is no longer on the list makes the transaction fail; one who is in
\* another roster by now starts there.
setLineupCommit(r) ==
  LET new == asked[r].starters IN
  /\ asked[r].on /\ asked' = [asked EXCEPT ![r] = NoLineup]
  /\ IF \E p \in new : rosterOf[p] = Absent
     THEN UNCHANGED <<starter, formation, chosen, overtaken>>
     ELSE /\ starter' = (starter \ Squad(r)) \cup new
          /\ formation' = [formation EXCEPT ![r] = asked[r].formation]
          /\ chosen' = [chosen EXCEPT ![r] = new]
          /\ overtaken' = (overtaken \ Squad(r)) \cup (new \ Squad(r))
  /\ UNCHANGED <<league, staff, rosterOf>>

Plans == [formation : Formations, rosterSize : Sizes]
Statuses == {"SETUP", "ACTIVE"}

Next ==
  \/ \E u \in Users, plan \in Plans : create(u, plan)
  \/ \E u \in Users, plan \in Plans, status \in Statuses : update(u, plan, status)
  \/ \E u \in Users : remove(u)
  \/ \E u, v \in Users : setStaff(u, v, "MODERATOR") \/ removeStaff(u, v) \/ transferOwnership(u, v)
  \/ \E u \in Users, players \in SUBSET Players, replace \in BOOLEAN :
       importPlayers(u, players, replace)
  \/ \E u \in Users, p \in Players : removePlayer(u, p)
  \/ \E r \in Rosters, p \in Players : Signed(r, p)
  \/ \E r \in Rosters \cup {Free}, p \in Players : Traded(r, p)
  \/ \E u \in Users, r \in Rosters, f \in Formations : setTactics(u, r, f)
  \/ \E r \in Rosters, f \in Formations, starters \in SUBSET Players : setLineup(r, f, starters)
  \/ \E r \in Rosters : setLineupCommit(r)
-----------------------------------------------------------------------------
(* Properties.                                                             *)

\* Who starts for a roster was put there by its last line-up, however draft, market, list
\* and line-ups follow upon each other.  The exception is the race the code leaves open: a
\* line-up written for a player sold or released since it was checked, who then starts
\* for whoever has him, unchosen, until he moves again or that roster sets a line-up.
StartersWereChosen ==
  \A r \in Rosters, p \in Players :
    p \in starter /\ rosterOf[p] = r => p \in chosen[r] \/ p \in overtaken
=============================================================================
