------------------------------ MODULE Catalog ------------------------------
(***************************************************************************)
(* The player catalogue: the folders of one competition, the players in    *)
(* them, the syncs that fetch a source and then persist it row by row, the *)
(* estimates a language model makes of the cards, and the hands that edit  *)
(* the same rows meanwhile (player-catalog/catalog-sync.service.ts and     *)
(* player-catalog.service.ts).  Nothing of a sync runs in a transaction:   *)
(* every row is a step, and the process may die between two of them.       *)
(*                                                                         *)
(* Teams are numbered in the order of their names.  A source is the squads *)
(* it answers, a set of names per team; the base starts as a first sync    *)
(* may have left it.  MaxSyncs bounds the persists, each with the next     *)
(* instant as its syncedAt, and MaxEdits what hands and estimates do.  One *)
(* sync runs at a time; two at once are a hazard of the README.            *)
(***************************************************************************)
EXTENDS Naturals, FiniteSets, FiniteSetsExt, Functions

CONSTANTS Teams, Names, MaxSyncs, MaxEdits, Batch

VARIABLES teams,    \* the folders that exist
          players,  \* the row of a name in a team, or NoPlayer
          desk,     \* the sync that is running
          asked,    \* the rows an estimate was asked for and not written yet
          instant,  \* the syncedAt of the last persist
          edits     \* what hands and estimates have done

vars == <<teams, players, desk, asked, instant, edits>>

NoPlayer == [active |-> FALSE, source |-> "none", card |-> "none", syncedAt |-> 0]
Keys == Teams \X Names
Idle == [at |-> "idle", squads |-> <<>>, cards |-> FALSE, team |-> 0, saved |-> {}, moved |-> FALSE]

Exists(k) == players[k].source # "none"
EmptyTeams == {t \in teams : \A n \in Names : ~players[<<t, n>>].active}
FirstByName(T, n) == {t \in T : Cardinality({u \in T : u < t}) < n}

Manual == [active |-> TRUE, source |-> "manual", card |-> "none", syncedAt |-> 0]
First == [active |-> TRUE, source |-> "outside", card |-> "none", syncedAt |-> 1]

Init == /\ teams \in SUBSET Teams
        /\ players \in [Keys -> {NoPlayer, First}]
        /\ \A k \in Keys : Exists(k) => k[1] \in teams
        /\ desk = Idle /\ asked = {} /\ instant = 1 /\ edits = 0

-----------------------------------------------------------------------------
(* The sources.  Asking is slow: what a source answers is held on the desk *)
(* until the persist begins.                                               *)

\* A club whose page cannot be read is a failure and stays out of the answer.
Answer(T, cards) ==
  \E found \in SUBSET T \ {{}} : \E squads \in [found -> SUBSET Names] :
    desk' = [Idle EXCEPT !.at = "answered", !.squads = squads, !.cards = cards]

\* A model's answer: a club it lists nobody of is a failure too, and of a list only
\* the main squad stays, the players it is sure of.
FetchSquads(T) ==
  \E found \in SUBSET T \ {{}} :
    \E listed \in [found -> SUBSET Names \ {{}}], main \in SUBSET (found \X Names) :
      desk' = [Idle EXCEPT !.at = "answered", !.cards = TRUE,
                 !.squads = [t \in found |-> {n \in listed[t] : <<t, n>> \in main}]]

MayAsk == /\ desk.at = "idle" /\ instant < MaxSyncs
          /\ UNCHANGED <<teams, players, asked, instant, edits>>

Ask(T, cards) == MayAsk /\ Answer(T, cards)

FetchFromFootballData == Ask(Teams, FALSE)
FetchFromGeneric == Ask(Teams, FALSE)
SyncWikipedia == Ask(Teams, FALSE)
RefreshFromSofifa == Ask(teams, TRUE)
FillCompetitionFromSofifa == Ask(EmptyTeams, TRUE)
FillCompetition == MayAsk /\ FetchSquads(FirstByName(EmptyTeams, Batch))
FillTeamFromSofifa == \E t \in teams : Ask({t}, TRUE)
SyncAiSquads == \E T \in SUBSET Teams : Cardinality(T) <= Batch /\ MayAsk /\ FetchSquads(T)

Edit == edits < MaxEdits /\ edits' = edits + 1

\* The clubs of the league, as empty folders.
CreateFolders(answers) == \E T \in answers :
  /\ Edit /\ teams' = teams \cup T
  /\ UNCHANGED <<players, desk, asked, instant>>
CreateSofifaCompetition == CreateFolders(SUBSET Teams)

\* A model that names no club is an error.
FetchCompetitionTeams == SUBSET Teams \ {{}}
CreateAiCompetition == CreateFolders(FetchCompetitionTeams)

-----------------------------------------------------------------------------
(* persist: the team, then each of its players, then the ones that left.   *)

Persist == /\ desk.at = "answered"
           /\ instant' = instant + 1 /\ desk' = [desk EXCEPT !.at = "between"]
           /\ UNCHANGED <<teams, players, asked, edits>>

SaveTeam == /\ desk.at = "between" /\ DOMAIN desk.squads # {}
            /\ LET t == Min(DOMAIN desk.squads) IN
               /\ teams' = teams \cup {t}
               /\ desk' = [desk EXCEPT !.at = "players", !.team = t, !.saved = {}]
            /\ UNCHANGED <<players, asked, instant, edits>>

HandEdited(p) == p.card = "hand"
CardData(p) == IF desk.cards /\ ~HandEdited(p) THEN "model" ELSE p.card
\* Mutant: only a new row is stamped
SyncedAtBirth(p) == [active |-> TRUE, source |-> "outside", card |-> CardData(p),
                     syncedAt |-> IF p.source = "none" THEN instant ELSE p.syncedAt]
Synced(p) == [active |-> TRUE, source |-> "outside", card |-> CardData(p), syncedAt |-> instant]

SavePlayer ==
  /\ desk.at = "players" /\ desk.team \in teams
  /\ \E n \in desk.squads[desk.team] \ desk.saved :
       /\ players' = [players EXCEPT ![<<desk.team, n>>] = Synced(@)]
       /\ desk' = [desk EXCEPT !.saved = @ \cup {n}]
  /\ UNCHANGED <<teams, asked, instant, edits>>

\* Of a team with an empty list nobody is retired.
Retired(t) == IF desk.squads[t] = {} THEN {}
              ELSE {k \in Keys : /\ k[1] = t /\ players[k].source = "outside"
                                 /\ players[k].syncedAt < instant}

RetireMissing ==
  /\ desk.at = "players" /\ desk.saved = desk.squads[desk.team]
  /\ players' = [k \in Keys |-> IF k \in Retired(desk.team)
                                THEN [players[k] EXCEPT !.active = FALSE] ELSE players[k]]
  /\ desk' = [desk EXCEPT !.at = "between", !.squads = Restrict(@, DOMAIN @ \ {desk.team}),
                         !.team = 0, !.saved = {}]
  /\ UNCHANGED <<teams, asked, instant, edits>>

\* The end, a row that cannot be written, or the death of the process: what was
\* saved stays saved.
StopSync == /\ desk.at # "idle" /\ desk' = Idle
            /\ UNCHANGED <<teams, players, asked, instant, edits>>

-----------------------------------------------------------------------------
(* The hands.                                                              *)

Hand(k, p) == /\ Edit /\ players' = [players EXCEPT ![k] = p]
              /\ UNCHANGED <<teams, desk, instant>>

\* An active namesake anywhere in the base refuses the new player.
CreatePlayer == \E k \in Keys :
  /\ \A j \in Keys : players[j].active => j[2] # k[2]
  /\ ~Exists(k)
  /\ Edit /\ players' = [players EXCEPT ![k] = Manual] /\ teams' = teams \cup {k[1]}
  /\ UNCHANGED <<desk, asked, instant>>

\* A pasted list brings names back; the numbers it brings keep their author.
SavePlayers == \E k \in Keys, numbers \in BOOLEAN :
  /\ k[1] \in teams
  /\ LET p == IF Exists(k) THEN players[k] ELSE Manual IN
     Hand(k, [p EXCEPT !.active = TRUE,
                       !.card = IF numbers /\ @ = "none" THEN "hand" ELSE @])
  /\ UNCHANGED asked

UpdatePlayer == \E k \in Keys, active, numbers \in BOOLEAN :
  /\ Exists(k)
  /\ Hand(k, [players[k] EXCEPT !.active = active, !.card = IF numbers THEN "hand" ELSE @])
  /\ UNCHANGED asked

MoveTo == \E k \in Keys, t \in Teams :
  LET j == <<t, k[2]>> IN
  /\ Exists(k) /\ ~Exists(j)
  /\ Edit /\ players' = [players EXCEPT ![j] = players[k], ![k] = NoPlayer]
  /\ asked' = IF k \in asked THEN (asked \ {k}) \cup {j} ELSE asked
  /\ teams' = teams \cup {t}
  /\ desk' = IF desk.at = "idle" THEN desk ELSE [desk EXCEPT !.moved = TRUE]
  /\ UNCHANGED instant

\* An estimate stops at a row that is gone.
Forget(K) == asked' = IF asked \cap K = {} THEN asked ELSE {}

RemovePlayer == \E k \in Keys : Exists(k) /\ Hand(k, NoPlayer) /\ Forget({k})

RemoveTeam == \E t \in teams :
  /\ Edit /\ teams' = teams \ {t}
  /\ players' = [k \in Keys |-> IF k[1] = t THEN NoPlayer ELSE players[k]]
  /\ Forget({t} \X Names) /\ UNCHANGED <<desk, instant>>

-----------------------------------------------------------------------------
(* The estimates: read who lacks a card, ask, write row by row.            *)

Estimate(K) == /\ Edit /\ asked = {} /\ K # {}
               /\ asked' \in SUBSET K \ {{}}
               /\ UNCHANGED <<teams, players, desk, instant>>

Lacking(t) == {k \in Keys : k[1] = t /\ players[k].active /\ players[k].card = "none"}
EstimateMissingAttributes == Estimate(UNION {Lacking(t) : t \in teams})
EstimateTeamAttributes == \E t \in teams, onlyMissing \in BOOLEAN :
  Estimate(IF onlyMissing THEN Lacking(t) ELSE {k \in Keys : k[1] = t /\ players[k].active})
EstimatePlayerAttributes == \E k \in Keys : Exists(k) /\ Estimate({k})

WriteEstimate == \E k \in asked :
  /\ players' = [players EXCEPT ![k].card = "model"]
  /\ asked' = asked \ {k}
  /\ UNCHANGED <<teams, desk, instant, edits>>

-----------------------------------------------------------------------------
Next ==
  \/ FetchFromFootballData \/ FetchFromGeneric \/ SyncWikipedia
  \/ RefreshFromSofifa \/ FillCompetitionFromSofifa \/ FillCompetition
  \/ FillTeamFromSofifa \/ SyncAiSquads
  \/ CreateSofifaCompetition \/ CreateAiCompetition
  \/ Persist \/ SaveTeam \/ SavePlayer \/ RetireMissing \/ StopSync
  \/ CreatePlayer \/ SavePlayers \/ UpdatePlayer \/ MoveTo \/ RemovePlayer \/ RemoveTeam
  \/ EstimateMissingAttributes \/ EstimateTeamAttributes \/ EstimatePlayerAttributes
  \/ WriteEstimate

\* A sync takes a player out of the active base only when his own team's list
\* has left him out, and never one a hand registered: crashes of earlier syncs,
\* other fills and edits made meanwhile do not matter, unless one of them moved
\* a player to another club while this sync ran ("Sincronizar nunca apaga:
\* jogadores que sumiram da fonte só ficam inativos").
RestsTheMissing ==
  \A k \in Keys :
    (desk' # desk /\ players[k].active /\ ~players'[k].active /\ ~desk'.moved)
    => /\ players'[k].source = "outside" /\ k[1] = desk.team
       /\ k[2] \notin desk.squads[k[1]]

OnlyTheMissingRest == [][RestsTheMissing]_vars
=============================================================================
