--------------------------------- MODULE DraftRoom ------------------------------
(* From the waiting room of a draft league to the first round of its season:     *)
(* seats (DraftService), presence, opening and picks (DraftPickService).         *)
(*                                                                               *)
(* As in DraftMarket a request is a Check step with every read and guard, which  *)
(* keeps its local variables in req[w], and a Commit step with every write.  The *)
(* unique keys of DraftRoster and DraftPick and the missing row of an update are *)
(* evaluated by the Commit step.                                                 *)
EXTENDS Integers, FiniteSets, DraftOrder

CONSTANTS
  Workers,       \* requests and cron runs in flight at a time
  Users, Managers,     \* people, and those with canManage
  Rosters,       \* DraftRoster rows that may ever be created
  Players,       \* the pool imported in the SETUP phase
  Overall,       \* [Players -> Nat], what the automatic pick looks at
  RosterSize, OrderType, LiveStart,
  None           \* SQL NULL

ASSUME RoomAssumption ==
  /\ Managers \subseteq Users /\ None \notin Users \cup Rosters /\ "gone" \notin Rosters
  /\ IsFiniteSet(Rosters) /\ IsFiniteSet(Players)
  /\ Overall \in [Players -> Nat] /\ RosterSize \in Nat \ {0}
  /\ OrderType \in {"SNAKE", "LINEAR"} /\ LiveStart \in BOOLEAN

VARIABLES
  status,            \* DraftLeague.status
  currentPickNumber,
  rosters,           \* [Rosters -> [state, user, draftOrder, ready]]
  owner,             \* DraftPlayer.rosterId, "gone" when the row is deleted
  picks,             \* DraftPick rows
  fixtures,          \* DraftMatch rows of the season
  startsAt,          \* whether draftStartsAt has come: "later", "now"
  expired,           \* whether pickDeadline is in the past
  req                \* the local variables of each request in flight

vars == <<status, currentPickNumber, rosters, owner, picks, fixtures, startsAt, expired, req>>
room == <<status, currentPickNumber, picks, fixtures, expired>>

NoRoster == [state |-> "none", user |-> None, draftOrder |-> 0, ready |-> FALSE]
Idle     == [op |-> "idle"]

InLeague      == {r \in Rosters : rosters[r].state = "row"}
Vacant        == {r \in InLeague : rosters[r].user = None}
Owned         == InLeague \ Vacant
Pool          == {p \in Players : owner[p] = None}
Squad(r)      == {p \in Players : owner[p] = r}
Entitled(u, r) == rosters[r].user = u \/ u \in Managers

\* orderBy draftOrder asc: equal orders may come back either way round.
AtIndex(i) ==
  {r \in InLeague :
     /\ Cardinality({s \in InLeague : rosters[s].draftOrder < rosters[r].draftOrder}) <= i
     /\ Cardinality({s \in InLeague : rosters[s].draftOrder <= rosters[r].draftOrder}) > i}

rosterCount == Cardinality(InLeague)
totalPicks  == rosterCount * RosterSize
Turn(n)     == AtIndex(pickCoordinate(n, rosterCount, OrderType).rosterIndex)
onTheClock  == IF rosterCount = 0 \/ currentPickNumber >= totalPicks
               THEN {} ELSE Turn(currentPickNumber)

Init ==
  /\ status = "SETUP" /\ currentPickNumber = 0
  /\ rosters = [r \in Rosters |-> NoRoster]
  /\ owner = [p \in Players |-> None]
  /\ picks = {} /\ fixtures = {}
  /\ startsAt \in {"later", "now"} /\ expired = FALSE
  /\ req = [w \in Workers |-> Idle]

Receive(w, q) == /\ req[w] = Idle /\ req' = [req EXCEPT ![w] = q]
                 /\ UNCHANGED <<room, rosters, owner, startsAt>>
Reply(w)      == req' = [req EXCEPT ![w] = Idle]
Serving(w, o) == req[w].op = o
-----------------------------------------------------------------------------
(* Seats                                                                         *)

joinCheck(w) ==
  \E u \in Users :
    /\ status = "SETUP" /\ \A r \in InLeague : rosters[r].user # u
    /\ \E target \in IF Vacant = {} THEN {None} ELSE Vacant :
         /\ target # None => \A r \in Vacant : rosters[target].draftOrder <= rosters[r].draftOrder
         /\ Receive(w, [op |-> "join", user |-> u, target |-> target, count |-> rosterCount])

\* The unique key on (leagueId, userId); taking a vacancy is an update by id.
joinCommit(w) ==
  LET q == req[w] IN
  /\ Serving(w, "join") /\ \A r \in InLeague : rosters[r].user # q.user
  /\ IF q.target # None
     THEN /\ q.target \in InLeague
          /\ rosters' = [rosters EXCEPT ![q.target].user = q.user]
     ELSE \E r \in Rosters :
            /\ rosters[r].state = "none"
            /\ rosters' = [rosters EXCEPT ![r] =
                 [state |-> "row", user |-> q.user, draftOrder |-> q.count + 1, ready |-> FALSE]]
  /\ Reply(w)
  /\ UNCHANGED <<room, owner, startsAt>>

addVacantRostersCheck(w) ==
  /\ Managers # {} /\ status = "SETUP"
  /\ Receive(w, [op |-> "addVacant", count |-> rosterCount])

addVacantRostersCommit(w) ==
  /\ Serving(w, "addVacant")
  /\ \E r \in Rosters :
       /\ rosters[r].state = "none"
       /\ rosters' = [rosters EXCEPT ![r] = [NoRoster EXCEPT !.state = "row",
                                                             !.draftOrder = req[w].count + 1]]
  /\ Reply(w)
  /\ UNCHANGED <<room, owner, startsAt>>

leaveCheck(w) ==
  \E r \in Owned : status = "SETUP" /\ Receive(w, [op |-> "leave", roster |-> r])

\* ON DELETE: the players go back to the pool, the picks are deleted.
leaveCommit(w) ==
  LET r == req[w].roster IN
  /\ Serving(w, "leave") /\ r \in InLeague
  /\ rosters' = [rosters EXCEPT ![r] = [NoRoster EXCEPT !.state = "deleted"]]
  /\ owner' = [p \in Players |-> IF owner[p] = r THEN None ELSE owner[p]]
  /\ picks' = {k \in picks : k.roster # r}
  /\ Reply(w)
  /\ UNCHANGED <<status, currentPickNumber, fixtures, startsAt, expired>>
-----------------------------------------------------------------------------
(* The waiting room and the opening                                              *)

everyoneReady == Owned # {} /\ \A r \in Owned : rosters[r].ready
enoughPlayers == rosterCount >= 2 /\ Cardinality(Pool) >= totalPicks
canOpen       == enoughPlayers /\ startsAt = "now"

OpenRequest == [op |-> "open", rosters |-> InLeague]

setReadyCheck(w) ==
  \E r \in Owned, flag \in BOOLEAN :
    status = "SETUP" /\ Receive(w, [op |-> "ready", roster |-> r, flag |-> flag])

\* The presence is committed on its own; then the handler looks at the room.
setReadyCommit(w) ==
  LET q == req[w] IN
  /\ Serving(w, "ready") /\ q.roster \in InLeague
  /\ rosters' = [rosters EXCEPT ![q.roster].ready = q.flag]
  /\ req' = [req EXCEPT ![w] = [op |-> "look"]]
  /\ UNCHANGED <<room, owner, startsAt>>

\* The last one to be ready opens the draft; status was checked before the presence.
lookAtRoom(w) ==
  /\ Serving(w, "look")
  /\ req' = [req EXCEPT ![w] = IF LiveStart /\ everyoneReady /\ canOpen THEN OpenRequest ELSE Idle]
  /\ UNCHANGED <<room, rosters, owner, startsAt>>

openScheduledCheck(w) ==
  /\ status = "SETUP" /\ LiveStart /\ everyoneReady /\ canOpen
  /\ Receive(w, OpenRequest)

\* startDraft: `force` lets a manager open without the presences or before the time.
startDraftCheck(w) ==
  /\ Managers # {} /\ status = "SETUP"
  /\ enoughPlayers
  /\ Receive(w, OpenRequest)

\* The transaction of openDraft does not look at the status again; an update of a
\* roster that left is the exception that rolls it back.
openDraftCommit(w) ==
  LET q == req[w] IN
  /\ Serving(w, "open") /\ q.rosters \subseteq InLeague
  /\ \E order \in [q.rosters -> 1 .. Cardinality(q.rosters)] :
       /\ \A r, s \in q.rosters : order[r] = order[s] => r = s
       /\ rosters' = [r \in Rosters |-> IF r \in q.rosters
                        THEN [rosters[r] EXCEPT !.draftOrder = order[r], !.ready = FALSE]
                        ELSE rosters[r]]
  /\ status' = "DRAFTING" /\ currentPickNumber' = 0 /\ expired' = FALSE
  /\ Reply(w)
  /\ UNCHANGED <<owner, picks, fixtures, startsAt>>
-----------------------------------------------------------------------------
(* The picks                                                                     *)

PickRequest(r, p) == [op |-> "pick", number |-> currentPickNumber, roster |-> r, player |-> p,
                      total |-> totalPicks]

\* The reads of commitPick's transaction; the unique keys come with the Commit step.
Available(r, p) == p \in Pool /\ Cardinality(Squad(r)) < RosterSize

\* Mutant: anybody with a roster may pick.
pickCheckOutOfTurn(w) ==
  \E r \in Owned, p \in Players :
    /\ status = "DRAFTING" /\ onTheClock # {} /\ Available(r, p)
    /\ Receive(w, PickRequest(r, p))

pickCheck(w) ==
  \E u \in Users, p \in Players : \E r \in onTheClock :
    /\ status = "DRAFTING" /\ Entitled(u, r) /\ Available(r, p)
    /\ Receive(w, PickRequest(r, p))

\* Mutant: only the clock counts, a vacant roster waits for nobody.
autoPickCheckOwned(w) ==
  \E r \in onTheClock, p \in Pool :
    /\ status = "DRAFTING" /\ expired /\ rosters[r].user # None
    /\ \A s \in Pool : Overall[s] <= Overall[p]
    /\ Available(r, p)
    /\ Receive(w, PickRequest(r, p))

\* Every ten seconds: the best free player for a late or a vacant roster.
autoPickCheck(w) ==
  \E r \in onTheClock, p \in Pool :
    /\ status = "DRAFTING" /\ (expired \/ rosters[r].user = None)
    /\ \A s \in Pool : Overall[s] <= Overall[p]
    /\ Available(r, p)
    /\ Receive(w, PickRequest(r, p))

\* generateFixtures: the round robin over the rosters in draft order.
Season ==
  LET pairs == roundRobinPairs(rosterCount)
      At(i) == CHOOSE r \in AtIndex(i) : TRUE
  IN {[round |-> f.round, home |-> At(f.home), away |-> At(f.away)] : f \in pairs}

\* Mutant: without the unique key on the pick number.
pickRowFitsAnyNumber(q) ==
  /\ q.player \in {p \in Players : owner[p] # "gone"} /\ q.roster \in InLeague
  /\ \A k \in picks : k.player # q.player

pickRowFits(q) ==
  /\ q.player \in {p \in Players : owner[p] # "gone"} /\ q.roster \in InLeague
  /\ \A k \in picks : k.number # q.number /\ k.player # q.player

pickCommit(w) ==
  LET q    == req[w]
      next == q.number + 1
      done == next >= q.total
  IN
  /\ Serving(w, "pick") /\ pickRowFits(q)
  /\ picks' = picks \cup {[number |-> q.number, roster |-> q.roster, player |-> q.player]}
  /\ owner' = [owner EXCEPT ![q.player] = q.roster]
  /\ currentPickNumber' = next /\ expired' = FALSE
  /\ status' = IF done THEN "ACTIVE" ELSE "DRAFTING"
  /\ fixtures' = IF done THEN Season ELSE fixtures
  /\ Reply(w)
  /\ UNCHANGED <<rosters, startsAt>>

removePlayerCheck(w) ==
  \E p \in Pool : Managers # {} /\ Receive(w, [op |-> "removePlayer", player |-> p])

\* The pick of the player is deleted by cascade.
removePlayerCommit(w) ==
  LET p == req[w].player IN
  /\ Serving(w, "removePlayer") /\ owner[p] # "gone"
  /\ owner' = [owner EXCEPT ![p] = "gone"]
  /\ picks' = {k \in picks : k.player # p}
  /\ Reply(w)
  /\ UNCHANGED <<status, currentPickNumber, rosters, fixtures, startsAt, expired>>
-----------------------------------------------------------------------------
startsNow == startsAt = "later" /\ startsAt' = "now"
             /\ UNCHANGED <<room, rosters, owner, req>>

deadlinePasses == status = "DRAFTING" /\ ~expired /\ expired' = TRUE
                  /\ UNCHANGED <<status, currentPickNumber, rosters, owner, picks, fixtures, startsAt, req>>

\* An exception of any Commit step (or a timeout, or a restart).
rollback(w) == req[w] # Idle /\ Reply(w) /\ UNCHANGED <<room, rosters, owner, startsAt>>

Check(w) ==
  \/ joinCheck(w) \/ addVacantRostersCheck(w) \/ leaveCheck(w)
  \/ setReadyCheck(w) \/ openScheduledCheck(w) \/ startDraftCheck(w)
  \/ pickCheck(w) \/ autoPickCheck(w) \/ removePlayerCheck(w)

Commit(w) ==
  \/ joinCommit(w) \/ addVacantRostersCommit(w) \/ leaveCommit(w)
  \/ setReadyCommit(w) \/ lookAtRoom(w) \/ openDraftCommit(w)
  \/ pickCommit(w) \/ removePlayerCommit(w)

Next ==
  \/ \E w \in Workers : Check(w) \/ Commit(w) \/ rollback(w)
  \/ startsNow \/ deadlinePasses

Spec == Init /\ [][Next]_vars

\* Time passes, requests end, and the ten-second cron comes back: a pick it can try
\* again and again is neither skipped nor rolled back for ever.
Fairness ==
  /\ WF_vars(deadlinePasses)
  /\ \A w \in Workers : /\ WF_vars(Commit(w) \/ rollback(w))
                        /\ SF_vars(autoPickCheck(w)) /\ SF_vars(pickCommit(w))

FairSpec == Spec /\ Fairness
-----------------------------------------------------------------------------
RosterRow == [state: {"none", "row", "deleted"}, user: Users \cup {None}, draftOrder: Nat,
              ready: BOOLEAN]
PickRow   == [number: Nat, roster: Rosters, player: Players]
MatchRow  == [round: Nat, home: Rosters, away: Rosters]
Request ==
  {Idle, [op |-> "look"]}
  \cup [op: {"join"}, user: Users, target: Rosters \cup {None}, count: Nat]
  \cup [op: {"addVacant"}, count: Nat]
  \cup [op: {"leave"}, roster: Rosters]
  \cup [op: {"ready"}, roster: Rosters, flag: BOOLEAN]
  \cup [op: {"open"}, rosters: SUBSET Rosters]
  \cup [op: {"pick"}, number: Nat, roster: Rosters, player: Players, total: Nat]
  \cup [op: {"removePlayer"}, player: Players]

\* The columns of the league, its rosters, players, picks and matches are typed.
TypeOK ==
  /\ status \in {"SETUP", "DRAFTING", "ACTIVE"} /\ currentPickNumber \in Nat
  /\ rosters \in [Rosters -> RosterRow]
  /\ owner \in [Players -> Rosters \cup {None, "gone"}]
  /\ picks \subseteq PickRow /\ fixtures \subseteq MatchRow
  /\ startsAt \in {"later", "now"} /\ expired \in BOOLEAN
  /\ req \in [Workers -> Request]

\* "Esse jogador ja foi escolhido": however picks, automatic
\* picks, openings and removals race, the unique keys leave one pick per number and per
\* player, and the squads of the league are exactly what its picks say.
SquadsAreTheirPicks ==
  /\ \A r \in Rosters, p \in Players :
       owner[p] = r <=> \E k \in picks : k.roster = r /\ k.player = p
  /\ \A j, k \in picks : j.number = k.number \/ j.player = k.player => j = k
  /\ \A k \in picks : k.roster \in InLeague

\* "Agora e a vez de ...", "Este elenco ja esta completo": every pick was made for the
\* roster whose turn it was, and no squad outgrows rosterSize.
PicksAreInTurn ==
  /\ status # "SETUP" => \A k \in picks : k.roster \in Turn(k.number)
  /\ \A r \in Rosters : Cardinality(Squad(r)) <= RosterSize

\* So when the draft ends every roster has its full squad, and the season generated from
\* the draft order makes every two rosters meet once and nobody play twice in a round.
EveryRosterIsComplete ==
  \A r \in InLeague : Cardinality({k \in picks : k.roster = r}) = RosterSize
SeasonIsFair ==
  /\ \A r, s \in InLeague : r # s =>
       Cardinality({f \in fixtures : {f.home, f.away} = {r, s}}) = 1
  /\ \A r \in InLeague : \A f, g \in fixtures :
       r \in {f.home, f.away} \cap {g.home, g.away} /\ f.round = g.round => f = g

PicksFollowTheOrder ==
  PicksAreInTurn /\ (status = "ACTIVE" => EveryRosterIsComplete /\ SeasonIsFair)

PoolSuffices == Cardinality(Pool) >= totalPicks - currentPickNumber

\* "senao a vaga trava o draft de quem apareceu": a draft that started ends, although
\* rosters are late, vacant or absent, unless a moderator takes too many players out.
DraftEnds == status = "DRAFTING" ~> (status = "ACTIVE" \/ ~PoolSuffices)

\* "O draft desta liga ja comecou": once it has, it does not start again.
DraftStartsOnce ==
  [][status = "DRAFTING" => currentPickNumber' >= currentPickNumber]_vars
=============================================================================
