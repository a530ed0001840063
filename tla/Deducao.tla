---------------------------------- MODULE Deducao ---------------------------------
(* The room of the deduction game: games/deducao/deducao.room.ts with rules.ts and   *)
(* tasks.ts.  The server takes one message at a time; between the two halves of a   *)
(* join (onAuth, onJoin) and of a leave (the wait for a reconnection) others are    *)
(* taken.  Where somebody stands is left out: a request may find its target in      *)
(* reach or not.  So are the cooldowns: a request may find them over or not.        *)
EXTENDS Integers, FiniteSets, Functions

CONSTANTS MaxSessions,     \* bound on sessions, numbered as they come: who comes back is a new one
          Admins,          \* those of them that may start with fewer players
          Spots,           \* task spots of the map, as many as each player is given
          MIN_PLAYERS,     \* 4 in the code
          Emergencies,     \* emergencyPerPlayer
          MaxDrops,        \* bound on players dropped in a game (their microphone stays off)
          Detective,       \* config.detetive
          Callers,         \* bound: the sessions that may call a meeting
          MaxGames         \* bound on games played in the room; after the last nobody prepares another

VARIABLES
  phase,      \* lobby, jogando, reuniao, votacao, fim
  players,    \* [session in the room -> player and seat]
  host,
  sessions,   \* sessions so far
  admitted,   \* those that passed onAuth and have not joined yet
  away,       \* sessions allowReconnection waits for
  corpses,    \* [victim -> inspected]
  meeting,    \* voting, due (its deadline has passed), ejected, tie
  work,       \* tasksDone and tasksTotal of the state
  blackout,
  winner,
  games       \* games begun so far

vars == <<phase, players, host, sessions, admitted, away, corpses, meeting, work, blackout, winner, games>>

None    == 0     \* no session
Skip    == -1    \* the vote for nobody
Nothing == "nothing"
InRoom == DOMAIN players
alive(ps)  == {p \in DOMAIN ps : ps[p].alive}
Killers(ps) == {p \in DOMAIN ps : ps[p].role = "assassino"}
Acts(p) == p \in InRoom /\ p \notin away
NewSeat == [role |-> "funcionario", alive |-> TRUE, connected |-> TRUE, ready |-> FALSE, mic |-> FALSE,
            vent |-> FALSE, calls |-> Emergencies, tasks |-> {}, done |-> {}, active |-> Nothing,
            vote |-> None, reading |-> None]
NoMeeting == [voting |-> FALSE, due |-> FALSE, ejected |-> {}, tie |-> FALSE]
-----------------------------------------------------------------------------
(* rules.ts                                                                      *)
canStartMatch(count, isAdmin) == isAdmin \/ count >= MIN_PLAYERS
maxKillersFor(count) == IF count >= 10 THEN 3 ELSE IF count >= 7 THEN 2 ELSE 1
KillersOf(count, wanted) ==
  LET third == IF count \div 3 > 1 THEN count \div 3 ELSE 1
      most  == IF wanted < maxKillersFor(count) THEN wanted ELSE maxKillersFor(count)
  IN IF most < third THEN most ELSE third

\* The ways assignRoles may deal the roles.
assignRoles(ps, wanted, withDetective) ==
  {r \in [ps -> {"assassino", "detetive", "funcionario"}] :
     LET Dealt(role) == Cardinality({p \in ps : r[p] = role})
         killers == KillersOf(Cardinality(ps), wanted)
     IN /\ Dealt("assassino") = killers
        /\ Dealt("detetive") = IF withDetective /\ Cardinality(ps) > killers THEN 1 ELSE 0}

\* Who has most votes, if nobody has as many; Skip is no vote.
tallyVotes(votes) ==
  LET targets  == Range(votes) \ {Skip}
      Count(t) == Cardinality({v \in DOMAIN votes : votes[v] = t})
      best     == {t \in targets : \A u \in targets : Count(u) <= Count(t)}
  IN [ejected |-> IF Cardinality(best) = 1 THEN best ELSE {}, tie |-> Cardinality(best) > 1]

winnerFor(ps, w) ==
  LET killers == Cardinality(alive(ps) \cap Killers(ps))
      others  == Cardinality(alive(ps)) - killers
  IN IF killers = 0 \/ (w.total > 0 /\ w.done >= w.total) THEN "escritorio"
     ELSE IF killers >= others THEN "assassinos" ELSE Nothing
-----------------------------------------------------------------------------
(* What the handlers share                                                       *)

\* closeMeeting forgets the votes, not what came of them.
Closed      == [meeting EXCEPT !.voting = FALSE, !.due = FALSE]
Unvoted(ps) == [p \in DOMAIN ps |-> [ps[p] EXCEPT !.vote = None]]

\* checkEnd over the players as they now are: the game ends if it is decided, otherwise
\* the room is left as `next` says.
CheckEnd(ps, w, next) ==
  LET won == winnerFor(ps, w) IN
  /\ work' = w
  /\ IF won = Nothing
     THEN /\ players' = ps
          /\ phase' = next.phase /\ meeting' = next.meeting /\ blackout' = next.blackout
          /\ UNCHANGED winner
     ELSE /\ players' = Unvoted(ps) /\ phase' = "fim" /\ winner' = won
          /\ meeting' = Closed /\ blackout' = FALSE

AsItIs == [phase |-> phase, meeting |-> meeting, blackout |-> blackout]

\* openMeeting: everybody out of the vents and at the table, no task open, no corpse left;
\* deliverReadings hands over what the detective had asked for.
openMeeting(ps) ==
  /\ phase' = "reuniao" /\ blackout' = FALSE /\ corpses' = <<>>
  /\ meeting' = NoMeeting
  /\ players' = [p \in DOMAIN ps |-> [ps[p] EXCEPT !.vote = None, !.active = Nothing, !.vent = FALSE,
                                                   !.reading = None]]
  /\ UNCHANGED <<host, sessions, admitted, away, work, winner, games>>
-----------------------------------------------------------------------------
(* Coming and going                                                              *)
onAuth ==
  /\ phase = "lobby" /\ sessions < MaxSessions /\ games < MaxGames
  /\ sessions' = sessions + 1
  /\ admitted' = admitted \cup {sessions + 1}
  /\ UNCHANGED <<phase, players, host, away, corpses, meeting, work, blackout, winner, games>>

\* onJoin does not look at the phase again.
onJoin(p) ==
  /\ p \in admitted /\ admitted' = admitted \ {p}
  /\ players' = [q \in InRoom \cup {p} |-> IF q = p THEN NewSeat ELSE players[q]]
  /\ host' = IF host = None THEN p ELSE host
  /\ UNCHANGED <<phase, sessions, away, corpses, meeting, work, blackout, winner, games>>

\* Mutant: a departure does not end the game.
GoneUnnoticed(p) ==
  LET left == [q \in InRoom \ {p} |-> players[q]] IN
  /\ host' \in IF host # p THEN {host} ELSE IF DOMAIN left = {} THEN {None} ELSE DOMAIN left
  /\ players' = left
  /\ UNCHANGED <<work, phase, meeting, blackout, winner, sessions, admitted, corpses, games>>

\* The rest of onLeave: the player goes, the first of the others is host, the game may end.
Gone(p) ==
  LET left == [q \in InRoom \ {p} |-> players[q]] IN
  /\ host' \in IF host # p THEN {host} ELSE IF DOMAIN left = {} THEN {None} ELSE DOMAIN left
  /\ IF phase \in {"lobby", "fim"}
     THEN players' = left /\ UNCHANGED <<work, phase, meeting, blackout, winner>>
     ELSE CheckEnd(left, work, AsItIs)
  /\ UNCHANGED <<sessions, admitted, corpses, games>>

onLeave(p) == Acts(p) /\ Gone(p) /\ UNCHANGED away

\* Dropped in a game: the seat is kept for forty seconds.
onDrop(p) ==
  /\ Acts(p) /\ phase # "lobby" /\ Cardinality({q \in InRoom : ~players[q].mic}) < MaxDrops
  /\ players' = [players EXCEPT ![p].connected = FALSE, ![p].ready = FALSE, ![p].mic = FALSE]
  /\ away' = away \cup {p}
  /\ UNCHANGED <<phase, host, sessions, admitted, corpses, meeting, work, blackout, winner, games>>

Reconnects(p) ==
  /\ p \in away /\ away' = away \ {p}
  /\ players' = [players EXCEPT ![p].connected = TRUE]
  /\ UNCHANGED <<phase, host, sessions, admitted, corpses, meeting, work, blackout, winner, games>>

GivenUp(p) == p \in away /\ away' = away \ {p} /\ Gone(p)
-----------------------------------------------------------------------------
(* The lobby                                                                     *)
Rest == UNCHANGED <<phase, host, sessions, admitted, away, corpses, meeting, work, blackout, winner, games>>

\* A microphone switched off takes the ready sign with it; off again in a game it changes
\* nothing until the next lobby.
onMicrophoneStatus(p) ==
  /\ Acts(p) /\ phase = "lobby" /\ games < MaxGames
  /\ players' = [players EXCEPT ![p].mic = ~@, ![p].ready = @ /\ ~players[p].mic]
  /\ Rest

onReady(p) ==
  /\ Acts(p) /\ phase = "lobby" /\ games < MaxGames /\ (players[p].ready \/ players[p].mic)
  /\ players' = [players EXCEPT ![p].ready = ~@]
  /\ Rest

\* onStart and beginMatch
onStart(p) ==
  /\ Acts(p) /\ phase = "lobby" /\ p = host /\ games < MaxGames
  /\ canStartMatch(Cardinality(InRoom), p \in Admins)
  /\ \A q \in InRoom : players[q].connected /\ players[q].mic /\ (players[q].ready \/ q = host)
  /\ \E roles \in assignRoles(InRoom, 1, Detective) :
       /\ players' = [q \in InRoom |-> [NewSeat EXCEPT !.role = roles[q], !.tasks = Spots, !.mic = TRUE]]
       /\ work' = [done |-> 0,
                   total |-> Cardinality(Spots) * Cardinality({q \in InRoom : roles[q] # "assassino"})]
  /\ phase' = "jogando" /\ winner' = Nothing /\ blackout' = FALSE /\ corpses' = <<>>
  /\ games' = games + 1
  /\ UNCHANGED <<host, sessions, admitted, away, meeting>>

onRestart(p) ==
  /\ Acts(p) /\ phase = "fim" /\ p = host
  /\ phase' = "lobby" /\ winner' = Nothing /\ corpses' = <<>> /\ meeting' = Closed
  /\ players' = [q \in InRoom |-> [players[q] EXCEPT !.active = Nothing, !.alive = TRUE, !.ready = FALSE,
                                     !.vent = FALSE, !.vote = None]]
  /\ UNCHANGED <<host, sessions, admitted, away, work, blackout, games>>
-----------------------------------------------------------------------------
(* The game                                                                      *)
Playing(p) == Acts(p) /\ phase = "jogando"

\* Bound: of open tasks, players in vents, blackouts, readings and inspections there is one
\* at a time.
Quiet == /\ ~blackout /\ TRUE \notin Range(corpses)
         /\ \A q \in InRoom : players[q].active = Nothing /\ ~players[q].vent /\ players[q].reading = None

\* onMove over a stair closes the task that was open.
onMove(p) ==
  /\ Playing(p) /\ players[p].alive /\ ~players[p].vent /\ players[p].active # Nothing
  /\ players' = [players EXCEPT ![p].active = Nothing]
  /\ Rest

onTaskBegin(p, spot) ==
  /\ Playing(p) /\ ~players[p].vent
  /\ spot \in players[p].tasks \ players[p].done /\ Quiet
  /\ players' = [players EXCEPT ![p].active = spot]
  /\ Rest

onTaskDone(p) ==
  /\ Playing(p) /\ ~players[p].vent /\ players[p].active # Nothing
  /\ LET seat == players[p]
         ps == [players EXCEPT ![p].done = @ \cup {seat.active}, ![p].active = Nothing]
     IN IF seat.role = "assassino"
        THEN players' = ps /\ UNCHANGED <<work, phase, meeting, blackout, winner>>
        ELSE CheckEnd(ps, [work EXCEPT !.done = @ + 1], AsItIs)
  /\ UNCHANGED <<host, sessions, admitted, away, corpses, games>>

onKill(p, victim) ==
  /\ Playing(p) /\ players[p].role = "assassino" /\ players[p].alive
  /\ players[victim].alive /\ players[victim].role # "assassino"
  /\ corpses' = [v \in DOMAIN corpses \cup {victim} |-> IF v = victim THEN FALSE ELSE corpses[v]]
  /\ CheckEnd([players EXCEPT ![victim].alive = FALSE, ![victim].active = Nothing], work, AsItIs)
  /\ UNCHANGED <<host, sessions, admitted, away, games>>

onVent(p) ==
  /\ Playing(p) /\ players[p].role = "assassino" /\ players[p].alive /\ (players[p].vent \/ Quiet)
  /\ players' = [players EXCEPT ![p].vent = ~@]
  /\ Rest

onSabotage(p) ==
  /\ Playing(p) /\ players[p].role = "assassino" /\ players[p].alive /\ Quiet
  /\ blackout' = TRUE
  /\ UNCHANGED <<phase, players, host, sessions, admitted, away, corpses, meeting, work, winner, games>>

onReport(p, victim) ==
  Playing(p) /\ players[p].alive /\ victim \in DOMAIN corpses /\ openMeeting(players)

onEmergency(p) ==
  /\ Playing(p) /\ players[p].alive /\ ~players[p].vent /\ players[p].calls > 0 /\ p \in Callers
  /\ openMeeting([players EXCEPT ![p].calls = @ - 1])

onInspect(p, target) ==
  /\ Acts(p) /\ phase = "reuniao" /\ players[p].alive /\ players[p].role = "detetive"
  /\ players[p].reading = None /\ players[target].alive /\ target # p /\ Quiet
  /\ players' = [players EXCEPT ![p].reading = target]
  /\ Rest

onForensicInspect(p, victim) ==
  /\ Playing(p) /\ players[p].role = "detetive" /\ players[p].alive /\ ~players[p].vent
  /\ victim \in DOMAIN corpses /\ Quiet
  /\ corpses' = [corpses EXCEPT ![victim] = TRUE]
  /\ UNCHANGED <<phase, players, host, sessions, admitted, away, meeting, work, blackout, winner, games>>
-----------------------------------------------------------------------------
(* The vote                                                                      *)
\* closeVoting: the table stays on the screen for some seconds more.
closeVoting(ps) ==
  LET living == alive(ps)
      result == tallyVotes([p \in living |-> IF ps[p].vote = None THEN Skip ELSE ps[p].vote])
      out    == result.ejected \cap DOMAIN ps
  IN /\ players' = [p \in DOMAIN ps |-> IF p \in out THEN [ps[p] EXCEPT !.alive = FALSE] ELSE ps[p]]
     /\ meeting' = [voting |-> FALSE, due |-> FALSE, tie |-> result.tie,
                   ejected |-> IF out = {} THEN meeting.ejected ELSE out]

\* The last of the living to vote closes the vote; nobody asks whether it is closed already.
onVote(p, target) ==
  /\ Acts(p) /\ phase = "votacao" /\ players[p].alive /\ players[p].vote = None
  /\ target \in alive(players) \cup {Skip}
  /\ LET ps == [players EXCEPT ![p].vote = target]
     IN IF \A q \in alive(ps) : ps[q].vote # None THEN closeVoting(ps)
        ELSE players' = ps /\ UNCHANGED meeting
  /\ UNCHANGED <<phase, host, sessions, admitted, away, corpses, work, blackout, winner, games>>

TimePasses ==
  /\ phase \in {"reuniao", "votacao"} /\ ~meeting.due
  /\ meeting' = [meeting EXCEPT !.due = TRUE]
  /\ UNCHANGED <<phase, players, host, sessions, admitted, away, corpses, work, blackout, winner, games>>

\* tick: from the talk to the vote, from the vote to its result, from there to the game.
tickVoting ==
  /\ phase = "reuniao" /\ meeting.due
  /\ phase' = "votacao" /\ meeting' = [meeting EXCEPT !.voting = TRUE, !.due = FALSE]
  /\ UNCHANGED <<players, host, sessions, admitted, away, corpses, work, blackout, winner, games>>

tickResult ==
  /\ phase = "votacao" /\ meeting.voting /\ meeting.due /\ closeVoting(players)
  /\ UNCHANGED <<phase, host, sessions, admitted, away, corpses, work, blackout, winner, games>>

tickPlay ==
  /\ phase = "votacao" /\ ~meeting.voting /\ meeting.due
  /\ CheckEnd(Unvoted(players), work, [phase |-> "jogando", meeting |-> Closed, blackout |-> blackout])
  /\ UNCHANGED <<host, sessions, admitted, away, corpses, games>>

tickLight ==
  /\ phase = "jogando" /\ blackout /\ blackout' = FALSE
  /\ UNCHANGED <<phase, players, host, sessions, admitted, away, corpses, meeting, work, winner, games>>
-----------------------------------------------------------------------------
Sessions == 1 .. MaxSessions

Init ==
  /\ phase = "lobby" /\ players = <<>> /\ host = None /\ sessions = 0 /\ admitted = {} /\ away = {}
  /\ corpses = <<>> /\ meeting = NoMeeting /\ work = [done |-> 0, total |-> 0]
  /\ blackout = FALSE /\ winner = Nothing /\ games = 0

Next ==
  \/ onAuth
  \/ \E p \in Sessions : onJoin(p)
  \/ \E p \in Sessions : onLeave(p)
  \/ \E p \in Sessions : onDrop(p)
  \/ \E p \in Sessions : Reconnects(p)
  \/ \E p \in Sessions : GivenUp(p)
  \/ \E p \in Sessions : onMicrophoneStatus(p)
  \/ \E p \in Sessions : onReady(p)
  \/ \E p \in Sessions : onStart(p)
  \/ \E p \in Sessions : onRestart(p)
  \/ \E p \in Sessions : onMove(p)
  \/ \E p \in Sessions, spot \in Spots : onTaskBegin(p, spot)
  \/ \E p \in Sessions : onTaskDone(p)
  \/ \E p \in Sessions, v \in InRoom : onKill(p, v)
  \/ \E p \in Sessions : onVent(p)
  \/ \E p \in Sessions : onSabotage(p)
  \/ \E p, v \in Sessions : onReport(p, v)
  \/ \E p \in Sessions : onEmergency(p)
  \/ \E p \in Sessions, t \in InRoom : onInspect(p, t)
  \/ \E p, v \in Sessions : onForensicInspect(p, v)
  \/ \E p \in Sessions, t \in Sessions \cup {Skip} : onVote(p, t)
  \/ TimePasses
  \/ tickVoting
  \/ tickResult
  \/ tickPlay
  \/ tickLight

\* The room ticks and its clock goes on.
Fairness == WF_vars(TimePasses) /\ WF_vars(tickVoting) /\ WF_vars(tickResult) /\ WF_vars(tickPlay)
Spec == Init /\ [][Next]_vars /\ Fairness
-----------------------------------------------------------------------------
(* Properties                                                                    *)

\* A game of as many as it asks for that is decided is over: nobody plays on against
\* killers who have won, without a killer or with every task done.
NobodyPlaysOn == phase = "jogando" => winnerFor(players, work) = Nothing

\* A meeting ends, in the game or in its end, whoever has gone or does not vote
\* (MCJourneys, DeadlinesAreKept).
InMeeting == phase \in {"reuniao", "votacao"}
=============================================================================
