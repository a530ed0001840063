-------------------------------- MODULE LeagueMatch -------------------------------
(* A custom match of a Discord server, from its queue to its result:                *)
(* customLeagueMath/leagueMatch.service.ts.  Only join reads and writes in one      *)
(* transaction.  A request to leave, to kick, to draw, to start, to finish or to    *)
(* call off reads the match, waits, and writes without looking again; several run   *)
(* at once, and so does the clock that removes old matches.  The writes of one       *)
(* request are one step, but for the undoing of the teams of the draw before.       *)
EXTENDS Integers, Sequences, FiniteSets, SequencesExt

CONSTANTS Players,        \* users of the server
          Score,          \* [Players -> Int], their scores in its ranking
          Formats,        \* matchType of the matches created
          Handlers,       \* players per team -> the requests under way at once
          MaxLeft         \* bound on requests to leave or to send away

VARIABLES status,    \* none, WAITING, STARTED, FINISHED, EXPIRED, gone
          perTeam,   \* playersPerTeam of the match that is created
          format,
          queue,     \* queuePlayers by id: sequence of [user, side]
          winner,
          left,      \* requests to leave or to send away so far
          req,       \* handler -> the request that has read and not written
          crossed    \* a player went, or a draw wrote, after a start had read the match

vars == <<status, perTeam, format, queue, winner, left, req, crossed>>

Active == Handlers[perTeam]
Free  == "none"      \* in no team, won by nobody
Sides == {"blue", "red"}
maxPlayers == 2 * perTeam
Users(q) == {q[i].user : i \in DOMAIN q}
Team(q, side) == {q[i].user : i \in {j \in DOMAIN q : q[j].side = side}}
Strength(team) == FoldSet(LAMBDA u, sum : Score[u] + sum, 0, team)
-----------------------------------------------------------------------------
(* Teams                                                                         *)

\* balancedSplit: from the best down, each to the lighter team that has room.
balancedSplit(ranked) ==
  LET Step(u, t) ==
        LET blueFull == Cardinality(t.blue) >= perTeam
            redFull  == Cardinality(t.red) >= perTeam
        IN IF ~blueFull /\ (redFull \/ Strength(t.blue) <= Strength(t.red))
           THEN [t EXCEPT !.blue = @ \cup {u}] ELSE [t EXCEPT !.red = @ \cup {u}]
  IN FoldLeft(LAMBDA t, u : Step(u, t), [blue |-> {}, red |-> {}], ranked)

\* The ways a draw may come out; among equals the order is by chance.
Draws(users) ==
  IF format = "BALANCEADO"
  THEN {balancedSplit(r) : r \in {s \in SetToSeqs(users) :
          \A i, j \in DOMAIN s : i < j => Score[s[i]] >= Score[s[j]]}}
  ELSE {[blue |-> b, red |-> users \ b] : b \in kSubset(perTeam, users)}

\* The queue with these teams for those of the match: who is in neither has no side.
SideIn(teams, u) == IF u \in teams.blue THEN "blue" ELSE IF u \in teams.red THEN "red" ELSE Free
InTeams(q, teams) == [i \in DOMAIN q |-> [q[i] EXCEPT !.side = SideIn(teams, q[i].user)]]
-----------------------------------------------------------------------------
(* Requests.  gone is whose row of the queue is to be deleted, blue and red are   *)
(* the rows to be given a side.                                                   *)
Idle == [op |-> "idle", gone |-> {}, blue |-> {}, red |-> {}]

\* The request h has read the match and will write as r says.
Reads(h, r) ==
  /\ req[h] = Idle /\ req' = [req EXCEPT ![h] = r]
  /\ UNCHANGED <<status, perTeam, format, queue, winner>>

Writes(h, op) == req[h].op = op /\ req' = [req EXCEPT ![h] = Idle]

\* A start is under way or has been.
Starting == status = "STARTED" \/ \E h \in Active : req[h].op \in {"start", "split"}

createOnline(f) ==
  /\ status = "none" /\ status' = "WAITING" /\ format' = f
  /\ UNCHANGED <<perTeam, queue, winner, left, req, crossed>>

join(u) ==
  /\ status = "WAITING" /\ Len(queue) < maxPlayers /\ u \notin Users(queue)
  /\ queue' = Append(queue, [user |-> u, side |-> Free])
  /\ UNCHANGED <<status, perTeam, format, winner, left, req, crossed>>

AsksToGo(h, u) ==
  /\ status = "WAITING" /\ u \in Users(queue) /\ left < MaxLeft
  /\ Reads(h, [Idle EXCEPT !.op = "go", !.gone = {u}])
  /\ left' = left + 1 /\ UNCHANGED crossed

leave(h, u)      == AsksToGo(h, u)
kickPlayer(h, u) == AsksToGo(h, u)

\* Of a row that is deleted: who would delete it too will fail, and nobody gives it a side.
Without(r, u) ==
  IF u \in r.gone THEN Idle ELSE [r EXCEPT !.blue = @ \ {u}, !.red = @ \ {u}]

\* The row of the queue is deleted, whatever has become of the match.
rowDeleted(h) ==
  /\ req[h].op = "go"
  /\ \E i \in DOMAIN queue :
       /\ queue[i].user \in req[h].gone
       /\ queue' = RemoveAt(queue, i)
       /\ req' = [g \in Active |-> Without(req[g], queue[i].user)]
  /\ crossed' = (crossed \/ Starting)
  /\ UNCHANGED <<status, perTeam, format, winner, left>>

\* The teams are made of the queue that was read.
draw(h) ==
  /\ status = "WAITING"
  /\ LET drawn == \E i \in DOMAIN queue : queue[i].side # Free IN
     IF Len(queue) < maxPlayers
     THEN drawn /\ Reads(h, [Idle EXCEPT !.op = "clear"])
     ELSE \E teams \in Draws(Users(queue)) :
            Reads(h, [op |-> IF drawn THEN "undo" ELSE "deal", gone |-> {},
                     blue |-> teams.blue, red |-> teams.red])
  /\ UNCHANGED <<left, crossed>>

\* The teams of the draw before are undone even when the queue was short of a new one.
undone(h) ==
  /\ req[h].op \in {"undo", "clear"}
  /\ queue' = [i \in DOMAIN queue |-> [queue[i] EXCEPT !.side = Free]]
  /\ req' = [req EXCEPT ![h] = IF @.op = "undo" THEN [@ EXCEPT !.op = "deal"] ELSE Idle]
  /\ crossed' = (crossed \/ Starting)
  /\ UNCHANGED <<status, perTeam, format, winner, left>>

dealt(h) ==
  /\ Writes(h, "deal") /\ status # "gone"
  /\ queue' = InTeams(queue, req[h])
  /\ crossed' = (crossed \/ Starting)
  /\ UNCHANGED <<status, perTeam, format, winner, left>>

Complete(q) == \A side \in Sides : Cardinality(Team(q, side)) >= perTeam

\* Mutant: a queue that is full again is taken for teams that are.
startIfFull(h) ==
  /\ status = "WAITING" /\ Len(queue) >= maxPlayers
  /\ \E i \in DOMAIN queue : queue[i].side # Free
  /\ Reads(h, [Idle EXCEPT !.op = "start"])
  /\ UNCHANGED <<left, crossed>>

\* Without a draw a free match is split in the order of the queue.
start(h) ==
  /\ status = "WAITING" /\ Len(queue) >= maxPlayers
  /\ \/ Complete(queue) /\ Reads(h, [Idle EXCEPT !.op = "start"])
     \/ /\ ~Complete(queue) /\ format = "LIVRE"
        /\ Reads(h, [op |-> "split", gone |-> {},
                     blue |-> Users(SubSeq(queue, 1, perTeam)),
                     red  |-> Users(SubSeq(queue, perTeam + 1, Len(queue)))])
  /\ UNCHANGED <<left, crossed>>

\* STARTED is written whatever has become of the queue, or of the match, since.
started(h) ==
  /\ status # "gone" /\ status' = "STARTED"
  /\ \/ Writes(h, "start") /\ UNCHANGED queue
     \/ Writes(h, "split") /\ queue' = InTeams(queue, req[h])
  /\ UNCHANGED <<perTeam, format, winner, left, crossed>>

finish(h) ==
  status = "STARTED" /\ Reads(h, [Idle EXCEPT !.op = "finish"]) /\ UNCHANGED <<left, crossed>>

finished(h, side) ==
  /\ Writes(h, "finish") /\ status # "gone" /\ status' = "FINISHED" /\ winner' = side
  /\ UNCHANGED <<perTeam, format, queue, left, crossed>>

cancel(h) ==
  /\ status \in {"WAITING", "STARTED"} /\ Reads(h, [Idle EXCEPT !.op = "cancel"])
  /\ UNCHANGED <<left, crossed>>

cancelled(h) ==
  /\ Writes(h, "cancel") /\ status # "gone" /\ status' = "EXPIRED"
  /\ UNCHANGED <<perTeam, format, queue, winner, left, crossed>>

\* What was called off, and what is an hour old and not finished, goes with its queue.
cleanExpiredLobbies(h) ==
  /\ status \in {"WAITING", "STARTED", "EXPIRED"} /\ Reads(h, [Idle EXCEPT !.op = "clean"])
  /\ UNCHANGED <<left, crossed>>

\* Every write on a match that is gone fails.
Deleted ==
  /\ status' = "gone" /\ queue' = <<>> /\ req' = [h \in Active |-> Idle]
  /\ UNCHANGED <<perTeam, format, winner, left, crossed>>

cleaned(h) == req[h].op = "clean" /\ Deleted

remove == status # "none" /\ status # "gone" /\ Deleted

\* A match already played: both teams come with it.
create(f, teams) ==
  /\ status = "none" /\ status' = "FINISHED" /\ format' = f
  /\ queue' = SetToSeq({[user |-> u, side |-> "blue"] : u \in teams[1]}
                         \cup {[user |-> u, side |-> "red"] : u \in teams[2]})
  /\ UNCHANGED <<perTeam, winner, left, req, crossed>>

\* The administrator's corrections.
update(side) ==
  /\ status # "none" /\ status # "gone" /\ winner' = side
  /\ UNCHANGED <<status, perTeam, format, queue, left, req, crossed>>
-----------------------------------------------------------------------------
Init == /\ perTeam \in DOMAIN Handlers
        /\ status = "none" /\ format = "LIVRE" /\ queue = <<>> /\ winner = Free /\ left = 0
        /\ req = [h \in Active |-> Idle] /\ crossed = FALSE

Next ==
  \/ \E f \in Formats : createOnline(f)
  \/ \E u \in Players : join(u)
  \/ \E h \in Active, u \in Players : leave(h, u) \/ kickPlayer(h, u)
  \/ \E h \in Active : rowDeleted(h)
  \/ \E h \in Active : draw(h) \/ undone(h) \/ dealt(h)
  \/ \E h \in Active : start(h) \/ started(h)
  \/ \E h \in Active, side \in Sides : finish(h) \/ finished(h, side)
  \/ \E h \in Active : cancel(h) \/ cancelled(h) \/ cleanExpiredLobbies(h) \/ cleaned(h)
  \/ \E f \in Formats, b, r \in kSubset(perTeam, Players) : b \cap r = {} /\ create(f, <<b, r>>)
  \/ \E side \in Sides : update(side)
  \/ remove
-----------------------------------------------------------------------------
(* Properties                                                                    *)

\* Whatever came and went since the draw, a match is on only between two whole teams,
\* unless it was crossed: a player whose leaving had been let through before went, or a
\* draw wrote, once a start had read the match.
TeamsAreWhole ==
  status = "STARTED" /\ ~crossed => \A side \in Sides : Cardinality(Team(queue, side)) = perTeam

\* Balanced teams are apart by no more than the score of one player (while nobody's is
\* below zero: who loses more than he wins makes the lighter team lighter still).
TeamsAreBalanced ==
  LET blue == Strength(Team(queue, "blue"))
      red  == Strength(Team(queue, "red"))
  IN status = "STARTED" /\ ~crossed /\ format = "BALANCEADO" /\ (\A u \in Users(queue) : Score[u] >= 0) =>
       \E best \in Users(queue) : blue - red <= Score[best] /\ red - blue <= Score[best]
=============================================================================
