----------------------------- MODULE PostMatch ------------------------------
(***************************************************************************)
(* What follows a finished custom match (engagement/post-match.service.ts, *)
(* engagement/achievement.service.ts): the achievements of its players are *)
(* checked one after the other while its ballots wait for their votes.     *)
(* Matches of the same players may end one on the heels of the other, and  *)
(* their flows run at the same time.                                       *)
(***************************************************************************)
EXTENDS Integers, Sequences, FiniteSets

CONSTANTS Blue, Red,    \* the two teams: their players who have a Discord account
          MaxMatches,
          MaxBallots,   \* match -> ballots that reach their voter
          Goals         \* ACHIEVEMENTS: what each counts and how many it asks

VARIABLES results,      \* the winning teams of the finished matches, in order
          achievements, \* the rows: <<player, type>>
          player,       \* match -> the place of the player whose turn it is to be checked
          reads, todo,  \* ... whether his rows are read, and what is to be unlocked
          announced,    \* ... the achievements it has announced
          failed,       \* ... whether a check or a write has failed
          vote, open,   \* ... its vote, and the ballots that are not back
          tally,        \* ... the votes for each player
          mvp           \* ... mvpUserId

Checking == <<player, reads, todo, announced, failed>>
Voting == <<vote, open, tally, mvp>>
vars == <<results, achievements, player, reads, todo, announced, failed, vote, open, tally, mvp>>

Matches == 1 .. MaxMatches
Players == Blue \o Red
Types == DOMAIN Goals
Nobody == 0

Winners(m) == IF results[m] = "BLUE" THEN Blue ELSE Red
Members(team) == {team[i] : i \in DOMAIN team}

Init == /\ results = <<>> /\ achievements = {}
        /\ player = [m \in Matches |-> 0] /\ reads = [m \in Matches |-> FALSE]
        /\ todo = [m \in Matches |-> {}] /\ announced = todo /\ failed = reads
        /\ vote = [m \in Matches |-> "none"] /\ open = player
        /\ tally = [m \in Matches |-> [p \in Members(Players) |-> 0]]
        /\ mvp = [m \in Matches |-> Nobody]
-----------------------------------------------------------------------------
(* The statistics of a player over the finished matches.                   *)

Won(p, m) == p \in Members(Winners(m))

wins(p) == Cardinality({m \in DOMAIN results : Won(p, m)})
totalGames == Len(results)

\* The matches he won since he last lost.
winStreak(p) == Cardinality({m \in DOMAIN results : \A n \in m .. Len(results) : Won(p, n)})

getPlayerStats(p) == [wins |-> wins(p), totalGames |-> totalGames, winStreak |-> winStreak(p)]

Test(type, stats) == stats[Goals[type].counts] >= Goals[type].asks
-----------------------------------------------------------------------------
(* The flow of match m.                                                    *)

\* finish: the result is written, and onMatchFinished starts.  Ballots go out
\* only when there are two winners to choose from.
onMatchFinished(m) ==
  /\ m = Len(results) + 1
  /\ \E side \in {"BLUE", "RED"}, n \in 0 .. MaxBallots[m] :
       LET winners == IF side = "BLUE" THEN Blue ELSE Red
           ballots == IF Len(winners) < 2 THEN 0 ELSE n IN
       /\ results' = Append(results, side)
       /\ player' = [player EXCEPT ![m] = 1]
       /\ open' = [open EXCEPT ![m] = ballots]
       /\ vote' = [vote EXCEPT ![m] = IF ballots = 0 THEN "over" ELSE "open"]
  /\ UNCHANGED <<achievements, reads, todo, announced, failed, tally, mvp>>

Checks(m) == player[m] \in DOMAIN Players

\* The statistics and the achievements of the next player are read: what is to
\* be unlocked is decided here.
ReadPlayer(m) ==
  /\ Checks(m) /\ ~reads[m]
  /\ LET p == Players[player[m]]
         stats == getPlayerStats(p) IN
     todo' = [todo EXCEPT ![m] =
       {type \in Types : <<p, type>> \notin achievements /\ Test(type, stats)}]
  /\ reads' = [reads EXCEPT ![m] = TRUE]
  /\ UNCHANGED <<results, achievements, player, announced, failed, Voting>>

NextPlayer(m) == /\ player' = [player EXCEPT ![m] = @ + 1]
                 /\ reads' = [reads EXCEPT ![m] = FALSE]

\* Mutant: a row that is there already counts as unlocked now.
UnlockedAnyway(row) == TRUE

\* The unique key of the table refuses the row another flow wrote meanwhile.
Unlocks(row) == row \notin achievements

\* The next of his achievements is written, and announced if it was written.
checkAndUnlock(m) ==
  /\ Checks(m) /\ reads[m]
  /\ \/ /\ todo[m] = {} /\ NextPlayer(m)
        /\ UNCHANGED <<achievements, todo, announced>>
     \/ \E type \in todo[m] :
          LET row == <<Players[player[m]], type>> IN
          /\ achievements' = achievements \cup {row}
          /\ todo' = [todo EXCEPT ![m] = @ \ {type}]
          /\ announced' = [announced EXCEPT ![m] = IF Unlocks(row) THEN @ \cup {row} ELSE @]
          /\ UNCHANGED <<player, reads>>
  /\ UNCHANGED <<results, failed, Voting>>

\* A write that fails for any other reason is taken for one that was there already.
CreateFails(m) ==
  /\ Checks(m) /\ reads[m]
  /\ \E type \in todo[m] : todo' = [todo EXCEPT ![m] = @ \ {type}]
  /\ failed' = [failed EXCEPT ![m] = TRUE]
  /\ UNCHANGED <<results, achievements, player, reads, announced, Voting>>

\* The reads of a player fail: the flow goes on with the next one.
CheckFails(m) ==
  /\ Checks(m) /\ ~reads[m] /\ NextPlayer(m)
  /\ failed' = [failed EXCEPT ![m] = TRUE]
  /\ UNCHANGED <<results, achievements, todo, announced, Voting>>

\* A ballot comes back with a vote for a winner, or its time is over.  Who votes
\* twice before his ballot is closed has voted for the last one he chose.
Vote(m) ==
  /\ vote[m] = "open" /\ open[m] > 0
  /\ open' = [open EXCEPT ![m] = @ - 1]
  /\ \/ \E p \in Members(Winners(m)) : tally' = [tally EXCEPT ![m][p] = @ + 1]
     \/ UNCHANGED tally
  /\ UNCHANGED <<results, achievements, Checking, vote, mvp>>

\* The first of the tally in its order: most votes, of equals the first voted.
MostVotes(votes, p) == votes[p] > 0 /\ \A q \in DOMAIN votes : votes[p] >= votes[q]

\* runMvpVote: every ballot is back, the tally is made, and the MVP written.
runMvpVote(m) ==
  /\ vote[m] = "open" /\ open[m] = 0
  /\ vote' = [vote EXCEPT ![m] = "over"]
  /\ \/ \E p \in Members(Players) : MostVotes(tally[m], p) /\ mvp' = [mvp EXCEPT ![m] = p]
     \/ (\A p \in Members(Players) : tally[m][p] = 0) /\ UNCHANGED mvp
  /\ UNCHANGED <<results, achievements, Checking, open, tally>>

Step(m) == \/ onMatchFinished(m) \/ ReadPlayer(m) \/ checkAndUnlock(m) \/ CreateFails(m)
           \/ CheckFails(m) \/ Vote(m) \/ runMvpVote(m)

Next == \E m \in Matches : Step(m)
-----------------------------------------------------------------------------
(* Properties.                                                             *)

\* An achievement is announced by one match only, however the flows of two
\* matches overlap; the MVP is a winner nobody had more votes than; and when
\* every flow is over and no read or write failed, whoever deserves one has it.
HonoursAreEarned ==
  /\ \A m, n \in Matches : m # n => announced[m] \cap announced[n] = {}
  /\ \A m \in DOMAIN results :
       mvp[m] # Nobody => /\ mvp[m] \in Members(Winners(m))
                          /\ \A q \in Members(Players) : tally[m][q] <= tally[m][mvp[m]]
  /\ (\A m \in DOMAIN results : ~Checks(m) /\ ~failed[m]) =>
       \A p \in Members(Players), type \in Types :
         results # <<>> /\ Test(type, getPlayerStats(p)) => <<p, type>> \in achievements
=============================================================================
