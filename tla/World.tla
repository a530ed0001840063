------------------------------- MODULE World --------------------------------
(***************************************************************************)
(* The players nobody lined up play too                                    *)
(* (player-catalog/world-simulation.service.ts): once a day a competition  *)
(* of the base plays a round, and form, average and level of its players   *)
(* move (football/development.ts).  Who played how well is drawn           *)
(* (football/match-simulation.ts): here any rating may come.  Ratings are  *)
(* in tenths; the six attributes are one number, the level.                *)
(***************************************************************************)
EXTENDS Integers, Sequences, FiniteSets, SequencesExt

CONSTANTS Squads,       \* team -> its players, strongest first
          LineOf,       \* player -> "GK", "DEF", "MID" or "ATT"
          Age,          \* player -> years, or Unknown
          Ratings,      \* the ratings a player may get
          Quota,        \* line -> how many autoLineup takes first
          LINEUP_SIZE, MIN_SQUAD, MIN_MATCHES,
          Draftable,    \* the players a draft league may take
          MaxRounds, MaxFailures

VARIABLES player,       \* player -> what is known of him
          round,        \* worldRound
          due,          \* whether lastWorldTickAt is a day old
          rostered,     \* the players of a draft league that is on
          job,          \* the round under way
          failures

vars == <<player, round, due, rostered, job, failures>>

Unknown == 0
Teams == DOMAIN Squads
Players == UNION {ToSet(Squads[t]) : t \in Teams}

MAX_FORM == 5
MIN_FORM == -5

NoJob == [pairs |-> <<>>, squads |-> Squads, rows |-> <<>>, on |-> FALSE]

\* worst and best are the extremes of the ratings he has had.
Init == /\ player = [p \in Players |-> [form |-> 0, avg |-> 0, played |-> 0, level |-> 70,
                                        worst |-> 0, best |-> 0]]
        /\ round = 0 /\ due = TRUE /\ rostered = {} /\ failures = 0
        /\ job = NoJob
-----------------------------------------------------------------------------
(* How a player develops.                                                  *)

Least(a, b) == IF a < b THEN a ELSE b
Most(a, b) == IF a > b THEN a ELSE b

\* A good rating pushes the form, a bad one pulls it, the middle fades it out.
FormStep(form, rating) == CASE rating >= 75 -> 2
                            [] rating >= 68 /\ rating < 75 -> 1
                            [] rating <= 50 -> -2
                            [] rating <= 60 /\ rating > 50 -> -1
                            [] OTHER -> IF form > 0 THEN -1 ELSE IF form < 0 THEN 1 ELSE 0

nextForm(form, rating) == Least(MAX_FORM, Most(MIN_FORM, form + FormStep(form, rating)))

Round(n, d) == (2 * n + d) \div (2 * d)

\* Mutant: the new rating counted, the new match not.
ratingAvgOfPlayed(avg, played, rating) ==
  IF played = 0 THEN rating ELSE Round(avg * played + rating, played)

nextRatingAvg(avg, played, rating) ==
  IF played = 0 THEN rating ELSE Round(avg * played + rating, played + 1)

\* The chances, in hundredths, by age.
growthChance(age) == CASE age = Unknown -> 12
                       [] age \in 1 .. 21 -> 30
                       [] age \in 22 .. 26 -> 18
                       [] age \in 27 .. 30 -> 10
                       [] OTHER -> 4

declineChance(age) == CASE age = Unknown -> 0
                        [] age \in 1 .. 27 -> 2
                        [] age \in 28 .. 30 -> 6
                        [] age \in 31 .. 33 -> 16
                        [] OTHER -> 28

\* (rating * 137) % 1: with one decimal in the rating, one of ten values (the code's
\* differs from it by the error of the floating point).
roll(rating) == 10 * ((rating * 7) % 10)

\* One point up or down, after a few matches, for who shines or fades.
attributeChange(p, form, avg, played, rating) ==
  LET shining == avg >= 72 \/ (avg >= 69 /\ form >= 3)
      fading == avg <= 62 \/ (avg <= 65 /\ form <= -3) IN
  CASE played < MIN_MATCHES -> 0
    [] played >= MIN_MATCHES /\ shining /\ roll(rating) < growthChance(Age[p]) -> 1
    [] played >= MIN_MATCHES /\ fading /\ roll(rating) > 100 - declineChance(Age[p]) -> -1
    [] OTHER -> 0

\* What a match makes of the row that was read when the round began: only the
\* number of matches is added to the row as it is now.
progressOf(p, row, rating) ==
  LET avg == nextRatingAvg(row.avg, row.played, rating)
      change == attributeChange(p, row.form, avg, row.played + 1, rating) IN
  [form |-> nextForm(row.form, rating), avg |-> avg, played |-> player[p].played + 1,
   level |-> IF change = 0 THEN player[p].level ELSE Least(99, Most(1, row.level + change)),
   worst |-> IF player[p].played = 0 THEN rating ELSE Least(player[p].worst, rating),
   best |-> Most(player[p].best, rating)]
-----------------------------------------------------------------------------
(* The line-up of a squad nobody lined up.                                 *)

\* Those of a squad who are in S, and the first n, in its order.
Among(squad, S) == FoldLeft(LAMBDA chosen, p : IF p \in S THEN Append(chosen, p) ELSE chosen,
                            <<>>, squad)
Foremost(squad, n) == SubSeq(squad, 1, Least(n, Len(squad)))

\* The strongest of each line up to its quota, lines in their order, then whoever
\* is strongest.
take(squad, line) == Foremost(Among(squad, {p \in Players : LineOf[p] = line}), Quota[line])

autoLineup(squad) ==
  LET byLine == take(squad, "GK") \o take(squad, "DEF") \o take(squad, "MID") \o take(squad, "ATT")
      others == Among(squad, Players \ ToSet(byLine)) IN
  Foremost(byLine \o others, LINEUP_SIZE)
-----------------------------------------------------------------------------
(* The round.                                                              *)

\* Who plays in a draft league does not play for his team of the base.
Free(t) == Among(Squads[t], Players \ rostered)

eligible == {t \in Teams : Len(Free(t)) >= MIN_SQUAD}

\* The teams are shuffled and paired; of an odd number one rests.
pairTeams ==
  LET orders == SetToSeqs(eligible)
      Pairs(order) == [i \in 1 .. Len(order) \div 2 |-> <<order[2 * i - 1], order[2 * i]>>] IN
  {Pairs(order) : order \in orders}

\* tick: the round begins with what it reads of the teams and of the rosters.
tick ==
  /\ due /\ ~job.on /\ round < MaxRounds
  /\ \E pairs \in pairTeams :
       job' = [pairs |-> pairs, squads |-> [t \in Teams |-> Free(t)], rows |-> player,
               on |-> TRUE]
  /\ UNCHANGED <<player, round, due, rostered, failures>>

\* What a match may give those who play in it.
ratePlayers(lineup) == [lineup -> Ratings]

\* The performances of both sides.
simulateMatch(home, away) == ratePlayers(ToSet(home) \cup ToSet(away))

\* One match of the round: a transaction of its own.
playMatch ==
  /\ job.on /\ job.pairs # <<>>
  /\ LET Lineup(i) == autoLineup(job.squads[Head(job.pairs)[i]]) IN
     \E rating \in simulateMatch(Lineup(1), Lineup(2)) :
       player' = [p \in Players |-> IF p \in DOMAIN rating
                                    THEN progressOf(p, job.rows[p], rating[p]) ELSE player[p]]
  /\ job' = [job EXCEPT !.pairs = Tail(@)]
  /\ UNCHANGED <<round, due, rostered, failures>>

finishRound ==
  /\ job.on /\ job.pairs = <<>>
  /\ round' = round + 1 /\ due' = FALSE
  /\ job' = NoJob
  /\ UNCHANGED <<player, rostered, failures>>

\* A match fails, or the process restarts: the round is played again from its
\* beginning an hour later, and the matches that were played count again.
roundFails ==
  /\ job.on /\ failures < MaxFailures
  /\ job' = NoJob /\ failures' = failures + 1
  /\ UNCHANGED <<player, round, due, rostered>>

DayPasses == ~due /\ due' = TRUE /\ UNCHANGED <<player, round, rostered, job, failures>>

\* A draft league takes a player, or gives him back.
Drafted == \E p \in Draftable :
             /\ rostered' = IF p \in rostered THEN rostered \ {p} ELSE rostered \cup {p}
             /\ UNCHANGED <<player, round, due, job, failures>>

Next == tick \/ playMatch \/ finishRound \/ roundFails \/ DayPasses \/ Drafted
-----------------------------------------------------------------------------
(* Properties.                                                             *)

Strength(t, p) == CHOOSE i \in DOMAIN Squads[t] : Squads[t][i] = p

\* What is drawn for a player stays explained by how he played, however often a
\* round fails half way and is played again from rows read before: the average is
\* among the ratings he had and the form within its bounds.
RatingsExplain ==
  \A p \in Players : /\ player[p].form \in MIN_FORM .. MAX_FORM
                     /\ player[p].avg \in player[p].worst .. player[p].best

\* The line-up of every squad is whole, has a goalkeeper if the squad has one, and
\* leaves nobody out who is stronger than another of his own line.
StrongestPlay ==
  \A t \in eligible :
    LET squad == Free(t)
        lineup == ToSet(autoLineup(squad)) IN
    /\ Cardinality(lineup) = Least(LINEUP_SIZE, Len(squad))
    /\ \A p \in ToSet(squad) \ lineup :
         /\ LineOf[p] = "GK" => \E q \in lineup : LineOf[q] = "GK"
         /\ \A q \in lineup : LineOf[q] = LineOf[p] => Strength(t, q) < Strength(t, p)

\* Both.
ProgressIsEarned == RatingsExplain /\ StrongestPlay
=============================================================================
