-------------------------------- MODULE Tournament -------------------------------
(* A tournament from its start to its champion: tournament-result.service.ts,    *)
(* bracket-advance.ts, team-replacement.ts and start and replaceTeamEaClub of    *)
(* tournament.service.ts.  Teams are their seeds.  PENDING, READY, AWAITING_PROOF *)
(* and DISPUTED, the OPEN_STATUSES, are here PENDING (a team is missing) and      *)
(* READY: what happens to an open match is in TournamentMatch.                    *)
(* Each handler checks what it read before its transaction.  Between the two       *)
(* halves of one handler others may commit, if its kind is in setup.stale; it then  *)
(* writes what it had read.  Else, the two halves are one step.                     *)
EXTENDS Bracket, FiniteSetsExt, TLC

CONSTANTS Setups,      \* the tournaments that are started, see setup
          Scores,      \* results of a played match, <<home, away>>
          MaxChanges   \* bound on corrections and replacements

VARIABLES
  setup,     \* a plan with allowDraws, labMode and stale, kinds of handlers
  status,    \* REGISTRATION, RUNNING, FINISHED
  matches,   \* [key -> match row]
  table,     \* [team -> standings columns of the team row]
  champion,  \* championTeamId, 0 while there is none
  desk,      \* what a handler has read, or NoRead
  changes,   \* corrections and replacements so far
  overtaken  \* history: the kinds of handlers that wrote what they had read when it
             \* was so no longer

vars == <<setup, status, matches, table, champion, desk, changes, overtaken>>

NoRead  == [kind |-> "none", key |-> <<>>, row |-> <<>>]
Decided == {"FINISHED", "WALKOVER"}
KNOCKOUT_PHASES == {"WINNERS", "LOSERS", "GRAND_FINAL", "THIRD_PLACE"}
isKnockout(key) == key[1] \in KNOCKOUT_PHASES
Teams == 1 .. setup.teamCount

EMPTY_STANDINGS == [played |-> 0, wins |-> 0, scoreFor |-> 0, scoreAgainst |-> 0, points |-> 0]
NewTeam(group)  == [group |-> group, eliminated |-> FALSE] @@ EMPTY_STANDINGS

Points(scored, conceded) == IF scored > conceded THEN 3 ELSE IF scored = conceded THEN 1 ELSE 0

\* The rows a transaction has written so far are a record t, taken in by Commit.
Tables    == [matches |-> matches, table |-> table, status |-> status, champion |-> champion]
Commit(t) == /\ matches' = t.matches /\ table' = t.table
             /\ status' = t.status /\ champion' = t.champion

IsOpen(t, k)  == t.matches[k].status \notin Decided
HasBoth(row)  == row.home # 0 /\ row.away # 0
WinnerOf(row, score) ==
  IF score[1] = score[2] THEN 0 ELSE IF score[1] > score[2] THEN row.home ELSE row.away
LoserOf(row, score) ==
  IF score[1] = score[2] THEN 0 ELSE IF score[1] > score[2] THEN row.away ELSE row.home
-----------------------------------------------------------------------------
(* The standings                                                                 *)
Shifted(row, scored, conceded, sign) ==
  [row EXCEPT !.played = @ + sign,
              !.wins = @ + (IF scored > conceded THEN sign ELSE 0),
              !.scoreFor = @ + sign * scored,
              !.scoreAgainst = @ + sign * conceded,
              !.points = @ + sign * Points(scored, conceded)]

applyTeamStats(t, k, team, scored, conceded) ==
  IF isKnockout(k) THEN t ELSE [t EXCEPT !.table[team] = Shifted(@, scored, conceded, 1)]

\* Mutant: the goals a result had counted stay in the table.
reverseTeamStatsKeepsGoals(t, team, scored, conceded) ==
  [t EXCEPT !.table[team] = [Shifted(@, scored, conceded, -1) EXCEPT !.scoreFor = @ + scored]]

reverseTeamStats(t, team, scored, conceded) ==
  [t EXCEPT !.table[team] = Shifted(@, scored, conceded, -1)]

Apply(t, k, row, score) ==
  applyTeamStats(applyTeamStats(t, k, row.home, score[1], score[2]), k, row.away, score[2], score[1])
Unapply(t, row, score) ==
  reverseTeamStats(reverseTeamStats(t, row.home, score[1], score[2]), row.away, score[2], score[1])
-----------------------------------------------------------------------------
(* The bracket                                                                   *)
placeTeam(t, to, team) ==
  LET row  == t.matches[to.key]
      seated == IF to.slot = "HOME" THEN [row EXCEPT !.home = team] ELSE [row EXCEPT !.away = team]
  IN [t EXCEPT !.matches[to.key] =
        IF HasBoth(seated) /\ seated.status = "PENDING" THEN [seated EXCEPT !.status = "READY"] ELSE seated]

propagate(t, k, winner, loser) ==
  LET row == t.matches[k]
      won == IF row.winnerTo = NoRef THEN t ELSE placeTeam(t, row.winnerTo, winner)
  IN IF loser = 0 THEN won
     ELSE IF row.loserTo # NoRef THEN placeTeam(won, row.loserTo, loser)
     ELSE IF isKnockout(k) /\ k[1] # "THIRD_PLACE" THEN [won EXCEPT !.table[loser].eliminated = TRUE]
     ELSE won

\* Mutant: a slot nobody was ever to come to counts as one somebody will.
SlotIsDeadIfFed(t, k, slot) ==
  LET to == [key |-> k, slot |-> slot]
      feeders == {f \in DOMAIN t.matches : to \in {t.matches[f].winnerTo, t.matches[f].loserTo}}
  IN feeders # {} /\ \A f \in feeders : t.matches[f].status \in Decided

\* No match can still send anybody to this slot.
SlotIsDead(t, k, slot) ==
  LET to == [key |-> k, slot |-> slot]
  IN \A f \in DOMAIN t.matches :
       to \in {t.matches[f].winnerTo, t.matches[f].loserTo} => t.matches[f].status \in Decided

EmptySlot(row) == IF row.home # 0 THEN "AWAY" ELSE "HOME"
SoleTeam(row)  == IF row.home # 0 THEN row.home ELSE row.away
IsHalf(row)    == row.status = "PENDING" /\ (row.home = 0) # (row.away = 0)

\* One pass over the knockout matches that were half empty when it began.
WalkoverPass(t) ==
  LET Earlier(k, l) == k[2] < l[2] \/ (k[2] = l[2] /\ k[3] < l[3])
      halves == SetToSortSeq({k \in DOMAIN t.matches : isKnockout(k) /\ IsHalf(t.matches[k])}, Earlier)
      Advance(u, k) ==
        LET row == t.matches[k] IN
        IF ~SlotIsDead(u, k, EmptySlot(row)) THEN u
        ELSE propagate([u EXCEPT !.matches[k].status = "WALKOVER", !.matches[k].winner = SoleTeam(row)],
                       k, SoleTeam(row), 0)
  IN FoldLeft(Advance, t, halves)

\* Sixteen passes at most; one that advances nobody is the last.
resolveWalkovers(t) ==
  LET After[pass \in 0..16] ==
        IF pass = 0 THEN t
        ELSE LET u == After[pass - 1]
             IN IF \E k \in DOMAIN u.matches : isKnockout(k) /\ IsHalf(u.matches[k])
                                               /\ SlotIsDead(u, k, EmptySlot(u.matches[k]))
                THEN WalkoverPass(u) ELSE u
  IN After[16]
-----------------------------------------------------------------------------
(* What follows a result                                                         *)
GroupTables(t) ==
  [g \in 1 .. setup.groupCount |-> standingsOf(t.table, {team \in Teams : t.table[team].group = g})]
Published(t) == \E k \in DOMAIN t.matches : k[1] # "GROUP" /\ (t.matches[k].home # 0 \/ t.matches[k].away # 0)

GroupsAreOpen(t) == \E k \in DOMAIN t.matches : k[1] = "GROUP" /\ IsOpen(t, k)
Openers(t) == {k \in DOMAIN t.matches : k[1] = "WINNERS" /\ k[2] = 1}

qualifyFromGroups(t, force) ==
  IF \/ setup.labMode /\ ~force
     \/ setup.groupCount = 0 \/ GroupsAreOpen(t)
     \/ \E k \in Openers(t) : t.matches[k].home # 0 \/ t.matches[k].away # 0
  THEN t
  ELSE LET q     == orderGroupQualifiers(GroupTables(t), setup.advancePerGroup)
           slots == seedSlots(bracketSizeFor(Len(q)))
           Sit(u, k, slot, seed) ==
             IF seed > Len(q) THEN u ELSE placeTeam(u, [key |-> k, slot |-> slot], q[seed].team)
           Seat(k, u) == Sit(Sit(u, k, "HOME", slots[2 * k[3] + 1]), k, "AWAY", slots[2 * k[3] + 2])
           seated == FoldSet(Seat, t, Openers(t))
           out    == Teams \ {q[i].team : i \in DOMAIN q}
       IN resolveWalkovers(
            [seated EXCEPT !.table = [team \in Teams |->
               IF team \in out THEN [@[team] EXCEPT !.eliminated = TRUE] ELSE @[team]]])

NewMatch(plan, home, away) ==
  [home |-> home, away |-> away, winnerTo |-> plan.winnerTo, loserTo |-> plan.loserTo,
   status |-> IF home # 0 /\ away # 0 THEN "READY" ELSE "PENDING", score |-> <<>>, winner |-> 0]

\* The next game of a series is created when every game there is has been decided.
advanceSeries(t) ==
  LET games   == [i \in 1 .. Cardinality(DOMAIN t.matches) |-> t.matches[<<"SERIES", i, 0>>].winner]
      outcome == seriesOutcome(setup.bestOf, Teams, games)
      plan    == buildSeriesGame(outcome.nextGame)
  IN IF \/ setup.format # "SERIES" \/ outcome.nextGame = 0
        \/ \E k \in DOMAIN t.matches : IsOpen(t, k)
     THEN t
     ELSE [t EXCEPT !.matches = (plan.key :> NewMatch(plan, plan.home, plan.away)) @@ @]

\* The teams maybeFinish may crown: the winner of the last match, without a bracket the
\* first of the table (the query leaves what its columns do not separate to the database).
Champions(t) ==
  LET Winners(phase) == {k \in DOMAIN t.matches : k[1] = phase /\ t.matches[k].winner # 0}
      final == {k \in Winners("WINNERS") : \A l \in Winners("WINNERS") : l[2] <= k[2]}
      Rank(team) == LET row == t.table[team]
                    IN <<IF setup.format = "SERIES" THEN row.wins ELSE row.points,
                         row.scoreFor, 0 - row.scoreAgainst>>
      Before(u, v) == \E i \in 1..3 : Rank(u)[i] > Rank(v)[i] /\ \A j \in 1 .. i-1 : Rank(u)[j] = Rank(v)[j]
  IN IF Winners("GRAND_FINAL") # {} THEN {t.matches[k].winner : k \in Winners("GRAND_FINAL")}
     ELSE IF final # {} THEN {t.matches[k].winner : k \in final}
     ELSE {team \in Teams : ~ \E u \in Teams : Before(u, team)}

\* Mutant: a tournament waits for its final only.
maybeFinishAtTheFinal(t) ==
  IF \E k \in DOMAIN t.matches : IsOpen(t, k) /\ t.matches[k].winnerTo = NoRef /\ k[1] # "THIRD_PLACE"
  THEN Commit(t)
  ELSE \E c \in Champions(t) :
         Commit([t EXCEPT !.status = "FINISHED", !.champion = c,
                          !.table = [team \in Teams |-> [@[team] EXCEPT !.eliminated = team # c]]])

\* The last step of a transaction: with no open match left the tournament ends, and only
\* its champion is not eliminated.
maybeFinish(t) ==
  IF \E k \in DOMAIN t.matches : IsOpen(t, k) THEN Commit(t)
  ELSE \E c \in Champions(t) :
         Commit([t EXCEPT !.status = "FINISHED", !.champion = c,
                          !.table = [team \in Teams |-> [@[team] EXCEPT !.eliminated = team # c]]])

\* settle and walkover from the claim of the match on.
Settle(t, k, row, score, newStatus) ==
  LET winner  == WinnerOf(row, score)
      written == [t EXCEPT !.matches[k] =
                    [@ EXCEPT !.status = newStatus, !.score = score, !.winner = winner]]
      next    == advanceSeries(Apply(written, k, row, score))
      moved   == IF winner = 0 THEN next ELSE propagate(next, k, winner, LoserOf(row, score))
  IN maybeFinish(qualifyFromGroups(moved, FALSE))
-----------------------------------------------------------------------------
(* The handlers                                                                  *)
planFor(s) ==
  LET qualifiers == s.groupCount * s.advancePerGroup
      Unseeded(x) == [x EXCEPT !.home = 0, !.away = 0]
  IN CASE s.format = "SINGLE_ELIMINATION" -> buildSingleElimination(s.teamCount, s.thirdPlace)
       [] s.format = "DOUBLE_ELIMINATION" -> buildDoubleElimination(s.teamCount)
       [] s.format = "SERIES"             -> {buildSeriesGame(1)}
       [] s.format = "ROUND_ROBIN"        -> buildRoundRobin(s.teamCount, s.legs, "LEAGUE", 0, 0)
       [] s.format = "GROUPS_KNOCKOUT"    ->
            buildGroupStage(s.groupCount, s.teamCount \div s.groupCount, s.legs)
              \cup {Unseeded(x) : x \in buildSingleElimination(qualifiers, s.thirdPlace)}

\* start: the teams get a fresh row, the plan its matches, the byes are played out.
Start(s) ==
  LET plan   == planFor(s)
      groups == distributeIntoGroups(s.teamCount, s.groupCount)
      TeamAt(x, i) == IF x.group # 0 /\ i # 0 THEN groups[x.group][i]
                      ELSE IF i > s.teamCount THEN 0 ELSE i
      PlanOf(k) == CHOOSE x \in plan : x.key = k
      Row(k)   == LET x == PlanOf(k) IN NewMatch(x, TeamAt(x, x.home), TeamAt(x, x.away))
      GroupOf(team) == IF s.groupCount = 0 THEN 0
                       ELSE CHOOSE g \in 1..s.groupCount : team \in ToSet(groups[g])
  IN /\ status = "REGISTRATION"
     /\ planIsPlayable(s)
     /\ setup' = s
     /\ Commit(resolveWalkovers(
          [matches  |-> [k \in {x.key : x \in plan} |-> Row(k)],
           table    |-> [team \in 1..s.teamCount |-> NewTeam(GroupOf(team))],
           status   |-> "RUNNING",
           champion |-> 0]))
     /\ UNCHANGED <<desk, changes, overtaken>>

ScoreIsValid(k, score) ==
  score[1] = score[2] => ~isKnockout(k) /\ k[1] # "SERIES" /\ setup.allowDraws

\* What a handler finds before its transaction: an open match with its teams; a result and
\* no knockout that it seeds (cancelWalkover counts neither groups nor league as one), which
\* a forfeit looks for later; a laboratory whose groups are over, with no knockout yet or one
\* where nothing has happened; a tournament that is on with no knockout match decided.
HasResult(row) == row.status \in Decided /\ HasBoth(row) /\ row.score # <<>>
PublishedKnockout == \E k \in DOMAIN matches : /\ k[1] \notin {"GROUP", "LEAGUE"}
                                               /\ matches[k].home # 0 \/ matches[k].away # 0
Undecided(phases) ==
  \A k \in DOMAIN matches :
    k[1] \notin phases => IsOpen(Tables, k) /\ matches[k].score = <<>> /\ matches[k].winner = 0

RowOf(k) == IF k = <<>> THEN <<>> ELSE matches[k]
Passes(kind, k) ==
  /\ status # "REGISTRATION"
  /\ kind = "settle"  => IsOpen(Tables, k) /\ HasBoth(matches[k])
  /\ kind = "correct" => HasResult(matches[k]) /\ ~PublishedKnockout
  /\ kind = "forfeit" => HasResult(matches[k])
  /\ kind \in {"build", "rebuild"} => setup.labMode /\ ~GroupsAreOpen(Tables)
  /\ kind = "build"   => ~Published(Tables)
  /\ kind = "rebuild" => Undecided({"GROUP"})
  /\ kind = "replace" => status = "RUNNING" /\ Undecided({"GROUP", "LEAGUE"})

Read(kind, k) ==
  /\ desk = NoRead /\ Passes(kind, k) /\ kind \in setup.stale
  /\ desk' = [kind |-> kind, key |-> k, row |-> RowOf(k)]
  /\ UNCHANGED <<setup, status, matches, table, champion, changes, overtaken>>

\* The claim of a settlement, the call to EA or the transaction may fail.
Fail == /\ desk # NoRead /\ desk' = NoRead
        /\ UNCHANGED <<setup, status, matches, table, champion, changes, overtaken>>

\* A handler goes on from what is so, or from what it had read.
From(kind, k, row) ==
  /\ UNCHANGED setup
  /\ \/ Passes(kind, k) /\ row = RowOf(k) /\ UNCHANGED <<desk, overtaken>>
     \/ /\ desk = [kind |-> kind, key |-> k, row |-> row] /\ desk' = NoRead
        /\ overtaken' = IF Passes(kind, k) /\ row = RowOf(k) THEN overtaken ELSE overtaken \cup {kind}
Rows(k) == {RowOf(k), desk.row}

\* settle: only that the match is open is looked at again, by its claim.
Report(k, score) == \E row \in Rows(k) :
  /\ From("settle", k, row) /\ IsOpen(Tables, k) /\ ScoreIsValid(k, score)
  /\ Settle(Tables, k, row, score, "FINISHED")
  /\ UNCHANGED changes

\* walkover of an open match, three to nil unless a score is given.
Walkover(k, score) == \E row \in Rows(k) :
  /\ From("settle", k, row) /\ IsOpen(Tables, k) /\ score[1] # score[2]
  /\ Settle(Tables, k, row, score, "WALKOVER")
  /\ UNCHANGED changes

Counted == changes < MaxChanges /\ changes' = changes + 1

Corrected(k, row, score, newStatus) ==
  [Apply(Unapply(Tables, row, row.score), k, row, score) EXCEPT
     !.matches[k].status = newStatus, !.matches[k].score = score, !.matches[k].winner = WinnerOf(row, score)]

\* correctLabGroupResult
CorrectResult(k, score) == \E row \in Rows(k) :
  /\ From("correct", k, row) /\ Counted /\ setup.labMode /\ k[1] = "GROUP"
  /\ score[1] = score[2] => row.status # "WALKOVER" /\ setup.allowDraws
  /\ Commit(Corrected(k, row, score, row.status))

\* cancelWalkover
CancelWalkover(k, score) == \E row \in Rows(k) :
  /\ From("correct", k, row) /\ Counted /\ row.status = "WALKOVER" /\ k[1] \in {"GROUP", "LEAGUE"}
  /\ score[1] = score[2] => setup.allowDraws
  /\ Commit(Corrected(k, row, score, "FINISHED"))

\* discardInterruptedLabEaResult
DiscardResult(k) == \E row \in Rows(k) :
  /\ From("correct", k, row) /\ Counted /\ setup.labMode /\ k[1] = "GROUP"
  /\ Commit([Unapply(Tables, row, row.score) EXCEPT
               !.matches[k].status = "READY", !.matches[k].score = <<>>, !.matches[k].winner = 0])

\* walkover of a decided group match: what it had counted is taken back first.
CorrectToWalkover(k, score) == \E row \in Rows(k) :
  /\ From("forfeit", k, row) /\ Counted /\ setup.labMode /\ k[1] = "GROUP"
  /\ score[1] # score[2] /\ ~Published(Tables)
  /\ Settle(Unapply(Tables, row, row.score), k, row, score, "WALKOVER")

\* buildLabKnockout; rebuildLabKnockout empties the knockout first, while nothing happened in it.
Emptied(t) ==
  [t EXCEPT !.matches = [k \in DOMAIN @ |-> IF k[1] = "GROUP" THEN @[k]
                                            ELSE [@[k] EXCEPT !.home = 0, !.away = 0, !.status = "PENDING"]],
            !.table = [team \in DOMAIN @ |-> [@[team] EXCEPT !.eliminated = FALSE]]]

BuildLabKnockout ==
  /\ From("build", <<>>, <<>>) /\ UNCHANGED changes
  /\ Commit(qualifyFromGroups(Tables, TRUE))

RebuildLabKnockout ==
  /\ From("rebuild", <<>>, <<>>) /\ Counted
  /\ Commit(qualifyFromGroups(Emptied(Tables), TRUE))

\* What the opponent of a replaced team had from this match is taken from its row.
GivenBack(t, k, team) ==
  LET row == t.matches[k]
  IN IF isKnockout(k) \/ row.score = <<>> THEN t
     ELSE IF row.home = team THEN reverseTeamStats(t, row.away, row.score[2], row.score[1])
     ELSE reverseTeamStats(t, row.home, row.score[1], row.score[2])

\* replaceTeamEaClub: another club takes the place of the team, whose matches are to be
\* played again; with results cleared in a group the knockout is emptied.
ReplaceTeam(team) ==
  LET own     == {k \in DOMAIN matches : team \in {matches[k].home, matches[k].away}}
      settled == {k \in own : matches[k].status \in Decided /\ matches[k].score # <<>>}
      back    == FoldSet(LAMBDA k, t : GivenBack(t, k, team), Tables, settled)
      Clear(row) == [row EXCEPT !.status = IF HasBoth(row) THEN "READY" ELSE "PENDING",
                                !.score = <<>>, !.winner = 0]
      cleared == [back EXCEPT !.matches = [k \in DOMAIN matches |->
                    IF k \in own THEN Clear(matches[k]) ELSE matches[k]]]
      opened  == IF setup.groupCount > 0 /\ settled # {} THEN Emptied(cleared) ELSE cleared
  IN /\ From("replace", <<>>, <<>>) /\ Counted
     /\ Commit([opened EXCEPT !.table[team] = NewTeam(@.group)])
-----------------------------------------------------------------------------
Init == /\ setup = [teamCount |-> 0, format |-> "NONE", groupCount |-> 0]
        /\ status = "REGISTRATION" /\ matches = <<>> /\ table = <<>> /\ champion = 0
        /\ desk = NoRead /\ changes = 0 /\ overtaken = {}

Forfeits == {<<3, 0>>, <<0, 3>>}

Next ==
  \/ \E s \in Setups : Start(s)
  \/ \E k \in DOMAIN matches, score \in Scores : Report(k, score)
  \/ \E k \in DOMAIN matches, score \in Forfeits : Walkover(k, score)
  \/ \E k \in DOMAIN matches, kind \in {"settle", "correct", "forfeit"} : Read(kind, k)
  \/ \E kind \in {"build", "rebuild", "replace"} : Read(kind, <<>>)
  \/ Fail
  \/ \E k \in DOMAIN matches, score \in Scores : CorrectResult(k, score)
  \/ \E k \in DOMAIN matches, score \in Scores : CancelWalkover(k, score)
  \/ \E k \in DOMAIN matches : DiscardResult(k)
  \/ \E k \in DOMAIN matches, score \in Forfeits : CorrectToWalkover(k, score)
  \/ BuildLabKnockout
  \/ RebuildLabKnockout
  \/ \E team \in DOMAIN table : ReplaceTeam(team)

Spec == Init /\ [][Next]_vars
-----------------------------------------------------------------------------
(* Properties                                                                    *)

\* The columns of a team add up its decided matches of the groups, the league or the series,
\* also when a settlement was overtaken by a replacement; two corrections that overlap may
\* take the same result away twice.
TableIsTheResults ==
  status # "REGISTRATION" /\ overtaken \cap {"correct", "forfeit"} = {} =>
  LET Results(team) == {k \in DOMAIN matches : /\ ~isKnockout(k) /\ matches[k].status \in Decided
                                               /\ team \in {matches[k].home, matches[k].away}}
      For(k, team)     == matches[k].score[IF matches[k].home = team THEN 1 ELSE 2]
      Against(k, team) == matches[k].score[IF matches[k].home = team THEN 2 ELSE 1]
      Sum(team, Value(_)) == FoldSet(LAMBDA k, n : n + Value(k), 0, Results(team))
  IN \A team \in DOMAIN table :
       /\ table[team].played = Cardinality(Results(team))
       /\ table[team].scoreFor = Sum(team, LAMBDA k : For(k, team))
       /\ table[team].scoreAgainst = Sum(team, LAMBDA k : Against(k, team))
       /\ table[team].points = Sum(team, LAMBDA k : Points(For(k, team), Against(k, team)))

\* Who stands in a knockout match came there by the results: from the tables of its groups,
\* or as the winner (the loser) of the match that leads to its slot.  A handler that was
\* overtaken may break it: a settlement decides a match that was emptied meanwhile, a
\* replacement clears one whose winner has gone on.
BracketFollowsResults ==
  status # "REGISTRATION" /\ overtaken \subseteq {"build"} =>
  LET Occupant(to) == IF to.slot = "HOME" THEN matches[to.key].home ELSE matches[to.key].away
      Fallen(row)  == IF row.home = row.winner THEN row.away ELSE row.home
  IN /\ \A k \in DOMAIN matches :
          LET row == matches[k] IN
          /\ row.winnerTo # NoRef => Occupant(row.winnerTo) = row.winner
          /\ row.loserTo # NoRef =>
               Occupant(row.loserTo) = IF row.winner = 0 THEN 0 ELSE Fallen(row)
     /\ (setup.groupCount > 0 /\ \E k \in Openers(Tables) : matches[k].home # 0) =>
          LET q == orderGroupQualifiers(GroupTables(Tables), setup.advancePerGroup)
          IN /\ ~GroupsAreOpen(Tables)
             /\ UNION {{matches[k].home, matches[k].away} : k \in Openers(Tables)} \ {0}
                  = {q[i].team : i \in DOMAIN q}

\* Nobody is out of the tournament who still has a match to play in it (with the same
\* exception).
TheEliminatedAreDone ==
  overtaken \subseteq {"build"} =>
  \A team \in DOMAIN table : table[team].eliminated =>
    \A k \in DOMAIN matches : team \in {matches[k].home, matches[k].away} => ~IsOpen(Tables, k)

\* "Avanca sozinho quem ficou com o adversario impossivel": a running tournament has a match
\* that can be played, or the knockout of a laboratory is still to be built.  That holds under
\* overtaken handlers too, but for a correction of a match that was cleared: it may be the
\* last of the groups, and corrections do not seat the knockout.
TournamentGoesOn ==
  status = "RUNNING" /\ "correct" \notin overtaken =>
    \/ \E k \in DOMAIN matches : IsOpen(Tables, k) /\ HasBoth(matches[k])
    \/ setup.labMode /\ ~Published(Tables)

\* The champion of a tournament that ends has won its last match, the most games of its
\* series or has the most points, and is the only team left.
CrownsTheWinner ==
  status' = "FINISHED" /\ status # "FINISHED" =>
    LET c == champion'
        WinsOf(team) == Cardinality({k \in DOMAIN matches' : matches'[k].winner = team})
    IN /\ \A k \in DOMAIN matches' : matches'[k].status \in Decided
       /\ \A team \in Teams : table'[team].eliminated <=> team # c
       /\ \A k \in DOMAIN matches' : isKnockout(k) /\ k[1] # "THIRD_PLACE" /\ matches'[k].winnerTo = NoRef
                                     => matches'[k].winner = c
       /\ setup.format = "SERIES" => WinsOf(c) = seriesWinsNeeded(setup.bestOf)
       /\ setup.format = "ROUND_ROBIN" => \A team \in Teams : table'[team].points <= table'[c].points

ChampionHasWon == [][CrownsTheWinner]_vars
=============================================================================
