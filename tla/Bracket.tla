---------------------------------- MODULE Bracket --------------------------------
(* The plans a tournament is started from: the builders of bracket.builder.ts.   *)
(* A plan is a set of matches named by their key <<phase, round, position>> (a   *)
(* leg has rounds of its own); seeds, groups and places count from 1, positions  *)
(* from 0.  A seed or an index of 0 is an empty slot of the plan, a seed above   *)
(* the number of teams an empty slot of the tournament (a bye).                   *)
EXTENDS Integers, Sequences, FiniteSets, SequencesExt

NoRef == [key |-> <<>>, slot |-> "NONE"]
ref(phase, round, position, slot) == [key |-> <<phase, round, position>>, slot |-> slot]
Side(position) == IF position % 2 = 0 THEN "HOME" ELSE "AWAY"

Match(key, home, away, winnerTo, loserTo) ==
  [key |-> key, group |-> 0, home |-> home, away |-> away, winnerTo |-> winnerTo, loserTo |-> loserTo]

roundsFor(teamCount) == CHOOSE k \in 1..teamCount : /\ 2^k >= teamCount
                                                    /\ \A j \in 1 .. k-1 : 2^j < teamCount
bracketSizeFor(teamCount) == 2 ^ roundsFor(teamCount)

\* Every seed of the smaller bracket is followed by its mirror.
doubled(slots, k) ==
  [i \in 1 .. 2^k |-> LET seed == slots[(i + 1) \div 2] IN IF i % 2 = 1 THEN seed ELSE 2^k + 1 - seed]

\* The bracket doubles until it has its size.
seedSlots(size) == FoldLeft(doubled, <<1, 2>>, [k \in 1 .. roundsFor(size) - 1 |-> k + 1])

\* The places of a bracket whose round r has Size(r) matches.
Places(rounds, Size(_)) == UNION {{<<r, p>> : p \in 0 .. Size(r) - 1} : r \in 1..rounds}

SeedOf(slots, round, position, offset) == IF round = 1 THEN slots[2 * position + offset] ELSE 0

buildSingleElimination(teamCount, thirdPlace) ==
  LET size  == bracketSizeFor(teamCount)
      total == roundsFor(teamCount)
      slots == seedSlots(size)
      Size(r) == size \div 2^r
      Knockout(r, p) ==
        Match(<<"WINNERS", r, p>>, SeedOf(slots, r, p, 1), SeedOf(slots, r, p, 2),
              IF r < total THEN ref("WINNERS", r + 1, p \div 2, Side(p)) ELSE NoRef,
              IF thirdPlace /\ r = total - 1
                THEN ref("THIRD_PLACE", 1, 0, IF p = 0 THEN "HOME" ELSE "AWAY") ELSE NoRef)
  IN {Knockout(at[1], at[2]) : at \in Places(total, Size)}
       \cup IF thirdPlace /\ total >= 2 THEN {Match(<<"THIRD_PLACE", 1, 0>>, 0, 0, NoRef, NoRef)} ELSE {}

reversePosition(position, size) == IF size > 0 THEN (size - 1 - position + size) % size ELSE 0

loserRoundSize(size, round) == size \div 2 ^ ((round + 1) \div 2 + 1)

buildDoubleElimination(teamCount) ==
  LET size    == bracketSizeFor(teamCount)
      winners == roundsFor(teamCount)
      losers  == 2 * (winners - 1)
      slots   == seedSlots(size)
      Size(r) == size \div 2^r
      LoserSize(r) == loserRoundSize(size, r)
      Upper(r, p) ==
        Match(<<"WINNERS", r, p>>, SeedOf(slots, r, p, 1), SeedOf(slots, r, p, 2),
              IF r < winners THEN ref("WINNERS", r + 1, p \div 2, Side(p))
              ELSE ref("GRAND_FINAL", 1, 0, "HOME"),
              IF losers = 0 THEN NoRef
              ELSE IF r = 1 THEN ref("LOSERS", 1, p \div 2, Side(p))
              ELSE ref("LOSERS", 2 * (r - 1), reversePosition(p, LoserSize(2 * (r - 1))), "AWAY"))
      Lower(r, p) ==
        Match(<<"LOSERS", r, p>>, 0, 0,
              IF r = losers THEN ref("GRAND_FINAL", 1, 0, "AWAY")
              ELSE IF r % 2 = 1 THEN ref("LOSERS", r + 1, p, "HOME")
              ELSE ref("LOSERS", r + 1, p \div 2, Side(p)), NoRef)
  IN {Upper(at[1], at[2]) : at \in Places(winners, Size)}
       \cup {Lower(at[1], at[2]) : at \in Places(losers, LoserSize)}
       \cup {Match(<<"GRAND_FINAL", 1, 0>>, 0, 0, NoRef, NoRef)}

\* The circle method: the first index stays, the others turn one place a round; with an
\* odd number of teams index 0 stands for the one who rests.  `home` and `away` of these
\* matches are places in the group (or the league).
buildRoundRobin(teamCount, legs, phase, group, firstPosition) ==
  LET n == teamCount + (teamCount % 2)
      Index(i) == IF i > teamCount THEN 0 ELSE i
      Lineup(r, i) == IF i = 0 THEN 1 ELSE Index(2 + ((i - 1 - r) % (n - 1)))
      Real(r, i)   == 0 \notin {Lineup(r, i), Lineup(r, n - 1 - i)}
      Position(r, i) == Cardinality({j \in 0 .. i - 1 : Real(r, j)})
      Game(r, i, leg) ==
        LET flip == (r % 2 = 1) # (leg = 2)
            a == Lineup(r, i)
            b == Lineup(r, n - 1 - i)
        IN [Match(<<phase, r + 1 + (leg - 1) * (n - 1), firstPosition + Position(r, i)>>,
                  IF flip THEN b ELSE a, IF flip THEN a ELSE b, NoRef, NoRef) EXCEPT !.group = group]
  IN {Game(at[1], at[2], at[3]) :
        at \in {x \in (0 .. n - 2) \X (0 .. n \div 2 - 1) \X (1..legs) : Real(x[1], x[2])}}

\* Groups of one size (groupPlanIssue); each has a range of positions to itself.
buildGroupStage(groupCount, groupSize, legs) ==
  LET stride == (groupSize + 1) \div 2
  IN UNION {buildRoundRobin(groupSize, legs, "GROUP", g, (g - 1) * stride) : g \in 1..groupCount}

buildSeriesGame(game) ==
  Match(<<"SERIES", game, 0>>, IF game % 2 = 1 THEN 1 ELSE 2, IF game % 2 = 1 THEN 2 ELSE 1, NoRef, NoRef)

\* The teams of each group in seed order, dealt back and forth.
distributeIntoGroups(teamCount, groupCount) ==
  LET Column(seed) == LET c == seed % groupCount
                      IN IF (seed \div groupCount) % 2 = 0 THEN c + 1 ELSE groupCount - c
  IN [g \in 1..groupCount |-> SetToSortSeq({seed \in 1..teamCount : Column(seed - 1) = g}, <)]

groupPlanIsFair(teamCount, groupCount, advancePerGroup) ==
  /\ groupCount >= 2 /\ advancePerGroup >= 1
  /\ teamCount >= 2 * groupCount
  /\ teamCount % groupCount = 0
  /\ advancePerGroup < teamCount \div groupCount

\* tournamentPlanIssue answers nothing for these plans.
planIsPlayable(plan) ==
  /\ plan.teamCount >= 2
  /\ plan.format = "SERIES" =>
       plan.teamCount = 2 /\ plan.legs = 1 /\ ~plan.thirdPlace /\ plan.bestOf \in {1, 3, 5, 7}
  /\ plan.format = "DOUBLE_ELIMINATION" => plan.teamCount >= 4
  /\ plan.format \in {"SINGLE_ELIMINATION", "DOUBLE_ELIMINATION"} => plan.legs = 1
  /\ plan.thirdPlace => plan.format # "ROUND_ROBIN" /\ plan.teamCount >= 4
  /\ plan.format = "GROUPS_KNOCKOUT" =>
       groupPlanIsFair(plan.teamCount, plan.groupCount, plan.advancePerGroup)

\* seriesOutcome: the winner and the next game of a series with these winners so far.
seriesWinsNeeded(bestOf) == bestOf \div 2 + 1

seriesOutcome(bestOf, teams, winners) ==
  LET played == IF Len(winners) < bestOf THEN Len(winners) ELSE bestOf
      WinsOf(t, k) == Cardinality({i \in 1..k : winners[i] = t})
      closed == {t \in teams : WinsOf(t, played) >= seriesWinsNeeded(bestOf)}
      leaders == {t \in teams : \A u \in teams \ {t} : WinsOf(t, played) > WinsOf(u, played)}
      First(S) == IF S = {} THEN 0 ELSE CHOOSE t \in S : TRUE
  IN IF closed # {} THEN [winner |-> First(closed), nextGame |-> 0]
     ELSE IF played < bestOf THEN [winner |-> 0, nextGame |-> played + 1]
     ELSE [winner |-> First(leaders), nextGame |-> 0]
-----------------------------------------------------------------------------
(* Who leaves the groups, in the order of their seeds.  A qualifier is           *)
(* [team, group, place].                                                         *)

\* One exchange: the away side of an opener between two of one group changes places with
\* the first qualifier of its own place that leaves neither opener within a group.
Repair(ordered, slots, opener) ==
  LET n == Len(ordered)
      Rival(s) == LET i == CHOOSE k \in DOMAIN slots : slots[k] = s
                  IN slots[IF i % 2 = 1 THEN i + 1 ELSE i - 1]
      home == slots[2 * opener - 1]
      away == slots[2 * opener]
      Fits(i) == /\ i # away /\ ordered[i].place = ordered[away].place
                 /\ ordered[i].group # ordered[home].group
                 /\ Rival(i) <= n => ordered[Rival(i)].group # ordered[away].group
      fitting == {i \in 1..n : Fits(i)}
      first == CHOOSE i \in fitting : \A k \in fitting : i <= k
  IN IF home > n \/ away > n \/ ordered[home].group # ordered[away].group \/ fitting = {} THEN ordered
     ELSE [ordered EXCEPT ![away] = ordered[first], ![first] = ordered[away]]

avoidSameGroupOpeners(seeds) ==
  LET slots == seedSlots(bracketSizeFor(Len(seeds)))
      At(ordered, opener) == Repair(ordered, slots, opener)
  IN IF Len(seeds) < 3 THEN seeds
     ELSE FoldLeft(At, seeds, [k \in 1 .. Len(slots) \div 2 |-> k])

\* All the leaders, then all the runners-up and so on; four groups of two qualifiers have
\* a bracket of their own.
orderGroupQualifiers(standings, advancePerGroup) ==
  LET groups == Len(standings)
      Entry(g, place) == [team |-> standings[g][place], group |-> g, place |-> place]
      seeds == [i \in 1 .. groups * advancePerGroup |->
                  Entry(1 + ((i - 1) % groups), 1 + (i - 1) \div groups)]
  IN IF groups = 4 /\ advancePerGroup = 2
     THEN SubSeq(seeds, 1, 4) \o <<seeds[7], seeds[8], seeds[5], seeds[6]>>
     ELSE avoidSameGroupOpeners(seeds)

\* compareStandings: points, difference, goals for, then the name (the number of the team).
Ahead(table, t, u) ==
  LET Rank(x) == <<table[x].points, table[x].scoreFor - table[x].scoreAgainst, table[x].scoreFor, 0 - x>>
      differ == {i \in 1..4 : Rank(t)[i] # Rank(u)[i]}
  IN \E i \in differ : /\ Rank(t)[i] > Rank(u)[i]
                       /\ \A k \in differ : i <= k
standingsOf(table, teams) ==
  LET Before(t, u) == Ahead(table, t, u) IN SetToSortSeq(teams, Before)
=============================================================================
