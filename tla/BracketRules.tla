------------------------------- MODULE BracketRules ------------------------------
(* The plans of bracket.builder.ts over every tournament within the bounds: one  *)
(* plan after another is tried, each from the first.                              *)
EXTENDS Bracket

CONSTANTS MaxBracket,          \* teams of an elimination bracket
          MaxGroups, MaxGroupSize, MaxAdvance

VARIABLE plan  \* what tournamentPlanIssue is asked about

Plans ==
  [format : {"SINGLE_ELIMINATION", "DOUBLE_ELIMINATION"}, teamCount : 2..MaxBracket,
   groupCount : {0}, advancePerGroup : {0}, legs : {1}, thirdPlace : BOOLEAN, bestOf : {1}]
    \cup
  {[format |-> "GROUPS_KNOCKOUT", teamCount |-> g * size, groupCount |-> g, advancePerGroup |-> a,
    legs |-> legs, thirdPlace |-> FALSE, bestOf |-> 1] :
     g \in 1..MaxGroups, size \in 1..MaxGroupSize, a \in 0..MaxAdvance, legs \in 1..2}

Plan0 == [format |-> "SINGLE_ELIMINATION", teamCount |-> 2, groupCount |-> 0, advancePerGroup |-> 0,
          legs |-> 1, thirdPlace |-> FALSE, bestOf |-> 1]

Init    == plan = Plan0
TryPlan == plan = Plan0 /\ plan' \in {p \in Plans : planIsPlayable(p)}
Return  == plan' = Plan0
Next    == TryPlan \/ Return
-----------------------------------------------------------------------------
Elimination == IF plan.format = "DOUBLE_ELIMINATION" THEN buildDoubleElimination(plan.teamCount)
               ELSE buildSingleElimination(plan.teamCount, plan.thirdPlace)
Feeds(matches) == {<<x.key, x.winnerTo>> : x \in matches} \cup {<<x.key, x.loserTo>> : x \in matches}

\* Everything below a match: the matches a team may have played on its way there.
Below(matches, key) ==
  LET Under[k \in 0..12] ==
        IF k = 0 THEN {key}
        ELSE LET S == Under[k-1] IN S \cup {f[1] : f \in {x \in Feeds(matches) : x[2].key \in S}}
  IN Under[12]

\* Every slot of a bracket has one source and one only (a seed in the first round, else the
\* winner or the loser of one match), every match leads to the last one, the two best seeds
\* cannot meet before it, and who falls out of the second round does not meet again at once
\* the one it has just beaten.
BracketIsSound ==
  plan.format # "GROUPS_KNOCKOUT" =>
    LET matches == Elimination
        keys    == {x.key : x \in matches}
        last    == IF plan.format = "DOUBLE_ELIMINATION" THEN <<"GRAND_FINAL", 1, 0>>
                   ELSE <<"WINNERS", roundsFor(plan.teamCount), 0>>
        Sources(x, slot, seed) == Cardinality({f \in Feeds(matches) : f[2] = [key |-> x.key, slot |-> slot]})
                                    + IF seed > 0 THEN 1 ELSE 0
        Opener(seed) == CHOOSE x \in matches : x.home = seed \/ x.away = seed
        semis == {x.key : x \in {y \in matches : y.winnerTo.key = last}}
    IN /\ Cardinality(keys) = Cardinality(matches)
       /\ \A f \in Feeds(matches) : f[2] # NoRef => f[2].key \in keys
       /\ \A x \in matches : Sources(x, "HOME", x.home) = 1 /\ Sources(x, "AWAY", x.away) = 1
       /\ Below(matches, last) = {k \in keys : k[1] # "THIRD_PLACE"}
       /\ {x.home : x \in matches} \cup {x.away : x \in matches} \cup {0} = 0 .. bracketSizeFor(plan.teamCount)
       /\ plan.format = "SINGLE_ELIMINATION" /\ plan.teamCount > 2 =>
            \A k \in semis : ~ {Opener(1).key, Opener(2).key} \subseteq Below(matches, k)
       /\ \A x \in matches : x.key[1] = "WINNERS" /\ x.key[2] = 2 /\ x.loserTo # NoRef
                             /\ x.loserTo.key[1] = "LOSERS" /\ plan.teamCount > 4 =>
            LET fallen == {f[1] : f \in {y \in Feeds(matches) : y[2].key = x.key}}
                others == Below(matches, x.loserTo.key) \ Below(matches, x.key)
            IN \A k \in fallen : \A y \in matches : y.key = k => y.loserTo.key \notin others

Groups == distributeIntoGroups(plan.teamCount, plan.groupCount)

\* "cada grupo recebe uma faixa exclusiva de posicoes": no two matches share the key of the
\* table, every two of a group meet once a leg, at home and away when there are two, and
\* nobody plays twice in a round; the groups share the teams out evenly.
GroupsAreFair ==
  plan.format = "GROUPS_KNOCKOUT" =>
    LET places == 1 .. plan.teamCount \div plan.groupCount
        fixture == buildGroupStage(plan.groupCount, plan.teamCount \div plan.groupCount, plan.legs)
        groups == Groups
        Meetings(g, i, k) == Cardinality({x \in fixture : x.group = g /\ x.home = i /\ x.away = k})
    IN /\ Cardinality({x.key : x \in fixture}) = Cardinality(fixture)
       /\ \A g \in 1..plan.groupCount :
            /\ \A i, k \in places : i # k => /\ Meetings(g, i, k) + Meetings(g, k, i) = plan.legs
                                             /\ plan.legs = 2 => Meetings(g, i, k) = 1
            /\ \A x, y \in {z \in fixture : z.group = g} : x # y /\ x.key[2] = y.key[2]
                                     => {x.home, x.away} \cap {y.home, y.away} = {}
            /\ Len(groups[g]) = Cardinality(places)
       /\ UNION {ToSet(groups[g]) : g \in 1..plan.groupCount} = 1..plan.teamCount

\* "pode juntar dois times do mesmo grupo na estreia ... desfaz o reencontro": every
\* qualifier has one seed and no opening match of the knockout is within a group.
OpenersAreAcrossGroups ==
  plan.format = "GROUPS_KNOCKOUT" =>
    LET a == plan.advancePerGroup
        groups  == Groups
        ordered == orderGroupQualifiers(groups, a)
        slots   == seedSlots(bracketSizeFor(Len(ordered)))
    IN /\ ToSet(ordered) = {[team |-> groups[g][p], group |-> g, place |-> p] :
                              g \in 1..plan.groupCount, p \in 1..a}
       /\ Len(ordered) = plan.groupCount * a
       /\ \A m \in 1 .. Len(slots) \div 2 :
            LET h == slots[2 * m - 1]
                k == slots[2 * m]
            IN h <= Len(ordered) /\ k <= Len(ordered) => ordered[h].group # ordered[k].group
=============================================================================
