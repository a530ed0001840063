-------------------------------- MODULE DraftSeason -----------------------------
(* The season of a draft league: results, proofs, settlement and the end of the  *)
(* season (DraftFixtureService, DraftSimulationService).                         *)
(*                                                                               *)
(* A settlement is two steps.  Its first step takes the row locks of both rosters *)
(* and looks for the next open match, as READ COMMITTED shows it: what another    *)
(* settlement has not committed is not there.  Its second step makes the whole    *)
(* transaction visible.                                                          *)
EXTENDS Integers, FiniteSets, DraftBudget

CONSTANTS
  Workers,
  Rosters, VacantRosters,   \* DraftRoster rows, those whose userId is null
  Matches,                  \* DraftMatch rows
  Fixture,                  \* [Matches -> [round, home, away]]
  Scores,                   \* inputs and simulated results, <<home, away>>
  Proofs,                   \* MatchProof rows that may be created
  PointsWin, PointsDraw, CoinsWin, CoinsDraw, CoinsLoss,
  Wages,                    \* [Rosters -> Nat], the wage bill of a round
  LastRound, MaxPlayed,     \* bounds: rounds, matches a roster plays
  None

ASSUME SeasonAssumption ==
  /\ Fixture \in [Matches -> [round: 1..LastRound, home: Rosters, away: Rosters]]
  /\ \A m \in Matches : Fixture[m].home # Fixture[m].away
  /\ VacantRosters \subseteq Rosters /\ None \notin Matches \cup Proofs
  /\ Scores \subseteq Nat \X Nat /\ LastRound \in Nat \ {0} /\ MaxPlayed \in Nat
  /\ {PointsWin, PointsDraw, CoinsWin, CoinsDraw, CoinsLoss} \subseteq Nat
  /\ Wages \in [Rosters -> Nat]

VARIABLES
  league,    \* [status, resultMode, currentRound]
  match,     \* [Matches -> [status, score]]
  proof,     \* [Proofs -> [status, match, score]]
  table,     \* the standing columns of every roster
  account,   \* the cash columns and the statement of every roster
  due,       \* rounds whose scheduledAt has come
  req        \* the local variables of each request in flight

vars == <<league, match, proof, table, account, due, req>>

Idle     == [op |-> "idle"]
NoProof  == [status |-> "NONE", match |-> None, score |-> <<0, 0>>]
EmptyRow == [played |-> 0, wins |-> 0, draws |-> 0, losses |-> 0,
             goalsFor |-> 0, goalsAgainst |-> 0, points |-> 0]

Home(m) == Fixture[m].home
Away(m) == Fixture[m].away
Sides(m) == {Home(m), Away(m)}
Due(m)  == Fixture[m].round <= due
Open(m) == match[m].status # "FINISHED"

Init ==
  /\ league \in [status: {"ACTIVE"}, resultMode: {"REPORTED", "SIMULATED"}, currentRound: {1}]
  /\ match = [m \in Matches |-> [status |-> "SCHEDULED", score |-> None]]
  /\ proof = [p \in Proofs |-> NoProof]
  /\ table = [r \in Rosters |-> EmptyRow]
  /\ account = [r \in Rosters |-> Seeded(0)]
  /\ due = 0
  /\ req = [w \in Workers |-> Idle]

Then(w, q)    == req' = [req EXCEPT ![w] = q]
Reply(w)      == Then(w, Idle)
Serving(w, o) == req[w].op = o
Receive(w, q) == /\ req[w] = Idle /\ Then(w, q)
                 /\ UNCHANGED <<league, match, proof, table, account, due>>

SettleRequest(m, score) == [op |-> "settle", match |-> m, score |-> score]
-----------------------------------------------------------------------------
(* Reported results and their proofs                                             *)

\* A moderator without a photograph: straight to the settlement.
reportWithoutProof(w) ==
  \E m \in Matches, score \in Scores : Open(m) /\ Receive(w, SettleRequest(m, score))

\* A player or a moderator with one; the reader agrees with enough confidence or not.
reportCheck(w) ==
  \E m \in Matches, score \in Scores, autoApprove \in BOOLEAN :
    Open(m) /\ Receive(w, [op |-> "report", match |-> m, score |-> score, auto |-> autoApprove])

reportCommit(w) ==
  LET q == req[w] IN
  /\ Serving(w, "report")
  /\ \E p \in Proofs :
       /\ proof[p].status = "NONE"
       /\ proof' = [proof EXCEPT ![p] = [status |-> "PENDING", match |-> q.match, score |-> q.score]]
       /\ Then(w, IF q.auto THEN [op |-> "approve", proof |-> p] ELSE Idle)
  /\ match' = [match EXCEPT ![q.match].status = "AWAITING_PROOF"]
  /\ UNCHANGED <<league, table, account, due>>

reviewProofCheck(w) ==
  \E p \in Proofs, op \in {"approve", "reject"} :
    proof[p].status = "PENDING" /\ Receive(w, [op |-> op, proof |-> p])

\* The proof is approved first and the match settled afterwards, on its own.
approveProof(w) ==
  LET p == req[w].proof IN
  /\ Serving(w, "approve")
  /\ proof' = [proof EXCEPT ![p].status = "APPROVED"]
  /\ Then(w, SettleRequest(proof[p].match, proof[p].score))
  /\ UNCHANGED <<league, match, table, account, due>>

rejectProof(w) ==
  LET p == req[w].proof IN
  /\ Serving(w, "reject")
  /\ proof' = [proof EXCEPT ![p].status = "REJECTED"]
  /\ Then(w, [op |-> "reschedule", match |-> proof[p].match])
  /\ UNCHANGED <<league, match, table, account, due>>

rescheduleMatch(w) ==
  /\ Serving(w, "reschedule")
  /\ match' = [match EXCEPT ![req[w].match].status = "SCHEDULED"]
  /\ Reply(w)
  /\ UNCHANGED <<league, proof, table, account, due>>
-----------------------------------------------------------------------------
(* The five-minute cron and the moderator's button                               *)

VacantScore(m) ==
  IF Home(m) \in VacantRosters
  THEN <<0, IF Away(m) \in VacantRosters THEN 0 ELSE 3>>
  ELSE <<3, 0>>

resolveVacantMatch(w) ==
  \E m \in Matches :
    /\ league.status = "ACTIVE" /\ league.resultMode = "REPORTED"
    /\ Open(m) /\ Due(m) /\ Sides(m) \cap VacantRosters # {}
    /\ Receive(w, SettleRequest(m, VacantScore(m)))

\* Mutant: the cron passes over the matches that wait for a proof.
playScheduledMatch(w) ==
  \E m \in Matches, score \in Scores :
    /\ league.status = "ACTIVE" /\ league.resultMode = "SIMULATED"
    /\ match[m].status = "SCHEDULED" /\ Due(m)
    /\ Receive(w, SettleRequest(m, score))

playDueMatch(w) ==
  \E m \in Matches, score \in Scores :
    /\ league.status = "ACTIVE" /\ league.resultMode = "SIMULATED"
    /\ Open(m) /\ Due(m)
    /\ Receive(w, SettleRequest(m, score))

\* Any match, of any kind of league, finished or not.
playOne(w) ==
  \E m \in Matches, score \in Scores :
    /\ \A r \in Sides(m) : table[r].played < MaxPlayed
    /\ Receive(w, SettleRequest(m, score))
-----------------------------------------------------------------------------
(* The settlement                                                                *)

\* What the transaction of w has locked until it commits.
Locked(v, m) == req[v].op = "settling" /\ Sides(req[v].match) \cap Sides(m) # {}

RoundsLeft(m) == {Fixture[o].round : o \in {x \in Matches \ {m} : Open(x)}}

\* Mutant: the league goes on to the round after the one it is in.
NextRoundByOne(m) == {IF RoundsLeft(m) = {} THEN None ELSE league.currentRound + 1}

\* advanceRound: the round of the first open match, the one being settled aside.
NextRound(m) ==
  IF RoundsLeft(m) = {} THEN {None}
  ELSE {k \in RoundsLeft(m) : \A j \in RoundsLeft(m) : k <= j}

settleBegin(w) ==
  LET m == req[w].match IN
  /\ Serving(w, "settle") /\ \A v \in Workers : ~Locked(v, m)
  /\ \E round \in NextRound(m) :
       Then(w, [op |-> "settling", match |-> m, score |-> req[w].score, next |-> round])
  /\ UNCHANGED <<league, match, proof, table, account, due>>

\* applyRosterStats: the standing columns of one side.
Played(row, scored, conceded) ==
  [played |-> row.played + 1,
   wins   |-> row.wins + (IF scored > conceded THEN 1 ELSE 0),
   draws  |-> row.draws + (IF scored = conceded THEN 1 ELSE 0),
   losses |-> row.losses + (IF scored < conceded THEN 1 ELSE 0),
   goalsFor |-> row.goalsFor + scored, goalsAgainst |-> row.goalsAgainst + conceded,
   points |-> row.points + (IF scored > conceded THEN PointsWin
                            ELSE IF scored = conceded THEN PointsDraw ELSE 0)]

\* Mutant: a defeat pays nothing.
RewardOfPoints(scored, conceded) ==
  IF scored > conceded THEN CoinsWin ELSE IF scored = conceded THEN CoinsDraw ELSE 0

Reward(scored, conceded) ==
  IF scored > conceded THEN CoinsWin ELSE IF scored = conceded THEN CoinsDraw ELSE CoinsLoss

creditRound(acc, r, scored, conceded) == credit(acc, r, Reward(scored, conceded), "MATCH_REWARD")
paySalaries(acc, r) == charge(acc, r, Wages[r], "SALARY")

settleCommit(w) ==
  LET q == req[w]
      h == Home(q.match)
      a == Away(q.match)
      x == q.score[1]
      y == q.score[2]
  IN
  /\ Serving(w, "settling")
  /\ match' = [match EXCEPT ![q.match] = [status |-> "FINISHED", score |-> q.score]]
  /\ table' = [table EXCEPT ![h] = Played(@, x, y), ![a] = Played(@, y, x)]
  /\ account' = paySalaries(paySalaries(creditRound(creditRound(account, h, x, y), a, y, x), h), a)
  /\ league' = IF q.next = None THEN [league EXCEPT !.status = "FINISHED"]
               ELSE [league EXCEPT !.currentRound = q.next]
  /\ Reply(w)
  /\ UNCHANGED <<proof, due>>
-----------------------------------------------------------------------------
roundIsDue == due < LastRound /\ due' = due + 1
              /\ UNCHANGED <<league, match, proof, table, account, req>>

rollback(w) == req[w] # Idle /\ Reply(w) /\ UNCHANGED <<league, match, proof, table, account, due>>

Check(w) == \/ reportWithoutProof(w) \/ reportCheck(w) \/ reviewProofCheck(w)
            \/ resolveVacantMatch(w) \/ playDueMatch(w) \/ playOne(w)

settle(w) == settleBegin(w) \/ settleCommit(w)

Handle(w) == reportCommit(w) \/ approveProof(w) \/ rejectProof(w) \/ rescheduleMatch(w) \/ settle(w)

Next == \/ \E w \in Workers : Check(w) \/ Handle(w) \/ rollback(w)
        \/ roundIsDue

Spec == Init /\ [][Next]_vars

\* Rounds come, requests end, the cron comes back and what it may try again and
\* again is neither passed over nor rolled back for ever.
Fairness ==
  /\ WF_vars(roundIsDue)
  /\ \A w \in Workers : /\ WF_vars(Handle(w) \/ rollback(w))
                        /\ SF_vars(playDueMatch(w)) /\ SF_vars(settleBegin(w)) /\ SF_vars(settleCommit(w))

FairSpec == Spec /\ Fairness
-----------------------------------------------------------------------------
TableRow == [played: Nat, wins: Nat, draws: Nat, losses: Nat,
             goalsFor: Nat, goalsAgainst: Nat, points: Nat]
Score    == Nat \X Nat

SettlementRequest == [op: {"settle"}, match: Matches, score: Score]
SettlingRequest   == [op: {"settling"}, match: Matches, score: Score, next: 1..LastRound \cup {None}]
ReportRequest     == [op: {"report"}, match: Matches, score: Score, auto: BOOLEAN]
ReviewRequest     == [op: {"approve", "reject"}, proof: Proofs]
RescheduleRequest == [op: {"reschedule"}, match: Matches]
Request == {Idle} \cup SettlementRequest \cup SettlingRequest \cup ReportRequest
           \cup ReviewRequest \cup RescheduleRequest

LeagueRow == [status: {"ACTIVE", "FINISHED"}, resultMode: {"REPORTED", "SIMULATED"},
              currentRound: 1..LastRound]
MatchRow  == [status: {"SCHEDULED", "AWAITING_PROOF", "FINISHED"}, score: Score \cup {None}]
ProofRow  == [status: {"PENDING", "APPROVED", "REJECTED"}, match: Matches, score: Score]

\* The columns of the league, its matches, proofs and standings are typed.
TypeOK ==
  /\ league \in LeagueRow
  /\ match \in [Matches -> MatchRow]
  /\ proof \in [Proofs -> {NoProof} \cup ProofRow]
  /\ table \in [Rosters -> TableRow]
  /\ account \in [Rosters -> Account]
  /\ due \in Nat /\ req \in [Workers -> Request]

\* The standings and the statement of a roster tell the same season: one reward per
\* result, one wage bill per match, points and games that add up, however often and
\* from wherever matches are settled.
StatementFollowsTable ==
  \A r \in Rosters :
    LET t == table[r] IN
    /\ t.played = t.wins + t.draws + t.losses
    /\ t.points = PointsWin * t.wins + PointsDraw * t.draws
    /\ account[r].entry["MATCH_REWARD"]
         = CoinsWin * t.wins + CoinsDraw * t.draws + CoinsLoss * t.losses
    /\ account[r].entry["SALARY"] = Wages[r] * t.played

\* A simulated league plays every match and finishes, even after a proof put a match
\* back on the calendar or a settlement failed.
SeasonEnds == (league.status = "ACTIVE" /\ league.resultMode = "SIMULATED")
                ~> league.status = "FINISHED"

\* "Esta partida ja foi encerrada": the standings count every match once.
MatchCountsOnce ==
  \A r \in Rosters :
    table[r].played = Cardinality({m \in Matches : r \in Sides(m) /\ ~Open(m)})
=============================================================================
