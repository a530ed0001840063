--------------------------- MODULE DraftSeasonProofs ----------------------------
(* Theorems of DraftSeason, for every number of workers, rosters and matches,    *)
(* every calendar and every price of a result.                                   *)
EXTENDS DraftSeason, DraftBudgetProofs

-----------------------------------------------------------------------------
(* One row of the standings against one result                                   *)

AddsUp(t) == /\ t.played = t.wins + t.draws + t.losses
             /\ t.points = PointsWin * t.wins + PointsDraw * t.draws

\* The rewards the results of a row have earned.
Owed(t) == CoinsWin * t.wins + CoinsDraw * t.draws + CoinsLoss * t.losses

LEMMA OneMore ==
  ASSUME NEW c \in Nat, NEW n \in Nat
  PROVE  c * (n + 1) = c * n + c /\ c * (n + 0) = c * n /\ c * n \in Nat
OBVIOUS

\* The row after a result, by who scored more.
LEMMA PlayedFields ==
  ASSUME NEW t \in TableRow, NEW x \in Nat, NEW y \in Nat
  PROVE  /\ Played(t, x, y) \in TableRow
         /\ Played(t, x, y).played = t.played + 1
         /\ Played(t, x, y).wins   = t.wins   + (IF x > y THEN 1 ELSE 0)
         /\ Played(t, x, y).draws  = t.draws  + (IF x = y THEN 1 ELSE 0)
         /\ Played(t, x, y).losses = t.losses + (IF x < y THEN 1 ELSE 0)
         /\ Played(t, x, y).points
              = t.points + (IF x > y THEN PointsWin ELSE IF x = y THEN PointsDraw ELSE 0)
<1>1. /\ t.played \in Nat /\ t.wins \in Nat /\ t.draws \in Nat /\ t.losses \in Nat
      /\ t.goalsFor \in Nat /\ t.goalsAgainst \in Nat /\ t.points \in Nat
  BY DEF TableRow
<1>2. PointsWin \in Nat /\ PointsDraw \in Nat
  BY SeasonAssumption
<1> QED
  BY <1>1, <1>2 DEF Played, TableRow

LEMMA PlayedOnce ==
  ASSUME NEW t \in TableRow, NEW x \in Nat, NEW y \in Nat
  PROVE  Played(t, x, y) \in TableRow /\ Played(t, x, y).played = t.played + 1
BY PlayedFields

LEMMA PlayedAddsUp ==
  ASSUME NEW t \in TableRow, NEW x \in Nat, NEW y \in Nat, AddsUp(t)
  PROVE  AddsUp(Played(t, x, y))
<1> DEFINE row == Played(t, x, y)
           pw  == PointsWin * t.wins
           pd  == PointsDraw * t.draws
<1>1. /\ t.wins \in Nat /\ t.draws \in Nat /\ t.losses \in Nat
      /\ PointsWin \in Nat /\ PointsDraw \in Nat
  BY SeasonAssumption DEF TableRow
<1>2. /\ PointsWin * (t.wins + 1) = pw + PointsWin /\ pw \in Nat
      /\ PointsDraw * (t.draws + 1) = pd + PointsDraw /\ pd \in Nat
  BY <1>1, OneMore
<1>3. t.played = t.wins + t.draws + t.losses /\ t.points = pw + pd
  BY DEF AddsUp
<1>4. /\ row.played = t.played + 1
      /\ row.wins   = t.wins   + (IF x > y THEN 1 ELSE 0)
      /\ row.draws  = t.draws  + (IF x = y THEN 1 ELSE 0)
      /\ row.losses = t.losses + (IF x < y THEN 1 ELSE 0)
      /\ row.points = t.points + (IF x > y THEN PointsWin ELSE IF x = y THEN PointsDraw ELSE 0)
  BY PlayedFields
<1> HIDE DEF row
<1> DEFINE pw2 == PointsWin * row.wins
           pd2 == PointsDraw * row.draws
<1>5. pw2 = (IF x > y THEN pw + PointsWin ELSE pw) /\ pd2 = (IF x = y THEN pd + PointsDraw ELSE pd)
  BY <1>1, <1>2, <1>4
<1>6. pw \in Nat /\ pd \in Nat
  BY <1>2
<1> HIDE DEF pw, pd, pw2, pd2
<1>7. row.played = row.wins + row.draws + row.losses
  BY <1>1, <1>3, <1>4
<1>8. row.points = PointsWin * row.wins + PointsDraw * row.draws
  <2>1. row.points = pw2 + pd2
    BY <1>1, <1>3, <1>4, <1>5, <1>6
  <2> QED
    BY <2>1 DEF pw2, pd2
<1>9. AddsUp(row)
  BY <1>7, <1>8 DEF AddsUp
<1> QED
  BY <1>9 DEF row

LEMMA PlayedOwed ==
  ASSUME NEW t \in TableRow, NEW x \in Nat, NEW y \in Nat
  PROVE  Owed(Played(t, x, y)) = Owed(t) + Reward(x, y)
<1> DEFINE row == Played(t, x, y)
           cw  == CoinsWin * t.wins
           cd  == CoinsDraw * t.draws
           cl  == CoinsLoss * t.losses
<1>1. /\ t.wins \in Nat /\ t.draws \in Nat /\ t.losses \in Nat
      /\ CoinsWin \in Nat /\ CoinsDraw \in Nat /\ CoinsLoss \in Nat
  BY SeasonAssumption DEF TableRow
<1>2. /\ CoinsWin * (t.wins + 1) = cw + CoinsWin /\ cw \in Nat
      /\ CoinsDraw * (t.draws + 1) = cd + CoinsDraw /\ cd \in Nat
      /\ CoinsLoss * (t.losses + 1) = cl + CoinsLoss /\ cl \in Nat
  BY <1>1, OneMore
<1>3. /\ row.wins   = t.wins   + (IF x > y THEN 1 ELSE 0)
      /\ row.draws  = t.draws  + (IF x = y THEN 1 ELSE 0)
      /\ row.losses = t.losses + (IF x < y THEN 1 ELSE 0)
  BY PlayedFields
<1> HIDE DEF row
<1> DEFINE cw2 == CoinsWin * row.wins
           cd2 == CoinsDraw * row.draws
           cl2 == CoinsLoss * row.losses
<1>4. cw2 = (IF x > y THEN cw + CoinsWin ELSE cw)
  BY <1>1, <1>2, <1>3
<1>5. cd2 = (IF x = y THEN cd + CoinsDraw ELSE cd)
  BY <1>1, <1>2, <1>3
<1>6. cl2 = (IF x < y THEN cl + CoinsLoss ELSE cl)
  BY <1>1, <1>2, <1>3
<1>7. Owed(t) = cw + cd + cl /\ Owed(row) = cw2 + cd2 + cl2
  BY DEF Owed
<1>8. cw \in Nat /\ cd \in Nat /\ cl \in Nat
  BY <1>2
<1>9. Reward(x, y) = IF x > y THEN CoinsWin ELSE IF x = y THEN CoinsDraw ELSE CoinsLoss
  BY DEF Reward
<1> HIDE DEF cw, cd, cl, cw2, cd2, cl2
<1>10. Owed(row) = Owed(t) + Reward(x, y)
  BY <1>1, <1>4, <1>5, <1>6, <1>7, <1>8, <1>9
<1> QED
  BY <1>10 DEF row

LEMMA RewardTyped == ASSUME NEW x \in Nat, NEW y \in Nat PROVE Reward(x, y) \in Nat
BY SeasonAssumption DEF Reward
-----------------------------------------------------------------------------
(* The cash of a settlement                                                      *)

\* What a settlement of h against a brings a team, and what it pays its players.
Earned(r, h, a, x, y) == IF r = h THEN Reward(x, y) ELSE IF r = a THEN Reward(y, x) ELSE 0
Paid(r, h, a)         == IF r \in {h, a} THEN Wages[r] ELSE 0

Settled(acc, h, a, x, y) ==
  paySalaries(paySalaries(creditRound(creditRound(acc, h, x, y), a, y, x), h), a)

\* What the four movements of a settlement of h against a do to the statements.
LEMMA SettledEntries ==
  ASSUME NEW acc \in [Rosters -> Account], NEW h \in Rosters, NEW a \in Rosters, h # a,
         NEW x \in Nat, NEW y \in Nat
  PROVE  /\ Settled(acc, h, a, x, y) \in [Rosters -> Account]
         /\ \A r \in Rosters :
              /\ Settled(acc, h, a, x, y)[r].entry["MATCH_REWARD"]
                   = acc[r].entry["MATCH_REWARD"] + Earned(r, h, a, x, y)
              /\ Settled(acc, h, a, x, y)[r].entry["SALARY"]
                   = acc[r].entry["SALARY"] + Paid(r, h, a)
<1> DEFINE c1 == credit(acc, h, Reward(x, y), "MATCH_REWARD")
           c2 == credit(c1, a, Reward(y, x), "MATCH_REWARD")
           c3 == charge(c2, h, Wages[h], "SALARY")
           c4 == charge(c3, a, Wages[a], "SALARY")
<1>1. /\ Reward(x, y) \in Nat /\ Reward(y, x) \in Nat /\ Wages[h] \in Nat /\ Wages[a] \in Nat
      /\ "MATCH_REWARD" \in CreditTypes /\ "SALARY" \in DebitTypes
      /\ {"MATCH_REWARD", "SALARY"} \subseteq EntryTypes
  BY RewardTyped, SeasonAssumption DEF CreditTypes, DebitTypes, EntryTypes
<1>2. /\ c1 \in [Rosters -> Account]
      /\ \A r \in Rosters, u \in EntryTypes :
           c1[r].entry[u] = acc[r].entry[u] + (IF r = h /\ u = "MATCH_REWARD" THEN Reward(x, y) ELSE 0)
  BY <1>1, CreditEntry
<1> HIDE DEF c1
<1>3. /\ c2 \in [Rosters -> Account]
      /\ \A r \in Rosters, u \in EntryTypes :
           c2[r].entry[u] = c1[r].entry[u] + (IF r = a /\ u = "MATCH_REWARD" THEN Reward(y, x) ELSE 0)
  BY <1>1, <1>2, CreditEntry
<1> HIDE DEF c2
<1>4. /\ c3 \in [Rosters -> Account]
      /\ \A r \in Rosters, u \in EntryTypes :
           c3[r].entry[u] = c2[r].entry[u] + (IF r = h /\ u = "SALARY" THEN Wages[h] ELSE 0)
  BY <1>1, <1>3, ChargeEntry
<1> HIDE DEF c3
<1>5. /\ c4 \in [Rosters -> Account]
      /\ \A r \in Rosters, u \in EntryTypes :
           c4[r].entry[u] = c3[r].entry[u] + (IF r = a /\ u = "SALARY" THEN Wages[a] ELSE 0)
  BY <1>1, <1>4, ChargeEntry
<1>6. ASSUME NEW r \in Rosters
      PROVE  /\ acc[r].entry \in [EntryTypes -> Nat]
             /\ acc[r].entry["MATCH_REWARD"] \in Nat /\ acc[r].entry["SALARY"] \in Nat
  BY <1>1 DEF Account
<1>7. Settled(acc, h, a, x, y) = c4
  BY DEF Settled, paySalaries, creditRound, c1, c2, c3
<1> HIDE DEF c4
<1>8. ASSUME NEW r \in Rosters
      PROVE  /\ c4[r].entry["MATCH_REWARD"] = acc[r].entry["MATCH_REWARD"] + Earned(r, h, a, x, y)
             /\ c4[r].entry["SALARY"] = acc[r].entry["SALARY"] + Paid(r, h, a)
  BY <1>1, <1>2, <1>3, <1>4, <1>5, <1>6 DEF Earned, Paid
<1> QED
  BY <1>5, <1>7, <1>8
-----------------------------------------------------------------------------
(* Types, with what makes them inductive: a proof under review is a written row. *)

ReviewedIsWritten ==
  \A w \in Workers : req[w] \in ReviewRequest => proof[req[w].proof].status # "NONE"

Typed == TypeOK /\ ReviewedIsWritten
IInv  == Typed /\ StatementFollowsTable

LEMMA InitIInv == Init => IInv
<1> SUFFICES ASSUME Init PROVE IInv
  OBVIOUS
<1> USE SeasonAssumption
<1>1. Seeded(0) \in Account /\ Seeded(0).entry["MATCH_REWARD"] = 0 /\ Seeded(0).entry["SALARY"] = 0
  <2>1. Sound([r \in {0} |-> Seeded(0)], {0})
    BY SeededSound
  <2>2. Seeded(0) \in Account
    BY <2>1 DEF Sound
  <2> QED
    BY <2>2 DEF Seeded, EntryTypes, CreditTypes, DebitTypes
<1>2. EmptyRow \in TableRow
  BY DEF EmptyRow, TableRow
<1>3. TypeOK
  <2>1. league \in LeagueRow
    BY DEF Init, LeagueRow
  <2>2. match \in [Matches -> MatchRow]
    BY DEF Init, MatchRow
  <2> QED
    BY <1>1, <1>2, <2>1, <2>2 DEF Init, TypeOK, Request
<1>4. ReviewedIsWritten
  BY DEF Init, ReviewedIsWritten, ReviewRequest, Idle
<1>5. StatementFollowsTable
  <2> SUFFICES ASSUME NEW r \in Rosters
               PROVE  /\ AddsUp(EmptyRow) /\ Owed(EmptyRow) = 0
                      /\ table[r] = EmptyRow /\ account[r] = Seeded(0)
                      /\ Wages[r] * EmptyRow.played = 0
    BY <1>1 DEF StatementFollowsTable, AddsUp, Owed
  <2> QED
    BY DEF Init, AddsUp, Owed, EmptyRow
<1> QED
  BY <1>3, <1>4, <1>5 DEF IInv, Typed

\* A request in flight has the fields of its kind.
LEMMA InFlight ==
  ASSUME TypeOK, NEW w \in Workers
  PROVE  /\ Serving(w, "settle") => req[w] \in SettlementRequest
         /\ Serving(w, "settling") => req[w] \in SettlingRequest
         /\ Serving(w, "report") => req[w] \in ReportRequest
         /\ Serving(w, "approve") \/ Serving(w, "reject") => req[w] \in ReviewRequest
         /\ Serving(w, "reschedule") => req[w] \in RescheduleRequest
BY DEF TypeOK, Serving, Request, Idle, SettlementRequest, SettlingRequest, ReportRequest,
       ReviewRequest, RescheduleRequest

LEMMA SettleRequestTyped ==
  ASSUME NEW m \in Matches, NEW score \in Score
  PROVE  SettleRequest(m, score) \in Request /\ SettleRequest(m, score) \notin ReviewRequest
BY DEF SettleRequest, Request, SettlementRequest, ReviewRequest

\* A step that leaves standings and accounts alone keeps the equations.
LEMMA SameBooks ==
  ASSUME StatementFollowsTable, UNCHANGED <<table, account>>
  PROVE  StatementFollowsTable'
BY DEF StatementFollowsTable

\* A Check step only fills req[w].
LEMMA ReceiveKeeps ==
  ASSUME IInv, NEW w \in Workers, NEW q \in Request, Receive(w, q),
         q \in ReviewRequest => proof[q.proof].status # "NONE"
  PROVE  IInv'
<1>1. TypeOK'
  BY DEF IInv, Typed, TypeOK, Receive, Then
<1>2. ReviewedIsWritten'
  BY DEF IInv, Typed, TypeOK, ReviewedIsWritten, Receive, Then
<1> QED
  BY <1>1, <1>2, SameBooks DEF IInv, Typed, Receive

LEMMA CheckKeeps ==
  ASSUME IInv, NEW w \in Workers, Check(w)
  PROVE  IInv'
<1> USE SeasonAssumption
<1>1. \A score \in Scores : score \in Score
  BY DEF Score
<1>2. \A m \in Matches : VacantScore(m) \in Score
  BY DEF VacantScore, Score
<1>3. CASE reportWithoutProof(w) \/ playDueMatch(w) \/ playOne(w)
  <2>1. PICK m \in Matches, score \in Scores : Receive(w, SettleRequest(m, score))
    BY <1>3 DEF reportWithoutProof, playDueMatch, playOne
  <2> QED
    BY <1>1, <2>1, SettleRequestTyped, ReceiveKeeps
<1>4. CASE resolveVacantMatch(w)
  <2>1. PICK m \in Matches : Receive(w, SettleRequest(m, VacantScore(m)))
    BY <1>4 DEF resolveVacantMatch
  <2> QED
    BY <1>2, <2>1, SettleRequestTyped, ReceiveKeeps
<1>5. CASE reportCheck(w)
  <2>1. PICK m \in Matches, score \in Scores, auto \in BOOLEAN :
          Receive(w, [op |-> "report", match |-> m, score |-> score, auto |-> auto])
    BY <1>5 DEF reportCheck
  <2> DEFINE q == [op |-> "report", match |-> m, score |-> score, auto |-> auto]
  <2>2. q \in Request /\ q \notin ReviewRequest
    BY <1>1 DEF Request, ReportRequest, ReviewRequest
  <2> HIDE DEF q
  <2>3. Receive(w, q)
    BY <2>1 DEF q
  <2> QED
    BY <2>2, <2>3, ReceiveKeeps
<1>6. CASE reviewProofCheck(w)
  <2>1. PICK p \in Proofs, op \in {"approve", "reject"} :
          proof[p].status = "PENDING" /\ Receive(w, [op |-> op, proof |-> p])
    BY <1>6 DEF reviewProofCheck
  <2> DEFINE q == [op |-> op, proof |-> p]
  <2>2. q \in Request /\ q.proof = p
    BY DEF Request, ReviewRequest
  <2> HIDE DEF q
  <2>3. Receive(w, q)
    BY <2>1 DEF q
  <2> QED
    BY <2>1, <2>2, <2>3, ReceiveKeeps
<1> QED
  BY <1>3, <1>4, <1>5, <1>6 DEF Check
-----------------------------------------------------------------------------
(* The steps of a handler                                                        *)

\* What a row of req may become.
LEMMA ThenTyped ==
  ASSUME TypeOK, NEW w \in Workers, NEW q \in Request, Then(w, q)
  PROVE  req' \in [Workers -> Request]
BY DEF TypeOK, Then

LEMMA ReportKeeps ==
  ASSUME IInv, NEW w \in Workers, reportCommit(w)
  PROVE  IInv'
<1> DEFINE q == req[w]
<1>1. q \in ReportRequest
  BY InFlight DEF IInv, Typed, reportCommit
<1>2. PICK p \in Proofs :
        /\ proof[p].status = "NONE"
        /\ proof' = [proof EXCEPT ![p] = [status |-> "PENDING", match |-> q.match, score |-> q.score]]
        /\ Then(w, IF q.auto THEN [op |-> "approve", proof |-> p] ELSE Idle)
  BY DEF reportCommit
<1>3. match' = [match EXCEPT ![q.match].status = "AWAITING_PROOF"]
      /\ UNCHANGED <<league, table, account, due>>
  BY DEF reportCommit
<1> DEFINE row == [status |-> "PENDING", match |-> q.match, score |-> q.score]
           next == IF q.auto THEN [op |-> "approve", proof |-> p] ELSE Idle
<1>4. row \in ProofRow /\ row.status # "NONE"
  BY <1>1 DEF ReportRequest, ProofRow
<1>5. next \in Request /\ (next \in ReviewRequest => next.proof = p)
  BY DEF Request, ReviewRequest, Idle
<1>6. q.match \in Matches
  BY <1>1 DEF ReportRequest
<1> HIDE DEF row, next
<1>7. proof' = [proof EXCEPT ![p] = row] /\ Then(w, next)
  BY <1>2 DEF row, next
<1>8. proof' \in [Proofs -> {NoProof} \cup ProofRow]
  BY <1>4, <1>7 DEF IInv, Typed, TypeOK
<1>9. match' \in [Matches -> MatchRow]
  BY <1>3, <1>6 DEF IInv, Typed, TypeOK, MatchRow
<1>10. TypeOK'
  BY <1>3, <1>5, <1>7, <1>8, <1>9, ThenTyped DEF IInv, Typed, TypeOK
<1>11. ReviewedIsWritten'
  <2> SUFFICES ASSUME NEW v \in Workers, req'[v] \in ReviewRequest
               PROVE  proof'[req'[v].proof].status # "NONE"
    BY DEF ReviewedIsWritten
  <2>1. req'[v].proof \in Proofs
    BY DEF ReviewRequest
  <2>2. CASE v = w
    BY <1>4, <1>5, <1>7, <2>2 DEF Then, IInv, Typed, TypeOK
  <2>3. CASE v # w
    <3>1. req'[v] = req[v]
      BY <1>7, <2>3 DEF Then, IInv, Typed, TypeOK
    <3> QED
      BY <1>4, <1>7, <2>1, <3>1 DEF IInv, Typed, TypeOK, ReviewedIsWritten
  <2> QED
    BY <2>2, <2>3
<1> QED
  BY <1>3, <1>10, <1>11, SameBooks DEF IInv, Typed

LEMMA ReviewKeeps ==
  ASSUME IInv, NEW w \in Workers, approveProof(w) \/ rejectProof(w)
  PROVE  IInv'
<1> DEFINE p == req[w].proof
<1>1. req[w] \in ReviewRequest /\ p \in Proofs /\ proof[p] \in ProofRow
  <2>1. req[w] \in ReviewRequest
    BY InFlight DEF IInv, Typed, approveProof, rejectProof
  <2>2. p \in Proofs /\ proof[p].status # "NONE"
    BY <2>1 DEF IInv, Typed, ReviewedIsWritten, ReviewRequest
  <2> QED
    BY <2>1, <2>2 DEF IInv, Typed, TypeOK, NoProof
<1>2. PICK s \in {"APPROVED", "REJECTED"}, next \in Request :
        /\ next \notin ReviewRequest
        /\ proof' = [proof EXCEPT ![p].status = s] /\ Then(w, next)
        /\ UNCHANGED <<league, match, table, account, due>>
  <2>1. CASE approveProof(w)
    <3>1. proof[p].match \in Matches /\ proof[p].score \in Score
      BY <1>1 DEF ProofRow
    <3> QED
      BY <2>1, <3>1, SettleRequestTyped DEF approveProof
  <2>2. CASE rejectProof(w)
    <3> DEFINE next == [op |-> "reschedule", match |-> proof[p].match]
    <3>1. next \in Request /\ next \notin ReviewRequest
      BY <1>1 DEF ProofRow, Request, RescheduleRequest, ReviewRequest
    <3> HIDE DEF next
    <3>2. Then(w, next) /\ proof' = [proof EXCEPT ![p].status = "REJECTED"]
          /\ UNCHANGED <<league, match, table, account, due>>
      BY <2>2 DEF rejectProof, next
    <3> QED
      BY <3>1, <3>2
  <2> QED
    BY <2>1, <2>2
<1>3. [proof[p] EXCEPT !.status = s] \in ProofRow /\ [proof[p] EXCEPT !.status = s].status # "NONE"
  BY <1>1 DEF ProofRow
<1> DEFINE row == [proof[p] EXCEPT !.status = s]
<1>4. proof' = [proof EXCEPT ![p] = row]
  BY <1>1, <1>2 DEF IInv, Typed, TypeOK
<1> HIDE DEF row, p
<1>5. proof' \in [Proofs -> {NoProof} \cup ProofRow]
  BY <1>1, <1>3, <1>4 DEF IInv, Typed, TypeOK, row
<1>6. TypeOK'
  BY <1>2, <1>5, ThenTyped DEF IInv, Typed, TypeOK
<1>7. ReviewedIsWritten'
  <2> SUFFICES ASSUME NEW v \in Workers, req'[v] \in ReviewRequest
               PROVE  proof'[req'[v].proof].status # "NONE"
    BY DEF ReviewedIsWritten
  <2>1. req'[v].proof \in Proofs
    BY DEF ReviewRequest
  <2>2. req'[v] = req[v]
    BY <1>2 DEF Then, IInv, Typed, TypeOK
  <2>3. proof[req'[v].proof].status # "NONE"
    BY <2>2 DEF IInv, Typed, ReviewedIsWritten
  <2> QED
    BY <1>3, <1>4, <2>1, <2>3 DEF IInv, Typed, TypeOK, row
<1> QED
  BY <1>2, <1>6, <1>7, SameBooks DEF IInv, Typed

\* Steps that fill req[w] with something that is no review and touch no proof.
LEMMA QuietKeeps ==
  ASSUME Typed, NEW w \in Workers, NEW q \in Request, q \notin ReviewRequest, Then(w, q),
         UNCHANGED proof, league' \in LeagueRow, match' \in [Matches -> MatchRow],
         table' \in [Rosters -> TableRow], account' \in [Rosters -> Account], due' \in Nat
  PROVE  Typed'
<1>1. TypeOK'
  BY ThenTyped DEF Typed, TypeOK
<1>2. ReviewedIsWritten'
  BY DEF Typed, TypeOK, ReviewedIsWritten, Then
<1> QED
  BY <1>1, <1>2 DEF Typed

LEMMA IdleTyped == Idle \in Request /\ Idle \notin ReviewRequest
BY DEF Idle, Request, ReviewRequest

LEMMA RescheduleKeeps ==
  ASSUME IInv, NEW w \in Workers, rescheduleMatch(w) \/ rollback(w)
  PROVE  IInv'
<1>1. Then(w, Idle) /\ UNCHANGED <<league, proof, table, account, due>>
  BY DEF rescheduleMatch, rollback, Reply
<1>2. match' \in [Matches -> MatchRow]
  <2>1. CASE rescheduleMatch(w)
    <3>1. req[w] \in RescheduleRequest
      BY <2>1, InFlight DEF IInv, Typed, rescheduleMatch
    <3>2. req[w].match \in Matches
      BY <3>1 DEF RescheduleRequest
    <3> QED
      BY <2>1, <3>2 DEF rescheduleMatch, IInv, Typed, TypeOK, MatchRow
  <2>2. CASE rollback(w)
    BY <2>2 DEF rollback, IInv, Typed, TypeOK
  <2> QED
    BY <2>1, <2>2
<1>3. Typed'
  BY <1>1, <1>2, IdleTyped, QuietKeeps DEF IInv, Typed, TypeOK
<1> QED
  BY <1>1, <1>3, SameBooks DEF IInv

LEMMA NextRoundTyped == \A m \in Matches : NextRound(m) \subseteq 1..LastRound \cup {None}
BY SeasonAssumption DEF NextRound, RoundsLeft

LEMMA BeginKeeps ==
  ASSUME IInv, NEW w \in Workers, settleBegin(w)
  PROVE  IInv'
<1>1. req[w] \in SettlementRequest
  BY InFlight DEF IInv, Typed, settleBegin
<1>2. PICK round \in NextRound(req[w].match) :
        Then(w, [op |-> "settling", match |-> req[w].match, score |-> req[w].score, next |-> round])
  BY DEF settleBegin
<1> DEFINE q == [op |-> "settling", match |-> req[w].match, score |-> req[w].score, next |-> round]
<1>3. req[w].match \in Matches /\ req[w].score \in Score /\ round \in 1..LastRound \cup {None}
  BY <1>1, NextRoundTyped DEF SettlementRequest
<1>4. q \in Request /\ q \notin ReviewRequest
  BY <1>3 DEF Request, SettlingRequest, ReviewRequest
<1> HIDE DEF q
<1>5. Then(w, q) /\ UNCHANGED <<league, match, proof, table, account, due>>
  BY <1>2 DEF settleBegin, q
<1>6. Typed'
  BY <1>4, <1>5, QuietKeeps DEF IInv, Typed, TypeOK
<1> QED
  BY <1>5, <1>6, SameBooks DEF IInv

LEMMA SettleKeeps ==
  ASSUME IInv, NEW w \in Workers, settleCommit(w)
  PROVE  IInv'
<1> USE SeasonAssumption
<1> DEFINE q == req[w]
           m == q.match
           h == Home(m)
           a == Away(m)
           x == q.score[1]
           y == q.score[2]
<1>1. q \in SettlingRequest
  BY InFlight DEF IInv, Typed, settleCommit
<1>2. /\ m \in Matches /\ q.score \in Score /\ x \in Nat /\ y \in Nat
      /\ q.next \in 1..LastRound \cup {None}
  BY <1>1 DEF SettlingRequest, Score
<1>3. h \in Rosters /\ a \in Rosters /\ h # a
  BY <1>2 DEF Home, Away
<1>4. /\ match' = [match EXCEPT ![m] = [status |-> "FINISHED", score |-> q.score]]
      /\ table' = [table EXCEPT ![h] = Played(@, x, y), ![a] = Played(@, y, x)]
      /\ account' = paySalaries(paySalaries(creditRound(creditRound(account, h, x, y), a, y, x), h), a)
      /\ league' = IF q.next = None THEN [league EXCEPT !.status = "FINISHED"]
                   ELSE [league EXCEPT !.currentRound = q.next]
      /\ Then(w, Idle) /\ UNCHANGED <<proof, due>>
  BY DEF settleCommit, Reply
<1> HIDE DEF h, a, x, y, m
<1>5. table \in [Rosters -> TableRow] /\ account \in [Rosters -> Account]
  BY DEF IInv, Typed, TypeOK
<1>6. /\ table' \in [Rosters -> TableRow]
      /\ \A r \in Rosters :
           table'[r] = IF r = h THEN Played(table[h], x, y)
                       ELSE IF r = a THEN Played(table[a], y, x) ELSE table[r]
  <2>1. Played(table[h], x, y) \in TableRow /\ Played(table[a], y, x) \in TableRow
    BY <1>2, <1>3, <1>5, PlayedOnce
  <2>2. table' = [table EXCEPT ![h] = Played(table[h], x, y), ![a] = Played(table[a], y, x)]
    BY <1>3, <1>4, <1>5
  <2> QED
    BY <1>3, <1>5, <2>1, <2>2
<1>7. /\ account' \in [Rosters -> Account]
      /\ \A r \in Rosters :
           /\ account'[r].entry["MATCH_REWARD"]
                = account[r].entry["MATCH_REWARD"] + Earned(r, h, a, x, y)
           /\ account'[r].entry["SALARY"] = account[r].entry["SALARY"] + Paid(r, h, a)
  <2>1. account' = Settled(account, h, a, x, y)
    BY <1>4 DEF Settled
  <2>2. /\ Settled(account, h, a, x, y) \in [Rosters -> Account]
        /\ \A r \in Rosters :
             /\ Settled(account, h, a, x, y)[r].entry["MATCH_REWARD"]
                  = account[r].entry["MATCH_REWARD"] + Earned(r, h, a, x, y)
             /\ Settled(account, h, a, x, y)[r].entry["SALARY"]
                  = account[r].entry["SALARY"] + Paid(r, h, a)
    <3>1. account \in [Rosters -> Account] /\ h \in Rosters /\ a \in Rosters /\ h # a
          /\ x \in Nat /\ y \in Nat
      BY <1>2, <1>3, <1>5
    <3> QED
      BY ONLY <3>1, SettledEntries
  <2> QED
    BY <2>1, <2>2
<1>8. Typed'
  <2>1. match' \in [Matches -> MatchRow]
    BY <1>2, <1>4 DEF IInv, Typed, TypeOK, MatchRow
  <2>2. league' \in LeagueRow
    BY <1>2, <1>4 DEF IInv, Typed, TypeOK, LeagueRow
  <2> QED
    BY <1>4, <1>6, <1>7, <2>1, <2>2, IdleTyped, QuietKeeps DEF IInv, Typed, TypeOK
<1>9. StatementFollowsTable'
  <2> SUFFICES ASSUME NEW r \in Rosters
               PROVE  /\ AddsUp(table'[r])
                      /\ account'[r].entry["MATCH_REWARD"] = Owed(table'[r])
                      /\ account'[r].entry["SALARY"] = Wages[r] * table'[r].played
    BY DEF StatementFollowsTable, AddsUp, Owed
  <2>1. /\ AddsUp(table[r])
        /\ account[r].entry["MATCH_REWARD"] = Owed(table[r])
        /\ account[r].entry["SALARY"] = Wages[r] * table[r].played
    BY DEF IInv, StatementFollowsTable, AddsUp, Owed
  <2>2. Wages[r] \in Nat /\ table[r] \in TableRow /\ table[r].played \in Nat
    BY <1>5 DEF TableRow
  <2>3. Wages[r] * (table[r].played + 1) = Wages[r] * table[r].played + Wages[r]
    BY <2>2, OneMore
  <2>4. ASSUME NEW u \in Nat, NEW v \in Nat, table'[r] = Played(table[r], u, v),
               account'[r].entry["MATCH_REWARD"] = account[r].entry["MATCH_REWARD"] + Reward(u, v),
               account'[r].entry["SALARY"] = account[r].entry["SALARY"] + Wages[r]
        PROVE  /\ AddsUp(table'[r])
               /\ account'[r].entry["MATCH_REWARD"] = Owed(table'[r])
               /\ account'[r].entry["SALARY"] = Wages[r] * table'[r].played
    <3>1. AddsUp(table'[r])
      BY <2>1, <2>2, <2>4, PlayedAddsUp
    <3>2. Owed(table'[r]) = Owed(table[r]) + Reward(u, v)
      BY <2>2, <2>4, PlayedOwed
    <3>3. table'[r].played = table[r].played + 1
      <4>1. Played(table[r], u, v).played = table[r].played + 1
        BY <2>2, PlayedOnce
      <4> QED
        BY <2>4, <4>1
    <3> QED
      BY <2>1, <2>3, <2>4, <3>1, <3>2, <3>3
  <2>5. CASE r = h
    BY <1>2, <1>3, <1>6, <1>7, <2>4, <2>5 DEF Earned, Paid
  <2>6. CASE r = a
    BY <1>2, <1>3, <1>6, <1>7, <2>4, <2>6 DEF Earned, Paid
  <2>7. CASE r \notin {h, a}
    <3>1. table'[r] = table[r]
      BY <1>6, <2>7
    <3>2. account[r].entry["MATCH_REWARD"] \in Nat /\ account[r].entry["SALARY"] \in Nat
      BY <1>5 DEF Account, EntryTypes, CreditTypes, DebitTypes
    <3> QED
      BY <1>7, <2>1, <2>7, <3>1, <3>2 DEF Earned, Paid
  <2> QED
    BY <2>5, <2>6, <2>7
<1> QED
  BY <1>8, <1>9 DEF IInv

LEMMA StepKeeps ==
  ASSUME IInv, [Next]_vars
  PROVE  IInv'
<1>1. ASSUME NEW w \in Workers, Check(w) \/ Handle(w) \/ rollback(w)
      PROVE  IInv'
  BY <1>1, CheckKeeps, ReportKeeps, ReviewKeeps, RescheduleKeeps, BeginKeeps, SettleKeeps
     DEF Handle, settle
<1>2. CASE roundIsDue
  <2>1. due' \in Nat /\ UNCHANGED <<league, match, proof, table, account, req>>
    BY <1>2 DEF roundIsDue, IInv, Typed, TypeOK
  <2> QED
    BY <2>1, SameBooks DEF IInv, Typed, TypeOK, ReviewedIsWritten
<1>3. CASE UNCHANGED vars
  BY <1>3, SameBooks DEF vars, IInv, Typed, TypeOK, ReviewedIsWritten
<1> QED
  BY <1>1, <1>2, <1>3 DEF Next

\* The inductive invariant, for any number of requests at a time.
THEOREM SeasonInvariant == Spec => []IInv
BY InitIInv, StepKeeps, PTL DEF Spec

\* The season's tables keep their types and the league shows a round that exists.
THEOREM SeasonTypes == Spec => []TypeOK
<1>1. IInv => TypeOK
  BY DEF IInv, Typed
<1> QED
  BY <1>1, SeasonInvariant, PTL

\* Standings and statement tell the same season, however many settlements race.
THEOREM BooksFollowResults == Spec => []StatementFollowsTable
<1>1. IInv => StatementFollowsTable
  BY DEF IInv
<1> QED
  BY <1>1, SeasonInvariant, PTL
=============================================================================
