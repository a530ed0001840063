------------------------------ MODULE TournamentMatch -----------------------------
(* One match with both its teams, from the day it can be played to its result:     *)
(* tournament-match.service.ts and match-proof.service.ts.  Every handler reads    *)
(* the row, checks it, and writes later: what it is going to write waits on a desk *)
(* of `desk` meanwhile, while the handlers on the other desks go on.               *)
EXTENDS Naturals, FiniteSets

CONSTANTS Rules,         \* tournaments the match may be in, see rules
          People,        \* desks of the requests of teams and of the organisation
          MaxReopened,   \* bound on decided matches opened again
          MaxProofs      \* bound on the proofs sent

VARIABLES
  rules,      \* [window: matchWindowMinutes > 0; confirm: requireOpponentConfirm; result:
              \*  "EA_API", "AI_IMAGE" or "MANUAL"; auto: autoApproveProof; present: both
              \*  teams have checked in already; desks: bound, the desks in use]
  match,      \* the columns of the row that handlers look at
  desk,       \* [desk -> the write it is about to make, or Nothing]
  overdue,    \* deadlineOf(match) has passed
  proof,      \* the last proof sent: status, processed, attempts, lock
  readers,    \* calls of processProof that wait for the reading of the image
  proofs,     \* proofs sent so far
  counted,    \* times a result of this match was added to the table
  reopened    \* times a decided match was opened again

vars == <<rules, match, desk, overdue, proof, readers, proofs, counted, reopened>>

Sides    == {"HOME", "AWAY"}
Other(s) == IF s = "HOME" THEN "AWAY" ELSE "HOME"
Desks    == People \cup {"deadlines", "ea"}
Decided  == {"FINISHED", "WALKOVER"}
OPEN_STATUSES == {"READY", "AWAITING_PROOF", "DISPUTED"}

Nothing == [op |-> "NONE"]
Free(d) == d \in rules.desks /\ desk[d] = Nothing
Begin(d, write) == /\ Free(d)
                   /\ desk' = [desk EXCEPT ![d] = write]
                   /\ UNCHANGED <<rules, match, overdue, proof, readers, proofs, counted, reopened>>
assertOpen == match.status \in OPEN_STATUSES
BothReady  == match.ready = Sides
-----------------------------------------------------------------------------
(* The requests, as far as they read: what stops them, what they will write       *)
proposeSchedule(d, s) == assertOpen /\ ~rules.window /\ Begin(d, [op |-> "PROPOSE", side |-> s])

respondSchedule(d, s) ==
  /\ match.proposal = Other(s)
  /\ \/ Begin(d, [op |-> "SCHEDULE"])
     \/ Begin(d, [op |-> "REFUSE"])

postMessage(d, s) == ~rules.window /\ Begin(d, [op |-> "TALK", side |-> s])

claimResult(d, s) ==
  /\ rules.result = "MANUAL" /\ assertOpen
  /\ Begin(d, IF rules.confirm THEN [op |-> "CLAIM", side |-> s]
              ELSE [op |-> "SETTLE", from |-> "TEAM"])

\* Whoever has not claimed it answers a claim; one of the EA audit either team.
respondClaim(d, s) ==
  /\ match.claim \notin {"NONE", s}
  /\ \/ Begin(d, [op |-> "DISPUTE"])
     \/ Begin(d, [op |-> "SETTLE", from |-> "TEAM"])

requestGrace(d, s) ==
  /\ assertOpen /\ (rules.window => ~overdue)
  /\ ~BothReady /\ s \notin match.grace
  /\ Begin(d, [op |-> "GRACE", side |-> s])

setReady(d, s) ==
  /\ assertOpen /\ rules.window /\ ~overdue
  /\ \/ s \notin match.ready /\ Begin(d, [op |-> "READY", side |-> s])
     \/ s \in match.ready /\ ~BothReady /\ Begin(d, [op |-> "NOT_READY", side |-> s])

forfeit(d, s) == assertOpen /\ Begin(d, [op |-> "WALKOVER"])

requestReview(d) == assertOpen /\ Begin(d, [op |-> "DISPUTE"])

\* resolveReview settles with no look at the status: settle has one.
resolveReview(d) == Begin(d, [op |-> "SETTLE", from |-> "REVIEW"])

rejectEaAudit(d) == match.audit = "PENDING" /\ Begin(d, [op |-> "REJECT_AUDIT"])

\* checkEaResult by a team, or the organisation, that has seen the match in the history.
checkEaResult(d) ==
  /\ rules.result = "EA_API" /\ assertOpen
  /\ IF rules.window THEN BothReady ELSE match.scheduled
  /\ Begin(d, [op |-> "SETTLE", from |-> "EA"])

\* synchronizeTournamentEaMatches runs it alone; a suspicious score goes to the audit, and
\* unless the attempt was a short one its result has to count.
synchronizeTournamentEaMatches ==
  /\ rules.result = "EA_API" /\ match.status \in {"READY", "AWAITING_PROOF"}
  /\ IF rules.window THEN BothReady ELSE match.scheduled
  /\ \/ Begin("ea", [op |-> "SETTLE", from |-> "EA"])
     \/ \E audit \in {"PENDING", "MUST_COUNT"} : Begin("ea", [op |-> "AUDIT", audit |-> audit])

engagedTeams ==
  ({match.proposal, match.claim} \cap Sides) \cup match.talked \cup (IF match.scheduled THEN Sides ELSE {})

\* Mutant: a result that waits for its confirmation is left alone.
resolveDeadlinesOfReady ==
  /\ overdue /\ match.status = "READY"
  /\ Begin("deadlines", [op |-> "DISPUTE"])

\* resolveDeadlines reads the rows, applyDeadline decides by them: a walkover if one team
\* has moved (in the hours mode if none has), otherwise the organisation.
resolveDeadlines ==
  /\ overdue /\ match.status \in {"READY", "AWAITING_PROOF"}
  /\ Begin("deadlines",
       IF rules.window
       THEN CASE BothReady         -> [op |-> "REVIEW_UNREPORTED"]
              [] match.ready = {}  -> [op |-> "DISPUTE"]
              [] OTHER             -> [op |-> "WALKOVER"]
       ELSE IF engagedTeams = Sides THEN [op |-> "DISPUTE"] ELSE [op |-> "WALKOVER"])
-----------------------------------------------------------------------------
(* The writes                                                                    *)
Written(row, write) ==
  CASE write.op = "PROPOSE"      -> [row EXCEPT !.proposal = write.side]
    [] write.op = "SCHEDULE"     -> [row EXCEPT !.proposal = "NONE", !.scheduled = TRUE]
    [] write.op = "REFUSE"       -> [row EXCEPT !.proposal = "NONE"]
    [] write.op = "TALK"         -> [row EXCEPT !.talked = @ \cup {write.side}]
    [] write.op = "CLAIM"        -> [row EXCEPT !.claim = write.side, !.status = "AWAITING_PROOF"]
    [] write.op = "DISPUTE"      -> [row EXCEPT !.status = "DISPUTED"]
    [] write.op = "GRACE"        -> [row EXCEPT !.grace = @ \cup {write.side}]
    [] write.op = "READY"        -> [row EXCEPT !.ready = @ \cup {write.side}]
    [] write.op = "NOT_READY"    -> [row EXCEPT !.ready = @ \ {write.side}]
    [] write.op = "REJECT_AUDIT" -> [row EXCEPT !.status = "READY", !.claim = "NONE", !.audit = "NONE"]
    [] write.op = "AUDIT"        -> [row EXCEPT !.status = "DISPUTED", !.claim = "EA", !.audit = write.audit]
    [] write.op = "REOPEN"       -> [row EXCEPT !.status = "READY"]
    [] write.op = "REVIEW_UNREPORTED" ->
         IF row.status = "READY" /\ row.audit = "NONE" /\ row.claim = "NONE"
         THEN [row EXCEPT !.status = "DISPUTED"] ELSE row

Put(d) == desk' = [desk EXCEPT ![d] = Nothing]

\* A presence or a grace moves the deadline; both present, it is four hours away.
DeadlineAfter(write, row) ==
  CASE write.op = "READY" /\ row.ready = Sides     -> {FALSE}
    [] write.op = "GRACE" /\ row.ready # Sides     -> {FALSE, overdue}
    [] write.op = "NOT_READY"                      -> BOOLEAN
    [] OTHER                                       -> {overdue}

Reopens(row) == match.status \in Decided /\ row.status \notin Decided

WriteMatch(row) == /\ match' = row
                   /\ Reopens(row) => reopened < MaxReopened
                   /\ reopened' = IF Reopens(row) THEN reopened + 1 ELSE reopened

\* Every write of the row but a decision is unconditional.
WriteRow(d) ==
  /\ desk[d].op \notin {"NONE", "SETTLE", "WALKOVER", "PROOF"}
  /\ WriteMatch(Written(match, desk[d]))
  /\ overdue' \in DeadlineAfter(desk[d], Written(match, desk[d]))
  /\ Put(d) /\ UNCHANGED <<rules, proof, readers, proofs, counted>>

\* Mutant: a decision does not claim the match, it only writes it.
DecideUnclaimed(d) ==
  /\ desk[d].op \in {"SETTLE", "WALKOVER"}
  /\ match' = [match EXCEPT !.status = IF desk[d].op = "SETTLE" THEN "FINISHED" ELSE "WALKOVER"]
  /\ counted' = counted + 1
  /\ Put(d) /\ UNCHANGED <<rules, overdue, proof, readers, proofs, reopened>>

\* settle and walkover claim the open match in the transaction that counts the result.
Decide(d) ==
  /\ desk[d].op \in {"SETTLE", "WALKOVER"}
  /\ match.status \in OPEN_STATUSES
  /\ match' = [match EXCEPT
       !.status = IF desk[d].op = "SETTLE" THEN "FINISHED" ELSE "WALKOVER",
       !.audit  = IF desk[d].op = "SETTLE" /\ desk[d].from = "REVIEW" THEN "NONE" ELSE @]
  /\ counted' = counted + 1
  /\ Put(d) /\ UNCHANGED <<rules, overdue, proof, readers, proofs, reopened>>

\* "Esta partida ja foi encerrada."
DecideTooLate(d) ==
  /\ desk[d].op \in {"SETTLE", "WALKOVER"}
  /\ match.status \notin OPEN_STATUSES
  /\ Put(d) /\ UNCHANGED <<rules, match, overdue, proof, readers, proofs, counted, reopened>>

Late == /\ ~overdue /\ overdue' = TRUE
        /\ UNCHANGED <<rules, match, desk, proof, readers, proofs, counted, reopened>>
-----------------------------------------------------------------------------
(* The proofs                                                                    *)
NoProof == [status |-> "NONE", processed |-> FALSE, attempts |-> 0, lock |-> "FREE"]

\* report with an image reads the match open and no proof PENDING, and sends its own later.
report(d) ==
  /\ rules.result = "AI_IMAGE" /\ assertOpen
  /\ proof.status # "PENDING" /\ proofs < MaxProofs
  /\ Begin(d, [op |-> "PROOF"])

\* The transaction: the proof, and AWAITING_PROOF whatever has become of the match meanwhile.
SendProof(d) ==
  /\ desk[d].op = "PROOF"
  /\ proof.status # "PENDING" /\ readers = 0 /\ proofs < MaxProofs
  /\ proof' = [NoProof EXCEPT !.status = "PENDING"]
  /\ proofs' = proofs + 1
  /\ WriteMatch([match EXCEPT !.status = "AWAITING_PROOF"])
  /\ Put(d) /\ UNCHANGED <<rules, overdue, readers, counted>>

\* MatchProof_one_pending_per_match: "a partida já tem uma prova pendente".
ProofRefused(d) ==
  /\ desk[d].op = "PROOF" /\ proof.status = "PENDING"
  /\ Put(d) /\ UNCHANGED <<rules, match, overdue, proof, readers, proofs, counted, reopened>>

\* report without one: the organisation writes the result down.
reportWithoutImage(d) == assertOpen /\ Begin(d, [op |-> "SETTLE", from |-> "ORG"])

ProofChanges == UNCHANGED <<rules, match, desk, overdue, proofs, counted, reopened>>

MayBeRead == proof.status = "PENDING" /\ ~proof.processed /\ proof.attempts < 3

\* processQueuedProofs, and report itself: the lock is taken if it is free or five minutes old.
processProof ==
  /\ MayBeRead /\ proof.lock \in {"FREE", "OLD"}
  /\ proof' = [proof EXCEPT !.lock = "HELD", !.attempts = @ + 1]
  /\ readers' = readers + 1
  /\ ProofChanges

\* With the reading switched off meanwhile the proof goes to the organisation unread.
processProofUnread ==
  /\ MayBeRead
  /\ proof' = [proof EXCEPT !.processed = TRUE, !.lock = "FREE"]
  /\ UNCHANGED readers /\ ProofChanges

LockGrowsOld == /\ proof.lock = "HELD" /\ proof' = [proof EXCEPT !.lock = "OLD"]
                /\ UNCHANGED readers /\ ProofChanges

ProofIsRead ==
  /\ readers > 0 /\ readers' = readers - 1
  /\ proof' = [proof EXCEPT !.processed = TRUE, !.lock = "FREE"]
  /\ ProofChanges

\* An automatic approval writes the proof, then settles.
ProofIsApproved(d) ==
  /\ rules.auto /\ readers > 0 /\ readers' = readers - 1
  /\ Free(d) /\ desk' = [desk EXCEPT ![d] = [op |-> "SETTLE", from |-> "PROOF"]]
  /\ proof' = [proof EXCEPT !.processed = TRUE, !.lock = "FREE", !.status = "APPROVED"]
  /\ UNCHANGED <<rules, match, overdue, proofs, counted, reopened>>

\* The third failure hands the proof to the organisation.
ReadingFails ==
  /\ readers > 0 /\ readers' = readers - 1
  /\ proof' = [proof EXCEPT !.lock = "FREE", !.processed = @ \/ proof.attempts >= 3]
  /\ ProofChanges

\* The server stops while it waits for a reading.
Restart == /\ readers > 0 /\ readers' = 0 /\ UNCHANGED proof /\ ProofChanges

review(d) ==
  /\ proof.status = "PENDING" /\ proof.processed /\ Free(d)
  /\ \/ /\ proof' = [proof EXCEPT !.status = "APPROVED"]
        /\ desk' = [desk EXCEPT ![d] = [op |-> "SETTLE", from |-> "PROOF"]]
     \/ /\ proof' = [proof EXCEPT !.status = "REJECTED"]
        /\ desk' = [desk EXCEPT ![d] = IF match.status \in {"AWAITING_PROOF", "DISPUTED"}
                                        THEN [op |-> "REOPEN"] ELSE Nothing]
  /\ UNCHANGED <<rules, match, overdue, readers, proofs, counted, reopened>>
-----------------------------------------------------------------------------
Init == /\ rules \in Rules
        /\ match = [status |-> "READY", claim |-> "NONE", audit |-> "NONE", proposal |-> "NONE",
                    scheduled |-> FALSE, talked |-> {}, ready |-> IF rules.present THEN Sides ELSE {},
                    grace |-> {}]
        /\ desk = [d \in Desks |-> Nothing]
        /\ overdue = FALSE /\ proof = NoProof /\ readers = 0 /\ proofs = 0
        /\ counted = 0 /\ reopened = 0

Next ==
  \/ \E d \in People, s \in Sides : proposeSchedule(d, s)
  \/ \E d \in People, s \in Sides : respondSchedule(d, s)
  \/ \E d \in People, s \in Sides : postMessage(d, s)
  \/ \E d \in People, s \in Sides : claimResult(d, s)
  \/ \E d \in People, s \in Sides : respondClaim(d, s)
  \/ \E d \in People, s \in Sides : requestGrace(d, s)
  \/ \E d \in People, s \in Sides : setReady(d, s)
  \/ \E d \in People, s \in Sides : forfeit(d, s)
  \/ \E d \in People : requestReview(d)
  \/ \E d \in People : resolveReview(d)
  \/ \E d \in People : rejectEaAudit(d)
  \/ \E d \in People : checkEaResult(d)
  \/ \E d \in People : reportWithoutImage(d)
  \/ synchronizeTournamentEaMatches
  \/ resolveDeadlines
  \/ \E d \in Desks : WriteRow(d)
  \/ \E d \in Desks : Decide(d)
  \/ \E d \in Desks : DecideTooLate(d)
  \/ Late
  \/ \E d \in People : report(d)
  \/ \E d \in People : SendProof(d)
  \/ \E d \in People : ProofRefused(d)
  \/ processProof
  \/ processProofUnread
  \/ LockGrowsOld
  \/ ProofIsRead
  \/ \E d \in People : ProofIsApproved(d)
  \/ ReadingFails
  \/ Restart
  \/ \E d \in People : review(d)

DeadlineWrites == WriteRow("deadlines") \/ Decide("deadlines") \/ DecideTooLate("deadlines")
ReadingEnds    == ProofIsRead \/ ReadingFails \/ Restart

\* The crons come round, what a handler has begun it ends, a lock grows old.
Fairness ==
  /\ WF_vars(resolveDeadlines)
  /\ WF_vars(DeadlineWrites)
  /\ WF_vars(processProof)
  /\ WF_vars(LockGrowsOld)
  /\ WF_vars(ReadingEnds)

Spec == Init /\ [][Next]_vars /\ Fairness
-----------------------------------------------------------------------------
(* Properties                                                                    *)

\* Whatever teams, organisation, EA, proofs and deadlines report at the same time, a match
\* is counted once, and once more for each time it was opened again.
OneResultCounts == counted = reopened + (IF match.status \in Decided THEN 1 ELSE 0)

\* "ou quando o prazo estoura": past its deadline a match is decided or comes before the
\* organisation, unless both teams are present and a result is already in somebody's hands
\* (MCJourneys, DeadlinesAreKept).
LeftAlone ==
  /\ overdue /\ match.status \in {"READY", "AWAITING_PROOF"}
  /\ rules.window /\ BothReady
     => match.status = "READY" /\ match.claim = "NONE" /\ match.audit = "NONE"

\* A proof that was sent is read or handed to the organisation, through failures and
\* restarts, unless the server stopped during the third and last attempt (MCJourneys, AwaitedIsDone).
Unread == /\ proof.status = "PENDING" /\ ~proof.processed
          /\ ~(proof.attempts = 3 /\ readers = 0)
=============================================================================
