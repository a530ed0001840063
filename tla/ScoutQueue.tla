----------------------------- MODULE ScoutQueue -----------------------------
(***************************************************************************)
(* The queue of Clash scouts (clash/scout-queue.service.ts) and the scout  *)
(* it runs (clash/clash.service.ts).  Jobs live in memory; pump takes them *)
(* one by one.  Every await of the scout is a stage, between which         *)
(* requests come in, time passes and the process may restart.              *)
(* Ages: 0 is younger than RESULT_REUSE_MS, 1 younger than                 *)
(* JOB_RETENTION_MS, 2 older than that.                                    *)
(***************************************************************************)
EXTENDS Integers, Sequences, SequencesExt

CONSTANTS RiotKeys,     \* who is scouted, and whether deeply
          MaxJobs,      \* jobs in memory at once
          Members       \* players of a Clash team

VARIABLES jobs,         \* the Map of jobs, in the order they were added
          pending,      \* the ids that wait
          processing,
          scout         \* the scout the pump waits for

vars == <<jobs, pending, processing, scout>>

Ids == 1 .. MaxJobs
None == -1      \* no finishedAt yet

NoScout == [stage |-> "none", job |-> 0, member |-> 0]

Init == jobs = <<>> /\ pending = <<>> /\ processing = FALSE /\ scout = NoScout

Has(js, id) == \E i \in DOMAIN js : js[i].id = id
With(js, id, Change(_)) == [i \in DOMAIN js |-> IF js[i].id = id THEN Change(js[i]) ELSE js[i]]

isFinished(job) == job.status \in {"done", "error"}

\* finishedAt ?? createdAt
retainedFor(job) == IF job.finishedAt = None THEN job.createdAt ELSE job.finishedAt

prune(js) == SelectSeq(js, LAMBDA job : ~(isFinished(job) /\ retainedFor(job) = 2))

\* The job that enqueue returns instead of adding another: one that waits or
\* runs, or a result that is still fresh.  A job that is done but still being
\* saved has no finishedAt, and is not fresh.
Reuses(job, key) ==
  /\ job.riotKey = key
  /\ \/ job.status \in {"queued", "running"}
     \/ job.status = "done" /\ job.finishedAt = 0

NewJob(id, key) == [id |-> id, riotKey |-> key, status |-> "queued", createdAt |-> 0,
                    finishedAt |-> None, saved |-> FALSE]
-----------------------------------------------------------------------------
(* pump: the next job that waits starts; with none left the pump stops.    *)

Starts(js, waiting) ==
  /\ jobs' = With(js, Head(waiting), LAMBDA job : [job EXCEPT !.status = "running"])
  /\ pending' = Tail(waiting)
  /\ processing' = TRUE
  /\ scout' = [stage |-> "account", job |-> Head(waiting), member |-> 0]

\* The pump goes on with the jobs js and the queue waiting.
pump(js, waiting) ==
  \/ waiting = <<>> /\ jobs' = js /\ pending' = <<>> /\ processing' = FALSE /\ scout' = NoScout
  \/ waiting # <<>> /\ Starts(js, waiting)

enqueue(key) ==
  LET kept == prune(jobs) IN
  IF \E i \in DOMAIN kept : Reuses(kept[i], key)
  THEN jobs' = kept /\ UNCHANGED <<pending, processing, scout>>
  ELSE \E id \in Ids :
         /\ ~Has(kept, id) /\ id # scout.job
         /\ \A n \in 1 .. id - 1 : Has(kept, n) \/ n = scout.job
         /\ LET js == Append(kept, NewJob(id, key)) IN
            IF processing
            THEN jobs' = js /\ pending' = Append(pending, id) /\ UNCHANGED <<processing, scout>>
            ELSE pump(js, Append(pending, id))

\* Asking for a job prunes too.
getJob == /\ jobs' = prune(jobs) /\ jobs' # jobs
          /\ UNCHANGED <<pending, processing, scout>>
-----------------------------------------------------------------------------
(* The stages of a scout.                                                  *)

GoesTo(stage, member) == /\ scout' = [scout EXCEPT !.stage = stage, !.member = member]
                         /\ UNCHANGED <<jobs, pending, processing>>

\* The scout throws: the job ends in error and the pump goes on.
Fails == pump(With(jobs, scout.job, LAMBDA job : [job EXCEPT !.status = "error", !.finishedAt = 0]),
              pending)

getAccount == scout.stage = "account" /\ (GoesTo("team", 0) \/ Fails)

\* No Clash registration at all is an error.
getClashPlayers == scout.stage = "team" /\ (GoesTo("resolve", 0) \/ Fails)

\* No team of his answers, and that is an error; of several the one whose
\* tournament starts first is taken.
resolveCurrentClashTeam == scout.stage = "resolve" /\ (GoesTo("players", 1) \/ Fails)

\* A player who cannot be read is left out; the scout goes on with the next.
buildFromPuuid ==
  /\ scout.stage = "players"
  /\ IF scout.member < Members THEN GoesTo("players", scout.member + 1) ELSE GoesTo("ai", 0)

\* The profile of the team may fail.  The analysis by the model may too, and the
\* scout is done all the same: the job is done at once, its finishedAt comes with
\* the end of the saving.
analyzeOpponents ==
  /\ scout.stage = "ai"
  /\ \/ Fails
     \/ /\ scout' = [scout EXCEPT !.stage = "save"]
        /\ jobs' = With(jobs, scout.job, LAMBDA job : [job EXCEPT !.status = "done"])
        /\ UNCHANGED <<pending, processing>>

\* The history is written, or it is not; the job is finished, unless it was
\* pruned meanwhile.
saveAnalysis ==
  /\ scout.stage = "save"
  /\ \E saved \in BOOLEAN :
       pump(With(jobs, scout.job, LAMBDA job : [job EXCEPT !.saved = saved, !.finishedAt = 0]),
            pending)

TimePasses ==
  LET Older(age) == IF age \in {None, 2} THEN age ELSE age + 1 IN
  /\ jobs' = [i \in DOMAIN jobs |-> [jobs[i] EXCEPT !.createdAt = Older(@),
                                                     !.finishedAt = Older(@)]]
  /\ UNCHANGED <<pending, processing, scout>>

\* The process restarts: the queue was only in memory.
Restart == jobs' = <<>> /\ pending' = <<>> /\ processing' = FALSE /\ scout' = NoScout

Stage == \/ getAccount \/ getClashPlayers \/ resolveCurrentClashTeam
         \/ buildFromPuuid \/ analyzeOpponents \/ saveAnalysis

Next == Stage \/ getJob \/ TimePasses \/ Restart \/ \E key \in RiotKeys : enqueue(key)

\* Every call to Riot, to the model and to the database ends (riotGet gives up
\* after its retries), so a running scout goes on.
Fairness == WF_vars(Stage)

Spec == Init /\ [][Next]_vars /\ Fairness
-----------------------------------------------------------------------------
(* Properties.                                                             *)

\* A scout that was put in the queue ends, done or in error, whatever fails on
\* the way in the scouts before it, in its own stages or in the saving: who
\* waits does not wait for ever (MCJourneys, AwaitedIsDone).
Waits(id) == \E i \in DOMAIN jobs : jobs[i].id = id /\ jobs[i].status \in {"queued", "running"}
=============================================================================
