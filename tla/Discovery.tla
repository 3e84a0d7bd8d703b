----------------------------- MODULE Discovery -----------------------------
(***************************************************************************)
(* LAN discovery: jobs that probe every target of a scope with a bounded   *)
(* number of workers, recorded in SQLite so that a job survives a restart. *)
(*                                                                         *)
(* Actors on one event loop: start requests, one task per job with its     *)
(* workers, cancel requests, and the startup recovery.  A worker holds one *)
(* target at a time, so the workers of a job are seen through the stage of *)
(* its targets.  The wall clock of the rows and the monotonic clock of the *)
(* workers pass a job's deadline together.  SQLite does not fail.          *)
(***************************************************************************)
EXTENDS Naturals, FiniteSets

CONSTANTS
  DJobs,           \* jobs; also their start requests
  Targets,         \* the targets of the scope
  SelfTargets,     \* targets refused without a probe (the Manager's own)
  MaxConcurrency,  \* semaphore and workers per job
  MaxActiveJobs,   \* max_active_jobs
  MaxDown          \* bound: crashes and shutdowns

ASSUME DiscoveryAssumption ==
  /\ IsFiniteSet(Targets) /\ SelfTargets \subseteq Targets
  /\ MaxConcurrency \in Nat \ {0} /\ MaxActiveJobs \in Nat /\ MaxDown \in Nat

VARIABLES
  job,      \* [DJobs -> [state, cancel, agg, results]]: discovery_jobs and results
  late,     \* jobs whose deadline has passed
  jaudit,   \* [DJobs -> ...]: the audit row of discovery.start
  task,     \* [DJobs -> {"none", "created", "run"}]: DiscoveryService._tasks
  stage,    \* [DJobs -> [Targets -> ...]]: where the task's workers are
  cancels,  \* jobs whose cancel() waits for the task
  probed,   \* [DJobs -> SUBSET Targets]: targets a probe was sent to
  phase,    \* "up", "down", "recovered" (rows repaired, nothing resumed yet)
  downs

discoveryVars == <<job, late, jaudit, task, stage, cancels, probed, phase, downs>>

-----------------------------------------------------------------------------
Ended == {"completed", "cancelled", "failed"}
Open == {"queued", "running"}
Dispatch == {"not_dispatched", "unknown", "dispatched"}
JobRow == [state: {"none", "refused", "deleted"} \cup Open \cup Ended, cancel: BOOLEAN,
           agg: Dispatch, results: SUBSET Targets]
AuditRow == [row: {"none", "pending", "closed"}, success: BOOLEAN, dispatch: Dispatch]
Unwritten == [row |-> "none", success |-> FALSE, dispatch |-> "not_dispatched"]
Pending == [Unwritten EXCEPT !.row = "pending"]
NoWork == [t \in Targets |-> "done"]

DiscoveryTypeOK ==
  /\ job \in [DJobs -> JobRow]
  /\ late \subseteq DJobs
  /\ jaudit \in [DJobs -> AuditRow]
  /\ task \in [DJobs -> {"none", "created", "run"}]
  /\ stage \in [DJobs -> [Targets -> {"queue", "wait", "probe", "done"}]]
  /\ cancels \subseteq DJobs
  /\ probed \in [DJobs -> SUBSET Targets]
  /\ phase \in {"up", "down", "recovered"}
  /\ downs \in Nat

DiscoveryInit ==
  /\ job = [j \in DJobs |-> [state |-> "none", cancel |-> FALSE,
                             agg |-> "not_dispatched", results |-> {}]]
  /\ late = {} /\ cancels = {}
  /\ jaudit = [j \in DJobs |-> Unwritten]
  /\ task = [j \in DJobs |-> "none"]
  /\ stage = [j \in DJobs |-> NoWork]
  /\ probed = [j \in DJobs |-> {}]
  /\ phase = "up" /\ downs = 0

-----------------------------------------------------------------------------
(* Rows.                                                                   *)

Is(j, S) == job[j].state \in S
Active == {j \in DJobs : Is(j, Open)}

\* DiscoveryAuditOutcomeRecorder: closes a pending row from the job's row.
OutcomeOf(row) ==
  [row |-> "closed", success |-> row.state = "completed", dispatch |-> row.agg]
\* Faulty variant: the outcome is taken from the row as it was before.
RecordedBefore(j, row) == IF jaudit[j] = Pending THEN OutcomeOf(job[j]) ELSE jaudit[j]
Recorded(j, row) == IF jaudit[j] = Pending THEN OutcomeOf(row) ELSE jaudit[j]

\* finish: a compare-and-set on the state and the cancel flag.
Finished(row, state) ==
  IF row.state \in Open /\ row.cancel = (state = "cancelled")
  THEN [row EXCEPT !.state = state] ELSE row

\* merge_dispatch: only while running, and never backwards.
Merged(row, ds) ==
  IF row.state = "running" /\ (row.agg = "not_dispatched" \/ ds = "dispatched")
  THEN [row EXCEPT !.agg = ds] ELSE row

\* Faulty variant: recorded for a job that has ended.
WithResultAlways(row, t) == [row EXCEPT !.results = @ \cup {t}]

\* record_result: only while running; the counts are counts of the results.
WithResult(row, t) ==
  IF row.state = "running" THEN [row EXCEPT !.results = @ \cup {t}] ELSE row

-----------------------------------------------------------------------------
(* start: the intent is committed, overdue jobs are failed and recorded,   *)
(* then the job is created under the capacity and its task is created.     *)

Expired(j) == j \in late /\ Is(j, Open)
ExpiredRow(j) == IF Expired(j) THEN [job[j] EXCEPT !.state = "failed"] ELSE job[j]
ExpiredAudit(j) == IF Expired(j) THEN Recorded(j, ExpiredRow(j)) ELSE jaudit[j]

\* create_job counts the open jobs in the transaction that inserts its row.
Accepted == Cardinality({k \in Active : ~Expired(k)}) < MaxActiveJobs

StartJob(j) ==
  /\ phase = "up" /\ job[j].state = "none" /\ jaudit[j] = Unwritten
  /\ IF Accepted
     THEN /\ job' = [k \in DJobs |-> IF k = j THEN [job[j] EXCEPT !.state = "queued"]
                                     ELSE ExpiredRow(k)]
          /\ jaudit' = [k \in DJobs |-> IF k = j THEN Pending ELSE ExpiredAudit(k)]
          /\ task' = [task EXCEPT ![j] = "created"]
     ELSE /\ job' = [k \in DJobs |-> IF k = j THEN [job[j] EXCEPT !.state = "refused"]
                                     ELSE ExpiredRow(k)]
          /\ jaudit' = [k \in DJobs |->
                          IF k = j THEN [Unwritten EXCEPT !.row = "closed"]
                          ELSE ExpiredAudit(k)]
          /\ UNCHANGED task
  /\ UNCHANGED <<late, stage, cancels, probed, phase, downs>>

DeadlinePasses(j) ==
  /\ Is(j, Open) /\ j \notin late
  /\ late' = late \cup {j}
  /\ UNCHANGED <<job, jaudit, task, stage, cancels, probed, phase, downs>>

-----------------------------------------------------------------------------
(* The task of a job.                                                      *)

\* The queue of a run: the targets of the scope that have no result yet.
Remaining(j) ==
  [t \in Targets |-> IF t \in job[j].results THEN "done" ELSE "queue"]

\* claim, then queue what remains.
Claim(j) ==
  /\ task[j] = "created"
  /\ IF job[j].state = "queued" /\ ~job[j].cancel
     THEN /\ job' = [job EXCEPT ![j].state = "running"]
          /\ task' = [task EXCEPT ![j] = "run"]
          /\ stage' = [stage EXCEPT ![j] = Remaining(j)]
     ELSE task' = [task EXCEPT ![j] = "none"] /\ UNCHANGED <<job, stage>>
  /\ UNCHANGED <<late, jaudit, cancels, probed, phase, downs>>

At(j, s) == {t \in Targets : stage[j][t] = s}
Busy(j) == At(j, "wait") \cup At(j, "probe")
Probing == UNION {{<<j, t>> : t \in At(j, "probe")} : j \in DJobs}
Waiting == UNION {{<<j, t>> : t \in At(j, "wait")} : j \in DJobs}
Free == Cardinality(Probing) < MaxConcurrency

\* A worker stops taking targets once the job is cancelled or overdue.
Stops(j) == job[j].cancel \/ j \in late

\* Faulty variant: the job is not marked before the probe leaves.
SendProbeUnmarked(j, t) ==
  /\ UNCHANGED job
  /\ probed' = [probed EXCEPT ![j] = @ \cup {t}]
  /\ stage' = [stage EXCEPT ![j][t] = "probe"]

SendProbe(j, t) ==
  /\ job' = [job EXCEPT ![j] = Merged(@, "unknown")]
  /\ probed' = [probed EXCEPT ![j] = @ \cup {t}]
  /\ stage' = [stage EXCEPT ![j][t] = "probe"]

\* A free worker takes the next target, and probes it at once unless the
\* semaphore makes it wait.
Take(j, t) ==
  /\ task[j] = "run" /\ t \in At(j, "queue")
  /\ Cardinality(Busy(j)) < MaxConcurrency
  /\ ~Stops(j)
  /\ \/ /\ t \in SelfTargets
        /\ job' = [job EXCEPT ![j] = WithResult(@, t)]
        /\ stage' = [stage EXCEPT ![j][t] = "done"]
        /\ UNCHANGED probed
     \/ /\ t \notin SelfTargets /\ Free /\ Waiting = {}
        /\ SendProbe(j, t)
     \/ /\ t \notin SelfTargets /\ ~(Free /\ Waiting = {})
        /\ stage' = [stage EXCEPT ![j][t] = "wait"]
        /\ UNCHANGED <<job, probed>>
  /\ UNCHANGED <<late, jaudit, task, cancels, phase, downs>>

\* The semaphore is granted; neither the state nor the deadline is asked again.
Acquire(j, t) ==
  /\ t \in At(j, "wait") /\ Free
  /\ SendProbe(j, t)
  /\ UNCHANGED <<late, jaudit, task, cancels, phase, downs>>

\* An answer, of whatever shape, or an error of the network is "dispatched"; a
\* timeout leaves the job at "unknown".
Answered == {"unknown", "dispatched"}

\* Either way the result is recorded.
EndProbe(j, t) ==
  /\ t \in At(j, "probe")
  /\ \E ds \in Answered :
       job' = [job EXCEPT ![j] = WithResult(Merged(@, ds), t)]
  /\ stage' = [stage EXCEPT ![j][t] = "done"]
  /\ UNCHANGED <<late, jaudit, task, cancels, probed, phase, downs>>

\* Faulty variant: a job that ran out of time is taken for complete.
VerdictLate(j) == IF job[j].cancel THEN "cancelled" ELSE "completed"

\* The workers have returned: how the job ends.
Verdict(j) ==
  CASE job[j].cancel -> "cancelled"
    [] ~job[j].cancel /\ j \in late /\ job[j].results # Targets -> "failed"
    [] OTHER -> "completed"

WorkersDone(j) == task[j] = "run" /\ Busy(j) = {} /\ (At(j, "queue") = {} \/ Stops(j))

EndTask(j) ==
  LET row == Finished(job[j], Verdict(j)) IN
  /\ WorkersDone(j)
  /\ job' = [job EXCEPT ![j] = row]
  /\ jaudit' = [jaudit EXCEPT ![j] = IF row.state \in Ended THEN Recorded(j, row) ELSE @]
  /\ task' = [task EXCEPT ![j] = "none"]
  /\ stage' = [stage EXCEPT ![j] = NoWork]
  /\ UNCHANGED <<late, cancels, probed, phase, downs>>

-----------------------------------------------------------------------------
(* cancel: the flag, then the task for at most two seconds, then the row.  *)

RequestCancel(j) ==
  /\ phase = "up" /\ Is(j, Open) /\ j \notin cancels
  /\ job' = [job EXCEPT ![j].cancel = TRUE]
  /\ cancels' = cancels \cup {j}
  /\ UNCHANGED <<late, jaudit, task, stage, probed, phase, downs>>

\* The cancelled task unwinds and its workers drop what they hold.
TaskCancelled(j) ==
  /\ j \in cancels /\ task[j] # "none"
  /\ task' = [task EXCEPT ![j] = "none"]
  /\ stage' = [stage EXCEPT ![j] = NoWork]
  /\ UNCHANGED <<job, late, jaudit, cancels, probed, phase, downs>>

\* The task has ended, or the wait has timed out.
EndCancel(j) ==
  LET row == Finished(job[j], "cancelled") IN
  /\ j \in cancels
  /\ job' = [job EXCEPT ![j] = row]
  /\ jaudit' = [jaudit EXCEPT ![j] = Recorded(j, row)]
  /\ cancels' = cancels \ {j}
  /\ UNCHANGED <<late, task, stage, probed, phase, downs>>

-----------------------------------------------------------------------------
(* Stopping and starting.                                                  *)

Stop(rows, audits) ==
  /\ phase # "down" /\ downs < MaxDown
  /\ job' = rows /\ jaudit' = audits
  /\ task' = [j \in DJobs |-> "none"]
  /\ stage' = [j \in DJobs |-> NoWork]
  /\ cancels' = {}
  /\ phase' = "down" /\ downs' = downs + 1
  /\ UNCHANGED <<late, probed>>

\* shutdown, or a crash between two steps.
Down == Stop(job, jaudit)

\* A crash after a row was finished and before its audit row was closed.
CrashInFinish(j) ==
  \/ WorkersDone(j) /\ Stop([job EXCEPT ![j] = Finished(@, Verdict(j))], jaudit)
  \/ j \in cancels /\ Stop([job EXCEPT ![j] = Finished(@, "cancelled")], jaudit)

\* A crash after the intent was committed and before the job was created.
CrashInStart(j) ==
  /\ phase = "up" /\ job[j].state = "none" /\ jaudit[j] = Unwritten
  /\ Stop(job, [jaudit EXCEPT ![j] = Pending])

\* Faulty variant: a job that was running is left as it was.
RecoveredRowQueued(j) ==
  CASE Is(j, Open) /\ job[j].cancel -> [job[j] EXCEPT !.state = "cancelled"]
    [] Is(j, Open) /\ ~job[j].cancel /\ j \in late -> [job[j] EXCEPT !.state = "failed"]
    [] OTHER -> job[j]

\* DiscoveryRepository.recover, one transaction.
RecoveredRow(j) ==
  CASE Is(j, Open) /\ job[j].cancel -> [job[j] EXCEPT !.state = "cancelled"]
    [] Is(j, Open) /\ ~job[j].cancel /\ j \in late -> [job[j] EXCEPT !.state = "failed"]
    [] Is(j, Open) /\ ~job[j].cancel /\ j \notin late -> [job[j] EXCEPT !.state = "queued"]
    [] OTHER -> job[j]

\* cleanup: an ended job is deleted once it is old enough.
Deleted(row) == [row EXCEPT !.state = "deleted"]

RecoverRows ==
  /\ phase = "down"
  /\ job' = [j \in DJobs |-> RecoveredRow(j)]
  /\ phase' = "recovered"
  /\ UNCHANGED <<late, jaudit, task, stage, cancels, probed, downs>>

\* The rest of recover_and_cleanup: the audit rows of ended jobs are closed,
\* old ended jobs are deleted, and queued jobs are resumed, or failed when
\* their scope is no longer configured.
Resume ==
  /\ phase = "recovered"
  /\ \E old, unscoped \in SUBSET DJobs :
       LET row(j) ==
             IF job[j].state = "queued" /\ j \in unscoped THEN Finished(job[j], "failed")
             ELSE IF Is(j, Ended) /\ j \in old THEN Deleted(job[j])
             ELSE job[j]
       IN
       /\ \A j \in old : Is(j, Ended)
       /\ \A j \in unscoped : job[j].state = "queued"
       /\ job' = [j \in DJobs |-> row(j)]
       /\ jaudit' = [j \in DJobs |->
            IF Is(j, Ended) THEN Recorded(j, job[j])
            ELSE IF j \in unscoped THEN Recorded(j, row(j)) ELSE jaudit[j]]
       /\ task' = [j \in DJobs |->
            IF job[j].state = "queued" /\ j \notin unscoped THEN "created" ELSE "none"]
  /\ phase' = "up"
  /\ UNCHANGED <<late, stage, cancels, probed, downs>>

-----------------------------------------------------------------------------
DiscoveryNext ==
  \/ \E j \in DJobs : StartJob(j)
  \/ \E j \in DJobs : DeadlinePasses(j)
  \/ \E j \in DJobs : Claim(j)
  \/ \E j \in DJobs, t \in Targets : Take(j, t)
  \/ \E j \in DJobs, t \in Targets : Acquire(j, t)
  \/ \E j \in DJobs, t \in Targets : EndProbe(j, t)
  \/ \E j \in DJobs : EndTask(j)
  \/ \E j \in DJobs : RequestCancel(j)
  \/ \E j \in DJobs : TaskCancelled(j)
  \/ \E j \in DJobs : EndCancel(j)
  \/ Down
  \/ \E j \in DJobs : CrashInFinish(j)
  \/ \E j \in DJobs : CrashInStart(j)
  \/ RecoverRows
  \/ Resume

\* What the event loop, the probe timeouts and the supervisor that restarts the
\* Manager bring about; nobody has to start, cancel or outlive a deadline.
DiscoveryProgress ==
  \/ \E j \in DJobs : Claim(j) \/ EndTask(j) \/ EndCancel(j)
  \/ \E j \in DJobs, t \in Targets : Take(j, t) \/ Acquire(j, t) \/ EndProbe(j, t)
  \/ RecoverRows
  \/ Resume

DiscoverySpec ==
  DiscoveryInit /\ [][DiscoveryNext]_discoveryVars /\ WF_discoveryVars(DiscoveryProgress)

-----------------------------------------------------------------------------
(* Properties.                                                             *)

\* Once a job has ended, nothing its late workers, a waiting cancel, another
\* start's expiry or a restart does changes its state, its dispatch state or
\* its results; its row can only be deleted (record_result, merge_dispatch and
\* finish write running or open rows only).
EndedIsFinal ==
  [][\A j \in DJobs : Is(j, Ended) =>
       \/ job'[j] = job[j]
       \/ job'[j] = Deleted(job[j])]_discoveryVars

\* A closed discovery.start audit row says what the job's row says, whoever
\* closed it: success means completed, and the dispatch state is the job's;
\* and only an ended job's audit row is closed.
AuditMatchesJob ==
  \A j \in DJobs : jaudit[j].row = "closed" =>
    /\ Is(j, Ended \cup {"refused", "deleted"})
    /\ job[j].state # "deleted" => jaudit[j] = OutcomeOf(job[j])

\* A completed job has a result for every target, over restarts that resumed
\* it; a cancelled flag never ends in "completed"; and a job that its cancel
\* request has answered for is no longer open.
CompletedChecked ==
  \A j \in DJobs :
    /\ job[j].state = "completed" => job[j].results = Targets /\ ~job[j].cancel
    /\ phase = "up" /\ job[j].cancel /\ Is(j, Open) => j \in cancels

\* When an audit row is closed as "not_dispatched", no probe of the job has
\* been sent, by this Manager process or by one that crashed before it.
DispatchHonest ==
  [][\A j \in DJobs :
       jaudit[j].row # "closed" /\ jaudit'[j].row = "closed" /\ jaudit'[j].dispatch = "not_dispatched"
         => probed[j] = {}]_discoveryVars

\* Every job that was created ends, with its audit row closed, over crashes.
JobsEnd ==
  \A j \in DJobs : Is(j, Open) ~> (Is(j, Ended \cup {"deleted"}) /\ jaudit[j].row = "closed")
=============================================================================
