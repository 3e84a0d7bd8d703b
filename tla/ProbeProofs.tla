----------------------------- MODULE ProbeProofs -----------------------------
(***************************************************************************)
(* Proofs about the two parts of the Manager that probe: Discovery, for    *)
(* any number of jobs, targets and crashes, and FleetProbes, for any       *)
(* number of Agents and instances.                                         *)
(***************************************************************************)
EXTENDS Discovery, FleetProbes, TLAPS

-----------------------------------------------------------------------------
(* Discovery: the inductive invariant, job by job.                         *)

NoJobRow == [state |-> "none", cancel |-> FALSE, agg |-> "not_dispatched", results |-> {}]

\* A job that was not created has nothing.
NotCreated(j) ==
  job[j].state = "none" => job[j] = NoJobRow /\ task[j] = "none" /\ probed[j] = {}

\* The audit intent is committed before the job is created.
IntentFirst(j) ==
  \/ jaudit[j].row = "closed"
  \/ jaudit[j] = Pending
  \/ jaudit[j] = Unwritten /\ job[j].state = "none"

\* Tasks and cancel requests live in the process.
InProcess(j) ==
  /\ phase # "up" => j \notin cancels /\ task[j] = "none"
  /\ task[j] # "run" => stage[j] = NoWork

\* A task runs a job it claimed; when the job ended under it, whoever ended it
\* has closed the audit row.
TaskOf(j) ==
  task[j] = "run" =>
    /\ Is(j, {"running"} \cup Ended)
    /\ jaudit[j].row # "closed" => job[j].state = "running"

\* After recover an open job is queued, and nobody has cancelled it.
Repaired(j) == phase = "recovered" /\ Is(j, Open) => job[j].state = "queued" /\ ~job[j].cancel

Flagged(j) == j \in cancels => job[j].cancel /\ Is(j, Open \cup Ended)

\* What a running job's workers are done with has a result.
ResultsIn(j) ==
  task[j] = "run" /\ job[j].state = "running" =>
    \A t \in Targets : stage[j][t] = "done" => t \in job[j].results

\* Until the audit row is closed, the job's row knows of every probe.
ProbesMarked(j) ==
  jaudit[j].row # "closed" /\ job[j].agg = "not_dispatched" => probed[j] = {}

AuditMatches(j) ==
  jaudit[j].row = "closed" =>
    /\ Is(j, Ended \cup {"refused", "deleted"})
    /\ job[j].state # "deleted" => jaudit[j] = OutcomeOf(job[j])

Checked(j) ==
  /\ job[j].state = "completed" => job[j].results = Targets /\ ~job[j].cancel
  /\ phase = "up" /\ job[j].cancel /\ Is(j, Open) => j \in cancels

JobInv(j) ==
  /\ NotCreated(j) /\ IntentFirst(j) /\ InProcess(j) /\ TaskOf(j) /\ Repaired(j)
  /\ Flagged(j) /\ ResultsIn(j) /\ ProbesMarked(j) /\ AuditMatches(j) /\ Checked(j)

DiscoveryInv == DiscoveryTypeOK /\ \A j \in DJobs : JobInv(j)

-----------------------------------------------------------------------------
(* Rows.                                                                   *)

LEMMA JobRowTypes ==
  ASSUME NEW row \in JobRow
  PROVE  /\ \A s \in {"none", "refused", "deleted"} \cup Open \cup Ended :
              [row EXCEPT !.state = s] \in JobRow
         /\ \A ds \in Dispatch : [row EXCEPT !.agg = ds] \in JobRow
         /\ \A t \in Targets : [row EXCEPT !.results = @ \cup {t}] \in JobRow
         /\ [row EXCEPT !.cancel = TRUE] \in JobRow
<1>1. \A t \in Targets : row.results \cup {t} \in SUBSET Targets
  BY DEF JobRow
<1>2. \A s \in {"none", "refused", "deleted"} \cup Open \cup Ended :
              [row EXCEPT !.state = s] \in JobRow
  BY Zenon DEF JobRow
<1>3. \A ds \in Dispatch : [row EXCEPT !.agg = ds] \in JobRow
  BY Zenon DEF JobRow
<1>4. \A t \in Targets : [row EXCEPT !.results = @ \cup {t}] \in JobRow
  BY <1>1, Zenon DEF JobRow
<1>5. [row EXCEPT !.cancel = TRUE] \in JobRow
  BY Zenon DEF JobRow
<1> QED BY <1>2, <1>3, <1>4, <1>5

LEMMA JobRowFields ==
  ASSUME NEW row \in JobRow
  PROVE  /\ \A s : LET r == [row EXCEPT !.state = s] IN
              r.state = s /\ r.cancel = row.cancel /\ r.agg = row.agg /\ r.results = row.results
         /\ \A ds : LET r == [row EXCEPT !.agg = ds] IN
              r.state = row.state /\ r.cancel = row.cancel /\ r.agg = ds /\ r.results = row.results
         /\ \A t : LET r == [row EXCEPT !.results = @ \cup {t}] IN
              /\ r.state = row.state /\ r.cancel = row.cancel /\ r.agg = row.agg
              /\ r.results = row.results \cup {t}
         /\ LET r == [row EXCEPT !.cancel = TRUE] IN
              r.state = row.state /\ r.cancel = TRUE /\ r.agg = row.agg /\ r.results = row.results
  BY DEF JobRow

\* What finish does: it ends an open row whose cancel flag agrees.
LEMMA FinishedRow ==
  ASSUME NEW row \in JobRow, NEW s \in Ended
  PROVE  /\ Finished(row, s) \in JobRow
         /\ row.state \notin Open => Finished(row, s) = row
         /\ Finished(row, s).state \in {row.state, s}
         /\ row.state \in Open /\ row.cancel /\ s = "cancelled" => Finished(row, s).state = s
         /\ row.state \in Open /\ ~row.cancel /\ s # "cancelled" => Finished(row, s).state = s
         /\ row.state \in Open /\ Finished(row, s).state = s => (row.cancel <=> s = "cancelled")
         /\ Finished(row, s).cancel = row.cancel /\ Finished(row, s).agg = row.agg
         /\ Finished(row, s).results = row.results
<1>0. s \in {"none", "refused", "deleted"} \cup Open \cup Ended /\ row.cancel \in BOOLEAN
      /\ s \notin Open
  BY DEF Open, Ended, JobRow
<1>1. CASE row.state \in Open /\ row.cancel = (s = "cancelled")
  <2>1. Finished(row, s) = [row EXCEPT !.state = s]
    BY <1>1, Zenon DEF Finished
  <2>2. /\ Finished(row, s) \in JobRow /\ Finished(row, s).state = s
        /\ Finished(row, s).cancel = row.cancel /\ Finished(row, s).agg = row.agg
        /\ Finished(row, s).results = row.results
    <3>1. [row EXCEPT !.state = s] \in JobRow
      BY <1>0, JobRowTypes
    <3>2. LET r == [row EXCEPT !.state = s] IN
            r.state = s /\ r.cancel = row.cancel /\ r.agg = row.agg /\ r.results = row.results
      BY JobRowFields, Zenon
    <3> QED BY <2>1, <3>1, <3>2, Zenon
  <2>3. row.cancel <=> s = "cancelled"
    BY <1>0, <1>1, Zenon
  <2> QED BY <1>1, <2>2, <2>3
<1>2. CASE ~(row.state \in Open /\ row.cancel = (s = "cancelled"))
  <2>1. Finished(row, s) = row
    BY <1>2, Zenon DEF Finished
  <2>2. row.state \in Open => ~(row.cancel <=> s = "cancelled")
    BY <1>0, <1>2, Zenon
  <2> QED BY <1>0, <2>1, <2>2
<1> QED BY <1>1, <1>2

LEMMA MergedRow ==
  ASSUME NEW row \in JobRow, NEW ds \in Answered
  PROVE  /\ Merged(row, ds) \in JobRow
         /\ row.state # "running" => Merged(row, ds) = row
         /\ row.state = "running" => Merged(row, ds).agg # "not_dispatched"
         /\ Merged(row, ds).state = row.state /\ Merged(row, ds).cancel = row.cancel
         /\ Merged(row, ds).results = row.results
<1>0. ds \in Dispatch /\ ds # "not_dispatched" /\ row.agg \in Dispatch
  BY DEF Answered, Dispatch, JobRow
<1>1. CASE row.state = "running" /\ (row.agg = "not_dispatched" \/ ds = "dispatched")
  <2>1. Merged(row, ds) = [row EXCEPT !.agg = ds]
    BY <1>1 DEF Merged
  <2>2. [row EXCEPT !.agg = ds] \in JobRow
    BY <1>0, JobRowTypes
  <2>3. LET r == [row EXCEPT !.agg = ds] IN
          r.state = row.state /\ r.cancel = row.cancel /\ r.agg = ds /\ r.results = row.results
    BY JobRowFields, Zenon
  <2> QED BY <1>0, <1>1, <2>1, <2>2, <2>3, Zenon
<1>2. CASE ~(row.state = "running" /\ (row.agg = "not_dispatched" \/ ds = "dispatched"))
  <2>1. Merged(row, ds) = row
    BY <1>2 DEF Merged
  <2> QED BY <1>2, <2>1
<1> QED BY <1>1, <1>2

LEMMA ResultRow ==
  ASSUME NEW row \in JobRow, NEW t \in Targets
  PROVE  /\ WithResult(row, t) \in JobRow
         /\ row.state # "running" => WithResult(row, t) = row
         /\ row.state = "running" => WithResult(row, t).results = row.results \cup {t}
         /\ WithResult(row, t).state = row.state /\ WithResult(row, t).cancel = row.cancel
         /\ WithResult(row, t).agg = row.agg
  BY JobRowTypes, JobRowFields DEF WithResult

\* A closed outcome, and a row that waits for one.
LEMMA AuditRows ==
  /\ Pending \in AuditRow /\ Unwritten \in AuditRow
  /\ Pending.row = "pending" /\ Unwritten.row = "none"
  /\ [Unwritten EXCEPT !.row = "closed"] \in AuditRow
  /\ \A row \in JobRow : /\ OutcomeOf(row) \in AuditRow
                         /\ OutcomeOf(row).row = "closed"
                         /\ OutcomeOf(row).dispatch = row.agg
  /\ OutcomeOf([NoJobRow EXCEPT !.state = "refused"]) = [Unwritten EXCEPT !.row = "closed"]
<1>1. Unwritten \in AuditRow /\ Pending \in AuditRow /\ [Unwritten EXCEPT !.row = "closed"] \in AuditRow
  <2>1. "not_dispatched" \in Dispatch
    BY DEF Dispatch
  <2> QED BY <2>1, Zenon DEF Unwritten, Pending, AuditRow
<1>2. ASSUME NEW row \in JobRow
      PROVE  /\ OutcomeOf(row) \in AuditRow
             /\ OutcomeOf(row).row = "closed"
             /\ OutcomeOf(row).dispatch = row.agg
  <2>1. row.agg \in Dispatch
    BY DEF JobRow
  <2>2. OutcomeOf(row).row = "closed" /\ OutcomeOf(row).dispatch = row.agg
    BY DEF OutcomeOf
  <2>3. OutcomeOf(row) \in AuditRow
    BY <2>1, Zenon DEF OutcomeOf, AuditRow
  <2> QED BY <2>2, <2>3
<1>3. Pending.row = "pending" /\ Unwritten.row = "none"
  BY DEF Pending, Unwritten
<1>4. OutcomeOf([NoJobRow EXCEPT !.state = "refused"]) = [Unwritten EXCEPT !.row = "closed"]
  <2> DEFINE R == [NoJobRow EXCEPT !.state = "refused"]
  <2>1. R.state = "refused" /\ R.agg = "not_dispatched"
    BY DEF NoJobRow
  <2>2. (R.state = "completed") = FALSE
    BY <2>1
  <2>3. OutcomeOf(R) = [row |-> "closed", success |-> FALSE, dispatch |-> "not_dispatched"]
    BY <2>1, <2>2, Zenon DEF OutcomeOf
  <2>4. [Unwritten EXCEPT !.row = "closed"]
          = [row |-> "closed", success |-> FALSE, dispatch |-> "not_dispatched"]
    <3>1. \A b : [[row |-> "none", success |-> b, dispatch |-> "not_dispatched"] EXCEPT !.row = "closed"]
                  = [row |-> "closed", success |-> b, dispatch |-> "not_dispatched"]
      OBVIOUS
    <3> QED BY <3>1, Zenon DEF Unwritten
  <2> QED BY <2>3, <2>4
<1> QED BY <1>1, <1>2, <1>3, <1>4

\* The recorder closes a pending row, and no other.
LEMMA RecordedRow ==
  ASSUME DiscoveryTypeOK, NEW j \in DJobs, NEW row \in JobRow
  PROVE  /\ Recorded(j, row) \in AuditRow
         /\ jaudit[j] = Pending => Recorded(j, row) = OutcomeOf(row)
         /\ jaudit[j] # Pending => Recorded(j, row) = jaudit[j]
  BY AuditRows DEF Recorded, DiscoveryTypeOK

\* How a job ends.
LEMMA Verdicts ==
  ASSUME DiscoveryTypeOK, NEW j \in DJobs
  PROVE  /\ Verdict(j) \in Ended
         /\ job[j].cancel => Verdict(j) = "cancelled"
         /\ ~job[j].cancel => Verdict(j) # "cancelled"
         /\ Verdict(j) = "completed" => ~job[j].cancel /\ (j \in late => job[j].results = Targets)
<1>1. CASE job[j].cancel
  BY <1>1 DEF Verdict, Ended
<1>2. CASE ~job[j].cancel /\ j \in late /\ job[j].results # Targets
  BY <1>2 DEF Verdict, Ended
<1>3. CASE ~job[j].cancel /\ ~(j \in late /\ job[j].results # Targets)
  BY <1>3 DEF Verdict, Ended
<1> QED BY <1>1, <1>2, <1>3

-----------------------------------------------------------------------------
(* Types of Discovery.                                                     *)

LEMMA DiscoveryTypeInit == DiscoveryInit => DiscoveryTypeOK
<1> SUFFICES ASSUME DiscoveryInit PROVE DiscoveryTypeOK
  OBVIOUS
<1>1. NoJobRow \in JobRow
  <2>1. "none" \in {"none", "refused", "deleted"} \cup Open \cup Ended
        /\ "not_dispatched" \in Dispatch
    BY DEF Dispatch
  <2> QED BY <2>1, Zenon DEF NoJobRow, JobRow
<1>2. job = [j \in DJobs |-> NoJobRow]
  BY DEF DiscoveryInit, NoJobRow
<1>3. job \in [DJobs -> JobRow]
  BY <1>1, <1>2
<1>4. jaudit \in [DJobs -> AuditRow]
  BY AuditRows DEF DiscoveryInit
<1>5. stage \in [DJobs -> [Targets -> {"queue", "wait", "probe", "done"}]]
  BY DEF DiscoveryInit, NoWork
<1> QED BY <1>3, <1>4, <1>5 DEF DiscoveryInit, DiscoveryTypeOK

\* The rows that start, recover and the cleanup write.
LEMMA SweptRows ==
  ASSUME DiscoveryTypeOK, NEW j \in DJobs
  PROVE  /\ ExpiredRow(j) \in JobRow /\ ExpiredAudit(j) \in AuditRow
         /\ RecoveredRow(j) \in JobRow
         /\ Deleted(job[j]) \in JobRow
         /\ \A s \in {"queued", "refused"} : [job[j] EXCEPT !.state = s] \in JobRow
<1>1. job[j] \in JobRow
  BY DEF DiscoveryTypeOK
<1>2. \A s \in {"none", "refused", "deleted"} \cup Open \cup Ended : [job[j] EXCEPT !.state = s] \in JobRow
  BY <1>1, JobRowTypes
<1>3. {"queued", "refused", "deleted", "failed", "cancelled"}
        \subseteq {"none", "refused", "deleted"} \cup Open \cup Ended
  BY DEF Open, Ended
<1>4. ExpiredRow(j) \in JobRow
  BY <1>1, <1>2, <1>3 DEF ExpiredRow
<1>5. ExpiredAudit(j) \in AuditRow
  BY <1>4, RecordedRow DEF ExpiredAudit, DiscoveryTypeOK
<1>6. RecoveredRow(j) \in JobRow
  <2>1. RecoveredRow(j) \in {job[j], [job[j] EXCEPT !.state = "cancelled"],
                             [job[j] EXCEPT !.state = "failed"], [job[j] EXCEPT !.state = "queued"]}
    BY DEF RecoveredRow
  <2> QED BY <1>1, <1>2, <1>3, <2>1
<1> QED BY <1>2, <1>3, <1>4, <1>5, <1>6 DEF Deleted

LEMMA StopTypes ==
  ASSUME DiscoveryTypeOK, NEW rows \in [DJobs -> JobRow], NEW audits \in [DJobs -> AuditRow],
         Stop(rows, audits)
  PROVE  DiscoveryTypeOK'
  BY DEF Stop, DiscoveryTypeOK, NoWork

LEMMA ProbeTypes ==
  ASSUME DiscoveryTypeOK, NEW j \in DJobs, NEW t \in Targets, SendProbe(j, t)
  PROVE  /\ job' \in [DJobs -> JobRow]
         /\ probed' \in [DJobs -> SUBSET Targets]
         /\ stage' \in [DJobs -> [Targets -> {"queue", "wait", "probe", "done"}]]
<1>1. Merged(job[j], "unknown") \in JobRow
  BY MergedRow DEF DiscoveryTypeOK, Answered
<1>2. job' \in [DJobs -> JobRow]
  BY <1>1 DEF SendProbe, DiscoveryTypeOK
<1>3. probed' \in [DJobs -> SUBSET Targets]
  BY DEF SendProbe, DiscoveryTypeOK
<1>4. stage' \in [DJobs -> [Targets -> {"queue", "wait", "probe", "done"}]]
  BY DEF SendProbe, DiscoveryTypeOK
<1> QED BY <1>2, <1>3, <1>4

LEMMA DiscoveryTypeStep ==
  ASSUME DiscoveryTypeOK, [DiscoveryNext]_discoveryVars
  PROVE  DiscoveryTypeOK'
<1>0. \A j \in DJobs : job[j] \in JobRow /\ jaudit[j] \in AuditRow
  BY DEF DiscoveryTypeOK
<1>1. ASSUME NEW j \in DJobs, StartJob(j) PROVE DiscoveryTypeOK'
  <2>1. job' \in [DJobs -> JobRow]
    <3>1. \A k \in DJobs : /\ ExpiredRow(k) \in JobRow
                           /\ [job[j] EXCEPT !.state = "queued"] \in JobRow
                           /\ [job[j] EXCEPT !.state = "refused"] \in JobRow
      BY SweptRows
    <3> QED BY <1>1, <3>1 DEF StartJob
  <2>2. jaudit' \in [DJobs -> AuditRow]
    <3>1. \A k \in DJobs : ExpiredAudit(k) \in AuditRow
      BY SweptRows
    <3> QED BY <1>1, <3>1, AuditRows DEF StartJob
  <2>3. task' \in [DJobs -> {"none", "created", "run"}]
    BY <1>1 DEF StartJob, DiscoveryTypeOK
  <2> QED BY <1>1, <2>1, <2>2, <2>3 DEF StartJob, DiscoveryTypeOK
<1>2. ASSUME NEW j \in DJobs, DeadlinePasses(j) PROVE DiscoveryTypeOK'
  BY <1>2 DEF DeadlinePasses, DiscoveryTypeOK
<1>3. ASSUME NEW j \in DJobs, Claim(j) PROVE DiscoveryTypeOK'
  <2>1. [job[j] EXCEPT !.state = "running"] \in JobRow
    BY <1>0, JobRowTypes DEF Open
  <2>2. job' \in [DJobs -> JobRow]
    <3>1. job' = [job EXCEPT ![j] = [job[j] EXCEPT !.state = "running"]] \/ job' = job
      BY <1>3 DEF Claim
    <3> QED BY <2>1, <3>1 DEF DiscoveryTypeOK
  <2>3. stage' \in [DJobs -> [Targets -> {"queue", "wait", "probe", "done"}]]
    BY <1>3 DEF Claim, Remaining, DiscoveryTypeOK
  <2> QED BY <1>3, <2>2, <2>3 DEF Claim, DiscoveryTypeOK
<1>4. ASSUME NEW j \in DJobs, NEW t \in Targets, Take(j, t) PROVE DiscoveryTypeOK'
  <2>1. CASE SendProbe(j, t)
    BY <1>4, <2>1, ProbeTypes DEF Take, DiscoveryTypeOK
  <2>2. CASE /\ job' = [job EXCEPT ![j] = WithResult(@, t)]
             /\ stage' = [stage EXCEPT ![j][t] = "done"] /\ UNCHANGED probed
    <3>1. WithResult(job[j], t) \in JobRow
      BY <1>0, ResultRow
    <3>2. job' \in [DJobs -> JobRow]
      BY <2>2, <3>1 DEF DiscoveryTypeOK
    <3>3. stage' \in [DJobs -> [Targets -> {"queue", "wait", "probe", "done"}]]
      BY <2>2 DEF DiscoveryTypeOK
    <3> QED BY <1>4, <2>2, <3>2, <3>3 DEF Take, DiscoveryTypeOK
  <2>3. CASE stage' = [stage EXCEPT ![j][t] = "wait"] /\ UNCHANGED <<job, probed>>
    <3>1. stage' \in [DJobs -> [Targets -> {"queue", "wait", "probe", "done"}]]
      BY <2>3 DEF DiscoveryTypeOK
    <3> QED BY <1>4, <2>3, <3>1 DEF Take, DiscoveryTypeOK
  <2> QED BY <1>4, <2>1, <2>2, <2>3 DEF Take
<1>5. ASSUME NEW j \in DJobs, NEW t \in Targets, Acquire(j, t) PROVE DiscoveryTypeOK'
  BY <1>5, ProbeTypes DEF Acquire, DiscoveryTypeOK
<1>6. ASSUME NEW j \in DJobs, NEW t \in Targets, EndProbe(j, t) PROVE DiscoveryTypeOK'
  <2>1. PICK ds \in Answered : job' = [job EXCEPT ![j] = WithResult(Merged(@, ds), t)]
    BY <1>6 DEF EndProbe
  <2>2. WithResult(Merged(job[j], ds), t) \in JobRow
    BY <1>0, MergedRow, ResultRow
  <2>3. job' \in [DJobs -> JobRow]
    BY <2>1, <2>2 DEF DiscoveryTypeOK
  <2>4. stage' \in [DJobs -> [Targets -> {"queue", "wait", "probe", "done"}]]
    BY <1>6 DEF EndProbe, DiscoveryTypeOK
  <2> QED BY <1>6, <2>3, <2>4 DEF EndProbe, DiscoveryTypeOK
<1>7. ASSUME NEW j \in DJobs, EndTask(j) PROVE DiscoveryTypeOK'
  <2> DEFINE row == Finished(job[j], Verdict(j))
  <2>1. row \in JobRow
    BY <1>0, Verdicts, FinishedRow
  <2>2. Recorded(j, row) \in AuditRow
    BY <2>1, RecordedRow
  <2>3. /\ job' = [job EXCEPT ![j] = row]
        /\ jaudit' = [jaudit EXCEPT ![j] = IF row.state \in Ended THEN Recorded(j, row) ELSE @]
        /\ task' = [task EXCEPT ![j] = "none"] /\ stage' = [stage EXCEPT ![j] = NoWork]
        /\ UNCHANGED <<late, cancels, probed, phase, downs>>
    BY <1>7 DEF EndTask
  <2> HIDE DEF row
  <2>4. jaudit' \in [DJobs -> AuditRow]
    BY <2>2, <2>3 DEF DiscoveryTypeOK
  <2>5. stage' \in [DJobs -> [Targets -> {"queue", "wait", "probe", "done"}]]
    BY <2>3 DEF DiscoveryTypeOK, NoWork
  <2> QED BY <2>1, <2>3, <2>4, <2>5 DEF DiscoveryTypeOK
<1>8. ASSUME NEW j \in DJobs, RequestCancel(j) PROVE DiscoveryTypeOK'
  <2>1. [job[j] EXCEPT !.cancel = TRUE] \in JobRow
    BY <1>0, JobRowTypes
  <2>2. job' = [job EXCEPT ![j] = [job[j] EXCEPT !.cancel = TRUE]]
    BY <1>8 DEF RequestCancel
  <2>3. job' \in [DJobs -> JobRow]
    BY <2>1, <2>2 DEF DiscoveryTypeOK
  <2> QED BY <1>8, <2>3 DEF RequestCancel, DiscoveryTypeOK
<1>9. ASSUME NEW j \in DJobs, TaskCancelled(j) PROVE DiscoveryTypeOK'
  BY <1>9 DEF TaskCancelled, DiscoveryTypeOK, NoWork
<1>10. ASSUME NEW j \in DJobs, EndCancel(j) PROVE DiscoveryTypeOK'
  <2> DEFINE row == Finished(job[j], "cancelled")
  <2>1. row \in JobRow
    BY <1>0, FinishedRow DEF Ended
  <2>2. Recorded(j, row) \in AuditRow
    BY <2>1, RecordedRow
  <2>3. /\ job' = [job EXCEPT ![j] = row]
        /\ jaudit' = [jaudit EXCEPT ![j] = Recorded(j, row)] /\ cancels' = cancels \ {j}
        /\ UNCHANGED <<late, task, stage, probed, phase, downs>>
    BY <1>10 DEF EndCancel
  <2> HIDE DEF row
  <2> QED BY <2>1, <2>2, <2>3 DEF DiscoveryTypeOK
<1>11. CASE Down
  BY <1>11, StopTypes DEF Down, DiscoveryTypeOK
<1>12. ASSUME NEW j \in DJobs, CrashInFinish(j) PROVE DiscoveryTypeOK'
  <2>1. /\ Finished(job[j], Verdict(j)) \in JobRow
        /\ Finished(job[j], "cancelled") \in JobRow
    BY <1>0, Verdicts, FinishedRow DEF Ended
  <2>2. /\ [job EXCEPT ![j] = Finished(@, Verdict(j))] \in [DJobs -> JobRow]
        /\ [job EXCEPT ![j] = Finished(@, "cancelled")] \in [DJobs -> JobRow]
    BY <2>1 DEF DiscoveryTypeOK
  <2> QED BY <1>12, <2>2, StopTypes DEF CrashInFinish, DiscoveryTypeOK
<1>13. ASSUME NEW j \in DJobs, CrashInStart(j) PROVE DiscoveryTypeOK'
  <2>1. [jaudit EXCEPT ![j] = Pending] \in [DJobs -> AuditRow]
    BY AuditRows DEF DiscoveryTypeOK
  <2> QED BY <1>13, <2>1, StopTypes DEF CrashInStart, DiscoveryTypeOK
<1>14. CASE RecoverRows
  <2>1. \A j \in DJobs : RecoveredRow(j) \in JobRow
    BY SweptRows
  <2> QED BY <1>14, <2>1 DEF RecoverRows, DiscoveryTypeOK
<1>15. CASE Resume
  <2>1. \A j \in DJobs : /\ Finished(job[j], "failed") \in JobRow
                         /\ Deleted(job[j]) \in JobRow
    BY <1>0, SweptRows, FinishedRow DEF Ended
  <2>2. job' \in [DJobs -> JobRow]
    BY <1>0, <1>15, <2>1 DEF Resume
  <2>3. jaudit' \in [DJobs -> AuditRow]
    <3>1. \A j \in DJobs, r \in JobRow : Recorded(j, r) \in AuditRow
      BY RecordedRow
    <3>2. \A j \in DJobs : jaudit'[j] \in {jaudit[j], Recorded(j, job[j]), Recorded(j, Finished(job[j], "failed"))}
      BY <1>15 DEF Resume
    <3>3. jaudit' = [j \in DJobs |-> jaudit'[j]]
      BY <1>15 DEF Resume
    <3>4. \A j \in DJobs : jaudit'[j] \in AuditRow
      BY <1>0, <2>1, <3>1, <3>2
    <3> QED BY <3>3, <3>4
  <2>4. task' \in [DJobs -> {"none", "created", "run"}]
    BY <1>15 DEF Resume
  <2> QED BY <1>15, <2>2, <2>3, <2>4 DEF Resume, DiscoveryTypeOK
<1>16. CASE UNCHANGED discoveryVars
  BY <1>16 DEF discoveryVars, DiscoveryTypeOK
<1> QED BY <1>1, <1>2, <1>3, <1>4, <1>5, <1>6, <1>7, <1>8, <1>9, <1>10, <1>11, <1>12,
           <1>13, <1>14, <1>15, <1>16 DEF DiscoveryNext

-----------------------------------------------------------------------------
(* Steps of Discovery, seen from one job.                                  *)

\* Nothing of the job changes.
LEMMA OtherJob ==
  ASSUME NEW k \in DJobs, JobInv(k),
         job'[k] = job[k], jaudit'[k] = jaudit[k], task'[k] = task[k], stage'[k] = stage[k],
         probed'[k] = probed[k], k \in cancels' <=> k \in cancels, phase' = phase
  PROVE  JobInv(k)'
  BY DEF JobInv, NotCreated, IntentFirst, InProcess, TaskOf, Repaired, Flagged, ResultsIn,
         ProbesMarked, AuditMatches, Checked, Is

\* The process stops, and the job's row stays.
LEMMA HaltedJob ==
  ASSUME NEW k \in DJobs, JobInv(k),
         job'[k] = job[k], task'[k] = "none", stage'[k] = NoWork, probed'[k] = probed[k],
         k \notin cancels', phase' = "down",
         \/ jaudit'[k] = jaudit[k]
         \/ job[k].state = "none" /\ jaudit[k] = Unwritten /\ jaudit'[k] = Pending
  PROVE  JobInv(k)'
<1>1. CASE jaudit'[k] = jaudit[k]
  BY <1>1 DEF JobInv, NotCreated, IntentFirst, InProcess, TaskOf, Repaired, Flagged, ResultsIn,
         ProbesMarked, AuditMatches, Checked, Is
<1>2. CASE job[k].state = "none" /\ jaudit[k] = Unwritten /\ jaudit'[k] = Pending
  <2>1. jaudit'[k].row = "pending" /\ probed'[k] = {}
    BY <1>2, AuditRows DEF JobInv, NotCreated
  <2> QED BY <1>2, <2>1 DEF JobInv, NotCreated, IntentFirst, InProcess, TaskOf, Repaired, Flagged,
         ResultsIn, ProbesMarked, AuditMatches, Checked, Is, Open, Ended
<1> QED BY <1>1, <1>2

\* The job ends, whoever ends it: its task, a cancel, another start, a recovery.
LEMMA EndedJob ==
  ASSUME DiscoveryTypeOK, NEW j \in DJobs, JobInv(j), NEW row \in JobRow, job'[j] = row,
         row.state \in Ended, row.agg = job[j].agg, row.cancel = job[j].cancel,
         Is(j, Open \cup Ended), Is(j, Ended) => row = job[j],
         row.state = "completed" => row.results = Targets /\ ~row.cancel,
         jaudit'[j] \in {jaudit[j], Recorded(j, row)},
         task'[j] = "run" => jaudit'[j] = Recorded(j, row),
         probed'[j] = probed[j], j \in cancels' => j \in cancels, InProcess(j)'
  PROVE  JobInv(j)'
<1>0. /\ row.state \notin Open /\ row.state \notin {"none", "running", "refused", "deleted"}
      /\ ~Is(j, {"none", "refused", "deleted"})
  BY DEF Ended, Open, Is
<1>1. jaudit[j] = Pending \/ (jaudit[j].row = "closed" /\ jaudit[j] # Pending)
  BY <1>0, AuditRows DEF JobInv, IntentFirst, Is
<1>2. jaudit[j].row = "closed" => Is(j, Ended) /\ jaudit[j] = OutcomeOf(row)
  BY <1>0 DEF JobInv, AuditMatches, Is
<1>3. jaudit'[j] = OutcomeOf(row) \/ (jaudit'[j] = Pending /\ jaudit[j] = Pending)
  BY <1>1, <1>2, RecordedRow
<1>4. task'[j] = "run" => jaudit'[j] = OutcomeOf(row)
  BY <1>1, <1>2, RecordedRow
<1>5. OutcomeOf(row).row = "closed" /\ Pending.row = "pending"
  BY AuditRows
<1>6. NotCreated(j)' /\ Repaired(j)' /\ ResultsIn(j)'
  BY <1>0 DEF NotCreated, Repaired, ResultsIn, Is
<1>7. IntentFirst(j)' /\ TaskOf(j)'
  BY <1>3, <1>4, <1>5 DEF IntentFirst, TaskOf, Is
<1>8. Flagged(j)'
  BY DEF JobInv, Flagged, Is
<1>9. ProbesMarked(j)'
  BY <1>3, <1>5 DEF JobInv, ProbesMarked
<1>10. AuditMatches(j)'
  BY <1>3, <1>5 DEF AuditMatches, Is
<1>11. Checked(j)'
  BY <1>0 DEF Checked, Is
<1> QED BY <1>6, <1>7, <1>8, <1>9, <1>10, <1>11 DEF JobInv

\* A worker of the job moves on with one target.
LEMMA WorkedJob ==
  ASSUME NEW j \in DJobs, JobInv(j), NEW t \in Targets, NEW row, NEW x,
         stage \in [DJobs -> [Targets -> {"queue", "wait", "probe", "done"}]],
         task[j] = "run", job'[j] = row, stage'[j] = [stage[j] EXCEPT ![t] = x],
         row.state = job[j].state, row.cancel = job[j].cancel,
         job[j].results \subseteq row.results,
         job[j].state # "running" => row = job[j],
         job[j].state = "running" /\ row.agg = "not_dispatched" =>
           job[j].agg = "not_dispatched" /\ probed'[j] = probed[j],
         job[j].state = "running" /\ x = "done" => t \in row.results,
         jaudit'[j] = jaudit[j], task'[j] = task[j],
         j \in cancels' <=> j \in cancels, phase' = phase
  PROVE  JobInv(j)'
<1>0. Is(j, {"running"} \cup Ended)
  BY DEF JobInv, TaskOf
<1>1. NotCreated(j)' /\ Repaired(j)' /\ Flagged(j)' /\ IntentFirst(j)' /\ InProcess(j)' /\ TaskOf(j)'
  BY <1>0 DEF JobInv, NotCreated, Repaired, Flagged, IntentFirst, InProcess, TaskOf, Is, Ended
<1>2. ResultsIn(j)'
  BY DEF JobInv, ResultsIn
<1>3. ProbesMarked(j)'
  BY DEF JobInv, ProbesMarked, TaskOf
<1>4. AuditMatches(j)'
  BY DEF JobInv, AuditMatches, Is, Ended
<1>5. Checked(j)'
  BY DEF JobInv, Checked, Is, Open
<1> QED BY <1>1, <1>2, <1>3, <1>4, <1>5 DEF JobInv

\* A worker holds a target only while its task runs.
LEMMA Working ==
  ASSUME DiscoveryTypeOK, NEW j \in DJobs, JobInv(j), NEW t \in Targets,
         stage[j][t] # "done"
  PROVE  task[j] = "run"
  BY DEF JobInv, InProcess, NoWork

LEMMA ProbeSent ==
  ASSUME DiscoveryTypeOK, NEW j \in DJobs, JobInv(j), NEW t \in Targets, task[j] = "run",
         SendProbe(j, t), UNCHANGED <<jaudit, task, cancels, phase>>
  PROVE  JobInv(j)'
<1>1. job[j] \in JobRow /\ "unknown" \in Answered
  BY DEF DiscoveryTypeOK, Answered
<1> DEFINE row == Merged(job[j], "unknown")
<1>2. /\ row.state = job[j].state /\ row.cancel = job[j].cancel /\ row.results = job[j].results
      /\ job[j].state # "running" => row = job[j]
      /\ job[j].state = "running" => row.agg # "not_dispatched"
  BY <1>1, MergedRow
<1>3. job'[j] = row /\ stage'[j] = [stage[j] EXCEPT ![t] = "probe"]
  BY DEF SendProbe, DiscoveryTypeOK
<1>4. stage \in [DJobs -> [Targets -> {"queue", "wait", "probe", "done"}]]
  BY DEF DiscoveryTypeOK
<1>5. /\ job[j].results \subseteq row.results /\ "probe" # "done"
      /\ jaudit'[j] = jaudit[j] /\ task'[j] = task[j] /\ phase' = phase
      /\ (j \in cancels' <=> j \in cancels)
  BY <1>2
<1>6. /\ job[j].state = "running" /\ row.agg = "not_dispatched" =>
           job[j].agg = "not_dispatched" /\ probed'[j] = probed[j]
      /\ job[j].state = "running" /\ "probe" = "done" => t \in row.results
  BY <1>2
<1> HIDE DEF row
<1> QED BY <1>2, <1>3, <1>4, <1>5, <1>6, WorkedJob, Zenon

\* The workers of a job that is still running have a result for every target,
\* unless it was cancelled or its deadline passed.
LEMMA TaskVerdict ==
  ASSUME DiscoveryTypeOK, NEW j \in DJobs, JobInv(j), WorkersDone(j)
  PROVE  LET row == Finished(job[j], Verdict(j)) IN
         /\ row \in JobRow /\ row.state \in Ended /\ row.agg = job[j].agg
         /\ row.cancel = job[j].cancel
         /\ Is(j, Open \cup Ended) /\ (Is(j, Ended) => row = job[j])
         /\ row.state = "completed" => row.results = Targets /\ ~row.cancel
<1> DEFINE row == Finished(job[j], Verdict(j))
<1>0. job[j] \in JobRow /\ task[j] = "run" /\ job[j].cancel \in BOOLEAN
  BY DEF DiscoveryTypeOK, WorkersDone, JobRow
<1>1. Verdict(j) \in Ended /\ row \in JobRow /\ row.agg = job[j].agg /\ row.cancel = job[j].cancel
      /\ row.results = job[j].results
  BY <1>0, Verdicts, FinishedRow
<1>2. Is(j, {"running"} \cup Ended)
  BY <1>0 DEF JobInv, TaskOf
<1>3. CASE Is(j, Ended)
  <2>1. row = job[j]
    BY <1>0, <1>1, <1>3, FinishedRow DEF Is, Ended, Open
  <2>2. job[j].state = "completed" => job[j].results = Targets /\ ~job[j].cancel
    BY DEF JobInv, Checked
  <2> QED BY <1>1, <1>3, <2>1, <2>2 DEF Is
<1>4. CASE job[j].state = "running"
  <2>1. job[j].state \in Open /\ job[j].state \notin Ended
    BY <1>4 DEF Open, Ended
  <2>2. row.state = Verdict(j)
    <3>1. CASE job[j].cancel
      BY <1>0, <1>1, <2>1, <3>1, Verdicts, FinishedRow
    <3>2. CASE ~job[j].cancel
      BY <1>0, <1>1, <2>1, <3>2, Verdicts, FinishedRow
    <3> QED BY <3>1, <3>2
  <2>3. ASSUME Verdict(j) = "completed" PROVE job[j].results = Targets /\ ~job[j].cancel
    <3>1. ~job[j].cancel /\ (j \in late => job[j].results = Targets)
      BY <2>3, Verdicts
    <3>2. CASE j \notin late
      <4>1. At(j, "queue") = {} /\ Busy(j) = {}
        BY <3>1, <3>2 DEF WorkersDone, Stops
      <4>2. \A t \in Targets : stage[j][t] \in {"queue", "wait", "probe", "done"}
        BY DEF DiscoveryTypeOK
      <4>3. \A t \in Targets : stage[j][t] = "done"
        BY <4>1, <4>2 DEF At, Busy
      <4>4. Targets \subseteq job[j].results
        BY <1>0, <1>4, <4>3 DEF JobInv, ResultsIn
      <4>5. job[j].results \subseteq Targets
        BY <1>0 DEF JobRow
      <4> QED BY <3>1, <4>4, <4>5
    <3> QED BY <3>1, <3>2
  <2>4. Is(j, Open \cup Ended) /\ ~Is(j, Ended)
    BY <2>1 DEF Is
  <2>5. row.state = "completed" => row.results = Targets /\ ~row.cancel
    BY <1>1, <2>2, <2>3
  <2> QED BY <1>1, <2>2, <2>4, <2>5
<1> QED BY <1>2, <1>3, <1>4 DEF Is

\* A cancel request that has waited ends the job it flagged.
LEMMA CancelVerdict ==
  ASSUME DiscoveryTypeOK, NEW j \in DJobs, JobInv(j), j \in cancels
  PROVE  LET row == Finished(job[j], "cancelled") IN
         /\ row \in JobRow /\ row.state \in Ended /\ row.agg = job[j].agg
         /\ row.cancel = job[j].cancel
         /\ Is(j, Open \cup Ended) /\ (Is(j, Ended) => row = job[j])
         /\ row.state = "completed" => row.results = Targets /\ ~row.cancel
<1> DEFINE row == Finished(job[j], "cancelled")
<1>0. job[j] \in JobRow /\ "cancelled" \in Ended
  BY DEF DiscoveryTypeOK, Ended
<1>1. row \in JobRow /\ row.agg = job[j].agg /\ row.cancel = job[j].cancel
      /\ row.results = job[j].results
  BY <1>0, FinishedRow
<1>2. job[j].cancel /\ Is(j, Open \cup Ended)
  BY DEF JobInv, Flagged
<1>3. CASE Is(j, Ended)
  <2>1. row = job[j]
    BY <1>0, <1>3, FinishedRow DEF Is, Ended, Open
  <2>2. job[j].state = "completed" => job[j].results = Targets /\ ~job[j].cancel
    BY DEF JobInv, Checked
  <2> QED BY <1>1, <1>2, <1>3, <2>1, <2>2 DEF Is
<1>4. CASE Is(j, Open)
  <2>1. row.state = "cancelled" /\ ~Is(j, Ended)
    BY <1>0, <1>2, <1>4, FinishedRow DEF Is, Open, Ended
  <2> QED BY <1>0, <1>1, <1>2, <2>1
<1> QED BY <1>2, <1>3, <1>4 DEF Is

LEMMA DiscoveryInitInv == DiscoveryInit => DiscoveryInv
<1> SUFFICES ASSUME DiscoveryInit, NEW j \in DJobs PROVE JobInv(j)
  BY DiscoveryTypeInit DEF DiscoveryInv
<1>1. job[j] = NoJobRow /\ NoJobRow.state = "none" /\ NoJobRow.cancel = FALSE
  BY DEF DiscoveryInit, NoJobRow
<1>2. jaudit[j] = Unwritten /\ Unwritten.row = "none" /\ task[j] = "none" /\ stage[j] = NoWork
      /\ probed[j] = {} /\ j \notin cancels /\ phase = "up"
  BY AuditRows DEF DiscoveryInit
<1>3. NotCreated(j) /\ IntentFirst(j) /\ InProcess(j) /\ TaskOf(j) /\ Repaired(j) /\ Flagged(j)
  BY <1>1, <1>2 DEF NotCreated, IntentFirst, InProcess, TaskOf, Repaired, Flagged, Is, Open
<1>4. ResultsIn(j) /\ ProbesMarked(j) /\ AuditMatches(j) /\ Checked(j)
  BY <1>1, <1>2 DEF ResultsIn, ProbesMarked, AuditMatches, Checked
<1> QED BY <1>3, <1>4 DEF JobInv

\* A start seen from another job: the overdue ones are failed and recorded.
LEMMA ExpiredJob ==
  ASSUME DiscoveryTypeOK, NEW k \in DJobs, JobInv(k),
         job'[k] = ExpiredRow(k), jaudit'[k] = ExpiredAudit(k), task'[k] = task[k],
         stage'[k] = stage[k], probed'[k] = probed[k], k \in cancels' <=> k \in cancels,
         phase' = phase
  PROVE  JobInv(k)'
<1>1. CASE Expired(k)
  <2> DEFINE row == [job[k] EXCEPT !.state = "failed"]
  <2>0. job[k] \in JobRow /\ Is(k, Open)
    BY <1>1 DEF DiscoveryTypeOK, Expired
  <2>1. row \in JobRow /\ row.state = "failed"
    BY <2>0, JobRowTypes, JobRowFields DEF Ended
  <2>2. row.cancel = job[k].cancel /\ row.agg = job[k].agg
    BY <2>0, JobRowFields, Zenon
  <2>3. job'[k] = row /\ jaudit'[k] = Recorded(k, row)
    BY <1>1 DEF ExpiredRow, ExpiredAudit
  <2>4. InProcess(k)'
    BY DEF JobInv, InProcess
  <2>5. Is(k, Open \cup Ended) /\ ~Is(k, Ended) /\ "failed" \in Ended /\ "failed" # "completed"
    BY <2>0 DEF Is, Open, Ended
  <2> HIDE DEF row
  <2> QED BY <2>1, <2>2, <2>3, <2>4, <2>5, EndedJob
<1>2. CASE ~Expired(k)
  <2>1. job'[k] = job[k] /\ jaudit'[k] = jaudit[k]
    BY <1>2 DEF ExpiredRow, ExpiredAudit
  <2> QED BY <2>1, OtherJob
<1> QED BY <1>1, <1>2

LEMMA StartedJob ==
  ASSUME DiscoveryTypeOK, NEW j \in DJobs, JobInv(j), StartJob(j)
  PROVE  JobInv(j)'
<1>1. job[j] = NoJobRow /\ NoJobRow \in JobRow /\ probed[j] = {} /\ task[j] = "none"
      /\ stage[j] = NoWork /\ phase = "up" /\ job[j].state = "none"
  BY DEF StartJob, JobInv, NotCreated, InProcess, DiscoveryTypeOK
<1>2. j \notin cancels
  BY <1>1 DEF JobInv, Flagged, Is, Open, Ended
<1>3. NoJobRow.cancel = FALSE /\ NoJobRow.results = {}
  BY DEF NoJobRow
<1>4. stage'[j] = NoWork /\ probed'[j] = {} /\ phase' = "up" /\ j \notin cancels'
  BY <1>1, <1>2 DEF StartJob
<1>5. CASE Accepted
  <2>1. /\ job'[j] = [NoJobRow EXCEPT !.state = "queued"] /\ jaudit'[j] = Pending
        /\ task'[j] = "created"
    BY <1>1, <1>5 DEF StartJob, DiscoveryTypeOK
  <2>2. job'[j].state = "queued" /\ ~job'[j].cancel
    BY <1>1, <1>3, <2>1, JobRowFields
  <2>3. NotCreated(j)' /\ IntentFirst(j)' /\ InProcess(j)' /\ TaskOf(j)' /\ Repaired(j)' /\ Flagged(j)'
    BY <1>4, <2>1, <2>2 DEF NotCreated, IntentFirst, InProcess, TaskOf, Repaired, Flagged
  <2>4. ResultsIn(j)' /\ ProbesMarked(j)' /\ AuditMatches(j)' /\ Checked(j)'
    BY <1>4, <2>1, <2>2, AuditRows DEF ResultsIn, ProbesMarked, AuditMatches, Checked
  <2> QED BY <2>3, <2>4 DEF JobInv
<1>6. CASE ~Accepted
  <2>1. /\ job'[j] = [NoJobRow EXCEPT !.state = "refused"]
        /\ jaudit'[j] = [Unwritten EXCEPT !.row = "closed"]
        /\ task'[j] = "none"
    BY <1>1, <1>6 DEF StartJob, DiscoveryTypeOK
  <2>2. job'[j].state = "refused" /\ ~job'[j].cancel
    BY <1>1, <1>3, <2>1, JobRowFields
  <2>3. jaudit'[j].row = "closed" /\ jaudit'[j] = OutcomeOf(job'[j])
    <3>1. jaudit'[j] = OutcomeOf(job'[j])
      BY <2>1, AuditRows
    <3> QED BY <3>1 DEF OutcomeOf
  <2>4. NotCreated(j)' /\ IntentFirst(j)' /\ InProcess(j)' /\ TaskOf(j)' /\ Repaired(j)' /\ Flagged(j)'
    BY <1>4, <2>1, <2>2, <2>3 DEF NotCreated, IntentFirst, InProcess, TaskOf, Repaired, Flagged
  <2>5. AuditMatches(j)'
    BY <2>2, <2>3 DEF AuditMatches, Is
  <2>6. ResultsIn(j)' /\ ProbesMarked(j)' /\ Checked(j)'
    BY <1>4, <2>1, <2>2, <2>3 DEF ResultsIn, ProbesMarked, Checked
  <2> QED BY <2>4, <2>5, <2>6 DEF JobInv
<1> QED BY <1>5, <1>6

\* The task claims a queued job and queues what has no result yet, or leaves.
LEMMA ClaimedJob ==
  ASSUME DiscoveryTypeOK, NEW j \in DJobs, JobInv(j), Claim(j)
  PROVE  JobInv(j)'
<1>0. job[j] \in JobRow /\ task[j] = "created" /\ stage[j] = NoWork
      /\ jaudit'[j] = jaudit[j] /\ probed'[j] = probed[j] /\ phase' = phase /\ cancels' = cancels
      /\ phase = "up"
  BY DEF DiscoveryTypeOK, Claim, JobInv, InProcess
<1>1. CASE job[j].state = "queued" /\ ~job[j].cancel
  <2> DEFINE row == [job[j] EXCEPT !.state = "running"]
  <2>1. job'[j] = row /\ task'[j] = "run" /\ stage'[j] = Remaining(j)
    BY <1>1 DEF Claim, DiscoveryTypeOK
  <2>2. row.state = "running" /\ row.cancel = job[j].cancel /\ row.agg = job[j].agg
        /\ row.results = job[j].results
    BY <1>0, JobRowFields, Zenon
  <2>3. jaudit[j].row # "closed"
    BY <1>1 DEF JobInv, AuditMatches, Is, Ended
  <2> HIDE DEF row
  <2>4. NotCreated(j)' /\ IntentFirst(j)' /\ InProcess(j)' /\ TaskOf(j)' /\ Repaired(j)'
    BY <1>0, <1>1, <2>1, <2>2, <2>3
       DEF JobInv, NotCreated, IntentFirst, InProcess, TaskOf, Repaired, Is
  <2>5. Flagged(j)'
    BY <1>0, <1>1, <2>1, <2>2 DEF JobInv, Flagged
  <2>6. ResultsIn(j)'
    BY <2>1, <2>2 DEF ResultsIn, Remaining
  <2>7. ProbesMarked(j)' /\ AuditMatches(j)'
    BY <1>0, <2>1, <2>2, <2>3 DEF JobInv, ProbesMarked, AuditMatches
  <2>8. Checked(j)'
    BY <1>1, <2>1, <2>2 DEF Checked
  <2> QED BY <2>4, <2>5, <2>6, <2>7, <2>8 DEF JobInv
<1>2. CASE ~(job[j].state = "queued" /\ ~job[j].cancel)
  <2>1. job'[j] = job[j] /\ task'[j] = "none" /\ stage'[j] = stage[j]
    BY <1>2 DEF Claim, DiscoveryTypeOK
  <2> QED BY <1>0, <2>1 DEF JobInv, NotCreated, IntentFirst, InProcess, TaskOf, Repaired, Flagged,
         ResultsIn, ProbesMarked, AuditMatches, Checked, Is
<1> QED BY <1>1, <1>2

LEMMA TakenTarget ==
  ASSUME DiscoveryTypeOK, NEW j \in DJobs, JobInv(j), NEW t \in Targets, Take(j, t)
  PROVE  JobInv(j)'
<1>0. job[j] \in JobRow /\ task[j] = "run"
      /\ stage \in [DJobs -> [Targets -> {"queue", "wait", "probe", "done"}]]
      /\ UNCHANGED <<jaudit, task, cancels, phase>>
  BY DEF DiscoveryTypeOK, Take
<1>1. CASE SendProbe(j, t)
  BY <1>0, <1>1, ProbeSent
<1>2. CASE /\ job' = [job EXCEPT ![j] = WithResult(@, t)]
           /\ stage' = [stage EXCEPT ![j][t] = "done"] /\ UNCHANGED probed
  <2> DEFINE row == WithResult(job[j], t)
  <2>1. job'[j] = row /\ stage'[j] = [stage[j] EXCEPT ![t] = "done"] /\ probed'[j] = probed[j]
    BY <1>2 DEF DiscoveryTypeOK
  <2>2. /\ row.state = job[j].state /\ row.cancel = job[j].cancel /\ row.agg = job[j].agg
        /\ job[j].state # "running" => row = job[j]
        /\ job[j].state = "running" => row.results = job[j].results \cup {t}
    BY <1>0, ResultRow
  <2>3. job[j].results \subseteq row.results
    BY <2>2
  <2>4. /\ job[j].state = "running" /\ row.agg = "not_dispatched" =>
             job[j].agg = "not_dispatched" /\ probed'[j] = probed[j]
        /\ job[j].state = "running" /\ "done" = "done" => t \in row.results
        /\ jaudit'[j] = jaudit[j] /\ task'[j] = task[j] /\ phase' = phase
        /\ (j \in cancels' <=> j \in cancels)
    BY <1>0, <2>1, <2>2
  <2> HIDE DEF row
  <2> QED BY <1>0, <2>1, <2>2, <2>3, <2>4, WorkedJob, Zenon
<1>3. CASE stage' = [stage EXCEPT ![j][t] = "wait"] /\ UNCHANGED <<job, probed>>
  <2>1. job'[j] = job[j] /\ stage'[j] = [stage[j] EXCEPT ![t] = "wait"] /\ probed'[j] = probed[j]
    BY <1>3 DEF DiscoveryTypeOK
  <2>2. /\ job[j].state = "running" /\ job[j].agg = "not_dispatched" =>
             job[j].agg = "not_dispatched" /\ probed'[j] = probed[j]
        /\ job[j].state = "running" /\ "wait" = "done" => t \in job[j].results
        /\ jaudit'[j] = jaudit[j] /\ task'[j] = task[j] /\ phase' = phase
        /\ (j \in cancels' <=> j \in cancels) /\ job[j].results \subseteq job[j].results
    BY <1>0, <2>1
  <2> QED BY <1>0, <2>1, <2>2, WorkedJob, Zenon
<1> QED BY <1>1, <1>2, <1>3 DEF Take

LEMMA AnsweredTarget ==
  ASSUME DiscoveryTypeOK, NEW j \in DJobs, JobInv(j), NEW t \in Targets, EndProbe(j, t)
  PROVE  JobInv(j)'
<1>0. job[j] \in JobRow /\ task[j] = "run"
      /\ stage \in [DJobs -> [Targets -> {"queue", "wait", "probe", "done"}]]
      /\ UNCHANGED <<jaudit, task, cancels, phase, probed>>
  BY Working DEF DiscoveryTypeOK, EndProbe, At
<1>1. PICK ds \in Answered : job' = [job EXCEPT ![j] = WithResult(Merged(@, ds), t)]
  BY DEF EndProbe
<1> DEFINE mid == Merged(job[j], ds)
           row == WithResult(mid, t)
<1>2. /\ mid \in JobRow /\ mid.state = job[j].state /\ mid.cancel = job[j].cancel
      /\ mid.results = job[j].results
      /\ job[j].state # "running" => mid = job[j]
      /\ job[j].state = "running" => mid.agg # "not_dispatched"
  BY <1>0, MergedRow
<1>3. job'[j] = row /\ stage'[j] = [stage[j] EXCEPT ![t] = "done"] /\ probed'[j] = probed[j]
  BY <1>0, <1>1 DEF EndProbe, DiscoveryTypeOK
<1> HIDE DEF mid
<1>4. /\ row.state = mid.state /\ row.cancel = mid.cancel /\ row.agg = mid.agg
      /\ mid.state # "running" => row = mid
      /\ mid.state = "running" => row.results = mid.results \cup {t}
  BY <1>2, ResultRow
<1> HIDE DEF row
<1>5. /\ row.state = job[j].state /\ row.cancel = job[j].cancel
      /\ job[j].state # "running" => row = job[j]
  BY <1>2, <1>4, Zenon
<1>6. job[j].results \subseteq row.results
  BY <1>2, <1>4
<1>7. /\ job[j].state = "running" /\ row.agg = "not_dispatched" =>
           job[j].agg = "not_dispatched" /\ probed'[j] = probed[j]
      /\ job[j].state = "running" /\ "done" = "done" => t \in row.results
      /\ jaudit'[j] = jaudit[j] /\ task'[j] = task[j] /\ phase' = phase
      /\ (j \in cancels' <=> j \in cancels)
  BY <1>0, <1>2, <1>4
<1> QED BY <1>0, <1>3, <1>5, <1>6, <1>7, WorkedJob, Zenon

LEMMA TaskEnded ==
  ASSUME DiscoveryTypeOK, NEW j \in DJobs, JobInv(j), EndTask(j)
  PROVE  JobInv(j)'
<1> DEFINE row == Finished(job[j], Verdict(j))
<1>1. WorkersDone(j)
  BY DEF EndTask
<1>2. /\ row \in JobRow /\ row.state \in Ended /\ row.agg = job[j].agg
      /\ row.cancel = job[j].cancel
      /\ Is(j, Open \cup Ended) /\ (Is(j, Ended) => row = job[j])
      /\ row.state = "completed" => row.results = Targets /\ ~row.cancel
  BY <1>1, TaskVerdict
<1>3. /\ job' = [job EXCEPT ![j] = row]
      /\ jaudit' = [jaudit EXCEPT ![j] = IF row.state \in Ended THEN Recorded(j, row) ELSE @]
      /\ task' = [task EXCEPT ![j] = "none"] /\ stage' = [stage EXCEPT ![j] = NoWork]
      /\ UNCHANGED <<late, cancels, probed, phase, downs>>
  BY DEF EndTask
<1> HIDE DEF row
<1>4. job'[j] = row /\ jaudit'[j] = Recorded(j, row) /\ task'[j] = "none" /\ stage'[j] = NoWork
      /\ probed'[j] = probed[j] /\ cancels' = cancels /\ phase' = phase
  BY <1>2, <1>3 DEF DiscoveryTypeOK
<1>5. InProcess(j)'
  BY <1>4 DEF JobInv, InProcess
<1> QED BY <1>2, <1>4, <1>5, EndedJob

LEMMA CancelFlagged ==
  ASSUME DiscoveryTypeOK, NEW j \in DJobs, JobInv(j), RequestCancel(j)
  PROVE  JobInv(j)'
<1> DEFINE row == [job[j] EXCEPT !.cancel = TRUE]
<1>0. job[j] \in JobRow /\ Is(j, Open) /\ phase = "up"
  BY DEF DiscoveryTypeOK, RequestCancel
<1>1. job'[j] = row /\ j \in cancels'
      /\ jaudit'[j] = jaudit[j] /\ task'[j] = task[j] /\ stage'[j] = stage[j]
      /\ probed'[j] = probed[j] /\ phase' = phase
  BY DEF RequestCancel, DiscoveryTypeOK
<1>2. row.state = job[j].state /\ row.cancel /\ row.agg = job[j].agg /\ row.results = job[j].results
  BY <1>0, JobRowFields, Zenon
<1> HIDE DEF row
<1>3. NotCreated(j)' /\ IntentFirst(j)' /\ InProcess(j)' /\ TaskOf(j)' /\ Repaired(j)' /\ Flagged(j)'
  BY <1>0, <1>1, <1>2
     DEF JobInv, NotCreated, IntentFirst, InProcess, TaskOf, Repaired, Flagged, Is, Open, Ended
<1>4. ResultsIn(j)' /\ ProbesMarked(j)'
  BY <1>1, <1>2 DEF JobInv, ResultsIn, ProbesMarked
<1>5. AuditMatches(j)'
  BY <1>0, <1>1 DEF JobInv, AuditMatches, Is, Open, Ended
<1>6. Checked(j)'
  BY <1>0, <1>1, <1>2 DEF Checked, Is, Open
<1> QED BY <1>3, <1>4, <1>5, <1>6 DEF JobInv

LEMMA CancelEnded ==
  ASSUME DiscoveryTypeOK, NEW j \in DJobs, JobInv(j), EndCancel(j)
  PROVE  JobInv(j)'
<1> DEFINE row == Finished(job[j], "cancelled")
<1>1. j \in cancels
  BY DEF EndCancel
<1>2. /\ row \in JobRow /\ row.state \in Ended /\ row.agg = job[j].agg
      /\ row.cancel = job[j].cancel
      /\ Is(j, Open \cup Ended) /\ (Is(j, Ended) => row = job[j])
      /\ row.state = "completed" => row.results = Targets /\ ~row.cancel
  BY <1>1, CancelVerdict
<1>3. /\ job' = [job EXCEPT ![j] = row]
      /\ jaudit' = [jaudit EXCEPT ![j] = Recorded(j, row)] /\ cancels' = cancels \ {j}
      /\ UNCHANGED <<late, task, stage, probed, phase, downs>>
  BY DEF EndCancel
<1> HIDE DEF row
<1>4. job'[j] = row /\ jaudit'[j] = Recorded(j, row) /\ probed'[j] = probed[j] /\ j \notin cancels'
  BY <1>3 DEF DiscoveryTypeOK
<1>5. InProcess(j)'
  BY <1>3 DEF JobInv, InProcess
<1> QED BY <1>2, <1>4, <1>5, EndedJob

\* The row is finished and the process stops before the recorder runs.
LEMMA FinishCrashed ==
  ASSUME DiscoveryTypeOK, NEW j \in DJobs, JobInv(j), CrashInFinish(j)
  PROVE  JobInv(j)'
<1>1. ASSUME NEW row, job'[j] = row, jaudit'[j] = jaudit[j], task'[j] = "none",
             stage'[j] = NoWork, probed'[j] = probed[j], j \notin cancels',
             row \in JobRow, row.state \in Ended, row.agg = job[j].agg,
             row.cancel = job[j].cancel,
             Is(j, Open \cup Ended), Is(j, Ended) => row = job[j],
             row.state = "completed" => row.results = Targets /\ ~row.cancel
      PROVE  JobInv(j)'
  <2>1. InProcess(j)'
    BY <1>1 DEF InProcess
  <2> QED BY <1>1, <2>1, EndedJob
<1>2. jaudit'[j] = jaudit[j] /\ task'[j] = "none" /\ stage'[j] = NoWork
      /\ probed'[j] = probed[j] /\ j \notin cancels'
  BY DEF CrashInFinish, Stop
<1>3. CASE WorkersDone(j) /\ Stop([job EXCEPT ![j] = Finished(@, Verdict(j))], jaudit)
  <2>1. job'[j] = Finished(job[j], Verdict(j))
    BY <1>3 DEF Stop, DiscoveryTypeOK
  <2>2. LET row == Finished(job[j], Verdict(j)) IN
         /\ row \in JobRow /\ row.state \in Ended /\ row.agg = job[j].agg
         /\ row.cancel = job[j].cancel
         /\ Is(j, Open \cup Ended) /\ (Is(j, Ended) => row = job[j])
         /\ row.state = "completed" => row.results = Targets /\ ~row.cancel
    BY <1>3, TaskVerdict
  <2> QED BY <1>1, <1>2, <2>1, <2>2, Zenon
<1>4. CASE j \in cancels /\ Stop([job EXCEPT ![j] = Finished(@, "cancelled")], jaudit)
  <2>1. job'[j] = Finished(job[j], "cancelled")
    BY <1>4 DEF Stop, DiscoveryTypeOK
  <2>2. LET row == Finished(job[j], "cancelled") IN
         /\ row \in JobRow /\ row.state \in Ended /\ row.agg = job[j].agg
         /\ row.cancel = job[j].cancel
         /\ Is(j, Open \cup Ended) /\ (Is(j, Ended) => row = job[j])
         /\ row.state = "completed" => row.results = Targets /\ ~row.cancel
    BY <1>4, CancelVerdict
  <2> QED BY <1>1, <1>2, <2>1, <2>2, Zenon
<1> QED BY <1>3, <1>4 DEF CrashInFinish

\* recover: an open row is ended when it was cancelled or is overdue, and
\* queued again otherwise.
LEMMA RecoveredJob ==
  ASSUME DiscoveryTypeOK, NEW j \in DJobs, JobInv(j), RecoverRows
  PROVE  JobInv(j)'
<1>0. job[j] \in JobRow /\ job[j].cancel \in BOOLEAN /\ job'[j] = RecoveredRow(j)
  BY DEF DiscoveryTypeOK, RecoverRows, JobRow
<1>1. /\ jaudit'[j] = jaudit[j] /\ task'[j] = "none" /\ stage'[j] = NoWork /\ probed'[j] = probed[j]
      /\ j \notin cancels' /\ phase' = "recovered" /\ j \notin cancels /\ task[j] = "none"
  BY DEF RecoverRows, JobInv, InProcess
<1>2. InProcess(j)'
  BY <1>1 DEF InProcess
<1>3. ASSUME NEW s \in {"failed", "cancelled"}, job'[j] = [job[j] EXCEPT !.state = s], Is(j, Open)
      PROVE  JobInv(j)'
  <2> DEFINE row == [job[j] EXCEPT !.state = s]
  <2>1. row \in JobRow
    BY <1>0, JobRowTypes DEF Ended
  <2>2. row.state = s /\ row.cancel = job[j].cancel /\ row.agg = job[j].agg
    BY <1>0, JobRowFields, Zenon
  <2>3. s \in Ended /\ s # "completed" /\ Is(j, Open \cup Ended) /\ ~Is(j, Ended)
    BY <1>3 DEF Is, Open, Ended
  <2>4. job'[j] = row
    BY <1>3
  <2> HIDE DEF row
  <2> QED BY <1>1, <1>2, <2>1, <2>2, <2>3, <2>4, EndedJob
<1>4. CASE Is(j, Open) /\ job[j].cancel
  <2>1. job'[j] = [job[j] EXCEPT !.state = "cancelled"]
    BY <1>0, <1>4 DEF RecoveredRow
  <2> QED BY <1>3, <1>4, <2>1
<1>5. CASE Is(j, Open) /\ ~job[j].cancel /\ j \in late
  <2>1. job'[j] = [job[j] EXCEPT !.state = "failed"]
    BY <1>0, <1>5 DEF RecoveredRow
  <2> QED BY <1>3, <1>5, <2>1
<1>6. CASE Is(j, Open) /\ ~job[j].cancel /\ j \notin late
  <2> DEFINE row == [job[j] EXCEPT !.state = "queued"]
  <2>1. job'[j] = row
    BY <1>0, <1>6 DEF RecoveredRow
  <2>2. row.state = "queued" /\ row.cancel = job[j].cancel /\ row.agg = job[j].agg
    BY <1>0, JobRowFields, Zenon
  <2> HIDE DEF row
  <2>3. NotCreated(j)' /\ TaskOf(j)' /\ Repaired(j)' /\ Flagged(j)' /\ ResultsIn(j)'
    BY <1>1, <1>6, <2>1, <2>2 DEF NotCreated, TaskOf, Repaired, Flagged, ResultsIn
  <2>4. IntentFirst(j)' /\ AuditMatches(j)'
    BY <1>1, <1>6 DEF JobInv, IntentFirst, AuditMatches, Is, Open, Ended
  <2>5. ProbesMarked(j)'
    BY <1>1, <2>1, <2>2 DEF JobInv, ProbesMarked
  <2>6. Checked(j)'
    BY <1>1, <2>1, <2>2 DEF Checked
  <2> QED BY <1>2, <2>3, <2>4, <2>5, <2>6 DEF JobInv
<1>7. CASE ~Is(j, Open)
  <2>1. job'[j] = job[j]
    BY <1>0, <1>7 DEF RecoveredRow
  <2> QED BY <1>1, <1>2, <1>7, <2>1 DEF JobInv, NotCreated, IntentFirst, TaskOf, Repaired, Flagged,
         ResultsIn, ProbesMarked, AuditMatches, Checked, Is
<1> QED BY <1>4, <1>5, <1>6, <1>7

\* The rest of the recovery: closed audit rows, deleted jobs, tasks created anew.
LEMMA ResumedJob ==
  ASSUME DiscoveryTypeOK, NEW j \in DJobs, JobInv(j), Resume
  PROVE  JobInv(j)'
<1>0. job[j] \in JobRow /\ phase = "recovered" /\ j \notin cancels /\ stage[j] = NoWork
      /\ task[j] = "none"
  BY DEF DiscoveryTypeOK, Resume, JobInv, InProcess
<1>1. stage'[j] = NoWork /\ probed'[j] = probed[j] /\ j \notin cancels' /\ phase' = "up"
  BY <1>0 DEF Resume
<1>2. PICK old, unscoped \in SUBSET DJobs :
        /\ \A k \in old : Is(k, Ended)
        /\ \A k \in unscoped : job[k].state = "queued"
        /\ job'[j] = IF job[j].state = "queued" /\ j \in unscoped THEN Finished(job[j], "failed")
                     ELSE IF Is(j, Ended) /\ j \in old THEN Deleted(job[j]) ELSE job[j]
        /\ jaudit'[j] = IF Is(j, Ended) THEN Recorded(j, job[j])
                        ELSE IF j \in unscoped
                        THEN Recorded(j, IF job[j].state = "queued" /\ j \in unscoped
                                         THEN Finished(job[j], "failed")
                                         ELSE IF Is(j, Ended) /\ j \in old THEN Deleted(job[j])
                                         ELSE job[j])
                        ELSE jaudit[j]
        /\ task'[j] = IF job[j].state = "queued" /\ j \notin unscoped THEN "created" ELSE "none"
  BY DEF Resume
<1>3. Is(j, Open) => job[j].state = "queued" /\ ~job[j].cancel
  BY <1>0 DEF JobInv, Repaired
<1>4. InProcess(j)'
  BY <1>1 DEF InProcess
<1>5. CASE Is(j, Ended)
  <2>1. jaudit'[j] = Recorded(j, job[j]) /\ task'[j] = "none"
    BY <1>2, <1>5 DEF Is, Ended
  <2>2. CASE j \in old
    <3>1. job'[j] = Deleted(job[j])
      BY <1>2, <1>5, <2>2 DEF Is, Ended
    <3>2. job'[j].state = "deleted"
      BY <1>0, <3>1, JobRowFields DEF Deleted
    <3>3. jaudit[j].row = "closed" \/ jaudit[j] = Pending
      BY <1>5 DEF JobInv, IntentFirst, Is, Ended
    <3>4. jaudit'[j].row = "closed"
      BY <1>0, <2>1, <3>3, RecordedRow, AuditRows
    <3>5. NotCreated(j)' /\ IntentFirst(j)' /\ TaskOf(j)' /\ Repaired(j)' /\ Flagged(j)'
          /\ ResultsIn(j)'
      BY <1>1, <2>1, <3>2, <3>4
         DEF NotCreated, IntentFirst, TaskOf, Repaired, Flagged, ResultsIn
    <3>6. ProbesMarked(j)' /\ AuditMatches(j)' /\ Checked(j)'
      BY <1>1, <3>2, <3>4 DEF ProbesMarked, AuditMatches, Checked, Is, Open
    <3> QED BY <1>4, <3>5, <3>6 DEF JobInv
  <2>3. CASE j \notin old
    <3>1. job'[j] = job[j]
      BY <1>2, <1>5, <2>3 DEF Is, Ended
    <3>2. job[j].state = "completed" => job[j].results = Targets /\ ~job[j].cancel
      BY DEF JobInv, Checked
    <3> QED BY <1>0, <1>1, <1>4, <1>5, <2>1, <3>1, <3>2, EndedJob DEF Is
  <2> QED BY <2>2, <2>3
<1>6. CASE job[j].state = "queued" /\ j \in unscoped
  <2> DEFINE row == Finished(job[j], "failed")
  <2>1. ~Is(j, Ended) /\ Is(j, Open) /\ "failed" \in Ended /\ ~job[j].cancel
        /\ Is(j, Open \cup Ended)
    BY <1>3, <1>6 DEF Is, Open, Ended
  <2>2. row \in JobRow /\ row.state = "failed" /\ row.agg = job[j].agg /\ row.cancel = job[j].cancel
    BY <1>0, <2>1, FinishedRow DEF Is
  <2>3. job'[j] = row /\ jaudit'[j] = Recorded(j, row) /\ task'[j] = "none"
    BY <1>2, <1>6, <2>1
  <2> HIDE DEF row
  <2> QED BY <1>1, <1>4, <2>1, <2>2, <2>3, EndedJob
<1>7. CASE ~Is(j, Ended) /\ ~(job[j].state = "queued" /\ j \in unscoped)
  <2>1. job'[j] = job[j] /\ jaudit'[j] = jaudit[j] /\ task'[j] \in {"created", "none"}
        /\ (task'[j] = "created" => job[j].state = "queued")
    BY <1>2, <1>7
  <2>2. NotCreated(j)' /\ IntentFirst(j)' /\ TaskOf(j)' /\ Repaired(j)' /\ Flagged(j)'
    BY <1>1, <2>1 DEF JobInv, NotCreated, IntentFirst, TaskOf, Repaired, Flagged
  <2>3. ResultsIn(j)' /\ ProbesMarked(j)' /\ AuditMatches(j)'
    BY <1>1, <2>1 DEF JobInv, ResultsIn, ProbesMarked, AuditMatches, Is
  <2>4. Checked(j)'
    BY <1>3, <2>1 DEF JobInv, Checked, Is
  <2> QED BY <1>4, <2>2, <2>3, <2>4 DEF JobInv
<1> QED BY <1>5, <1>6, <1>7

\* What a step of job j leaves of every other job.
LEMMA Bystanders ==
  ASSUME DiscoveryTypeOK, NEW j \in DJobs, NEW k \in DJobs, k # j, JobInv(k), NEW t,
         \/ DeadlinePasses(j) \/ Claim(j) \/ Take(j, t) \/ Acquire(j, t) \/ EndProbe(j, t)
         \/ EndTask(j) \/ RequestCancel(j) \/ TaskCancelled(j) \/ EndCancel(j)
  PROVE  JobInv(k)'
<1>1. job'[k] = job[k]
  BY DEF DiscoveryTypeOK, DeadlinePasses, Claim, Take, Acquire, EndProbe, SendProbe, EndTask,
         RequestCancel, TaskCancelled, EndCancel
<1>2. /\ jaudit'[k] = jaudit[k] /\ task'[k] = task[k] /\ probed'[k] = probed[k] /\ phase' = phase
      /\ (k \in cancels' <=> k \in cancels)
  BY DEF DiscoveryTypeOK, DeadlinePasses, Claim, Take, Acquire, EndProbe, SendProbe, EndTask,
         RequestCancel, TaskCancelled, EndCancel
<1>3. stage'[k] = stage[k]
  BY DEF DiscoveryTypeOK, DeadlinePasses, Claim, Take, Acquire, EndProbe, SendProbe, EndTask,
         RequestCancel, TaskCancelled, EndCancel
<1> QED BY <1>1, <1>2, <1>3, OtherJob

LEMMA DiscoveryStep ==
  ASSUME DiscoveryInv, [DiscoveryNext]_discoveryVars
  PROVE  DiscoveryInv'
<1>0. DiscoveryTypeOK /\ DiscoveryTypeOK'
  BY DiscoveryTypeStep DEF DiscoveryInv
<1> SUFFICES ASSUME NEW k \in DJobs PROVE JobInv(k)'
  BY <1>0 DEF DiscoveryInv
<1> USE <1>0
<1>i. JobInv(k)
  BY DEF DiscoveryInv
<1>1. ASSUME NEW j \in DJobs, StartJob(j) PROVE JobInv(k)'
  <2>1. CASE k = j
    BY <1>1, <1>i, <2>1, StartedJob
  <2>2. CASE k # j
    <3>1. /\ job'[k] = ExpiredRow(k) /\ jaudit'[k] = ExpiredAudit(k) /\ task'[k] = task[k]
          /\ stage'[k] = stage[k] /\ probed'[k] = probed[k]
          /\ (k \in cancels' <=> k \in cancels) /\ phase' = phase
      BY <1>1, <2>2 DEF StartJob, DiscoveryTypeOK
    <3> QED BY <1>i, <3>1, ExpiredJob
  <2> QED BY <2>1, <2>2
<1>2. ASSUME NEW j \in DJobs, DeadlinePasses(j) PROVE JobInv(k)'
  BY <1>2, <1>i, OtherJob DEF DeadlinePasses
<1>3. ASSUME NEW j \in DJobs, Claim(j) PROVE JobInv(k)'
  BY <1>3, <1>i, ClaimedJob, Bystanders
<1>4. ASSUME NEW j \in DJobs, NEW t \in Targets, Take(j, t) PROVE JobInv(k)'
  BY <1>4, <1>i, TakenTarget, Bystanders
<1>5. ASSUME NEW j \in DJobs, NEW t \in Targets, Acquire(j, t) PROVE JobInv(k)'
  <2>1. CASE k = j
    <3>1. stage[j][t] # "done"
      BY <1>5 DEF Acquire, At
    <3>2. task[j] = "run"
      BY <1>i, <2>1, <3>1, Working
    <3> QED BY <1>5, <1>i, <2>1, <3>2, ProbeSent DEF Acquire
  <2>2. CASE k # j
    BY <1>5, <1>i, <2>2, Bystanders
  <2> QED BY <2>1, <2>2
<1>6. ASSUME NEW j \in DJobs, NEW t \in Targets, EndProbe(j, t) PROVE JobInv(k)'
  BY <1>6, <1>i, AnsweredTarget, Bystanders
<1>7. ASSUME NEW j \in DJobs, EndTask(j) PROVE JobInv(k)'
  BY <1>7, <1>i, TaskEnded, Bystanders
<1>8. ASSUME NEW j \in DJobs, RequestCancel(j) PROVE JobInv(k)'
  BY <1>8, <1>i, CancelFlagged, Bystanders
<1>9. ASSUME NEW j \in DJobs, TaskCancelled(j) PROVE JobInv(k)'
  <2>1. CASE k = j
    <3>1. /\ job'[k] = job[k] /\ jaudit'[k] = jaudit[k] /\ task'[k] = "none" /\ stage'[k] = NoWork
          /\ probed'[k] = probed[k] /\ (k \in cancels' <=> k \in cancels) /\ phase' = phase
      BY <1>9, <2>1 DEF TaskCancelled, DiscoveryTypeOK
    <3> QED BY <1>i, <3>1 DEF JobInv, NotCreated, IntentFirst, InProcess, TaskOf, Repaired, Flagged,
         ResultsIn, ProbesMarked, AuditMatches, Checked, Is
  <2>2. CASE k # j
    BY <1>9, <1>i, <2>2, Bystanders
  <2> QED BY <2>1, <2>2
<1>10. ASSUME NEW j \in DJobs, EndCancel(j) PROVE JobInv(k)'
  BY <1>10, <1>i, CancelEnded, Bystanders
<1>11. CASE Down
  BY <1>11, <1>i, HaltedJob DEF Down, Stop
<1>12. ASSUME NEW j \in DJobs, CrashInFinish(j) PROVE JobInv(k)'
  <2>1. CASE k = j
    BY <1>12, <1>i, <2>1, FinishCrashed
  <2>2. CASE k # j
    <3>1. /\ job'[k] = job[k] /\ jaudit'[k] = jaudit[k] /\ task'[k] = "none" /\ stage'[k] = NoWork
          /\ probed'[k] = probed[k] /\ k \notin cancels' /\ phase' = "down"
      BY <1>12, <2>2 DEF CrashInFinish, Stop, DiscoveryTypeOK
    <3> QED BY <1>i, <3>1, HaltedJob
  <2> QED BY <2>1, <2>2
<1>13. ASSUME NEW j \in DJobs, CrashInStart(j) PROVE JobInv(k)'
  <2>1. /\ job'[k] = job[k] /\ task'[k] = "none" /\ stage'[k] = NoWork
        /\ probed'[k] = probed[k] /\ k \notin cancels' /\ phase' = "down"
    BY <1>13 DEF CrashInStart, Stop
  <2>2. \/ jaudit'[k] = jaudit[k]
        \/ job[k].state = "none" /\ jaudit[k] = Unwritten /\ jaudit'[k] = Pending
    BY <1>13 DEF CrashInStart, Stop, DiscoveryTypeOK
  <2> QED BY <1>i, <2>1, <2>2, HaltedJob
<1>14. CASE RecoverRows
  BY <1>14, <1>i, RecoveredJob
<1>15. CASE Resume
  BY <1>15, <1>i, ResumedJob
<1>16. CASE UNCHANGED discoveryVars
  BY <1>16, <1>i, OtherJob DEF discoveryVars
<1> QED BY <1>1, <1>2, <1>3, <1>4, <1>5, <1>6, <1>7, <1>8, <1>9, <1>10, <1>11, <1>12,
           <1>13, <1>14, <1>15, <1>16 DEF DiscoveryNext

LEMMA DiscoveryInvariant == DiscoverySpec => []DiscoveryInv
<1>1. DiscoveryInv /\ [DiscoveryNext]_discoveryVars => DiscoveryInv'
  BY DiscoveryStep
<1> QED BY <1>1, DiscoveryInitInv, PTL DEF DiscoverySpec

-----------------------------------------------------------------------------
(* What Discovery promises.                                                *)

\* The variables of Discovery keep their types over every schedule of starts,
\* workers, cancels, crashes and recoveries.
THEOREM DiscoveryTyped == DiscoverySpec => []DiscoveryTypeOK
<1>1. DiscoveryInv => DiscoveryTypeOK
  BY DEF DiscoveryInv
<1> QED BY <1>1, DiscoveryInvariant, PTL

\* DiscoveryAuditOutcomeRecorder: a closed discovery.start audit row says what
\* the job's row says, whichever of the task, the cancel, another start's
\* expiry or the recovery closed it.
THEOREM AuditAlwaysMatches == DiscoverySpec => []AuditMatchesJob
<1>1. DiscoveryInv => AuditMatchesJob
  BY DEF DiscoveryInv, JobInv, AuditMatches, AuditMatchesJob
<1> QED BY <1>1, DiscoveryInvariant, PTL

\* _run and finish: a completed job has a result for every target and was not
\* cancelled, over restarts that resumed it; and while the Manager is up, an
\* open job that was cancelled still has its cancel request waiting for it.
THEOREM CompletedAlwaysChecked == DiscoverySpec => []CompletedChecked
<1>1. DiscoveryInv => CompletedChecked
  BY DEF DiscoveryInv, JobInv, Checked, CompletedChecked
<1> QED BY <1>1, DiscoveryInvariant, PTL

\* An ended row under every action: the compare-and-sets of finish,
\* merge_dispatch and record_result miss it.
LEMMA EndedRowKept ==
  ASSUME DiscoveryTypeOK, [DiscoveryNext]_discoveryVars, NEW k \in DJobs, Is(k, Ended)
  PROVE  job'[k] = job[k] \/ job'[k] = Deleted(job[k])
<1>0. job[k] \in JobRow /\ job[k].state \notin Open /\ job[k].state # "none"
      /\ job[k].state # "running" /\ job[k].state # "queued" /\ ~Is(k, Open)
  BY DEF DiscoveryTypeOK, Is, Ended, Open
<1>1. ASSUME NEW j \in DJobs, StartJob(j) PROVE job'[k] = job[k]
  BY <1>0, <1>1 DEF StartJob, ExpiredRow, Expired
<1>2. ASSUME NEW j \in DJobs, Claim(j) PROVE job'[k] = job[k]
  BY <1>0, <1>2 DEF Claim, DiscoveryTypeOK
<1>3. ASSUME NEW j \in DJobs, NEW t \in Targets, SendProbe(j, t) PROVE job'[k] = job[k]
  <2>1. Merged(job[k], "unknown") = job[k]
    BY <1>0, MergedRow DEF Answered
  <2> QED BY <1>3, <2>1 DEF SendProbe, DiscoveryTypeOK
<1>4. ASSUME NEW j \in DJobs, NEW t \in Targets, Take(j, t) \/ Acquire(j, t)
      PROVE  job'[k] = job[k]
  <2>1. WithResult(job[k], t) = job[k]
    BY <1>0, ResultRow
  <2> QED BY <1>3, <1>4, <2>1 DEF Take, Acquire, DiscoveryTypeOK
<1>5. ASSUME NEW j \in DJobs, NEW t \in Targets, EndProbe(j, t) PROVE job'[k] = job[k]
  <2>1. PICK ds \in Answered : job' = [job EXCEPT ![j] = WithResult(Merged(@, ds), t)]
    BY <1>5 DEF EndProbe
  <2>2. Merged(job[k], ds) = job[k]
    BY <1>0, MergedRow
  <2>3. WithResult(job[k], t) = job[k]
    BY <1>0, ResultRow
  <2> QED BY <2>1, <2>2, <2>3 DEF DiscoveryTypeOK
<1>6. \A s \in Ended : Finished(job[k], s) = job[k]
  BY <1>0, FinishedRow
<1>7. Finished(job[k], Verdict(k)) = job[k] /\ Finished(job[k], "cancelled") = job[k]
      /\ Finished(job[k], "failed") = job[k]
  <2>1. Verdict(k) \in Ended /\ "cancelled" \in Ended /\ "failed" \in Ended
    BY Verdicts DEF Ended
  <2> QED BY <1>6, <2>1
<1>8. ASSUME NEW j \in DJobs, EndTask(j) PROVE job'[k] = job[k]
  BY <1>7, <1>8 DEF EndTask, DiscoveryTypeOK
<1>9. ASSUME NEW j \in DJobs, EndCancel(j) PROVE job'[k] = job[k]
  BY <1>7, <1>9 DEF EndCancel, DiscoveryTypeOK
<1>10. ASSUME NEW j \in DJobs, RequestCancel(j) PROVE job'[k] = job[k]
  BY <1>0, <1>10 DEF RequestCancel, DiscoveryTypeOK
<1>11. ASSUME NEW j \in DJobs, CrashInFinish(j) PROVE job'[k] = job[k]
  BY <1>7, <1>11 DEF CrashInFinish, Stop, DiscoveryTypeOK
<1>12. CASE RecoverRows
  BY <1>0, <1>12 DEF RecoverRows, RecoveredRow
<1>13. CASE Resume
  BY <1>0, <1>13 DEF Resume
<1>14. CASE Down \/ UNCHANGED discoveryVars
  BY <1>14 DEF Down, Stop, discoveryVars
<1>15. ASSUME NEW j \in DJobs, DeadlinePasses(j) \/ TaskCancelled(j) \/ CrashInStart(j)
       PROVE job'[k] = job[k]
  BY <1>15 DEF DeadlinePasses, TaskCancelled, CrashInStart, Stop
<1> QED BY <1>1, <1>2, <1>4, <1>5, <1>8, <1>9, <1>10, <1>11, <1>12, <1>13, <1>14, <1>15
        DEF DiscoveryNext

\* finish, merge_dispatch, record_result and recover write open rows only: once
\* a job has ended, no late worker, waiting cancel, expiry or restart changes
\* its state, its dispatch state or its results.
THEOREM EndedAlwaysFinal == DiscoverySpec => EndedIsFinal
<1>1. DiscoveryInv /\ [DiscoveryNext]_discoveryVars =>
        [\A j \in DJobs : Is(j, Ended) =>
           \/ job'[j] = job[j]
           \/ job'[j] = Deleted(job[j])]_discoveryVars
  BY EndedRowKept DEF DiscoveryInv
<1> QED BY <1>1, DiscoveryInvariant, PTL DEF DiscoverySpec, EndedIsFinal

\* The recorder reads the dispatch state the row has at the time, and the row
\* knows of every probe sent so far.
LEMMA ClosedHonestly ==
  ASSUME DiscoveryInv, [DiscoveryNext]_discoveryVars, NEW k \in DJobs,
         jaudit[k].row # "closed", jaudit'[k].row = "closed",
         jaudit'[k].dispatch = "not_dispatched"
  PROVE  probed[k] = {}
<1>0. DiscoveryTypeOK /\ job[k] \in JobRow /\ JobInv(k)
  BY DEF DiscoveryInv, DiscoveryTypeOK
<1>1. CASE job[k].state = "none"
  BY <1>0, <1>1 DEF JobInv, NotCreated
<1>2. job[k].agg = "not_dispatched" => probed[k] = {}
  BY <1>0 DEF JobInv, ProbesMarked
<1>3. ASSUME NEW row \in JobRow, row.agg = job[k].agg, jaudit'[k] \in {jaudit[k], Recorded(k, row)}
      PROVE  probed[k] = {}
  <2>1. jaudit'[k] = OutcomeOf(row)
    BY <1>0, <1>3, RecordedRow
  <2> QED BY <1>2, <1>3, <2>1, AuditRows
<1>4. \A s : [job[k] EXCEPT !.state = s].agg = job[k].agg
  BY <1>0, JobRowFields
<1>5. ASSUME NEW j \in DJobs, StartJob(j), job[k].state # "none" PROVE probed[k] = {}
  <2>1. jaudit'[k] = ExpiredAudit(k)
    BY <1>5 DEF StartJob
  <2>2. ExpiredRow(k) \in JobRow /\ ExpiredRow(k).agg = job[k].agg
    BY <1>0, <1>4, SweptRows DEF ExpiredRow
  <2>3. jaudit'[k] \in {jaudit[k], Recorded(k, ExpiredRow(k))}
    BY <2>1 DEF ExpiredAudit
  <2> QED BY <1>3, <2>2, <2>3
<1>6. ASSUME NEW s \in Ended, jaudit'[k] \in {jaudit[k], Recorded(k, Finished(job[k], s))}
      PROVE  probed[k] = {}
  <2>1. Finished(job[k], s) \in JobRow /\ Finished(job[k], s).agg = job[k].agg
    BY <1>0, FinishedRow
  <2> QED BY <1>3, <1>6, <2>1
<1>7. Verdict(k) \in Ended /\ "cancelled" \in Ended /\ "failed" \in Ended
  BY <1>0, Verdicts DEF Ended
<1>8. ASSUME NEW j \in DJobs, EndTask(j) PROVE probed[k] = {}
  <2>1. jaudit'[k] \in {jaudit[k], Recorded(k, Finished(job[k], Verdict(k)))}
    BY <1>0, <1>8 DEF EndTask, DiscoveryTypeOK
  <2> QED BY <1>6, <1>7, <2>1
<1>9. ASSUME NEW j \in DJobs, EndCancel(j) PROVE probed[k] = {}
  <2>1. jaudit'[k] \in {jaudit[k], Recorded(k, Finished(job[k], "cancelled"))}
    BY <1>0, <1>9 DEF EndCancel, DiscoveryTypeOK
  <2> QED BY <1>6, <1>7, <2>1
<1>10. CASE Resume
  <2>1. \/ jaudit'[k] \in {jaudit[k], Recorded(k, job[k])}
        \/ jaudit'[k] \in {jaudit[k], Recorded(k, Finished(job[k], "failed"))}
    BY <1>10 DEF Resume
  <2> QED BY <1>0, <1>3, <1>6, <1>7, <2>1
<1>11. ASSUME jaudit'[k] = jaudit[k] PROVE probed[k] = {}
  BY <1>11
<1>12. ASSUME NEW j \in DJobs, \/ DeadlinePasses(j) \/ Claim(j) \/ RequestCancel(j)
                               \/ TaskCancelled(j) \/ CrashInFinish(j)
       PROVE  jaudit'[k] = jaudit[k]
  BY <1>12 DEF DeadlinePasses, Claim, RequestCancel, TaskCancelled, CrashInFinish, Stop
<1>13. ASSUME NEW j \in DJobs, NEW t \in Targets, Take(j, t) \/ Acquire(j, t) \/ EndProbe(j, t)
       PROVE  jaudit'[k] = jaudit[k]
  BY <1>13 DEF Take, Acquire, EndProbe
<1>14. CASE Down \/ RecoverRows \/ UNCHANGED discoveryVars
  BY <1>11, <1>14 DEF Down, Stop, RecoverRows, discoveryVars
<1>15. ASSUME NEW j \in DJobs, CrashInStart(j) PROVE probed[k] = {}
  <2>1. jaudit'[k] = jaudit[k] \/ jaudit'[k] = Pending
    BY <1>0, <1>15 DEF CrashInStart, Stop, DiscoveryTypeOK
  <2> QED BY <2>1, AuditRows
<1> QED BY <1>1, <1>5, <1>8, <1>9, <1>10, <1>11, <1>12, <1>13, <1>14, <1>15 DEF DiscoveryNext

\* An audit row closed as "not_dispatched" is closed for a job that sent no
\* probe, in this process or in one that crashed before it: the workers mark
\* the row before a probe leaves.
THEOREM DispatchAlwaysHonest == DiscoverySpec => DispatchHonest
<1>1. DiscoveryInv /\ [DiscoveryNext]_discoveryVars =>
        [\A j \in DJobs :
           jaudit[j].row # "closed" /\ jaudit'[j].row = "closed"
             /\ jaudit'[j].dispatch = "not_dispatched" => probed[j] = {}]_discoveryVars
  BY ClosedHonestly
<1> QED BY <1>1, DiscoveryInvariant, PTL DEF DiscoverySpec, DispatchHonest

-----------------------------------------------------------------------------
(* FleetProbes: the inductive invariant, Agent by Agent.                   *)

ProbeRow == [pc: {"idle", "capabilities", "summary", "legacy"}, rev: Nat,
             target: Nat, legacy: BOOLEAN, now: Nat, seen: Identity]

\* A status row follows its record, and goes with it.
Follows(a) ==
  /\ fleet[a].present => 1 <= status[a].rev /\ status[a].rev <= fleet[a].rev
  /\ ~fleet[a].present => status[a].rev = 0

\* A row that may be written for the record of the Agent.
Fits(a, row) ==
  /\ row.from # 0 /\ fleet[a].legacy => row.from = fleet[a].target
  /\ row.conn = "ready" => row.inst = fleet[a].inst /\ fleet[a].inst # NoInstance

\* A probe that captured the revision the record has knows its endpoint.  The
\* revisions of an imported record never start again.
Tracks(a, p) ==
  /\ p.pc = "summary" => p.seen \in Instances
  /\ p.pc # "idle" /\ fleet[a].present /\ fleet[a].legacy =>
       p.rev <= fleet[a].rev /\ (p.rev = fleet[a].rev => p.target = fleet[a].target)

AgentInv(a) ==
  /\ Follows(a)
  /\ fleet[a].present /\ Shown(a) => Fits(a, status[a])
  /\ Tracks(a, prober[a])

Distinct ==
  \A a, b \in FleetAgents : a # b /\ fleet[a].present /\ fleet[b].present =>
    (fleet[a].inst = fleet[b].inst => fleet[a].inst = NoInstance)

FleetInv == FleetTypeOK /\ Distinct /\ \A a \in FleetAgents : AgentInv(a)

-----------------------------------------------------------------------------
(* Rows of the fleet.                                                      *)

LEMMA FleetRowFields ==
  ASSUME NEW r \in FleetRow
  PROVE  /\ \A i : LET q == [r EXCEPT !.inst = i, !.rev = @ + 1] IN
              /\ q.present = r.present /\ q.legacy = r.legacy /\ q.target = r.target
              /\ q.inst = i /\ q.rev = r.rev + 1
         /\ \A t, e : LET q == [r EXCEPT !.target = t, !.enabled = e, !.rev = @ + 1] IN
              /\ q.present = r.present /\ q.legacy = r.legacy /\ q.target = t
              /\ q.inst = r.inst /\ q.rev = r.rev + 1
         /\ LET q == [r EXCEPT !.enabled = ~@, !.rev = @ + 1] IN
              /\ q.present = r.present /\ q.legacy = r.legacy /\ q.target = r.target
              /\ q.inst = r.inst /\ q.rev = r.rev + 1
         /\ LET q == [r EXCEPT !.present = FALSE] IN q.present = FALSE
  BY DEF FleetRow

LEMMA FleetRowTypes ==
  ASSUME NEW r \in FleetRow
  PROVE  /\ \A i \in Identity : [r EXCEPT !.inst = i, !.rev = @ + 1] \in FleetRow
         /\ \A t \in Nat, e \in BOOLEAN :
              [r EXCEPT !.target = t, !.enabled = e, !.rev = @ + 1] \in FleetRow
         /\ [r EXCEPT !.enabled = ~@, !.rev = @ + 1] \in FleetRow
         /\ [r EXCEPT !.present = FALSE] \in FleetRow
<1>1. r.rev + 1 \in Nat
  BY DEF FleetRow
<1>2. \A i \in Identity : [r EXCEPT !.inst = i, !.rev = @ + 1] \in FleetRow
  BY <1>1, Zenon DEF FleetRow
<1>3. \A t \in Nat, e \in BOOLEAN :
        [r EXCEPT !.target = t, !.enabled = e, !.rev = @ + 1] \in FleetRow
  BY <1>1, Zenon DEF FleetRow
<1>4. [r EXCEPT !.enabled = ~@, !.rev = @ + 1] \in FleetRow
  BY <1>1, Zenon DEF FleetRow
<1>5. [r EXCEPT !.present = FALSE] \in FleetRow
  BY Zenon DEF FleetRow
<1> QED BY <1>2, <1>3, <1>4, <1>5

\* A record as the end of an enrollment or FleetInit writes it.
LEMMA FreshRecord ==
  ASSUME NEW i \in Identity, NEW l \in BOOLEAN, NEW t \in Nat
  PROVE  LET r == [present |-> TRUE, enabled |-> TRUE, rev |-> 1, inst |-> i,
                   legacy |-> l, target |-> t] IN
         /\ r \in FleetRow /\ r.present /\ r.rev = 1 /\ r.inst = i /\ r.legacy = l /\ r.target = t
<1>1. 1 \in Nat
  OBVIOUS
<1> QED BY <1>1, Zenon DEF FleetRow

LEMMA StatusTypes ==
  /\ NoStatus \in StatusRow /\ NoStatus.rev = 0 /\ NoStatus.from = 0
  /\ Idle \in ProbeRow /\ Idle.pc = "idle"
<1>1. NoStatus \in StatusRow /\ NoStatus.rev = 0 /\ NoStatus.from = 0
  BY DEF NoStatus, StatusRow, Connection, Errors, Identity
<1>2. Idle \in ProbeRow
  <2>1. 0 \in Nat /\ NoInstance \in Identity
    BY DEF Identity
  <2> QED BY <2>1, Zenon DEF Idle, ProbeRow
<1> QED BY <1>1, <1>2 DEF Idle

LEMMA ResetRow ==
  ASSUME NEW r \in FleetRow, clock \in Nat
  PROVE  /\ ResetStatus(r) \in StatusRow
         /\ ResetStatus(r).rev = r.rev /\ ResetStatus(r).conn # "ready" /\ ResetStatus(r).from = 0
<1>1. r.rev \in Nat /\ r.enabled \in BOOLEAN
  BY DEF FleetRow
<1>2. CASE r.enabled
  <2>1. ResetStatus(r) = [NoStatus EXCEPT !.rev = r.rev, !.at = clock, !.conn = "unknown"]
    BY <1>2, Zenon DEF ResetStatus
  <2> QED BY <1>1, <2>1, StatusTypes DEF StatusRow, Connection
<1>3. CASE ~r.enabled
  <2>1. ResetStatus(r) = [NoStatus EXCEPT !.rev = r.rev, !.at = clock, !.conn = "disabled"]
    BY <1>3, Zenon DEF ResetStatus
  <2> QED BY <1>1, <2>1, StatusTypes DEF StatusRow, Connection
<1> QED BY <1>2, <1>3

\* A failure keeps the last answer of the revision, and is never ready.
LEMMA FailedRow ==
  ASSUME FleetTypeOK, NEW a \in FleetAgents, NEW rev \in Nat, NEW now \in Nat, NEW error \in Errors
  PROVE  LET row == FailureRow(a, rev, now, error) IN
         /\ row \in StatusRow /\ row.rev = rev /\ row.at = now /\ row.conn # "ready"
         /\ row.from # 0 => status[a].rev = rev /\ row.from = status[a].from
<1>1. status[a] \in StatusRow
  BY DEF FleetTypeOK
<1>2. CASE status[a].rev = rev
  <2>1. FailureRow(a, rev, now, error)
          = [status[a] EXCEPT !.rev = rev, !.conn = "unavailable", !.error = error, !.at = now]
    BY <1>2 DEF FailureRow
  <2> QED BY <1>1, <1>2, <2>1 DEF StatusRow, Connection
<1>3. CASE status[a].rev # rev
  <2>1. FailureRow(a, rev, now, error)
          = [NoStatus EXCEPT !.rev = rev, !.conn = "unavailable", !.error = error, !.at = now]
    BY <1>3 DEF FailureRow
  <2> QED BY <2>1, StatusTypes DEF StatusRow, Connection
<1> QED BY <1>2, <1>3

\* update_many_if_target_revisions writes a row only over one of the record's
\* revision that is not newer.
LEMMA Published ==
  ASSUME FleetTypeOK, NEW now, NEW rows, DOMAIN rows \subseteq FleetAgents,
         \A b \in DOMAIN rows : rows[b] \in StatusRow, Publish(rows, now)
  PROVE  /\ status' \in [FleetAgents -> StatusRow]
         /\ \A b \in FleetAgents :
              \/ status'[b] = status[b]
              \/ b \in DOMAIN rows /\ status'[b] = rows[b] /\ Writable(b, rows[b].rev, now)
  BY DEF Publish, FleetTypeOK

\* The two answers a probe publishes.
LEMMA AnswerRows ==
  ASSUME NEW p \in ProbeRow, NEW rev \in Nat
  PROVE  /\ LegacyRow(p) \in StatusRow /\ LegacyRow(p).rev = p.rev /\ LegacyRow(p).at = p.now
         /\ LegacyRow(p).conn = "degraded" /\ LegacyRow(p).from = p.target
         /\ ReadyRow(p, rev) \in StatusRow /\ ReadyRow(p, rev).rev = rev
         /\ ReadyRow(p, rev).at = p.now /\ ReadyRow(p, rev).from = p.target
         /\ ReadyRow(p, rev).inst = p.seen
<1>1. p.rev \in Nat /\ p.now \in Nat /\ p.target \in Nat /\ p.seen \in Identity /\ NoInstance \in Identity
  BY DEF ProbeRow, Identity
<1> QED BY <1>1 DEF LegacyRow, ReadyRow, StatusRow, Connection, Errors

-----------------------------------------------------------------------------
(* Steps of FleetProbes, seen from one Agent.                              *)

LEMMA FleetTypes ==
  FleetTypeOK <=> /\ fleet \in [FleetAgents -> FleetRow] /\ status \in [FleetAgents -> StatusRow]
                  /\ prober \in [FleetAgents -> ProbeRow] /\ polling \in BOOLEAN /\ clock \in Nat
  BY Zenon DEF FleetTypeOK, ProbeRow

\* The record stays; the status row is replaced by one that fits, if at all.
LEMMA RecordKept ==
  ASSUME NEW a \in FleetAgents, AgentInv(a), fleet'[a] = fleet[a], fleet[a] \in FleetRow,
         status[a] \in StatusRow,
         \/ status'[a] = status[a]
         \/ fleet[a].present /\ status'[a].rev = fleet[a].rev /\ Fits(a, status'[a]),
         prober'[a] = prober[a] \/ Tracks(a, prober'[a])
  PROVE  AgentInv(a)'
<1>0. fleet[a].rev \in Nat /\ status[a].rev \in Nat
  BY DEF FleetRow, StatusRow
<1>1. Follows(a)'
  BY <1>0 DEF AgentInv, Follows
<1>2. (fleet[a].present /\ Shown(a) => Fits(a, status[a]))'
  BY DEF AgentInv, Shown, Fits
<1>3. Tracks(a, prober[a])'
  BY DEF AgentInv, Tracks
<1> QED BY <1>1, <1>2, <1>3 DEF AgentInv

\* The record moves to its next revision.
LEMMA RecordMoved ==
  ASSUME NEW a \in FleetAgents, AgentInv(a), fleet[a] \in FleetRow, status[a] \in StatusRow,
         prober[a] \in ProbeRow, NEW q \in FleetRow, fleet'[a] = q,
         fleet[a].present, q.present, q.rev = fleet[a].rev + 1, q.legacy = fleet[a].legacy,
         \/ status'[a] = status[a]
         \/ /\ status'[a].rev = q.rev
            /\ status'[a].from # 0 /\ q.legacy => status'[a].from = q.target
            /\ status'[a].conn = "ready" => status'[a].inst = q.inst /\ q.inst # NoInstance,
         prober'[a] = prober[a] \/ prober'[a] = Idle
  PROVE  AgentInv(a)'
<1>0. fleet[a].rev \in Nat /\ status[a].rev \in Nat /\ prober[a].rev \in Nat
  BY DEF FleetRow, StatusRow, ProbeRow
<1>1. Follows(a)'
  BY <1>0 DEF AgentInv, Follows
<1>2. (fleet[a].present /\ Shown(a) => Fits(a, status[a]))'
  BY <1>0 DEF AgentInv, Follows, Shown, Fits
<1>3. Tracks(a, prober[a])'
  <2>1. CASE prober'[a] = Idle
    BY <2>1, StatusTypes DEF Tracks
  <2>2. CASE prober'[a] = prober[a]
    <3>1. prober[a].pc # "idle" /\ q.legacy => prober[a].rev <= fleet[a].rev
      BY DEF AgentInv, Tracks
    <3> QED BY <1>0, <2>2, <3>1 DEF AgentInv, Tracks
  <2> QED BY <2>1, <2>2
<1> QED BY <1>1, <1>2, <1>3 DEF AgentInv

\* What a probe publishes for the revision it captured fits the record, if
\* update_many_if_target_revisions lets it through.
LEMMA FailureFits ==
  ASSUME FleetTypeOK, NEW a \in FleetAgents, AgentInv(a), NEW rev \in Nat, NEW now \in Nat,
         NEW error \in Errors, Writable(a, rev, now)
  PROVE  Fits(a, FailureRow(a, rev, now, error))
<1>1. FailureRow(a, rev, now, error).conn # "ready"
  BY FailedRow
<1>2. FailureRow(a, rev, now, error).from # 0 =>
        status[a].rev = rev /\ FailureRow(a, rev, now, error).from = status[a].from
  BY FailedRow
<1>3. fleet[a].present /\ fleet[a].rev = rev
  BY DEF Writable
<1> QED BY <1>1, <1>2, <1>3 DEF AgentInv, Shown, Fits

LEMMA LegacyFits ==
  ASSUME FleetTypeOK, NEW a \in FleetAgents, AgentInv(a), prober[a].pc = "legacy",
         Writable(a, prober[a].rev, prober[a].now)
  PROVE  Fits(a, LegacyRow(prober[a]))
<1>1. prober[a] \in ProbeRow /\ prober[a].rev \in Nat
  BY FleetTypes DEF ProbeRow
<1>2. LegacyRow(prober[a]).conn = "degraded" /\ LegacyRow(prober[a]).from = prober[a].target
  BY <1>1, AnswerRows
<1> QED BY <1>2 DEF Fits, AgentInv, Tracks, Writable

\* One row is published for the Agent's own probe, which ends, or for the
\* refusal of one.
LEMMA OwnRow ==
  ASSUME FleetTypeOK, \A b \in FleetAgents : AgentInv(b), NEW a \in FleetAgents, UNCHANGED fleet,
         NEW row \in StatusRow, NEW now, Publish(One(a, row), now),
         Writable(a, row.rev, now) => Fits(a, row),
         prober' = prober \/ Ends(a)
  PROVE  /\ status' \in [FleetAgents -> StatusRow] /\ prober' \in [FleetAgents -> ProbeRow]
         /\ \A b \in FleetAgents : AgentInv(b)'
<1>1. DOMAIN One(a, row) = {a} /\ One(a, row)[a] = row
  BY DEF One
<1>2. /\ status' \in [FleetAgents -> StatusRow]
      /\ \A b \in FleetAgents :
           \/ status'[b] = status[b]
           \/ b = a /\ status'[b] = row /\ Writable(a, row.rev, now)
  <2>1. DOMAIN One(a, row) \subseteq FleetAgents /\ \A b \in DOMAIN One(a, row) : One(a, row)[b] \in StatusRow
    BY <1>1
  <2> QED BY <1>1, <2>1, Published
<1>3. \A b \in FleetAgents : prober'[b] = prober[b] \/ prober'[b] = Idle
  BY FleetTypes DEF Ends
<1>4. prober' \in [FleetAgents -> ProbeRow]
  BY FleetTypes, StatusTypes DEF Ends
<1>5. ASSUME NEW b \in FleetAgents PROVE AgentInv(b)'
  <2>1. Tracks(b, Idle)
    BY StatusTypes DEF Tracks
  <2>2. fleet'[b] = fleet[b] /\ fleet[b] \in FleetRow /\ status[b] \in StatusRow
    BY FleetTypes
  <2>3. \/ status'[b] = status[b]
        \/ fleet[b].present /\ status'[b].rev = fleet[b].rev /\ Fits(b, status'[b])
    BY <1>2 DEF Writable
  <2> QED BY <1>3, <2>1, <2>2, <2>3, RecordKept
<1> QED BY <1>2, <1>4, <1>5

LEMMA ProbeMoves ==
  ASSUME NEW p \in ProbeRow
  PROVE  /\ \A i \in Instances : LET q == [p EXCEPT !.pc = "summary", !.seen = i] IN
              q \in ProbeRow /\ q.pc = "summary" /\ q.seen = i /\ q.rev = p.rev /\ q.target = p.target
         /\ \A t \in Nat : LET q == [p EXCEPT !.pc = "legacy", !.target = t] IN
              /\ q \in ProbeRow /\ q.pc = "legacy" /\ q.rev = p.rev /\ q.target = t
<1>1. \A i \in Instances : i \in Identity
  BY DEF Identity
<1>2. \A i \in Instances : [p EXCEPT !.pc = "summary", !.seen = i] \in ProbeRow
  BY <1>1, Zenon DEF ProbeRow
<1>3. \A t \in Nat : [p EXCEPT !.pc = "legacy", !.target = t] \in ProbeRow
  BY Zenon DEF ProbeRow
<1>4. \A i \in Instances : LET q == [p EXCEPT !.pc = "summary", !.seen = i] IN
        q.pc = "summary" /\ q.seen = i /\ q.rev = p.rev /\ q.target = p.target
  BY DEF ProbeRow
<1>5. \A t \in Nat : LET q == [p EXCEPT !.pc = "legacy", !.target = t] IN
        q.pc = "legacy" /\ q.rev = p.rev /\ q.target = t
  BY DEF ProbeRow
<1> QED BY <1>2, <1>3, <1>4, <1>5, Zenon

\* What a probe captures.
LEMMA Captured ==
  ASSUME NEW r \in FleetRow, clock \in Nat
  PROVE  LET p == [pc |-> "capabilities", rev |-> r.rev, target |-> r.target,
                   legacy |-> r.legacy, now |-> clock, seen |-> NoInstance]
             q == [p EXCEPT !.pc = "legacy"] IN
         /\ p \in ProbeRow /\ p.pc = "capabilities" /\ p.rev = r.rev /\ p.target = r.target
         /\ q \in ProbeRow /\ q.pc = "legacy" /\ q.rev = r.rev /\ q.target = r.target
<1> DEFINE p == [pc |-> "capabilities", rev |-> r.rev, target |-> r.target,
                 legacy |-> r.legacy, now |-> clock, seen |-> NoInstance]
           q == [p EXCEPT !.pc = "legacy"]
<1>1. r.rev \in Nat /\ r.target \in Nat /\ r.legacy \in BOOLEAN /\ NoInstance \in Identity
  BY DEF FleetRow, Identity
<1>2. p \in ProbeRow
  BY <1>1, Zenon DEF ProbeRow
<1>3. p.pc = "capabilities" /\ p.rev = r.rev /\ p.target = r.target
  OBVIOUS
<1> HIDE DEF p
<1>4. q \in ProbeRow
  BY <1>2, Zenon DEF ProbeRow
<1>5. q.pc = "legacy" /\ q.rev = p.rev /\ q.target = p.target
  BY <1>2 DEF ProbeRow
<1> HIDE DEF q
<1>6. /\ p \in ProbeRow /\ p.pc = "capabilities" /\ p.rev = r.rev /\ p.target = r.target
      /\ q \in ProbeRow /\ q.pc = "legacy" /\ q.rev = r.rev /\ q.target = r.target
  BY <1>2, <1>3, <1>4, <1>5
<1> QED BY <1>6, Zenon DEF p, q

\* Only the Agent's prober moves, to one that tracks the record.
LEMMA ProberMoved ==
  ASSUME FleetInv, NEW a \in FleetAgents, NEW p \in ProbeRow, Tracks(a, p),
         prober' = [prober EXCEPT ![a] = p], UNCHANGED <<fleet, status, clock>>,
         polling' \in BOOLEAN
  PROVE  FleetInv'
<1>1. FleetTypeOK'
  <2>1. prober' \in [FleetAgents -> ProbeRow]
    BY FleetTypes DEF FleetInv
  <2> QED BY <2>1, FleetTypes DEF FleetTypeOK, FleetInv, ProbeRow
<1>2. Distinct'
  BY DEF FleetInv, Distinct
<1>3. ASSUME NEW b \in FleetAgents PROVE AgentInv(b)'
  <2>1. prober'[b] = prober[b] \/ Tracks(b, prober'[b])
    BY FleetTypes DEF FleetInv
  <2>2. fleet[b] \in FleetRow /\ status[b] \in StatusRow /\ AgentInv(b)
    BY FleetTypes DEF FleetInv
  <2> QED BY <2>1, <2>2, RecordKept
<1> QED BY <1>1, <1>2, <1>3 DEF FleetInv

\* The Agent's own row, as a step of the whole fleet.
LEMMA OwnRowStep ==
  ASSUME FleetInv, NEW a \in FleetAgents, UNCHANGED <<fleet, polling, clock>>,
         NEW row \in StatusRow, NEW now, Publish(One(a, row), now),
         Writable(a, row.rev, now) => Fits(a, row),
         prober' = prober \/ Ends(a)
  PROVE  FleetInv'
<1>1. /\ status' \in [FleetAgents -> StatusRow] /\ prober' \in [FleetAgents -> ProbeRow]
      /\ \A b \in FleetAgents : AgentInv(b)'
  BY OwnRow DEF FleetInv
<1>2. FleetTypeOK'
  BY <1>1 DEF FleetTypeOK, FleetInv, ProbeRow
<1>3. Distinct'
  BY DEF FleetInv, Distinct
<1> QED BY <1>1, <1>2, <1>3 DEF FleetInv

LEMMA BeginProbeStep ==
  ASSUME FleetInv, NEW a \in FleetAgents, BeginProbe(a)
  PROVE  FleetInv'
<1> DEFINE r == fleet[a]
           p == [pc |-> "capabilities", rev |-> r.rev, target |-> r.target,
                 legacy |-> r.legacy, now |-> clock, seen |-> NoInstance]
           q == [p EXCEPT !.pc = "legacy"]
<1>1. FleetTypeOK /\ r \in FleetRow /\ clock \in Nat /\ AgentInv(a) /\ r.rev \in Nat
      /\ polling \in BOOLEAN
  BY FleetTypes DEF FleetInv, FleetRow
<1>2. /\ p \in ProbeRow /\ p.pc = "capabilities" /\ p.rev = r.rev /\ p.target = r.target
      /\ q \in ProbeRow /\ q.pc = "legacy" /\ q.rev = r.rev /\ q.target = r.target
  BY <1>1, Captured, Zenon
<1>3. UNCHANGED <<fleet, polling, clock>>
  BY DEF BeginProbe
<1>4. \/ prober' = [prober EXCEPT ![a] = p] /\ UNCHANGED status
      \/ prober' = [prober EXCEPT ![a] = q] /\ UNCHANGED status
      \/ /\ Publish(One(a, FailureRow(a, r.rev, clock, "failed")), clock)
         /\ UNCHANGED prober
  BY Zenon DEF BeginProbe
<1> HIDE DEF p, q
<1>5. Tracks(a, p) /\ Tracks(a, q)
  BY <1>1, <1>2 DEF Tracks
<1>6. CASE prober' = [prober EXCEPT ![a] = p] /\ UNCHANGED status
  BY <1>1, <1>2, <1>3, <1>5, <1>6, ProberMoved
<1>7. CASE prober' = [prober EXCEPT ![a] = q] /\ UNCHANGED status
  BY <1>1, <1>2, <1>3, <1>5, <1>7, ProberMoved
<1>8. CASE Publish(One(a, FailureRow(a, r.rev, clock, "failed")), clock) /\ UNCHANGED prober
  <2> DEFINE row == FailureRow(a, r.rev, clock, "failed")
  <2>1. row \in StatusRow /\ row.rev = r.rev
    BY <1>1, FailedRow DEF Errors
  <2>2. Writable(a, r.rev, clock) => Fits(a, row)
    BY <1>1, FailureFits DEF Errors
  <2>3. Publish(One(a, row), clock)
    BY <1>8
  <2> HIDE DEF row
  <2> QED BY <1>3, <1>8, <2>1, <2>2, <2>3, OwnRowStep
<1> QED BY <1>4, <1>6, <1>7, <1>8

LEMMA ProbeEndsStep ==
  ASSUME FleetInv, NEW a \in FleetAgents, ProbeFails(a) \/ LegacyAnswered(a)
  PROVE  FleetInv'
<1> DEFINE p == prober[a]
           row == FailureRow(a, p.rev, p.now, "failed")
<1>1. FleetTypeOK /\ p \in ProbeRow /\ AgentInv(a) /\ p.rev \in Nat /\ p.now \in Nat
  BY FleetTypes DEF FleetInv, ProbeRow
<1>2. UNCHANGED <<fleet, polling, clock>> /\ Ends(a)
  BY DEF ProbeFails, LegacyAnswered
<1>3. CASE Publish(One(a, row), p.now)
  <2>1. row \in StatusRow /\ row.rev = p.rev
    BY <1>1, FailedRow DEF Errors
  <2>2. Writable(a, p.rev, p.now) => Fits(a, row)
    BY <1>1, FailureFits DEF Errors
  <2> HIDE DEF row
  <2> QED BY <1>2, <1>3, <2>1, <2>2, OwnRowStep
<1>4. CASE p.pc = "legacy" /\ Publish(One(a, LegacyRow(p)), p.now)
  <2>1. LegacyRow(p) \in StatusRow /\ LegacyRow(p).rev = p.rev
    BY <1>1, AnswerRows
  <2>2. Writable(a, p.rev, p.now) => Fits(a, LegacyRow(p))
    BY <1>1, <1>4, LegacyFits
  <2> QED BY <1>2, <1>4, <2>1, <2>2, OwnRowStep
<1> QED BY <1>3, <1>4 DEF ProbeFails, LegacyAnswered, Fails

LEMMA CapabilitiesStep ==
  ASSUME FleetInv, NEW a \in FleetAgents,
         (\E i \in Instances : CapabilitiesAnswered(a, i)) \/ CapabilitiesMissing(a)
  PROVE  FleetInv'
<1> DEFINE p == prober[a]
<1>1. /\ FleetTypeOK /\ p \in ProbeRow /\ AgentInv(a) /\ polling \in BOOLEAN
      /\ fleet[a] \in FleetRow /\ fleet[a].target \in Nat
  BY FleetTypes DEF FleetInv, FleetRow
<1>2. ASSUME NEW i \in Instances, CapabilitiesAnswered(a, i) PROVE FleetInv'
  <2> DEFINE q == [p EXCEPT !.pc = "summary", !.seen = i]
  <2>1. q \in ProbeRow /\ q.pc = "summary" /\ q.seen = i /\ q.rev = p.rev /\ q.target = p.target
    <3> HIDE DEF p
    <3>1. \A k \in Instances : LET x == [p EXCEPT !.pc = "summary", !.seen = k] IN
            x \in ProbeRow /\ x.pc = "summary" /\ x.seen = k /\ x.rev = p.rev /\ x.target = p.target
      BY <1>1, ProbeMoves, Zenon
    <3> QED BY <3>1, Zenon
  <2>2. prober' = [prober EXCEPT ![a] = q] /\ UNCHANGED <<fleet, status, clock, polling>>
        /\ p.pc # "idle"
    BY <1>2, <1>1, FleetTypes DEF CapabilitiesAnswered
  <2> HIDE DEF q
  <2>3. Tracks(a, q)
    BY <1>1, <2>1, <2>2 DEF AgentInv, Tracks
  <2> QED BY <1>1, <2>1, <2>2, <2>3, ProberMoved
<1>3. CASE CapabilitiesMissing(a) /\ LegacyLookup(a)
  <2> DEFINE q == [p EXCEPT !.pc = "legacy", !.target = fleet[a].target]
  <2>1. q \in ProbeRow /\ q.pc = "legacy" /\ q.rev = p.rev /\ q.target = fleet[a].target
    <3> HIDE DEF p
    <3>1. \A t \in Nat : LET x == [p EXCEPT !.pc = "legacy", !.target = t] IN
            x \in ProbeRow /\ x.pc = "legacy" /\ x.rev = p.rev /\ x.target = t
      BY <1>1, ProbeMoves, Zenon
    <3> QED BY <1>1, <3>1, Zenon
  <2>2. prober' = [prober EXCEPT ![a] = q] /\ UNCHANGED <<fleet, status, clock, polling>>
        /\ p.pc # "idle"
    BY <1>3, <1>1, FleetTypes DEF CapabilitiesMissing
  <2> HIDE DEF q
  <2>3. Tracks(a, q)
    BY <1>1, <2>1, <2>2 DEF AgentInv, Tracks
  <2> QED BY <1>1, <2>1, <2>2, <2>3, ProberMoved
<1>4. CASE CapabilitiesMissing(a) /\ ~LegacyLookup(a)
  <2>1. /\ prober' = [prober EXCEPT ![a] = Idle] /\ polling' \in BOOLEAN
        /\ UNCHANGED <<fleet, status, clock>>
    BY <1>1, <1>4 DEF CapabilitiesMissing, Ends
  <2>2. Tracks(a, Idle) /\ Idle \in ProbeRow
    BY StatusTypes DEF Tracks
  <2> QED BY <2>1, <2>2, ProberMoved
<1> QED BY <1>2, <1>3, <1>4

\* A conflict is written for every Agent that has the instance, or for none.
LEMMA ConflictStep ==
  ASSUME FleetInv, NEW a \in FleetAgents, UNCHANGED <<fleet, polling, clock>>, Ends(a),
         NEW S \in SUBSET FleetAgents, NEW now \in Nat, MarkConflicts(S, now)
  PROVE  FleetInv'
<1> DEFINE rows == [b \in S |-> FailureRow(b, fleet[b].rev, now, "identity_conflict")]
<1>0. FleetTypeOK /\ "identity_conflict" \in Errors
      /\ \A b \in FleetAgents : fleet[b] \in FleetRow /\ fleet[b].rev \in Nat
                                /\ status[b] \in StatusRow /\ AgentInv(b)
  BY FleetTypes DEF FleetInv, FleetRow, Errors
<1>1. Publish(rows, now) /\ DOMAIN rows = S
  BY DEF MarkConflicts
<1>2. \A b \in S : rows[b] = FailureRow(b, fleet[b].rev, now, "identity_conflict")
  OBVIOUS
<1>3. \A b \in S : /\ FailureRow(b, fleet[b].rev, now, "identity_conflict") \in StatusRow
                   /\ FailureRow(b, fleet[b].rev, now, "identity_conflict").rev = fleet[b].rev
  BY <1>0, FailedRow
<1> HIDE DEF rows
<1>4. /\ status' \in [FleetAgents -> StatusRow]
      /\ \A b \in FleetAgents :
           \/ status'[b] = status[b]
           \/ b \in S /\ status'[b] = rows[b] /\ Writable(b, rows[b].rev, now)
  BY <1>0, <1>1, <1>2, <1>3, Published
<1>5. prober' \in [FleetAgents -> ProbeRow]
      /\ \A b \in FleetAgents : prober'[b] = prober[b] \/ prober'[b] = Idle
  BY <1>0, FleetTypes, StatusTypes DEF Ends
<1>6. ASSUME NEW b \in FleetAgents PROVE AgentInv(b)'
  <2>1. Tracks(b, Idle)
    BY StatusTypes DEF Tracks
  <2>2. CASE b \in S /\ status'[b] = rows[b] /\ Writable(b, rows[b].rev, now)
    <3>1. /\ status'[b] = FailureRow(b, fleet[b].rev, now, "identity_conflict")
          /\ status'[b].rev = fleet[b].rev /\ Writable(b, fleet[b].rev, now)
      BY <1>2, <1>3, <2>2
    <3>2. Fits(b, status'[b])
      BY <1>0, <3>1, FailureFits
    <3> QED BY <1>0, <1>5, <2>1, <3>1, <3>2, RecordKept DEF Writable
  <2>3. CASE status'[b] = status[b]
    BY <1>0, <1>5, <2>1, <2>3, RecordKept
  <2> QED BY <1>4, <2>2, <2>3
<1>7. FleetTypeOK'
  BY <1>0, <1>4, <1>5 DEF FleetTypeOK, ProbeRow
<1>8. Distinct'
  BY DEF FleetInv, Distinct
<1> QED BY <1>6, <1>7, <1>8 DEF FleetInv

\* The record of one Agent moves to its next revision.
LEMMA MovedStep ==
  ASSUME FleetInv, NEW a \in FleetAgents, NEW q \in FleetRow, NEW row \in StatusRow,
         fleet' = [fleet EXCEPT ![a] = q], status' = [status EXCEPT ![a] = row],
         UNCHANGED <<polling, clock>>, fleet[a].present, q.present,
         q.rev = fleet[a].rev + 1, q.legacy = fleet[a].legacy,
         \/ row = status[a]
         \/ /\ row.rev = q.rev
            /\ row.from # 0 /\ q.legacy => row.from = q.target
            /\ row.conn = "ready" => row.inst = q.inst /\ q.inst # NoInstance,
         q.inst = fleet[a].inst \/ Matching(a, q.inst) = {},
         UNCHANGED prober \/ Ends(a)
  PROVE  FleetInv'
<1>0. FleetTypeOK /\ Distinct
      /\ \A b \in FleetAgents : fleet[b] \in FleetRow /\ prober[b] \in ProbeRow
                                /\ status[b] \in StatusRow /\ AgentInv(b)
  BY FleetTypes DEF FleetInv
<1>1. /\ fleet' \in [FleetAgents -> FleetRow] /\ status' \in [FleetAgents -> StatusRow]
      /\ fleet'[a] = q /\ status'[a] = row
      /\ \A b \in FleetAgents \ {a} : fleet'[b] = fleet[b] /\ status'[b] = status[b]
  BY <1>0, FleetTypes
<1>2. prober' \in [FleetAgents -> ProbeRow]
      /\ \A b \in FleetAgents : prober'[b] = prober[b] \/ prober'[b] = Idle
  BY <1>0, FleetTypes, StatusTypes DEF Ends
<1>3. AgentInv(a)'
  <2>1. \/ status'[a] = status[a]
        \/ /\ status'[a].rev = q.rev
           /\ status'[a].from # 0 /\ q.legacy => status'[a].from = q.target
           /\ status'[a].conn = "ready" => status'[a].inst = q.inst /\ q.inst # NoInstance
    BY <1>1, Zenon
  <2> QED BY <1>0, <1>1, <1>2, <2>1, RecordMoved
<1>4. ASSUME NEW b \in FleetAgents, b # a PROVE AgentInv(b)'
  <2>1. Tracks(b, Idle)
    BY StatusTypes DEF Tracks
  <2> QED BY <1>0, <1>1, <1>2, <1>4, <2>1, RecordKept
<1>5. Distinct'
  <2>1. \A b \in FleetAgents \ {a} : fleet[b].present => (fleet[b].inst = q.inst => q.inst = NoInstance)
    <3>1. CASE q.inst = fleet[a].inst
      BY <1>0, <3>1 DEF Distinct
    <3>2. CASE Matching(a, q.inst) = {}
      BY <3>2 DEF Matching
    <3> QED BY <3>1, <3>2
  <2> SUFFICES ASSUME NEW b \in FleetAgents, NEW c \in FleetAgents, b # c,
                      fleet'[b].present, fleet'[c].present, fleet'[b].inst = fleet'[c].inst
               PROVE  fleet'[b].inst = NoInstance
    BY DEF Distinct
  <2>2. CASE b = a
    BY <1>1, <2>1, <2>2
  <2>3. CASE c = a
    BY <1>1, <2>1, <2>3
  <2>4. CASE b # a /\ c # a
    BY <1>0, <1>1, <2>4 DEF Distinct
  <2> QED BY <2>2, <2>3, <2>4
<1>6. FleetTypeOK'
  BY <1>0, <1>1, <1>2 DEF FleetTypeOK, ProbeRow
<1> QED BY <1>3, <1>4, <1>5, <1>6 DEF FleetInv

LEMMA SummaryStep ==
  ASSUME FleetInv, NEW a \in FleetAgents, SummaryAnswered(a)
  PROVE  FleetInv'
<1> DEFINE p == prober[a]
           r == fleet[a]
<1>0. /\ FleetTypeOK /\ AgentInv(a) /\ p \in ProbeRow /\ r \in FleetRow
      /\ p.rev \in Nat /\ p.now \in Nat /\ r.rev \in Nat /\ r.rev + 1 \in Nat /\ polling \in BOOLEAN
  BY FleetTypes DEF FleetInv, FleetRow, ProbeRow
<1>1. p.pc = "summary" /\ Ends(a) /\ UNCHANGED <<polling, clock>>
  BY DEF SummaryAnswered
<1>2. p.seen \in Instances /\ p.seen # NoInstance /\ p.seen \in Identity
      /\ (r.present /\ r.legacy /\ p.rev = r.rev => p.target = r.target)
  BY <1>0, <1>1, FleetAssumption DEF AgentInv, Tracks, Identity
<1>3. CASE UNCHANGED <<fleet, status>>
  <2>1. Tracks(a, Idle) /\ Idle \in ProbeRow
    BY StatusTypes DEF Tracks
  <2> QED BY <1>0, <1>1, <1>3, <2>1, ProberMoved DEF Ends
<1>4. CASE MarkConflicts({a} \cup Matching(a, p.seen), p.now) /\ UNCHANGED fleet
  <2>1. {a} \cup Matching(a, p.seen) \in SUBSET FleetAgents
    BY DEF Matching
  <2> QED BY <1>0, <1>1, <1>4, <2>1, ConflictStep
<1>5. CASE Publish(One(a, FailureRow(a, r.rev, p.now, "identity_changed")), p.now) /\ UNCHANGED fleet
  <2> DEFINE row == FailureRow(a, r.rev, p.now, "identity_changed")
  <2>1. row \in StatusRow /\ row.rev = r.rev
    BY <1>0, FailedRow, SMTT(30) DEF Errors
  <2>2. Writable(a, r.rev, p.now) => Fits(a, row)
    BY <1>0, FailureFits DEF Errors
  <2>3. Publish(One(a, row), p.now)
    BY <1>5
  <2> HIDE DEF row
  <2> QED BY <1>1, <1>5, <2>1, <2>2, <2>3, OwnRowStep
<1>6. CASE /\ r.present /\ r.rev = p.rev /\ r.inst = p.seen
           /\ Publish(One(a, ReadyRow(p, r.rev)), p.now) /\ UNCHANGED fleet
  <2> DEFINE row == ReadyRow(p, r.rev)
  <2>1. row \in StatusRow /\ row.rev = r.rev /\ row.from = p.target /\ row.inst = p.seen
    BY <1>0, AnswerRows
  <2>2. Publish(One(a, row), p.now)
    BY <1>6
  <2> HIDE DEF row
  <2>3. Fits(a, row)
    BY <1>2, <1>6, <2>1 DEF Fits
  <2> QED BY <1>1, <1>6, <2>1, <2>2, <2>3, OwnRowStep
<1>7. CASE /\ r.present /\ r.rev = p.rev /\ Matching(a, p.seen) = {}
           /\ fleet' = [fleet EXCEPT ![a].inst = p.seen, ![a].rev = @ + 1]
           /\ status' = [status EXCEPT ![a] = ReadyRow(p, r.rev + 1)]
  <2> DEFINE q == [r EXCEPT !.inst = p.seen, !.rev = @ + 1]
             row == ReadyRow(p, r.rev + 1)
  <2>1. fleet' = [fleet EXCEPT ![a] = q] /\ status' = [status EXCEPT ![a] = row]
    BY <1>0, <1>7, FleetTypes
  <2>2. row \in StatusRow /\ row.rev = r.rev + 1 /\ row.from = p.target /\ row.inst = p.seen
    BY <1>0, AnswerRows
  <2>3. q \in FleetRow
    BY <1>0, <1>2, FleetRowTypes
  <2>4. q.present = r.present /\ q.legacy = r.legacy /\ q.target = r.target /\ q.inst = p.seen
        /\ q.rev = r.rev + 1
    BY <1>0, FleetRowFields, ZenonT(30)
  <2> HIDE DEF q, row
  <2>5. q.present /\ Matching(a, q.inst) = {}
    BY <1>7, <2>4, Zenon
  <2>6. /\ row.rev = q.rev
        /\ row.from # 0 /\ q.legacy => row.from = q.target
        /\ row.conn = "ready" => row.inst = q.inst /\ q.inst # NoInstance
    BY <1>2, <1>7, <2>2, <2>4
  <2> QED BY <1>1, <1>7, <2>1, <2>2, <2>3, <2>4, <2>5, <2>6, MovedStep
<1> QED BY <1>3, <1>4, <1>5, <1>6, <1>7 DEF SummaryAnswered

LEMMA SetEnabledStep ==
  ASSUME FleetInv, NEW a \in FleetAgents, SetEnabled(a)
  PROVE  FleetInv'
<1> DEFINE r == fleet[a]
           q == [r EXCEPT !.enabled = ~@, !.rev = @ + 1]
<1>1. FleetTypeOK /\ r \in FleetRow /\ status[a] \in StatusRow /\ r.present
  BY FleetTypes DEF FleetInv, SetEnabled
<1>2. q \in FleetRow
  BY <1>1, FleetRowTypes
<1>3. q.present = r.present /\ q.legacy = r.legacy /\ q.target = r.target /\ q.inst = r.inst
      /\ q.rev = r.rev + 1
  BY <1>1, FleetRowFields, Zenon
<1>4. fleet' = [fleet EXCEPT ![a] = q]
  BY <1>1, FleetTypes, Zenon DEF SetEnabled
<1>5. status' = [status EXCEPT ![a] = status[a]] /\ UNCHANGED <<prober, polling, clock>>
  BY <1>1, FleetTypes DEF SetEnabled
<1> HIDE DEF q
<1>6. q.present
  BY <1>1, <1>3, Zenon
<1> QED BY <1>1, <1>2, <1>3, <1>4, <1>5, <1>6, MovedStep

LEMMA UpdateAgentStep ==
  ASSUME FleetInv, NEW a \in FleetAgents, UpdateAgent(a)
  PROVE  FleetInv'
<1> DEFINE r == fleet[a]
<1>1. FleetTypeOK /\ r \in FleetRow /\ r.present /\ clock \in Nat /\ r.target \in Nat
      /\ r.target + 1 \in Nat
  BY FleetTypes DEF FleetInv, UpdateAgent, FleetRow
<1>2. PICK t \in {r.target, r.target + 1}, e \in BOOLEAN :
        /\ fleet' = [fleet EXCEPT ![a].target = t, ![a].enabled = e, ![a].rev = @ + 1]
        /\ status' = [status EXCEPT ![a] = ResetStatus(fleet'[a])]
  BY DEF UpdateAgent
<1> DEFINE q == [r EXCEPT !.target = t, !.enabled = e, !.rev = @ + 1]
<1>3. q \in FleetRow
  BY <1>1, FleetRowTypes
<1>4. q.present = r.present /\ q.legacy = r.legacy /\ q.target = t /\ q.inst = r.inst
      /\ q.rev = r.rev + 1
  <2> HIDE DEF r
  <2>1. \A s, f : LET x == [r EXCEPT !.target = s, !.enabled = f, !.rev = @ + 1] IN
          /\ x.present = r.present /\ x.legacy = r.legacy /\ x.target = s
          /\ x.inst = r.inst /\ x.rev = r.rev + 1
    BY <1>1, FleetRowFields, Zenon
  <2> QED BY <2>1, Zenon
<1>5. fleet' = [fleet EXCEPT ![a] = q] /\ fleet'[a] = q
  BY <1>1, <1>2, FleetTypes
<1> HIDE DEF q
<1>6. /\ status' = [status EXCEPT ![a] = ResetStatus(q)] /\ ResetStatus(q) \in StatusRow
      /\ ResetStatus(q).rev = q.rev /\ ResetStatus(q).conn # "ready" /\ ResetStatus(q).from = 0
  BY <1>1, <1>2, <1>3, <1>5, ResetRow
<1>7. q.present
  BY <1>1, <1>4, Zenon
<1>8. UNCHANGED <<prober, polling, clock>>
  BY DEF UpdateAgent
<1> QED BY <1>1, <1>3, <1>4, <1>5, <1>6, <1>7, <1>8, MovedStep

\* A record goes with its status row; another comes at revision one.
LEMMA RemoveAgentStep ==
  ASSUME FleetInv, NEW a \in FleetAgents, RemoveAgent(a)
  PROVE  FleetInv'
<1> DEFINE q == [fleet[a] EXCEPT !.present = FALSE]
<1>0. FleetTypeOK /\ Distinct
      /\ \A b \in FleetAgents : fleet[b] \in FleetRow /\ status[b] \in StatusRow /\ AgentInv(b)
  BY FleetTypes DEF FleetInv
<1>1. q \in FleetRow /\ q.present = FALSE
  BY <1>0, FleetRowTypes, FleetRowFields
<1>2. fleet' = [fleet EXCEPT ![a] = q] /\ status' = [status EXCEPT ![a] = NoStatus]
      /\ UNCHANGED <<prober, polling, clock>>
  BY <1>0, FleetTypes DEF RemoveAgent
<1> HIDE DEF q
<1>3. /\ fleet' \in [FleetAgents -> FleetRow] /\ status' \in [FleetAgents -> StatusRow]
      /\ fleet'[a] = q /\ status'[a] = NoStatus
      /\ \A b \in FleetAgents \ {a} : fleet'[b] = fleet[b] /\ status'[b] = status[b]
  BY <1>0, <1>1, <1>2, FleetTypes, StatusTypes
<1>4. AgentInv(a)'
  <2>1. Follows(a)'
    BY <1>1, <1>3, StatusTypes DEF Follows
  <2>2. Tracks(a, prober[a])'
    BY <1>0, <1>1, <1>2, <1>3 DEF AgentInv, Tracks
  <2> QED BY <1>1, <1>3, <2>1, <2>2 DEF AgentInv
<1>5. ASSUME NEW b \in FleetAgents, b # a PROVE AgentInv(b)'
  BY <1>0, <1>2, <1>3, <1>5, RecordKept
<1>6. Distinct'
  BY <1>0, <1>1, <1>3 DEF Distinct
<1>7. FleetTypeOK'
  BY <1>0, <1>2, <1>3 DEF FleetTypeOK
<1> QED BY <1>4, <1>5, <1>6, <1>7 DEF FleetInv

LEMMA RegisterAgentStep ==
  ASSUME FleetInv, NEW a \in FleetAgents, NEW i \in Instances, RegisterAgent(a, i)
  PROVE  FleetInv'
<1> DEFINE q == [present |-> TRUE, enabled |-> TRUE, rev |-> 1, inst |-> i, legacy |-> FALSE,
                 target |-> fleet[a].target + 1]
<1>0. /\ FleetTypeOK /\ Distinct /\ clock \in Nat
      /\ \A b \in FleetAgents : fleet[b] \in FleetRow /\ status[b] \in StatusRow /\ AgentInv(b)
      /\ fleet[a].target + 1 \in Nat /\ i \in Identity /\ FALSE \in BOOLEAN
  BY FleetTypes DEF FleetInv, FleetRow, Identity
<1>1. q \in FleetRow /\ q.present /\ q.rev = 1 /\ q.inst = i /\ q.legacy = FALSE
  BY <1>0, FreshRecord, Zenon
<1>2. fleet' = [fleet EXCEPT ![a] = q] /\ status' = [status EXCEPT ![a] = ResetStatus(fleet'[a])]
      /\ Matching(a, i) = {} /\ UNCHANGED <<prober, polling, clock>>
  BY <1>0, FleetTypes, Zenon DEF RegisterAgent
<1> HIDE DEF q
<1>3. fleet' \in [FleetAgents -> FleetRow] /\ fleet'[a] = q
      /\ \A b \in FleetAgents \ {a} : fleet'[b] = fleet[b]
  BY <1>0, <1>1, <1>2, FleetTypes
<1>4. /\ ResetStatus(q) \in StatusRow /\ ResetStatus(q).rev = 1 /\ ResetStatus(q).conn # "ready"
      /\ ResetStatus(q).from = 0
  BY <1>0, <1>1, ResetRow
<1>5. /\ status' \in [FleetAgents -> StatusRow] /\ status'[a] = ResetStatus(q)
      /\ \A b \in FleetAgents \ {a} : status'[b] = status[b]
  BY <1>0, <1>2, <1>3, <1>4, FleetTypes
<1>6. AgentInv(a)'
  <2>1. Follows(a)'
    BY <1>1, <1>3, <1>4, <1>5 DEF Follows
  <2>2. Tracks(a, prober[a])'
    BY <1>0, <1>1, <1>2, <1>3 DEF AgentInv, Tracks
  <2>3. Fits(a, status[a])'
    BY <1>4, <1>5 DEF Fits
  <2> QED BY <2>1, <2>2, <2>3 DEF AgentInv
<1>7. ASSUME NEW b \in FleetAgents, b # a PROVE AgentInv(b)'
  BY <1>0, <1>2, <1>3, <1>5, <1>7, RecordKept
<1>8. Distinct'
  <2>1. \A b \in FleetAgents \ {a} : fleet[b].present => fleet[b].inst # i
    BY <1>2 DEF Matching
  <2> QED BY <1>0, <1>1, <1>3, <2>1 DEF Distinct
<1>9. FleetTypeOK'
  BY <1>0, <1>2, <1>3, <1>5 DEF FleetTypeOK
<1> QED BY <1>6, <1>7, <1>8, <1>9 DEF FleetInv

LEMMA FleetInitInv == FleetInit => FleetInv
<1> SUFFICES ASSUME FleetInit PROVE FleetInv
  OBVIOUS
<1>1. PICK id \in [FleetAgents -> Identity] :
       /\ \A a \in FleetAgents : id[a] = NoInstance <=> a \in Imported
       /\ \A a, b \in FleetAgents \ Imported : id[a] = id[b] => a = b
       /\ fleet = [a \in FleetAgents |->
            [present |-> TRUE, enabled |-> TRUE, rev |-> 1, inst |-> id[a],
             legacy |-> a \in Imported, target |-> 1]]
  BY DEF FleetInit
<1>2. \A a \in FleetAgents : /\ fleet[a] \in FleetRow /\ fleet[a].present /\ fleet[a].rev = 1
                             /\ fleet[a].inst = id[a] /\ fleet[a].target = 1
  <2> SUFFICES ASSUME NEW a \in FleetAgents
               PROVE  /\ fleet[a] \in FleetRow /\ fleet[a].present /\ fleet[a].rev = 1
                      /\ fleet[a].inst = id[a] /\ fleet[a].target = 1
    OBVIOUS
  <2>1. id[a] \in Identity /\ (a \in Imported) \in BOOLEAN /\ 1 \in Nat
    OBVIOUS
  <2> DEFINE l == a \in Imported
             r == [present |-> TRUE, enabled |-> TRUE, rev |-> 1, inst |-> id[a],
                   legacy |-> l, target |-> 1]
  <2>2. fleet[a] = r
    BY <1>1, Zenon
  <2>3. l \in BOOLEAN
    BY <2>1
  <2> HIDE DEF l
  <2>4. r \in FleetRow /\ r.present /\ r.rev = 1 /\ r.inst = id[a] /\ r.target = 1
    BY <2>1, <2>3, FreshRecord, Zenon
  <2> HIDE DEF r
  <2> QED BY <2>2, <2>4, Zenon
<1>3. fleet \in [FleetAgents -> FleetRow]
  BY <1>1, <1>2
<1>4. clock = 1 /\ clock \in Nat /\ polling \in BOOLEAN
  BY DEF FleetInit
<1>5. \A a \in FleetAgents : /\ status[a] = ResetStatus(fleet[a])
                             /\ ResetStatus(fleet[a]) \in StatusRow
                             /\ status[a].rev = 1 /\ status[a].conn # "ready" /\ status[a].from = 0
  BY <1>2, <1>4, ResetRow DEF FleetInit
<1>6. status \in [FleetAgents -> StatusRow]
  BY <1>5 DEF FleetInit
<1>7. prober \in [FleetAgents -> ProbeRow] /\ \A a \in FleetAgents : prober[a].pc = "idle"
  BY StatusTypes DEF FleetInit
<1>8. ASSUME NEW a \in FleetAgents PROVE AgentInv(a)
  BY <1>2, <1>5, <1>7 DEF AgentInv, Follows, Fits, Tracks
<1>9. Distinct
  BY <1>1, <1>2 DEF Distinct
<1> QED BY <1>3, <1>4, <1>6, <1>7, <1>8, <1>9, FleetTypes DEF FleetInv

LEMMA FleetStep ==
  ASSUME FleetInv, [FleetNext]_fleetVars
  PROVE  FleetInv'
<1>0. Edited \subseteq FleetAgents
  BY FleetAssumption
<1>1. CASE Tick \/ UNCHANGED fleetVars
  <2>1. UNCHANGED <<fleet, status, prober, polling>> /\ clock' \in Nat
    BY <1>1 DEF Tick, fleetVars, FleetInv, FleetTypeOK
  <2> QED BY <2>1 DEF FleetInv, FleetTypeOK, Distinct, AgentInv, Follows, Fits, Tracks, Shown
<1>2. CASE RestartFleet
  <2>1. UNCHANGED <<fleet, status, clock>> /\ polling' \in BOOLEAN
        /\ prober' \in [FleetAgents -> ProbeRow] /\ \A a \in FleetAgents : prober'[a] = Idle
    BY <1>2, StatusTypes DEF RestartFleet
  <2>2. FleetTypeOK' /\ Distinct'
    BY <2>1 DEF FleetInv, FleetTypeOK, ProbeRow, Distinct
  <2>3. ASSUME NEW a \in FleetAgents PROVE AgentInv(a)'
    <3>1. Tracks(a, Idle)
      BY StatusTypes DEF Tracks
    <3>2. fleet[a] \in FleetRow /\ status[a] \in StatusRow /\ AgentInv(a)
      BY FleetTypes DEF FleetInv
    <3> QED BY <2>1, <3>1, <3>2, RecordKept
  <2> QED BY <2>2, <2>3 DEF FleetInv
<1> QED BY <1>0, <1>1, <1>2, BeginProbeStep, ProbeEndsStep, CapabilitiesStep, SummaryStep,
           SetEnabledStep, UpdateAgentStep, RemoveAgentStep, RegisterAgentStep DEF FleetNext

LEMMA FleetInvariant == FleetSpec => []FleetInv
<1>1. FleetInv /\ [FleetNext]_fleetVars => FleetInv'
  BY FleetStep
<1> QED BY <1>1, FleetInitInv, PTL DEF FleetSpec

-----------------------------------------------------------------------------
(* What FleetProbes promises.                                              *)

\* The variables of FleetProbes keep their types, over pins, updates, removals
\* and second registrations.
THEOREM FleetTyped == FleetSpec => []FleetTypeOK
<1>1. FleetInv => FleetTypeOK
  BY DEF FleetInv
<1> QED BY <1>1, FleetInvariant, PTL

\* Only a published row of the record's revision is shown as ready.
LEMMA ReadyIsShown ==
  ASSUME FleetTypeOK, NEW a \in FleetAgents, ConnectionStatus(a) = "ready"
  PROVE  Shown(a) /\ status[a].conn = "ready"
<1>0. fleet[a].enabled \in BOOLEAN
  BY FleetTypes DEF FleetRow
<1>1. CASE ~fleet[a].enabled
  <2>1. ConnectionStatus(a) = "disabled"
    BY <1>1, Zenon DEF ConnectionStatus
  <2> QED BY <2>1
<1>2. CASE fleet[a].enabled /\ ~Shown(a)
  <2>1. ConnectionStatus(a) = "unknown"
    BY <1>2, Zenon DEF ConnectionStatus
  <2> QED BY <2>1
<1>3. CASE fleet[a].enabled /\ Shown(a) /\ status[a].error = "identity_conflict"
  <2>1. ConnectionStatus(a) = "unavailable"
    BY <1>3, Zenon DEF ConnectionStatus
  <2> QED BY <2>1
<1>4. CASE fleet[a].enabled /\ Shown(a) /\ status[a].error # "identity_conflict"
  <2>1. ConnectionStatus(a) = IF /\ status[a].conn \in {"ready", "degraded", "unavailable"}
                                 /\ clock >= status[a].at + StaleAfter
                              THEN "unknown" ELSE status[a].conn
    BY <1>4, Zenon DEF ConnectionStatus
  <2> QED BY <1>4, <2>1
<1> QED BY <1>1, <1>2, <1>3, <1>4

\* update_many_if_target_revisions: what is shown of an Agent was answered by
\* the endpoint its record names and, when it is ready, by the instance its
\* record is pinned to, whatever happened to the record while a probe was
\* under way.
THEOREM StatusAlwaysDescribes == FleetSpec => []StatusDescribesRecord
<1>1. FleetInv => StatusDescribesRecord
  <2> SUFFICES ASSUME FleetInv, NEW a \in FleetAgents, fleet[a].present, Shown(a)
               PROVE  /\ status[a].from # 0 /\ fleet[a].legacy => status[a].from = fleet[a].target
                      /\ ConnectionStatus(a) = "ready" => status[a].inst = fleet[a].inst
                      /\ ConnectionStatus(a) = "ready" => fleet[a].inst # NoInstance
    BY DEF StatusDescribesRecord
  <2>1. FleetTypeOK /\ Fits(a, status[a])
    BY DEF FleetInv, AgentInv
  <2>2. ConnectionStatus(a) = "ready" => status[a].conn = "ready"
    BY <2>1, ReadyIsShown
  <2> QED BY <2>1, <2>2 DEF Fits
<1> QED BY <1>1, FleetInvariant, PTL

\* _probe under the identity lock: two registered Agents are never pinned to one
\* instance, and never both shown as ready with one instance.
THEOREM IdentitiesAlwaysDistinct == FleetSpec => []IdentitiesDistinct
<1>1. FleetInv => IdentitiesDistinct
  <2> SUFFICES ASSUME FleetInv, NEW a \in FleetAgents, NEW b \in FleetAgents,
                      a # b, fleet[a].present, fleet[b].present
               PROVE  /\ fleet[a].inst = fleet[b].inst => fleet[a].inst = NoInstance
                      /\ ConnectionStatus(a) = "ready" /\ ConnectionStatus(b) = "ready"
                           => status[a].inst # status[b].inst
    BY DEF IdentitiesDistinct
  <2>1. FleetTypeOK /\ AgentInv(a) /\ AgentInv(b)
        /\ (fleet[a].inst = fleet[b].inst => fleet[a].inst = NoInstance)
    BY DEF FleetInv, Distinct
  <2>2. \A c \in {a, b} : ConnectionStatus(c) = "ready" =>
          status[c].inst = fleet[c].inst /\ fleet[c].inst # NoInstance
    BY <2>1, ReadyIsShown DEF AgentInv, Fits
  <2> QED BY <2>1, <2>2
<1> QED BY <1>1, FleetInvariant, PTL

\* A published row against the one it replaces.
LEMMA PublishedNotOlder ==
  ASSUME FleetTypeOK, NEW now \in Nat, NEW rows, DOMAIN rows \subseteq FleetAgents,
         \A b \in DOMAIN rows : rows[b] \in StatusRow /\ rows[b].at = now, Publish(rows, now),
         NEW a \in FleetAgents, status'[a].rev = status[a].rev
  PROVE  status'[a].at >= status[a].at
<1>1. status[a].at \in Nat
  BY FleetTypes DEF StatusRow
<1>2. \/ status'[a] = status[a]
      \/ a \in DOMAIN rows /\ status'[a] = rows[a] /\ Writable(a, rows[a].rev, now)
  BY Published
<1> QED BY <1>1, <1>2 DEF Writable

LEMMA OwnRowNotOlder ==
  ASSUME FleetTypeOK, NEW now \in Nat, NEW b \in FleetAgents, NEW row \in StatusRow, row.at = now,
         Publish(One(b, row), now), NEW a \in FleetAgents, status'[a].rev = status[a].rev
  PROVE  status'[a].at >= status[a].at
<1>1. DOMAIN One(b, row) = {b} /\ One(b, row)[b] = row
  BY DEF One
<1> QED BY <1>1, PublishedNotOlder

LEMMA NotOlderStep ==
  ASSUME FleetInv, [FleetNext]_fleetVars, NEW a \in FleetAgents, status'[a].rev = status[a].rev
  PROVE  status'[a].at >= status[a].at
<1>0. /\ FleetTypeOK /\ clock \in Nat /\ Edited \subseteq FleetAgents
      /\ \A b \in FleetAgents : /\ fleet[b] \in FleetRow /\ fleet[b].rev \in Nat
                                /\ status[b] \in StatusRow /\ status[b].rev \in Nat
                                /\ status[b].at \in Nat /\ Follows(b)
                                /\ prober[b] \in ProbeRow /\ prober[b].rev \in Nat
                                /\ prober[b].now \in Nat
      /\ {"failed", "identity_conflict", "identity_changed"} \subseteq Errors
  BY FleetTypes, FleetAssumption DEF FleetInv, FleetRow, StatusRow, ProbeRow, AgentInv, Errors
<1>k. ASSUME status'[a] = status[a] PROVE status'[a].at >= status[a].at
  BY <1>0, <1>k
<1>1. ASSUME NEW b \in FleetAgents, NEW rev \in Nat, NEW now \in Nat, NEW error \in Errors,
             Publish(One(b, FailureRow(b, rev, now, error)), now)
      PROVE  status'[a].at >= status[a].at
  <2>1. FailureRow(b, rev, now, error) \in StatusRow /\ FailureRow(b, rev, now, error).at = now
    <3>1. FleetTypeOK
      BY <1>0
    <3> QED BY <3>1, FailedRow, SMTT(30)
  <2> QED BY <1>0, <1>1, <2>1, OwnRowNotOlder
<1>2. ASSUME NEW b \in FleetAgents, BeginProbe(b) PROVE status'[a].at >= status[a].at
  BY <1>0, <1>1, <1>2, <1>k DEF BeginProbe
<1>3. ASSUME NEW b \in FleetAgents, ProbeFails(b) PROVE status'[a].at >= status[a].at
  BY <1>0, <1>1, <1>3 DEF ProbeFails, Fails
<1>4. ASSUME NEW b \in FleetAgents, LegacyAnswered(b) PROVE status'[a].at >= status[a].at
  <2>1. LegacyRow(prober[b]) \in StatusRow /\ LegacyRow(prober[b]).at = prober[b].now
    BY <1>0, AnswerRows
  <2>2. CASE Publish(One(b, LegacyRow(prober[b])), prober[b].now)
    BY <1>0, <2>1, <2>2, OwnRowNotOlder
  <2> QED BY <1>0, <1>1, <1>4, <2>2 DEF LegacyAnswered
<1>5. ASSUME NEW b \in FleetAgents, SummaryAnswered(b) PROVE status'[a].at >= status[a].at
  <2> DEFINE p == prober[b]
             S == {b} \cup Matching(b, p.seen)
  <2>1. CASE UNCHANGED status
    BY <1>k, <2>1
  <2>2. CASE MarkConflicts(S, p.now)
    <3> DEFINE rows == [c \in S |-> FailureRow(c, fleet[c].rev, p.now, "identity_conflict")]
    <3>1. Publish(rows, p.now) /\ DOMAIN rows = S /\ S \subseteq FleetAgents
      BY <2>2 DEF MarkConflicts, Matching
    <3>2. \A c \in S : rows[c] \in StatusRow /\ rows[c].at = p.now
      BY <1>0, <3>1, FailedRow
    <3> HIDE DEF rows, S
    <3> QED BY <1>0, <3>1, <3>2, PublishedNotOlder
  <2>3. CASE Publish(One(b, FailureRow(b, fleet[b].rev, p.now, "identity_changed")), p.now)
    BY <1>0, <1>1, <2>3
  <2>4. CASE Publish(One(b, ReadyRow(p, fleet[b].rev)), p.now)
    <3>1. ReadyRow(p, fleet[b].rev) \in StatusRow /\ ReadyRow(p, fleet[b].rev).at = p.now
      BY <1>0, AnswerRows
    <3> QED BY <1>0, <2>4, <3>1, OwnRowNotOlder
  <2>5. CASE fleet[b].present /\ status' = [status EXCEPT ![b] = ReadyRow(p, fleet[b].rev + 1)]
    <3>1. fleet[b].rev + 1 \in Nat /\ status[b].rev # fleet[b].rev + 1
      BY <1>0, <2>5 DEF Follows
    <3>2. ReadyRow(p, fleet[b].rev + 1).rev = fleet[b].rev + 1
      BY <1>0, <3>1, AnswerRows
    <3>3. status'[a] = status[a]
      BY <1>0, <2>5, <3>1, <3>2, FleetTypes
    <3> QED BY <1>k, <3>3
  <2> QED BY <1>5, <2>1, <2>2, <2>3, <2>4, <2>5 DEF SummaryAnswered
<1>6. ASSUME NEW b \in FleetAgents, UpdateAgent(b) PROVE status'[a].at >= status[a].at
  <2>1. PICK t \in {fleet[b].target, fleet[b].target + 1}, e \in BOOLEAN :
          /\ fleet' = [fleet EXCEPT ![b].target = t, ![b].enabled = e, ![b].rev = @ + 1]
          /\ status' = [status EXCEPT ![b] = ResetStatus(fleet'[b])]
    BY <1>6 DEF UpdateAgent
  <2>2. fleet[b].present /\ fleet[b].rev + 1 # status[b].rev
    BY <1>0, <1>6 DEF UpdateAgent, Follows
  <2>3. fleet'[b].rev = fleet[b].rev + 1
    BY <1>0, <2>1, FleetTypes DEF FleetRow
  <2>4. ResetStatus(fleet'[b]).rev = fleet'[b].rev
    BY DEF ResetStatus, NoStatus
  <2>5. status'[a] = status[a]
    BY <1>0, <2>1, <2>2, <2>3, <2>4, FleetTypes
  <2> QED BY <1>k, <2>5
<1>7. ASSUME NEW b \in FleetAgents, RemoveAgent(b) PROVE status'[a].at >= status[a].at
  <2>1. status[b].rev # 0
    BY <1>0, <1>7 DEF RemoveAgent, Follows
  <2>2. status'[a] = status[a]
    BY <1>0, <1>7, <2>1, FleetTypes, StatusTypes DEF RemoveAgent
  <2> QED BY <1>k, <2>2
<1>8. ASSUME NEW b \in FleetAgents, NEW i \in Instances, RegisterAgent(b, i)
      PROVE  status'[a].at >= status[a].at
  <2>1. status[b].rev = 0
    BY <1>0, <1>8 DEF RegisterAgent, Follows
  <2>2. fleet'[b].rev = 1
    BY <1>0, <1>8, FleetTypes DEF RegisterAgent
  <2>3. ResetStatus(fleet'[b]).rev = fleet'[b].rev
    BY DEF ResetStatus, NoStatus
  <2>4. status' = [status EXCEPT ![b] = ResetStatus(fleet'[b])]
    BY <1>8 DEF RegisterAgent
  <2>5. status'[a] = status[a]
    BY <1>0, <2>1, <2>2, <2>3, <2>4, FleetTypes
  <2> QED BY <1>k, <2>5
<1>9. ASSUME NEW b \in FleetAgents,
             (\E i \in Instances : CapabilitiesAnswered(b, i)) \/ CapabilitiesMissing(b) \/ SetEnabled(b)
      PROVE  status'[a].at >= status[a].at
  BY <1>9, <1>k DEF CapabilitiesAnswered, CapabilitiesMissing, SetEnabled
<1>10. CASE Tick \/ RestartFleet \/ UNCHANGED fleetVars
  BY <1>10, <1>k DEF Tick, RestartFleet, fleetVars
<1> QED BY <1>0, <1>2, <1>3, <1>4, <1>5, <1>6, <1>7, <1>8, <1>9, <1>10 DEF FleetNext

\* At one revision a status row is never replaced by what was observed earlier,
\* whichever of an Agent's own probe and another Agent's conflict ends first.
THEOREM StatusNeverGoesBack == FleetSpec => StatusNeverOlder
<1>1. FleetInv /\ [FleetNext]_fleetVars =>
        [\A a \in FleetAgents :
           status'[a].rev = status[a].rev => status'[a].at >= status[a].at]_fleetVars
  BY NotOlderStep
<1> QED BY <1>1, FleetInvariant, PTL DEF FleetSpec, StatusNeverOlder
==============================================================================
