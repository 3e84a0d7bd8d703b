-------------------------- MODULE EnrollmentProofs --------------------------
(***************************************************************************)
(* Theorems about Enrollment, for every number of jobs and recoverers and  *)
(* every bound.                                                            *)
(***************************************************************************)
EXTENDS Enrollment, TLAPS

USE EnrollmentAssumption

-----------------------------------------------------------------------------
(* What the journal's row updates preserve.                                *)

\* Every row update of the journal yields a row.
LEMMA RowOps ==
  ASSUME NEW row \in Row, NEW me \in Int
  PROVE  /\ ClearClaim(row) \in Row
         /\ ExpireRow(row) \in Row
         /\ RawExpireRow(row) \in Row
         /\ ClaimRow(row, me) \in Row
         /\ RenewRow(row) \in Row
         /\ FailRow(row) \in Row
         /\ FinishCleanupRow(row) \in Row
         /\ ConsumeRow(row) \in Row
         /\ CancelledRow(row) \in Row
         /\ \A s \in States : [row EXCEPT !.state = s] \in Row
         /\ \A to \in States : Transitioned(row, to) \in Row
<1> USE DEF Row, States, Leases, Methods, NoRef, NoOwner, Absent
<1>0. row.rev + 1 \in Nat /\ 0 \in Int
  OBVIOUS
<1>1. ClearClaim(row) \in Row
  BY <1>0, Zenon DEF ClearClaim
<1>2. RawExpireRow(row) \in Row /\ FinishCleanupRow(row) \in Row
  BY DEF RawExpireRow, FinishCleanupRow
<1>3. ClaimRow(row, me) \in Row /\ RenewRow(row) \in Row
  BY <1>0, Zenon DEF ClaimRow, RenewRow
<1>4. \A s \in States : [row EXCEPT !.state = s] \in Row
  OBVIOUS
<1>5. \A to \in States : Transitioned(row, to) \in Row
  BY <1>0, Zenon DEF Transitioned
<1>6. ExpireRow(row) \in Row /\ FailRow(row) \in Row
  BY <1>1 DEF ExpireRow, FailRow
<1>7. ConsumeRow(row) \in Row /\ CancelledRow(row) \in Row
  BY <1>1 DEF ConsumeRow, CancelledRow
<1> QED
  BY <1>1, <1>2, <1>3, <1>4, <1>5, <1>6, <1>7

\* No row is a row.
LEMMA NoRowType == NoRow \in Row /\ IdlePub \in [pc: PubPcs, row: Row]
  BY DEF NoRow, Row, States, Leases, Methods, NoRef, NoOwner, Absent, IdlePub, PubPcs

-----------------------------------------------------------------------------
(* Type correctness.                                                       *)

RecRecord ==
  [pc: RecPcs, todo: SUBSET Jobs, job: Jobs \cup {NoJob}, row: Row, reply: Replies]

\* Between two jobs a coroutine may have none.
JobsOK(f) ==
  \A r \in Recs : f[r].job = NoJob => f[r].pc \in {"idle", "prepare", "next"}

\* A coroutine at work has a job.
LEMMA AtWork ==
  ASSUME TypeOK, NEW r \in Recs, rec[r].pc \notin {"idle", "prepare", "next"}
  PROVE  /\ rec[r].job \in Jobs
         /\ rows[rec[r].job] \in Row
         /\ Renewed(r) \in Row
         /\ rec[r].row \in Row
<1>1. rec[r].job \in Jobs /\ rec[r].row \in Row
  BY Zenon DEF TypeOK
<1>2. rows[rec[r].job] \in Row
  BY <1>1, Zenon DEF TypeOK
<1> QED
  BY <1>1, <1>2, RowOps, 0 \in Int, Zenon DEF Renewed

\* Leaving a job keeps the coroutines typed.
LEMMA LeaveType ==
  ASSUME TypeOK, NEW r \in Recs, Leave(r)
  PROVE  rec' \in [Recs -> RecRecord] /\ JobsOK(rec')
<1>1. rec \in [Recs -> RecRecord] /\ JobsOK(rec)
  BY Zenon DEF TypeOK, RecRecord, JobsOK
<1>2. [IdleRec EXCEPT !.pc = "next", !.todo = rec[r].todo] \in RecRecord
  BY <1>1, NoRowType, Zenon DEF IdleRec, RecRecord, RecPcs, Replies
<1>3. rec' \in [Recs -> RecRecord]
  BY <1>1, <1>2, Zenon DEF Leave
<1>4. rec'[r].pc = "next" /\ \A q \in Recs \ {r} : rec'[q] = rec[q]
  BY <1>1, Zenon DEF Leave, IdleRec
<1>5. JobsOK(rec')
  BY <1>1, <1>4, Zenon DEF JobsOK
<1> QED
  BY <1>3, <1>5

\* Moving on within a job keeps the coroutines typed.
LEMMA EnterType ==
  ASSUME TypeOK, NEW r \in Recs, NEW pc \in RecPcs, NEW row \in Row,
         rec[r].job \in Jobs, Enter(r, pc, row)
  PROVE  rec' \in [Recs -> RecRecord] /\ JobsOK(rec')
<1>1. rec \in [Recs -> RecRecord] /\ JobsOK(rec)
  BY Zenon DEF TypeOK, RecRecord, JobsOK
<1>2. [rec[r] EXCEPT !.pc = pc, !.row = row, !.reply = "none"] \in RecRecord
  BY <1>1, Zenon DEF RecRecord, Replies
<1>3. rec' \in [Recs -> RecRecord]
  BY <1>1, <1>2, Zenon DEF Enter
<1>4. NoJob \notin Jobs
  OBVIOUS
<1>5. rec'[r].job = rec[r].job /\ \A q \in Recs \ {r} : rec'[q] = rec[q]
  BY <1>1, Zenon DEF Enter, RecRecord
<1>6. JobsOK(rec')
  BY <1>1, <1>4, <1>5, Zenon DEF JobsOK
<1> QED
  BY <1>3, <1>6

\* Writing a row to the journal keeps it typed.
LEMMA WriteType ==
  ASSUME TypeOK, NEW j \in Jobs, NEW row \in Row, Write(j, row)
  PROVE  rows' \in [Jobs -> Row]
  BY Zenon DEF TypeOK, Write

\* What the steps below keep typed, apart from the rows and the coroutines.
Rest ==
  /\ past \in [Jobs -> BOOLEAN]
  /\ files \subseteq Jobs \X Methods
  /\ reg \in [Jobs -> Methods \cup {NoRef}]
  /\ remote \in [Jobs -> RemoteStates]
  /\ wire \subseteq Requests
  /\ epoch \in Nat \ {0}
  /\ phase \in {"down", "boot", "up"}

PubRecord == [pc: PubPcs, row: Row]

\* TypeOK by its parts.
LEMMA TypeParts ==
  ASSUME TypeOK
  PROVE  /\ rows \in [Jobs -> Row] /\ pub \in [Jobs -> PubRecord]
         /\ rec \in [Recs -> RecRecord] /\ JobsOK(rec) /\ Rest
  BY Zenon DEF TypeOK, Rest, PubRecord, RecRecord, JobsOK

\* TypeOK of the next state from its parts.
LEMMA TypeNext ==
  ASSUME rows' \in [Jobs -> Row], pub' \in [Jobs -> PubRecord],
         rec' \in [Recs -> RecRecord], JobsOK(rec'), Rest'
  PROVE  TypeOK'
  BY Zenon DEF TypeOK, Rest, PubRecord, RecRecord, JobsOK

\* The create API's bulk expiry yields rows.
LEMMA BulkType == TypeOK => BulkExpired \in [Jobs -> Row]
<1> SUFFICES ASSUME TypeOK, NEW j \in Jobs
             PROVE  (IF Due(rows[j], past[j]) THEN RawExpireRow(rows[j])
                                              ELSE rows[j]) \in Row
  BY Zenon DEF BulkExpired
<1>1. rows[j] \in Row
  BY Zenon DEF TypeOK
<1> QED
  BY <1>1, RowOps, 0 \in Int, Zenon

\* The steps of the API keep the types.
LEMMA ApiType ==
  ASSUME TypeOK, NEW j \in Jobs,
         CreateAuto(j) \/ GetExpires(j) \/ Cancel(j)
  PROVE  TypeOK'
<1>0. /\ rows \in [Jobs -> Row] /\ pub \in [Jobs -> PubRecord]
      /\ rec \in [Recs -> RecRecord] /\ JobsOK(rec) /\ Rest
      /\ rows[j] \in Row /\ pub[j] \in PubRecord
  BY TypeParts, Zenon
<1>1. CASE CreateAuto(j)
  <2>1. [NoRow EXCEPT !.state = "running"] \in Row
        /\ [NoRow EXCEPT !.state = "awaiting_cli", !.method = "ssh_cli"] \in Row
    BY NoRowType, Zenon DEF Row, States, Methods
  <2>2. rows' \in [Jobs -> Row]
    BY <1>1, <2>1, BulkType, Zenon DEF CreateAuto
  <2>3. [pc |-> "scheduled", row |-> NoRow] \in PubRecord
    BY NoRowType, Zenon DEF PubRecord, PubPcs
  <2>4. pub' \in [Jobs -> PubRecord]
    BY <1>0, <1>1, <2>3, Zenon DEF CreateAuto
  <2>5. rec' \in [Recs -> RecRecord] /\ JobsOK(rec') /\ Rest'
    BY <1>0, <1>1, Zenon DEF CreateAuto, Rest
  <2> QED
    BY <2>2, <2>4, <2>5, TypeNext
<1>2. CASE GetExpires(j)
  <2>1. rows' \in [Jobs -> Row]
    BY <1>0, <1>2, RowOps, 0 \in Int, Zenon DEF GetExpires
  <2>2. pub' \in [Jobs -> PubRecord] /\ rec' \in [Recs -> RecRecord]
        /\ JobsOK(rec') /\ Rest'
    BY <1>0, <1>2, Zenon DEF GetExpires, Rest
  <2> QED
    BY <2>1, <2>2, TypeNext
<1>3. CASE Cancel(j)
  <2>1. CancelledRow(rows[j]) \in Row /\ FinishCleanupRow(CancelledRow(rows[j])) \in Row
    BY <1>0, RowOps, 0 \in Int, Zenon
  <2>2. rows' \in [Jobs -> Row]
    BY <1>0, <1>3, <2>1, Zenon DEF Cancel
  <2>3. pub' \in [Jobs -> PubRecord]
    BY <1>0, <1>3, NoRowType, Zenon DEF Cancel, PubRecord
  <2>4. rec' \in [Recs -> RecRecord] /\ JobsOK(rec') /\ Rest'
    BY <1>0, <1>3, Zenon DEF Cancel, Rest
  <2> QED
    BY <2>2, <2>3, <2>4, TypeNext
<1> QED
  BY <1>1, <1>2, <1>3

\* Writes to one field of a stored row, and a publisher's records.
LEMMA FieldType ==
  ASSUME TypeOK, NEW j \in Jobs
  PROVE  /\ \A s \in States : [rows EXCEPT ![j].state = s] \in [Jobs -> Row]
         /\ \A l \in Leases : [rows EXCEPT ![j].lease = l] \in [Jobs -> Row]
         /\ \A row \in Row : [rows EXCEPT ![j] = row] \in [Jobs -> Row]
         /\ \A pc \in PubPcs, row \in Row :
              [pub EXCEPT ![j] = [pc |-> pc, row |-> row]] \in [Jobs -> PubRecord]
         /\ [pub EXCEPT ![j] = IdlePub] \in [Jobs -> PubRecord]
<1>0. rows \in [Jobs -> Row] /\ pub \in [Jobs -> PubRecord]
  BY TypeParts
<1>1. \A s \in States : [rows EXCEPT ![j].state = s] \in [Jobs -> Row]
  BY <1>0, Zenon DEF Row
<1>2. \A l \in Leases : [rows EXCEPT ![j].lease = l] \in [Jobs -> Row]
  BY <1>0, Zenon DEF Row
<1>3. \A row \in Row : [rows EXCEPT ![j] = row] \in [Jobs -> Row]
  BY <1>0, Zenon
<1>4. \A pc \in PubPcs, row \in Row :
        [pub EXCEPT ![j] = [pc |-> pc, row |-> row]] \in [Jobs -> PubRecord]
  BY <1>0, Zenon DEF PubRecord
<1>5. [pub EXCEPT ![j] = IdlePub] \in [Jobs -> PubRecord]
  BY <1>0, NoRowType, Zenon DEF PubRecord
<1> QED
  BY <1>1, <1>2, <1>3, <1>4, <1>5

\* The states the actions write.
LEMMA StateNames ==
  /\ "pending" \in States /\ "running" \in States /\ "awaiting_cli" \in States
  /\ "credential_issued" \in States /\ "verifying" \in States /\ "verified" \in States
  /\ "activation_requested" \in States /\ "activated" \in States /\ "failed" \in States
  /\ "expired" \in States /\ "cancelled" \in States /\ "consumed" \in States
  /\ "scheduled" \in PubPcs /\ "issuing" \in PubPcs /\ "validating" \in PubPcs
  /\ "none" \in Leases /\ "live" \in Leases /\ "lapsed" \in Leases
  BY Zenon DEF States, PubPcs, Leases

\* The row a publisher writes is a row.
LEMMA IssuedType ==
  ASSUME TypeOK, NEW j \in Jobs
  PROVE  IssuedRow(j) \in Row /\ [IssuedRow(j) EXCEPT !.state = "verifying"] \in Row
<1>1. \A row \in Row : [row EXCEPT !.state = "credential_issued", !.ref = row.method] \in Row
  BY Zenon DEF Row, States, Methods
<1>2. rows[j] \in Row /\ ClearClaim(rows[j]) \in Row
  BY TypeParts, RowOps, 0 \in Int, Zenon
<1>3. IssuedRow(j) \in Row
  BY <1>1, <1>2, Zenon DEF IssuedRow
<1> QED
  BY <1>3, RowOps, StateNames, 0 \in Int, Zenon

\* The steps of the publishers keep the types.
LEMMA PublisherType ==
  ASSUME TypeOK, NEW j \in Jobs,
         \/ DispatchAuto(j) \/ BeginCli(j) \/ AgentIssues(j) \/ IssueFails(j)
         \/ CliAbandons(j) \/ PublishIssued(j) \/ PublishVerified(j)
  PROVE  TypeOK'
<1>0. /\ rows \in [Jobs -> Row] /\ pub \in [Jobs -> PubRecord]
      /\ rec \in [Recs -> RecRecord] /\ JobsOK(rec) /\ Rest
      /\ rows[j] \in Row /\ pub[j] \in PubRecord
  BY TypeParts, Zenon
<1>1. RawExpireRow(rows[j]) \in Row /\ ExpireRow(rows[j]) \in Row
  BY <1>0, RowOps, 0 \in Int, Zenon
<1>2. CASE DispatchAuto(j)
  <2>0. /\ [rows EXCEPT ![j] = RawExpireRow(rows[j])] \in [Jobs -> Row]
        /\ [rows EXCEPT ![j].state = "failed"] \in [Jobs -> Row]
        /\ [pub EXCEPT ![j] = IdlePub] \in [Jobs -> PubRecord]
        /\ [pub EXCEPT ![j] = [pc |-> "issuing", row |-> rows[j]]] \in [Jobs -> PubRecord]
    BY <1>0, <1>1, FieldType, StateNames, Zenon
  <2>1. rows' \in [Jobs -> Row] /\ pub' \in [Jobs -> PubRecord]
    BY <1>0, <1>2, <2>0, Zenon DEF DispatchAuto
  <2>2. rec' \in [Recs -> RecRecord] /\ JobsOK(rec') /\ Rest'
    BY <1>0, <1>2, Zenon DEF DispatchAuto, Rest
  <2> QED
    BY <2>1, <2>2, TypeNext
<1>3. CASE BeginCli(j)
  <2> DEFINE claimed == [rows[j] EXCEPT !.state = "running",
                             !.method = "ssh_cli", !.owner = CliOwner,
                             !.lease = "live", !.rev = @ + 1, !.cli = TRUE]
  <2>1. rows[j].rev + 1 \in Nat /\ CliOwner \in Int
    BY <1>0 DEF Row, CliOwner
  <2>2. claimed \in Row
    BY <1>0, <2>1, Zenon DEF Row, States, Leases, Methods
  <2>a. /\ [rows EXCEPT ![j] = claimed] \in [Jobs -> Row]
        /\ \A row \in {claimed, rows[j]} :
             [pub EXCEPT ![j] = [pc |-> "issuing", row |-> row]] \in [Jobs -> PubRecord]
    BY <1>0, <2>2, FieldType, StateNames, Zenon
  <2> HIDE DEF claimed
  <2>3. rows' \in [Jobs -> Row] /\ pub' \in [Jobs -> PubRecord]
    BY <1>0, <2>a, <1>3, Zenon DEF BeginCli, claimed
  <2>4. rec' \in [Recs -> RecRecord] /\ JobsOK(rec') /\ Rest'
    BY <1>0, <1>3, Zenon DEF BeginCli, Rest
  <2> QED
    BY <2>3, <2>4, TypeNext
<1>4. CASE AgentIssues(j)
  <2>1. pub' \in [Jobs -> PubRecord]
    BY <1>0, <1>4, Zenon DEF AgentIssues, PubRecord, PubPcs
  <2>2. remote' \in [Jobs -> RemoteStates]
    BY <1>0, <1>4, Zenon DEF AgentIssues, Rest, RemoteStates
  <2>3. rows' \in [Jobs -> Row] /\ rec' \in [Recs -> RecRecord] /\ JobsOK(rec') /\ Rest'
    BY <1>0, <1>4, <2>2, Zenon DEF AgentIssues, Rest
  <2> QED
    BY <2>1, <2>3, TypeNext
<1>5. CASE IssueFails(j)
  <2>0. /\ \A s \in {"awaiting_cli", "failed"} :
             [rows EXCEPT ![j].state = s] \in [Jobs -> Row]
        /\ [pub EXCEPT ![j] = IdlePub] \in [Jobs -> PubRecord]
    BY FieldType, StateNames, Zenon
  <2>1. rows' \in [Jobs -> Row] /\ pub' \in [Jobs -> PubRecord]
    BY <1>0, <1>5, <2>0, Zenon DEF IssueFails
  <2>2. rec' \in [Recs -> RecRecord] /\ JobsOK(rec') /\ Rest'
    BY <1>0, <1>5, Zenon DEF IssueFails, Rest
  <2> QED
    BY <2>1, <2>2, TypeNext
<1>6. CASE CliAbandons(j)
  <2>1. rows' \in [Jobs -> Row] /\ pub' \in [Jobs -> PubRecord]
    BY <1>0, <1>6, FieldType, Zenon DEF CliAbandons
  <2>2. rec' \in [Recs -> RecRecord] /\ JobsOK(rec') /\ Rest'
    BY <1>0, <1>6, Zenon DEF CliAbandons, Rest
  <2> QED
    BY <2>1, <2>2, TypeNext
<1>7. CASE PublishIssued(j)
  <2>0. /\ [rows EXCEPT ![j] = ExpireRow(@)] \in [Jobs -> Row]
        /\ [rows EXCEPT ![j] = [IssuedRow(j) EXCEPT !.state = "verifying"]]
             \in [Jobs -> Row]
        /\ [pub EXCEPT ![j] = IdlePub] \in [Jobs -> PubRecord]
        /\ [pub EXCEPT ![j] = [pc |-> "validating",
                               row |-> [IssuedRow(j) EXCEPT !.state = "verifying"]]]
             \in [Jobs -> PubRecord]
    BY <1>0, <1>1, FieldType, IssuedType, StateNames, Zenon
  <2>1. rows' \in [Jobs -> Row] /\ pub' \in [Jobs -> PubRecord]
    BY <1>0, <1>7, <2>0, Zenon DEF PublishIssued
  <2>2. <<j, rows[j].method>> \in Jobs \X Methods
    BY <1>0, Zenon DEF Row
  <2>3. files' \subseteq Jobs \X Methods
    BY <1>0, <1>7, <2>2, Zenon DEF PublishIssued, Rest
  <2>4. rec' \in [Recs -> RecRecord] /\ JobsOK(rec') /\ Rest'
    BY <1>0, <1>7, <2>3, Zenon DEF PublishIssued, Rest
  <2> QED
    BY <2>1, <2>4, TypeNext
<1>8. CASE PublishVerified(j)
  <2>0. pub[j].row \in Row
    BY <1>0, Zenon DEF PubRecord
  <2>1. [pub[j].row EXCEPT !.state = "verified"] \in Row
    BY <2>0, RowOps, StateNames, 0 \in Int, Zenon
  <2>a. /\ [rows EXCEPT ![j] = [pub[j].row EXCEPT !.state = "verified"]] \in [Jobs -> Row]
        /\ [pub EXCEPT ![j] = IdlePub] \in [Jobs -> PubRecord]
    BY <2>1, FieldType, Zenon
  <2>2. rows' \in [Jobs -> Row] /\ pub' \in [Jobs -> PubRecord]
    BY <1>0, <1>8, <2>a, Zenon DEF PublishVerified
  <2>3. rec' \in [Recs -> RecRecord] /\ JobsOK(rec') /\ Rest'
    BY <1>0, <1>8, Zenon DEF PublishVerified, Rest
  <2> QED
    BY <2>2, <2>3, TypeNext
<1> QED
  BY <1>2, <1>3, <1>4, <1>5, <1>6, <1>7, <1>8

\* consume and prepare_recovery keep the types.
LEMMA StartType ==
  ASSUME TypeOK, NEW r \in Recs,
         RecoverPrepare(r) \/ \E j \in Jobs : Consume(r, j)
  PROVE  TypeOK'
<1>0. /\ rows \in [Jobs -> Row] /\ pub \in [Jobs -> PubRecord]
      /\ rec \in [Recs -> RecRecord] /\ JobsOK(rec) /\ Rest
      /\ rec[r] \in RecRecord
  BY TypeParts, Zenon
<1>1. CASE RecoverPrepare(r)
  <2> DEFINE swept == [k \in Jobs |-> IF Due(rows[k], past[k]) THEN ExpireRow(rows[k])
                                                              ELSE rows[k]]
  <2>1. swept \in [Jobs -> Row]
    <3> SUFFICES ASSUME NEW k \in Jobs
                 PROVE  (IF Due(rows[k], past[k]) THEN ExpireRow(rows[k])
                                                  ELSE rows[k]) \in Row
      BY Zenon
    <3>1. rows[k] \in Row
      BY <1>0, Zenon
    <3> QED
      BY <3>1, RowOps, 0 \in Int, Zenon
  <2>2. rows' \in [Jobs -> Row]
    BY <1>1, <2>1, Zenon DEF RecoverPrepare
  <2> HIDE DEF swept
  <2>3. rec' = [rec EXCEPT ![r].pc = "next", ![r].todo = {k \in Jobs : Claimable(swept[k])}]
    BY <1>1, Zenon DEF RecoverPrepare, swept
  <2>4. rec' \in [Recs -> RecRecord]
    BY <1>0, <2>3, Zenon DEF RecRecord, RecPcs
  <2>5. rec'[r].pc = "next" /\ \A q \in Recs \ {r} : rec'[q] = rec[q]
    BY <1>0, <2>3, Zenon DEF RecRecord
  <2>6. JobsOK(rec')
    BY <1>0, <2>5, Zenon DEF JobsOK
  <2>7. pub' \in [Jobs -> PubRecord] /\ Rest'
    BY <1>0, <1>1, Zenon DEF RecoverPrepare, Rest
  <2> QED
    BY <2>2, <2>4, <2>6, <2>7, TypeNext
<1>2. ASSUME NEW j \in Jobs, Consume(r, j) PROVE TypeOK'
  <2>0. [rows[j] EXCEPT !.state = "activation_requested", !.save = TRUE] \in Row
    BY <1>0, <1>2, ZenonT(30) DEF Row, States
  <2>1. rows' \in [Jobs -> Row]
    BY <1>0, <1>2, <2>0, Zenon DEF Consume
  <2>2. rec' \in [Recs -> RecRecord]
    BY <1>0, <1>2, Zenon DEF Consume, RecRecord, RecPcs
  <2>3. rec'[r].pc = "prepare" /\ \A q \in Recs \ {r} : rec'[q] = rec[q]
    BY <1>0, <1>2, Zenon DEF Consume, RecRecord
  <2>4. JobsOK(rec')
    BY <1>0, <2>3, Zenon DEF JobsOK
  <2>5. pub' \in [Jobs -> PubRecord] /\ Rest'
    BY <1>0, <1>2, Zenon DEF Consume, Rest
  <2> QED
    BY <2>1, <2>2, <2>4, <2>5, TypeNext
<1> QED
  BY <1>1, <1>2

\* claim_recovery keeps the types.
LEMMA ClaimType ==
  ASSUME TypeOK, NEW r \in Recs, NEW j \in Jobs, RecoverClaim(r, j)
  PROVE  TypeOK'
<1>0. /\ rows \in [Jobs -> Row] /\ pub \in [Jobs -> PubRecord]
      /\ rec \in [Recs -> RecRecord] /\ JobsOK(rec) /\ Rest
      /\ rec[r] \in RecRecord /\ rows[j] \in Row /\ epoch \in Int
  BY TypeParts DEF Rest
<1> DEFINE row == IF Due(rows[j], past[j]) THEN ExpireRow(rows[j]) ELSE rows[j]
           claimed == ClaimRow(row, epoch)
           pc == IF row.state \in {"activation_requested", "activated"}
                 THEN "activation" ELSE "validation"
           new == [pc |-> pc, todo |-> rec[r].todo \ {j}, job |-> j,
                   row |-> claimed, reply |-> "none"]
<1>1. row \in Row
  BY <1>0, RowOps, Zenon
<1>2. claimed \in Row
  <2> HIDE DEF row
  <2> QED
    BY <1>0, <1>1, RowOps, Zenon
<1>3. pc \in {"activation", "validation"}
  BY Zenon
<1> HIDE DEF row, claimed, pc
<1>4. new \in RecRecord
  BY <1>0, <1>2, <1>3, Zenon DEF RecRecord, RecPcs, Replies
<1>5. \/ rows' = [rows EXCEPT ![j] = claimed] /\ rec' = [rec EXCEPT ![r] = new]
      \/ rows' = [rows EXCEPT ![j] = row] /\ rec' = [rec EXCEPT ![r].todo = @ \ {j}]
  BY Zenon DEF RecoverClaim, Write, row, claimed, pc
<1>6. rec[r].pc = "next" /\ NoJob \notin Jobs
  BY EnrollmentAssumption, Zenon DEF RecoverClaim
<1>7. rows' \in [Jobs -> Row]
  BY <1>0, <1>1, <1>2, <1>5, FieldType, Zenon
<1>8. rec' \in [Recs -> RecRecord]
  <2>1. [rec EXCEPT ![r] = new] \in [Recs -> RecRecord]
    BY <1>0, <1>4, Zenon
  <2>2. [rec EXCEPT ![r].todo = @ \ {j}] \in [Recs -> RecRecord]
    BY <1>0, Zenon DEF RecRecord
  <2> QED
    BY <1>5, <2>1, <2>2, Zenon
<1>9. /\ \A q \in Recs \ {r} : rec'[q] = rec[q]
      /\ rec'[r].job = j \/ rec'[r].pc = "next"
  <2>1. CASE rec' = [rec EXCEPT ![r] = new]
    BY <1>0, <2>1, Zenon
  <2>2. CASE rec' = [rec EXCEPT ![r].todo = @ \ {j}]
    BY <1>0, <1>6, <2>2, Zenon DEF RecRecord
  <2> QED
    BY <1>5, <2>1, <2>2
<1>10. JobsOK(rec')
  BY <1>0, <1>6, <1>9, Zenon DEF JobsOK
<1>11. pub' \in [Jobs -> PubRecord] /\ Rest'
  BY <1>0, Zenon DEF RecoverClaim, Rest
<1> QED
  BY <1>7, <1>8, <1>10, <1>11, TypeNext

\* A step of a coroutine at work that writes its job's row and leaves the job
\* or moves on within it keeps the types.
LEMMA WorkType ==
  ASSUME TypeOK, NEW r \in Recs, NEW j \in Jobs, j = rec[r].job,
         rows' = rows \/ \E row \in Row : Write(j, row),
         Leave(r) \/ \E pc \in RecPcs, row \in Row : Enter(r, pc, row),
         pub' = pub, Rest'
  PROVE  TypeOK'
<1>0. rows \in [Jobs -> Row] /\ pub \in [Jobs -> PubRecord]
  BY TypeParts
<1>1. rows' \in [Jobs -> Row]
  BY <1>0, WriteType, Zenon
<1>2. rec' \in [Recs -> RecRecord] /\ JobsOK(rec')
  BY LeaveType, EnterType, Zenon
<1> QED
  BY <1>0, <1>1, <1>2, TypeNext, Zenon

\* Recovery's calls to the Agent and what follows them keep the types.
LEMMA ValidationType ==
  ASSUME TypeOK, NEW r \in Recs,
         BeginValidation(r) \/ AbandonCall(r) \/ EndValidation(r)
  PROVE  TypeOK'
<1> DEFINE j == rec[r].job
<1>0. rec[r].pc \notin {"idle", "prepare", "next"}
  BY Zenon DEF BeginValidation, AbandonCall, EndValidation, Waiting
<1>1. /\ j \in Jobs /\ rows[j] \in Row /\ Renewed(r) \in Row /\ rec[r].row \in Row
      /\ Rest /\ "verifying" \in States /\ "verified" \in States
      /\ "validate" \in RecPcs
  BY <1>0, AtWork, TypeParts, Zenon DEF States, RecPcs
<1>2. \A row \in Row : /\ Transitioned(row, "verifying") \in Row
                       /\ FailRow(row) \in Row
                       /\ ClearClaim(row) \in Row
                       /\ Transitioned(row, "verified") \in Row
  BY <1>1, RowOps, 0 \in Int, Zenon
<1>3. \A row \in Row : [Transitioned(row, "verified") EXCEPT !.owner = NoOwner,
                                                            !.lease = "none"] \in Row
  <2> SUFFICES ASSUME NEW row \in Row
               PROVE  [Transitioned(row, "verified") EXCEPT !.owner = NoOwner,
                                                  !.lease = "none"] \in Row
    OBVIOUS
  <2>1. NoOwner \in Int /\ "none" \in Leases
    BY DEF NoOwner, Leases
  <2> QED
    BY <1>2, <2>1, Zenon DEF Row
<1>4. pub' = pub /\ Rest'
  BY <1>1, Zenon DEF BeginValidation, AbandonCall, EndValidation, Rest
<1>5. CASE AbandonCall(r)
  BY <1>1, <1>4, <1>5, WorkType, Zenon DEF AbandonCall
<1>6. CASE BeginValidation(r)
  <2> DEFINE row == rec[r].row
             next == IF row.state = "credential_issued"
                     THEN Transitioned(row, "verifying") ELSE row
             now == IF row.state = "credential_issued" THEN next ELSE rows[j]
  <2>1. next \in Row
    BY <1>1, <1>2, Zenon
  <2>2. now \in Row
    BY <1>1, <2>1, Zenon
  <2>3. FailRow(now) \in Row
    <3> HIDE DEF now
    <3> QED
      BY <1>2, <2>2, Zenon
  <2> HIDE DEF next
  <2>4. \/ rows' = rows /\ Leave(r)
        \/ Write(j, now) /\ Enter(r, "validate", next)
        \/ (Write(j, FailRow(now)) \/ Write(j, now)) /\ Leave(r)
    BY <1>6, Zenon DEF BeginValidation, next
  <2> HIDE DEF now, j
  <2> QED
    BY <1>1, <1>4, <2>1, <2>2, <2>3, <2>4, WorkType, Zenon DEF j
<1>7. CASE EndValidation(r)
  <2> DEFINE fresh == Renewed(r)
             verified == [Transitioned(fresh, "verified") EXCEPT !.owner = NoOwner,
                                                                 !.lease = "none"]
  <2>1. /\ FailRow(fresh) \in Row /\ ClearClaim(fresh) \in Row
        /\ verified \in Row /\ fresh \in Row
    BY <1>1, <1>2, <1>3, Zenon
  <2> HIDE DEF fresh, verified
  <2>2. /\ \/ Write(j, FailRow(fresh)) \/ Write(j, ClearClaim(fresh))
           \/ Write(j, verified) \/ Write(j, fresh)
        /\ Leave(r)
    BY <1>7, Zenon DEF EndValidation, fresh, verified
  <2> QED
    BY <1>1, <1>4, <2>1, <2>2, WorkType, Zenon
<1> QED
  BY <1>5, <1>6, <1>7

\* Renewal, activation, commit and compensation keep the types.
LEMMA ActivationType ==
  ASSUME TypeOK, NEW r \in Recs,
         \/ RenewLease(r) \/ BeginActivation(r) \/ EndActivation(r) \/ Commit(r)
         \/ BeginCompensation(r) \/ EndCompensation(r)
  PROVE  TypeOK'
<1> DEFINE j == rec[r].job
           fresh == Renewed(r)
<1>0. rec[r].pc \notin {"idle", "prepare", "next"}
  BY Zenon DEF RenewLease, BeginActivation, EndActivation, Commit,
    BeginCompensation, EndCompensation, Waiting
<1>1. /\ j \in Jobs /\ rows[j] \in Row /\ fresh \in Row /\ rec[r].row \in Row
      /\ Rest /\ "activated" \in States
      /\ "activate" \in RecPcs /\ "commit" \in RecPcs /\ "compensate" \in RecPcs
      /\ "revoke" \in RecPcs
      /\ rows \in [Jobs -> Row] /\ pub \in [Jobs -> PubRecord]
      /\ rec \in [Recs -> RecRecord] /\ JobsOK(rec)
  BY <1>0, AtWork, TypeParts, Zenon DEF States, RecPcs
<1>2. \A row \in Row : /\ Transitioned(row, "activated") \in Row
                       /\ FailRow(row) \in Row
                       /\ ClearClaim(row) \in Row
                       /\ ConsumeRow(row) \in Row
                       /\ [FailRow(row) EXCEPT !.ref = NoRef] \in Row
  <2>1. \A row \in Row : [row EXCEPT !.ref = NoRef] \in Row
    BY Zenon DEF Row
  <2> QED
    BY <1>1, <2>1, RowOps, 0 \in Int, Zenon
<1>3. \A kind \in {"activate", "revoke"} :
        wire \cup {[kind |-> kind, job |-> j, rec |-> r]} \subseteq Requests
  <2>1. ASSUME NEW kind \in {"activate", "revoke"}
        PROVE  [kind |-> kind, job |-> j, rec |-> r] \in Requests
    BY <1>1, Zenon DEF Requests
  <2> QED
    BY <1>1, <2>1, Zenon DEF Rest
<1> HIDE DEF j, fresh
<1>4. CASE RenewLease(r)
  <2>1. rows' \in [Jobs -> Row]
    BY <1>1, <1>4, WriteType, Zenon DEF RenewLease, j, fresh
  <2>2. rec' \in [Recs -> RecRecord]
    BY <1>1, <1>4, Zenon DEF RenewLease, RecRecord, fresh
  <2>3. \A q \in Recs : rec'[q].job = rec[q].job /\ rec'[q].pc = rec[q].pc
    BY <1>1, <1>4, Zenon DEF RenewLease, RecRecord
  <2>4. JobsOK(rec') /\ pub' = pub /\ Rest'
    BY <1>1, <1>4, <2>3, Zenon DEF RenewLease, JobsOK, Rest
  <2> QED
    BY <1>1, <2>1, <2>2, <2>4, TypeNext, Zenon
<1>5. CASE BeginActivation(r)
  <2>1. /\ pub' = pub
        /\ \/ Enter(r, "activate", rec[r].row) /\ rows' = rows
           \/ Enter(r, "commit", rec[r].row) /\ rows' = rows
           \/ (Write(j, FailRow(rows[j])) \/ Write(j, rows[j])) /\ Leave(r)
    BY <1>5, Zenon DEF BeginActivation, j
  <2>2. wire' \subseteq Requests
    BY <1>1, <1>3, <1>5, Zenon DEF BeginActivation, Send, Rest, j
  <2>3. Rest'
    BY <1>1, <1>5, <2>2, Zenon DEF BeginActivation, Rest
  <2> QED
    BY <1>1, <1>2, <2>1, <2>3, WorkType, Zenon DEF j
<1>6. CASE EndActivation(r)
  <2>1. \/ Write(j, FailRow(fresh)) /\ Leave(r)
        \/ /\ Write(j, Transitioned(fresh, "activated"))
           /\ Enter(r, "commit", Transitioned(fresh, "activated"))
    BY <1>6, Zenon DEF EndActivation, j, fresh
  <2>2. Rest' /\ pub' = pub
    BY <1>1, <1>6, Zenon DEF EndActivation, Rest
  <2> QED
    BY <1>1, <1>2, <2>1, <2>2, WorkType, Zenon DEF j
<1>7. CASE Commit(r)
  <2>1. \/ rows' = rows /\ Leave(r)
        \/ Write(j, ConsumeRow(fresh)) /\ Leave(r)
        \/ Write(j, fresh) /\ Enter(r, "compensate", fresh)
    BY <1>7, Zenon DEF Commit, j, fresh
  <2>2. fresh.ref \in Methods \cup {NoRef}
    BY <1>1, Zenon DEF Row
  <2>3. reg' \in [Jobs -> Methods \cup {NoRef}]
    BY <1>1, <1>7, <2>2, Zenon DEF Commit, Rest, j, fresh
  <2>4. Rest' /\ pub' = pub
    BY <1>1, <1>7, <2>3, Zenon DEF Commit, Rest
  <2> QED
    BY <1>1, <1>2, <2>1, <2>4, WorkType, Zenon DEF j
<1>8. CASE BeginCompensation(r)
  <2>1. /\ pub' = pub
        /\ \/ Enter(r, "revoke", rec[r].row) /\ rows' = rows
           \/ (rows' = rows \/ Write(j, ClearClaim(rows[j]))) /\ Leave(r)
    BY <1>8, Zenon DEF BeginCompensation, Residual, j
  <2>2. wire' \subseteq Requests
    BY <1>1, <1>3, <1>8, Zenon DEF BeginCompensation, Send, Rest, j
  <2>3. Rest'
    BY <1>1, <1>8, <2>2, Zenon DEF BeginCompensation, Rest
  <2> QED
    BY <1>1, <1>2, <2>1, <2>3, WorkType, Zenon DEF j
<1>9. CASE EndCompensation(r)
  <2>1. /\ Write(j, [FailRow(fresh) EXCEPT !.ref = NoRef]) \/ Write(j, ClearClaim(fresh))
        /\ Leave(r)
    BY <1>9, Zenon DEF EndCompensation, j, fresh
  <2>2. files' \subseteq Jobs \X Methods
    BY <1>1, <1>9, Zenon DEF EndCompensation, Rest
  <2>3. Rest' /\ pub' = pub
    BY <1>1, <1>9, <2>2, Zenon DEF EndCompensation, Rest
  <2> QED
    BY <1>1, <1>2, <2>1, <2>3, WorkType, Zenon DEF j
<1> QED
  BY <1>4, <1>5, <1>6, <1>7, <1>8, <1>9

\* The Agent, the network and time keep the types.
LEMMA EnvironmentType ==
  ASSUME TypeOK,
         \/ \E m \in wire : AgentHandles(m) \/ Lose(m)
         \/ \E j \in Jobs : DeadlinePasses(j) \/ PendingLapses(j) \/ LeaseLapses(j)
  PROVE  TypeOK'
<1>0. /\ rows \in [Jobs -> Row] /\ pub \in [Jobs -> PubRecord]
      /\ rec \in [Recs -> RecRecord] /\ JobsOK(rec) /\ Rest
      /\ wire \subseteq Requests
  BY TypeParts, Zenon DEF Rest
<1>1. ASSUME NEW m \in wire, AgentHandles(m) PROVE TypeOK'
  <2>1. m.job \in Jobs /\ m.rec \in Recs
    BY <1>0, Zenon DEF Requests
  <2>2. remote' \in [Jobs -> RemoteStates]
    BY <1>0, <1>1, <2>1, Zenon DEF AgentHandles, Rest, RemoteStates
  <2>3. \/ rec' = rec
        \/ \E v \in Replies : rec' = [rec EXCEPT ![m.rec].reply = v]
    BY <1>1, Zenon DEF AgentHandles, Replies
  <2>a. ASSUME NEW v \in Replies, rec' = [rec EXCEPT ![m.rec].reply = v]
        PROVE  /\ rec' \in [Recs -> RecRecord]
               /\ \A q \in Recs : rec'[q].job = rec[q].job /\ rec'[q].pc = rec[q].pc
    BY <1>0, <2>1, <2>a, ZenonT(30) DEF RecRecord
  <2>4. rec' \in [Recs -> RecRecord]
    BY <1>0, <2>3, <2>a, Zenon
  <2>5. \A q \in Recs : rec'[q].job = rec[q].job /\ rec'[q].pc = rec[q].pc
    BY <1>0, <2>3, <2>a, Zenon
  <2>6. JobsOK(rec') /\ Rest' /\ rows' = rows /\ pub' = pub
    BY <1>0, <1>1, <2>2, <2>5, Zenon DEF AgentHandles, JobsOK, Rest
  <2> QED
    BY <1>0, <2>4, <2>6, TypeNext, Zenon
<1>2. ASSUME NEW m \in wire, Lose(m) PROVE TypeOK'
  <2>1. Rest' /\ rows' = rows /\ pub' = pub /\ rec' = rec
    BY <1>0, <1>2, Zenon DEF Lose, Rest
  <2> QED
    BY <1>0, <2>1, TypeNext, Zenon
<1>3. ASSUME NEW j \in Jobs, DeadlinePasses(j) PROVE TypeOK'
  <2>1. [rows EXCEPT ![j].lease = "lapsed"] \in [Jobs -> Row]
    BY FieldType, StateNames, Zenon
  <2>2. rows' \in [Jobs -> Row]
    BY <1>0, <1>3, <2>1, Zenon DEF DeadlinePasses
  <2>3. Rest' /\ pub' = pub /\ rec' = rec
    BY <1>0, <1>3, Zenon DEF DeadlinePasses, Rest
  <2> QED
    BY <1>0, <2>2, <2>3, TypeNext, Zenon
<1>4. ASSUME NEW j \in Jobs, PendingLapses(j) PROVE TypeOK'
  <2>1. Rest' /\ rows' = rows /\ pub' = pub /\ rec' = rec
    BY <1>0, <1>4, Zenon DEF PendingLapses, Rest, RemoteStates
  <2> QED
    BY <1>0, <2>1, TypeNext, Zenon
<1>5. ASSUME NEW j \in Jobs, LeaseLapses(j) PROVE TypeOK'
  <2>1. rows' \in [Jobs -> Row]
    BY <1>5, FieldType, StateNames, Zenon DEF LeaseLapses
  <2>2. Rest' /\ pub' = pub /\ rec' = rec
    BY <1>0, <1>5, Zenon DEF LeaseLapses, Rest
  <2> QED
    BY <1>0, <2>1, <2>2, TypeNext, Zenon
<1> QED
  BY <1>1, <1>2, <1>3, <1>4, <1>5

\* The end of recover() keeps the types.
LEMMA CleanupType ==
  ASSUME TypeOK, NEW r \in Recs, RecoverCleanup(r)
  PROVE  TypeOK'
<1>0. /\ rows \in [Jobs -> Row] /\ pub \in [Jobs -> PubRecord]
      /\ rec \in [Recs -> RecRecord] /\ JobsOK(rec) /\ Rest
  BY TypeParts
<1>1. IdleRec \in RecRecord /\ IdleRec.pc = "idle"
  BY NoRowType, Zenon DEF IdleRec, RecRecord, RecPcs, Replies
<1>2. PICK D \in SUBSET Uncleaned :
        /\ files' = files \ {<<j, rows[j].ref>> : j \in D}
        /\ rows' = [j \in Jobs |-> IF j \in D THEN FinishCleanupRow(rows[j])
                                              ELSE rows[j]]
  BY Zenon DEF RecoverCleanup
<1>3. rows' \in [Jobs -> Row]
  <2>1. \A j \in Jobs : rows[j] \in Row /\ FinishCleanupRow(rows[j]) \in Row
    BY <1>0, RowOps, 0 \in Int, Zenon
  <2> QED
    BY <1>2, <2>1, Zenon
<1>4. /\ rec' \in [Recs -> RecRecord]
      /\ \A q \in Recs \ {r} : rec'[q] = rec[q]
      /\ rec'[r] = IdleRec
  BY <1>0, <1>1, Zenon DEF RecoverCleanup
<1>5. JobsOK(rec')
  BY <1>0, <1>1, <1>4, Zenon DEF JobsOK
<1>6. files' \subseteq Jobs \X Methods
  BY <1>0, <1>2, Zenon DEF Rest
<1>7. Rest' /\ pub' = pub
  BY <1>0, <1>6, Zenon DEF RecoverCleanup, Rest
<1> QED
  BY <1>0, <1>3, <1>4, <1>5, <1>7, TypeNext, Zenon

\* A crash keeps the types of all but the rows and the files.
LEMMA DieType ==
  ASSUME TypeOK, Die, rows' \in [Jobs -> Row], files' \subseteq Jobs \X Methods
  PROVE  TypeOK'
<1>0. /\ pub \in [Jobs -> PubRecord] /\ rec \in [Recs -> RecRecord] /\ Rest
  BY TypeParts
<1>1. IdleRec \in RecRecord /\ IdleRec.pc = "idle" /\ IdlePub \in PubRecord
  BY NoRowType, Zenon DEF IdleRec, RecRecord, RecPcs, Replies, PubRecord
<1>2. pub' \in [Jobs -> PubRecord]
  BY <1>0, <1>1, Zenon DEF Die
<1>3. rec' \in [Recs -> RecRecord] /\ JobsOK(rec')
  BY <1>1, Zenon DEF Die, JobsOK
<1>4. Rest'
  BY <1>0, Zenon DEF Die, Rest
<1> QED
  BY <1>2, <1>3, <1>4, TypeNext, Zenon

\* The crashes keep the types.
LEMMA CrashType ==
  ASSUME TypeOK,
         \/ Crash
         \/ \E j \in Jobs : CrashInCreate(j) \/ CrashInPublish(j) \/ CrashInCancel(j)
         \/ \E r \in Recs : CrashInCompensation(r) \/ CrashInCleanup(r)
  PROVE  TypeOK'
<1>0. rows \in [Jobs -> Row] /\ files \subseteq Jobs \X Methods
  BY TypeParts, Zenon DEF Rest
<1>1. CASE Crash
  BY <1>0, <1>1, DieType, Zenon DEF Crash
<1>2. ASSUME NEW j \in Jobs, CrashInCreate(j) PROVE TypeOK'
  <2>1. [NoRow EXCEPT !.state = "pending"] \in Row
    BY NoRowType, Zenon DEF Row, States
  <2>2. rows' \in [Jobs -> Row]
    BY <1>2, <2>1, BulkType, Zenon DEF CrashInCreate
  <2> QED
    BY <1>0, <1>2, <2>2, DieType, Zenon DEF CrashInCreate
<1>3. ASSUME NEW j \in Jobs, CrashInPublish(j) PROVE TypeOK'
  <2>1. [rows EXCEPT ![j] = IssuedRow(j)] \in [Jobs -> Row]
    BY IssuedType, FieldType, Zenon
  <2>2. rows' \in [Jobs -> Row]
    BY <1>0, <1>3, <2>1, Zenon DEF CrashInPublish
  <2>3. <<j, rows[j].method>> \in Jobs \X Methods
    BY <1>0, Zenon DEF Row
  <2>4. files' \subseteq Jobs \X Methods
    BY <1>0, <1>3, <2>3, Zenon DEF CrashInPublish
  <2> QED
    BY <1>3, <2>2, <2>4, DieType, Zenon DEF CrashInPublish
<1>4. ASSUME NEW j \in Jobs, CrashInCancel(j) PROVE TypeOK'
  <2>1. CancelledRow(rows[j]) \in Row
    BY <1>0, RowOps, 0 \in Int, Zenon
  <2>2. rows' \in [Jobs -> Row]
    BY <1>0, <1>4, <2>1, Zenon DEF CrashInCancel
  <2>3. files' \subseteq Jobs \X Methods
    BY <1>0, <1>4, Zenon DEF CrashInCancel
  <2> QED
    BY <1>4, <2>2, <2>3, DieType, Zenon DEF CrashInCancel
<1>5. ASSUME NEW r \in Recs, CrashInCompensation(r) PROVE TypeOK'
  <2>1. rec[r].job \in Jobs /\ Renewed(r) \in Row
    BY <1>5, AtWork, Zenon DEF CrashInCompensation
  <2>2. [rows EXCEPT ![rec[r].job] = Renewed(r)] \in [Jobs -> Row]
    BY <2>1, FieldType, Zenon
  <2>3. rows' \in [Jobs -> Row]
    BY <1>5, <2>2, Zenon DEF CrashInCompensation
  <2>4. files' \subseteq Jobs \X Methods
    BY <1>0, <1>5, Zenon DEF CrashInCompensation
  <2> QED
    BY <1>5, <2>3, <2>4, DieType, Zenon DEF CrashInCompensation
<1>6. ASSUME NEW r \in Recs, CrashInCleanup(r) PROVE TypeOK'
  <2>1. rows' \in [Jobs -> Row] /\ files' \subseteq Jobs \X Methods
    BY <1>0, <1>6, Zenon DEF CrashInCleanup
  <2> QED
    BY <1>6, <2>1, DieType, Zenon DEF CrashInCleanup
<1> QED
  BY <1>1, <1>2, <1>3, <1>4, <1>5, <1>6

\* A restart and the orphan sweep keep the types.
LEMMA RestartType ==
  ASSUME TypeOK, SweepOrphans \/ \E r \in Recs : Restart(r)
  PROVE  TypeOK'
<1>0. /\ rows \in [Jobs -> Row] /\ pub \in [Jobs -> PubRecord]
      /\ rec \in [Recs -> RecRecord] /\ JobsOK(rec) /\ Rest
  BY TypeParts
<1>1. CASE SweepOrphans
  <2>1. Rest' /\ rows' = rows /\ pub' = pub /\ rec' = rec
    BY <1>0, <1>1, Zenon DEF SweepOrphans, Rest
  <2> QED
    BY <1>0, <2>1, TypeNext, Zenon
<1>2. ASSUME NEW r \in Recs, Restart(r) PROVE TypeOK'
  <2>1. ASSUME NEW j \in Jobs, NEW healthy \in BOOLEAN
        PROVE  StartupRow(j, healthy) \in Row
    <3>1. \A row \in Row : /\ [row EXCEPT !.state = "awaiting_cli", !.method = "ssh_cli"] \in Row
                           /\ [row EXCEPT !.state = "running"] \in Row
      BY Zenon DEF Row, States, Methods
    <3>2. rows[j] \in Row /\ ClearClaim(rows[j]) \in Row /\ RawExpireRow(rows[j]) \in Row
      BY <1>0, RowOps, 0 \in Int, Zenon
    <3> QED
      BY <3>1, <3>2, Zenon DEF StartupRow
  <2>2. PICK healthy \in BOOLEAN :
       /\ rows' = [j \in Jobs |-> StartupRow(j, healthy)]
       /\ pub' = [j \in Jobs |->
                    IF rows[j].state = "pending" /\ StartupRow(j, healthy).state = "running"
                    THEN [pc |-> "scheduled", row |-> NoRow] ELSE pub[j]]
    BY <1>2, Zenon DEF Restart
  <2>3. rows' \in [Jobs -> Row]
    BY <2>1, <2>2, Zenon
  <2>4. [pc |-> "scheduled", row |-> NoRow] \in PubRecord
    BY NoRowType, Zenon DEF PubRecord, PubPcs
  <2>5. pub' \in [Jobs -> PubRecord]
    BY <1>0, <2>2, <2>4, Zenon
  <2>a. rec' = [rec EXCEPT ![r].pc = "prepare"]
    BY <1>2, Zenon DEF Restart
  <2>6. rec' \in [Recs -> RecRecord]
    BY <1>0, <2>a, Zenon DEF RecRecord, RecPcs
  <2>7. rec'[r].pc = "prepare" /\ \A q \in Recs \ {r} : rec'[q] = rec[q]
    BY <1>0, <2>a, Zenon DEF RecRecord
  <2>8. JobsOK(rec')
    BY <1>0, <2>7, Zenon DEF JobsOK
  <2>9. epoch + 1 \in Nat \ {0}
    BY <1>0 DEF Rest
  <2>10. Rest'
    BY <1>0, <1>2, <2>9, Zenon DEF Restart, Rest
  <2> QED
    BY <2>3, <2>5, <2>6, <2>8, <2>10, TypeNext
<1> QED
  BY <1>1, <1>2

\* Every variable keeps its type in every step of the saga.
THEOREM TypeCorrect == Spec => []TypeOK
<1>1. Init => TypeOK
  <2> SUFFICES ASSUME Init PROVE TypeOK
    OBVIOUS
  <2>1. IdleRec \in RecRecord /\ IdleRec.pc = "idle" /\ 1 \in Nat \ {0}
    BY NoRowType DEF IdleRec, RecRecord, RecPcs, Replies
  <2> QED
    BY <2>1, NoRowType, Zenon DEF Init, TypeOK, RecRecord, RemoteStates
<1>2. TypeOK /\ [Next]_vars => TypeOK'
  <2> SUFFICES ASSUME TypeOK, [Next]_vars PROVE TypeOK'
    OBVIOUS
  <2>1. CASE UNCHANGED vars
    BY <2>1, Zenon DEF vars, TypeOK
  <2>2. ASSUME NEW j \in Jobs, JobStep(j) PROVE TypeOK'
    BY <2>2, ApiType, PublisherType, EnvironmentType, CrashType, Zenon DEF JobStep
  <2>3. ASSUME NEW r \in Recs, RecStep(r) PROVE TypeOK'
    BY <2>3, StartType, ClaimType, ValidationType, ActivationType, CleanupType,
      CrashType, RestartType, Zenon DEF RecStep
  <2> QED
    BY <2>1, <2>2, <2>3, EnvironmentType, CrashType, RestartType, Zenon DEF Next
<1> QED
  BY <1>1, <1>2, PTL DEF Spec
=============================================================================
