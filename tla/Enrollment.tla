----------------------------- MODULE Enrollment -----------------------------
(***************************************************************************)
(* Adding an Agent to the Manager: the enrollment saga of                  *)
(* EnrollmentOrchestrator over the durable journal, the credential store   *)
(* (token files), the Agent registry and the remote Agent's own credential *)
(* row.                                                                    *)
(*                                                                         *)
(* Actors.                                                                 *)
(*   publishers  one per job: the background ssh_auto task, or the socket  *)
(*               connection of the interactive CLI                         *)
(*   recoverers  the recover() coroutines: one at startup, one inside each *)
(*               consume(); all those of one Manager incarnation share its *)
(*               recovery_owner                                            *)
(*   the API     create, get, cancel, consume                              *)
(*   the Agent   handles activate and revoke requests, late or never       *)
(*   time        deadlines pass and leases lapse                           *)
(*                                                                         *)
(* A step is one journal transaction, or one section that holds the        *)
(* credential store's lifecycle lease; a crash may fall between any two    *)
(* steps and, inside a lease section, between its file and its journal     *)
(* write.  asyncio switches coroutines only at awaits, so the model allows *)
(* more interleavings than the event loop and includes the GET handler,    *)
(* which runs in a worker thread.                                          *)
(***************************************************************************)
EXTENDS EnrollmentJournal, FiniteSets

CONSTANTS
  Jobs,        \* enrollment IDs
  Recs,        \* recover() coroutines that may run at once
  Target,      \* [Jobs -> ...] the endpoint and identity a job enrolls
  Stalls,      \* whether the event loop may stall for longer than a lease
  MaxActive,   \* agent_enrollment max_active
  MaxRev,      \* bound: no claim or mid-call renewal at this revision
  MaxEpoch,    \* bound: Manager incarnations
  NoJob        \* the job of a coroutine that works on none

ASSUME EnrollmentAssumption ==
  /\ Stalls \in BOOLEAN
  /\ MaxActive \in Nat \ {0}
  /\ MaxRev \in Nat
  /\ MaxEpoch \in Nat \ {0}
  /\ NoJob \notin Jobs

VARIABLES
  rows,    \* [Jobs -> Row]: the journal
  past,    \* [Jobs -> BOOLEAN]: now >= expires_at
  pub,     \* [Jobs -> [pc, row]]: the publisher and the row it last read
  rec,     \* [Recs -> [pc, todo, job, row, reply]]
  files,   \* token files, named by the job and the publication
  reg,     \* [Jobs -> ref]: registry rows (agent_id = enrollment_id)
  remote,  \* [Jobs -> ...]: the Agent's manager_credentials row
  wire,    \* requests sent to Agents and not handled yet
  epoch,   \* the current Manager incarnation
  phase    \* "down", "boot" (startup recovery running) or "up"

vars == <<rows, past, pub, rec, files, reg, remote, wire, epoch, phase>>

-----------------------------------------------------------------------------
RemoteStates == {"none", "pending", "active", "revoked", "lapsed"}
PubPcs == {"none", "scheduled", "issuing", "issued", "validating"}
RecPcs == {"idle", "prepare", "next", "validation", "validate", "activation",
           "activate", "commit", "compensate", "revoke"}
Replies == {"none", "ok", "rejected"}
Requests == [kind: {"activate", "revoke"}, job: Jobs, rec: Recs]

TypeOK ==
  /\ rows \in [Jobs -> Row]
  /\ past \in [Jobs -> BOOLEAN]
  /\ pub \in [Jobs -> [pc: PubPcs, row: Row]]
  /\ rec \in [Recs -> [pc: RecPcs, todo: SUBSET Jobs, job: Jobs \cup {NoJob},
                       row: Row, reply: Replies]]
  /\ \A r \in Recs : rec[r].job = NoJob => rec[r].pc \in {"idle", "prepare", "next"}
  /\ files \subseteq Jobs \X Methods
  /\ reg \in [Jobs -> Methods \cup {NoRef}]
  /\ remote \in [Jobs -> RemoteStates]
  /\ wire \subseteq Requests
  /\ epoch \in Nat \ {0}
  /\ phase \in {"down", "boot", "up"}

IdlePub == [pc |-> "none", row |-> NoRow]
IdleRec ==
  [pc |-> "idle", todo |-> {}, job |-> NoJob, row |-> NoRow, reply |-> "none"]

Init ==
  /\ rows = [j \in Jobs |-> NoRow]
  /\ past = [j \in Jobs |-> FALSE]
  /\ pub = [j \in Jobs |-> IdlePub]
  /\ rec = [r \in Recs |-> IdleRec]
  /\ files = {}
  /\ reg = [j \in Jobs |-> NoRef]
  /\ remote = [j \in Jobs |-> "none"]
  /\ wire = {}
  /\ epoch = 1
  /\ phase = "up"

-----------------------------------------------------------------------------
(* Journal, store and registry vocabulary.                                 *)

Registered(j) == reg[j] # NoRef

\* The token file a row references is readable.
HasToken(j, row) == <<j, row.ref>> \in files

\* registry.find_duplicate, and the UNIQUE columns of table agents
Duplicate(j) == \E k \in Jobs : Registered(k) /\ Target[k] = Target[j]

\* The rows as the bulk expiry of create_with_capacity would leave them; the
\* statement fails as a whole if one of them breaks a CHECK of the table.
BulkExpired == [j \in Jobs |-> IF Due(rows[j], past[j]) THEN RawExpireRow(rows[j])
                                                       ELSE rows[j]]
BulkExpiryAccepted == \A j \in Jobs : ValidRow(BulkExpired[j])

\* Faulty variant: one job too many.
CreateAcceptedAtLimit ==
  /\ BulkExpiryAccepted
  /\ Cardinality({j \in Jobs : Live(BulkExpired[j])}) <= MaxActive

CreateAccepted ==
  /\ BulkExpiryAccepted
  /\ Cardinality({j \in Jobs : Live(BulkExpired[j])}) < MaxActive

Send(kind, r) == wire' = wire \cup {[kind |-> kind, job |-> rec[r].job, rec |-> r]}

-----------------------------------------------------------------------------
(* The API.                                                                *)

\* create_auto: the job is inserted (capacity checked), then dispatched, or
\* left to the interactive CLI when the SSH adapter is not healthy.
CreateAuto(j) ==
  /\ phase = "up" /\ rows[j].state = Absent /\ CreateAccepted
  /\ \/ /\ rows' = [BulkExpired EXCEPT ![j] = [NoRow EXCEPT !.state = "running"]]
        /\ pub' = [pub EXCEPT ![j] = [pc |-> "scheduled", row |-> NoRow]]
     \/ /\ rows' = [BulkExpired EXCEPT
                      ![j] = [NoRow EXCEPT !.state = "awaiting_cli",
                                           !.method = "ssh_cli"]]
        /\ pub' = pub
  /\ UNCHANGED <<past, rec, files, reg, remote, wire, epoch, phase>>

\* GET /agent-enrollments/{id}: jobs.get expires a job past its deadline.
GetExpires(j) ==
  /\ phase = "up" /\ Due(rows[j], past[j])
  /\ rows' = [rows EXCEPT ![j] = ExpireRow(@)]
  /\ UNCHANGED <<past, pub, rec, files, reg, remote, wire, epoch, phase>>

\* Faulty variant: the CLI claim survives the cancellation.
CancelledRowKeepsCli(row) == [ClearClaim(row) EXCEPT !.state = "cancelled"]

\* The row jobs.cancel writes.
CancelledRow(row) ==
  [ClearClaim(row) EXCEPT !.state = "cancelled", !.cli = FALSE]

\* cancel: the background task is cancelled, then under the lifecycle lease
\* the row becomes cancelled and its token file and reference are removed
\* (the reference stays when the file cannot be deleted).
Cancel(j) ==
  /\ phase = "up" /\ rows[j].state \in Expirable /\ ~past[j]
  /\ pub' = [pub EXCEPT ![j] = IF @.row.method = "ssh_cli" THEN @ ELSE IdlePub]
  /\ \/ /\ rows' = [rows EXCEPT ![j] = FinishCleanupRow(CancelledRow(@))]
        /\ files' = files \ {<<j, rows[j].ref>>}
     \/ /\ rows[j].ref # NoRef
        /\ rows' = [rows EXCEPT ![j] = CancelledRow(@)]
        /\ files' = files
  /\ UNCHANGED <<past, rec, reg, remote, wire, epoch, phase>>

\* consume: a verified job whose target is not registered yet is saved; the
\* request then runs recover() itself.
Consume(r, j) ==
  /\ phase = "up" /\ rec[r].pc = "idle"
  /\ rows[j].state = "verified" /\ ~past[j] /\ ~Duplicate(j)
  /\ rows' = [rows EXCEPT ![j] = [@ EXCEPT !.state = "activation_requested",
                                            !.save = TRUE]]
  /\ rec' = [rec EXCEPT ![r].pc = "prepare"]
  /\ UNCHANGED <<past, pub, files, reg, remote, wire, epoch, phase>>

-----------------------------------------------------------------------------
(* Publishers: the background task of ssh_auto and the CLI submission.     *)

\* _run_auto up to the SSH dispatch: recheck_auto_dispatch expires a job past
\* its deadline and otherwise requires it to be still running; a failing
\* audit intent ends the job.
DispatchAuto(j) ==
  /\ phase # "down" /\ pub[j].pc = "scheduled"
  /\ \/ /\ rows[j].state = "running" /\ ~past[j]
        /\ pub' = [pub EXCEPT ![j] = [pc |-> "issuing", row |-> rows[j]]]
        /\ rows' = rows
     \/ /\ ~(rows[j].state = "running" /\ ~past[j])
        /\ pub' = [pub EXCEPT ![j] = IdlePub]
        /\ rows' = IF rows[j].state = "running"
                   THEN [rows EXCEPT ![j] = RawExpireRow(@)] ELSE rows
     \/ /\ rows[j].state = "running"
        /\ pub' = [pub EXCEPT ![j] = IdlePub]
        /\ rows' = [rows EXCEPT ![j].state = "failed"]
  /\ UNCHANGED <<past, rec, files, reg, remote, wire, epoch, phase>>

\* begin_cli_submission: a new claim of a job awaiting the CLI, bound to a
\* fresh nonce until the job's deadline, or the resumption of that claim.
BeginCli(j) ==
  /\ phase = "up" /\ pub[j].pc = "none" /\ ~Due(rows[j], past[j])
  /\ \/ /\ rows[j].state = "awaiting_cli"
        /\ LET claimed == [rows[j] EXCEPT !.state = "running",
                             !.method = "ssh_cli", !.owner = CliOwner,
                             !.lease = "live", !.rev = @ + 1, !.cli = TRUE]
           IN  /\ rows' = [rows EXCEPT ![j] = claimed]
               /\ pub' = [pub EXCEPT ![j] = [pc |-> "issuing", row |-> claimed]]
     \/ /\ rows[j].state = "running" /\ rows[j].owner = CliOwner
        /\ rows[j].lease = "live"
        /\ rows' = rows
        /\ pub' = [pub EXCEPT ![j] = [pc |-> "issuing", row |-> rows[j]]]
  /\ UNCHANGED <<past, rec, files, reg, remote, wire, epoch, phase>>

\* The helper on the Agent host issues a pending credential; an enrollment ID
\* that already has one is refused.
AgentIssues(j) ==
  /\ pub[j].pc = "issuing" /\ remote[j] = "none"
  /\ remote' = [remote EXCEPT ![j] = "pending"]
  /\ pub' = [pub EXCEPT ![j].pc = "issued"]
  /\ UNCHANGED <<rows, past, rec, files, reg, wire, epoch, phase>>

\* _converge_auto: SSH failed, before or after the Agent issued.
IssueFails(j) ==
  /\ phase # "down" /\ pub[j].pc \in {"issuing", "issued"}
  /\ pub[j].row.method = "ssh_auto"
  /\ pub' = [pub EXCEPT ![j] = IdlePub]
  /\ IF rows[j].state = "running"
     THEN \E s \in {"awaiting_cli", "failed"} :
            rows' = [rows EXCEPT ![j].state = s]
     ELSE rows' = rows
  /\ UNCHANGED <<past, rec, files, reg, remote, wire, epoch, phase>>

\* The CLI goes away; its durable claim stays behind.
CliAbandons(j) ==
  /\ pub[j].pc \in {"issuing", "issued"} /\ pub[j].row.method = "ssh_cli"
  /\ pub' = [pub EXCEPT ![j] = IdlePub]
  /\ UNCHANGED <<rows, past, rec, files, reg, remote, wire, epoch, phase>>

\* _publish_managed_helper's check of the row it is about to overwrite; a CLI
\* result is fenced by its claim (recheck_cli_submission) and its lease.
MayPublish(j) ==
  /\ rows[j].state = "running" /\ rows[j].method = pub[j].row.method
  /\ pub[j].row.method = "ssh_cli" =>
       Holds(rows[j], CliOwner, pub[j].row.rev)

IssuedRow(j) ==
  LET row == IF pub[j].row.method = "ssh_cli" THEN ClearClaim(rows[j]) ELSE rows[j]
  IN  [row EXCEPT !.state = "credential_issued", !.ref = row.method]

\* The token is stored, the row moves to credential_issued and at once to
\* verifying; then the publisher waits for the Agent's validation.
PublishIssued(j) ==
  /\ phase # "down" /\ pub[j].pc = "issued"
  /\ pub[j].row.method = "ssh_cli" => phase = "up"
  /\ \/ /\ MayPublish(j)
        /\ LET verifying == [IssuedRow(j) EXCEPT !.state = "verifying"]
           IN  /\ rows' = [rows EXCEPT ![j] = verifying]
               /\ pub' = [pub EXCEPT ![j] = [pc |-> "validating", row |-> verifying]]
        /\ files' = files \cup {<<j, rows[j].method>>}
     \/ /\ ~MayPublish(j)
        /\ rows' = IF /\ pub[j].row.method = "ssh_cli" /\ past[j]
                      /\ rows[j].state = "running" /\ rows[j].owner = CliOwner
                      /\ rows[j].rev = pub[j].row.rev
                   THEN [rows EXCEPT ![j] = ExpireRow(@)] ELSE rows
        /\ pub' = [pub EXCEPT ![j] = IdlePub]
        /\ files' = files
  /\ UNCHANGED <<past, rec, reg, remote, wire, epoch, phase>>

\* Faulty variant: the snapshot is written without comparing the state.
PublishVerifiedBlind(j) ==
  /\ phase # "down" /\ pub[j].pc = "validating"
  /\ rows' = [rows EXCEPT ![j] = [pub[j].row EXCEPT !.state = "verified"]]
  /\ pub' = [pub EXCEPT ![j] = IdlePub]
  /\ UNCHANGED <<past, rec, files, reg, remote, wire, epoch, phase>>

\* The validation answers.  Success is written over the whole row from the
\* publisher's snapshot, compared on the state alone; any failure leaves the
\* job verifying, for recovery.
PublishVerified(j) ==
  /\ phase # "down" /\ pub[j].pc = "validating"
  /\ \/ /\ remote[j] \in {"pending", "active"} /\ rows[j].state = "verifying"
        /\ rows' = [rows EXCEPT ![j] = [pub[j].row EXCEPT !.state = "verified"]]
     \/ rows' = rows
  /\ pub' = [pub EXCEPT ![j] = IdlePub]
  /\ UNCHANGED <<past, rec, files, reg, remote, wire, epoch, phase>>

-----------------------------------------------------------------------------
(* Recoverers: recover() and what it calls.                                *)

Waiting == {"validate", "activate", "revoke"}

\* The row as a recoverer that still holds its claim re-reads it when it
\* renews (renew_recovery_claim returns the fresh row).
Fenced(r) == Holds(rows[rec[r].job], epoch, rec[r].row.rev)
Renewed(r) == RenewRow(rows[rec[r].job])

\* Leave the current job and go on with the next one.
Leave(r) ==
  rec' = [rec EXCEPT ![r] = [IdleRec EXCEPT !.pc = "next", !.todo = rec[r].todo]]
Enter(r, pc, row) ==
  rec' = [rec EXCEPT ![r] = [@ EXCEPT !.pc = pc, !.row = row, !.reply = "none"]]
Write(j, row) == rows' = [rows EXCEPT ![j] = row]

\* _transition_claimed: replace_if_state under the fence of the claim.  `row`
\* is the caller's snapshot; the write is refused when the move is not
\* allowed or the stored state differs.
MayTransition(r, row, to) ==
  /\ Allowed(row.state, to) /\ rows[rec[r].job].state = row.state
  /\ Holds(rows[rec[r].job], epoch, row.rev)
Transitioned(row, to) == [row EXCEPT !.state = to, !.rev = @ + 1]

\* prepare_recovery: expire everything due, list what can be claimed.
RecoverPrepare(r) ==
  /\ phase # "down" /\ rec[r].pc = "prepare"
  /\ LET swept == [j \in Jobs |-> IF Due(rows[j], past[j]) THEN ExpireRow(rows[j])
                                                          ELSE rows[j]]
     IN  /\ rows' = swept
         /\ rec' = [rec EXCEPT ![r].pc = "next",
                               ![r].todo = {j \in Jobs : Claimable(swept[j])}]
  /\ UNCHANGED <<past, pub, files, reg, remote, wire, epoch, phase>>

\* claim_recovery of one listed job, and the dispatch on its state.  At the
\* bound on revisions the claim counts as lost to another owner.
RecoverClaim(r, j) ==
  LET row == IF Due(rows[j], past[j]) THEN ExpireRow(rows[j]) ELSE rows[j]
      claimed == ClaimRow(row, epoch)
      pc == IF row.state \in {"activation_requested", "activated"}
            THEN "activation" ELSE "validation"
  IN  /\ phase # "down" /\ rec[r].pc = "next" /\ j \in rec[r].todo
      /\ IF Claimable(row) /\ row.rev < MaxRev
         THEN /\ Write(j, claimed)
              /\ rec' = [rec EXCEPT ![r] = [pc |-> pc, todo |-> @.todo \ {j},
                           job |-> j, row |-> claimed, reply |-> "none"]]
         ELSE /\ Write(j, row)
              /\ rec' = [rec EXCEPT ![r].todo = @ \ {j}]
      /\ UNCHANGED <<past, pub, files, reg, remote, wire, epoch, phase>>

\* _recover_validation up to the call: issued becomes verifying; if the pinned
\* target is no longer permitted or the token cannot be read, the claim fails
\* the job.
BeginValidation(r) ==
  LET j == rec[r].job
      row == rec[r].row
      go == row.state = "credential_issued" => MayTransition(r, row, "verifying")
      next == IF row.state = "credential_issued"
              THEN Transitioned(row, "verifying") ELSE row
      now == IF row.state = "credential_issued" THEN next ELSE rows[j]
  IN  /\ phase # "down" /\ rec[r].pc = "validation"
      /\ \/ /\ ~go /\ rows' = rows /\ Leave(r)
         \/ /\ go /\ HasToken(j, row) /\ Write(j, now) /\ Enter(r, "validate", next)
         \/ /\ go
            /\ Write(j, IF Holds(now, epoch, next.rev) THEN FailRow(now) ELSE now)
            /\ Leave(r)
      /\ UNCHANGED <<past, pub, files, reg, remote, wire, epoch, phase>>

\* The lease is renewed while a call is in flight.
RenewLease(r) ==
  /\ phase # "down" /\ rec[r].pc \in Waiting
  /\ Fenced(r) /\ rows[rec[r].job].rev < MaxRev
  /\ Write(rec[r].job, Renewed(r))
  /\ rec' = [rec EXCEPT ![r].row = Renewed(r)]
  /\ UNCHANGED <<past, pub, files, reg, remote, wire, epoch, phase>>

\* Faulty variant: a lost claim goes unnoticed once the call has ended.
AbandonCallInFlight(r) ==
  /\ phase # "down" /\ rec[r].pc \in Waiting /\ ~Fenced(r)
  /\ rec[r].reply = "none"
  /\ Leave(r)
  /\ UNCHANGED <<rows, past, pub, files, reg, remote, wire, epoch, phase>>

\* A renewal that finds the claim lost abandons the call, in flight or ended.
AbandonCall(r) ==
  /\ phase # "down" /\ rec[r].pc \in Waiting /\ ~Fenced(r)
  /\ Leave(r)
  /\ UNCHANGED <<rows, past, pub, files, reg, remote, wire, epoch, phase>>

\* The validation ended.  The claim is renewed first; then a failure fails
\* the job, a verified job is released, a verifying one becomes verified.
EndValidation(r) ==
  LET j == rec[r].job
      fresh == Renewed(r)
      verified == [Transitioned(fresh, "verified") EXCEPT !.owner = NoOwner,
                                                          !.lease = "none"]
  IN  /\ phase # "down" /\ rec[r].pc = "validate"
      /\ Fenced(r)
      /\ \/ Write(j, FailRow(fresh))
         \/ /\ remote[j] \in {"pending", "active"}
            /\ Write(j, CASE fresh.state = "verified" -> ClearClaim(fresh)
                          [] Allowed(fresh.state, "verified") -> verified
                          [] OTHER -> fresh)
      /\ Leave(r)
      /\ UNCHANGED <<past, pub, files, reg, remote, wire, epoch, phase>>

\* _recover_activation up to the call: activate is sent with the stored token;
\* an activated job goes straight to the commit.  A target no longer permitted
\* or a token that cannot be read fails the job.
BeginActivation(r) ==
  LET j == rec[r].job
      row == rec[r].row
  IN  /\ phase # "down" /\ rec[r].pc = "activation"
      /\ \/ /\ row.state = "activation_requested" /\ HasToken(j, row)
            /\ Enter(r, "activate", row) /\ Send("activate", r)
            /\ rows' = rows
         \/ /\ row.state = "activated"
            /\ Enter(r, "commit", row) /\ UNCHANGED <<rows, wire>>
         \/ /\ Write(j, IF Fenced(r) THEN FailRow(rows[j]) ELSE rows[j])
            /\ Leave(r) /\ wire' = wire
      /\ UNCHANGED <<past, pub, files, reg, remote, epoch, phase>>

\* Faulty variant: an unknown outcome counts as success.
EndActivationUnknown(r) ==
  LET activated == Transitioned(Renewed(r), "activated")
  IN  /\ phase # "down" /\ rec[r].pc = "activate" /\ Fenced(r)
      /\ Write(rec[r].job, activated) /\ Enter(r, "commit", activated)
      /\ UNCHANGED <<past, pub, files, reg, remote, wire, epoch, phase>>

\* activate answered, was refused, or timed out with its outcome unknown: the
\* job becomes activated, or failed.
EndActivation(r) ==
  LET j == rec[r].job
      fresh == Renewed(r)
      activated == Transitioned(fresh, "activated")
  IN  /\ phase # "down" /\ rec[r].pc = "activate" /\ Fenced(r)
      /\ \/ /\ rec[r].reply # "ok"
            /\ Write(j, FailRow(fresh)) /\ Leave(r)
         \/ /\ rec[r].reply = "ok" /\ Allowed(fresh.state, "activated")
            /\ Write(j, activated) /\ Enter(r, "commit", activated)
      /\ UNCHANGED <<past, pub, files, reg, remote, wire, epoch, phase>>

\* Renew, then commit_activated_enrollment: the agents row and the consumed
\* job in one transaction.  A target that is already registered refuses it.
Commit(r) ==
  LET j == rec[r].job
      fresh == Renewed(r)
  IN  /\ phase # "down" /\ rec[r].pc = "commit"
      /\ \/ /\ ~Fenced(r) /\ UNCHANGED <<rows, reg>> /\ Leave(r)
         \/ /\ Fenced(r) /\ fresh.state = "activated" /\ ~Duplicate(j)
            /\ reg' = [reg EXCEPT ![j] = fresh.ref]
            /\ Write(j, ConsumeRow(fresh)) /\ Leave(r)
         \/ /\ Fenced(r) /\ fresh.state = "activated" /\ Duplicate(j)
            /\ reg' = reg
            /\ Write(j, fresh) /\ Enter(r, "compensate", fresh)
      /\ UNCHANGED <<past, pub, files, remote, wire, epoch, phase>>

\* release_recovery_residual: give the claim back, keep the phase.
Residual(j, r) ==
  IF /\ rows[j].owner = epoch /\ rows[j].rev = rec[r].row.rev
     /\ rows[j].state \in {"activation_requested", "activated"}
  THEN Write(j, ClearClaim(rows[j])) ELSE rows' = rows

\* _compensate_activated_add_conflict: revoke the credential just activated.
BeginCompensation(r) ==
  LET j == rec[r].job IN
  /\ phase # "down" /\ rec[r].pc = "compensate"
  /\ \/ /\ HasToken(j, rec[r].row)
        /\ Enter(r, "revoke", rec[r].row) /\ Send("revoke", r)
        /\ rows' = rows
     \/ Residual(j, r) /\ Leave(r) /\ wire' = wire
  /\ UNCHANGED <<past, pub, files, reg, remote, epoch, phase>>

\* Faulty variant: the token file goes whatever the revoke answered.
EndCompensationEager(r) ==
  LET fresh == Renewed(r)
  IN  /\ phase # "down" /\ rec[r].pc = "revoke" /\ Fenced(r)
      /\ files' = files \ {<<rec[r].job, fresh.ref>>}
      /\ Write(rec[r].job, ClearClaim(fresh))
      /\ Leave(r)
      /\ UNCHANGED <<past, pub, reg, remote, wire, epoch, phase>>

\* revoke answered: the token file goes, then the job fails.  Otherwise (or
\* when the file cannot be deleted) the job keeps everything as a residual.
EndCompensation(r) ==
  LET j == rec[r].job
      fresh == Renewed(r)
      failed == [FailRow(fresh) EXCEPT !.ref = NoRef]
  IN  /\ phase # "down" /\ rec[r].pc = "revoke" /\ Fenced(r)
      /\ \/ /\ rec[r].reply = "ok" /\ Allowed(fresh.state, "failed")
            /\ files' = files \ {<<j, fresh.ref>>}
            /\ Write(j, failed)
         \/ /\ files' = files
            /\ Write(j, ClearClaim(fresh))
      /\ Leave(r)
      /\ UNCHANGED <<past, pub, reg, remote, wire, epoch, phase>>

\* A terminal job that still references a token.
Uncleaned == {j \in Jobs : rows[j].state \in Terminal \ {"consumed"}
                           /\ rows[j].ref # NoRef}

\* The end of recover(): _cleanup_terminal of every such job; a file that
\* cannot be deleted keeps its reference.
RecoverCleanup(r) ==
  /\ phase # "down" /\ rec[r].pc = "next" /\ rec[r].todo = {}
  /\ \E D \in SUBSET Uncleaned :
       /\ files' = files \ {<<j, rows[j].ref>> : j \in D}
       /\ rows' = [j \in Jobs |-> IF j \in D THEN FinishCleanupRow(rows[j])
                                             ELSE rows[j]]
  /\ rec' = [rec EXCEPT ![r] = IdleRec]
  /\ UNCHANGED <<past, pub, reg, remote, wire, epoch, phase>>

-----------------------------------------------------------------------------
(* The remote Agent, the network and time.                                 *)

\* The Agent handles a request: activate is idempotent and refused once the
\* pending credential lapsed or was revoked; revoke always succeeds.  The
\* answer reaches the recoverer only if it still waits for it.
AgentHandles(m) ==
  LET j == m.job
      ok == m.kind = "revoke" \/ remote[j] \in {"pending", "active"}
      waits == rec[m.rec].job = j /\ rec[m.rec].pc = m.kind
  IN  /\ m \in wire /\ wire' = wire \ {m}
      /\ remote' = [remote EXCEPT ![j] =
                      IF ~ok THEN @
                      ELSE IF m.kind = "activate" THEN "active" ELSE "revoked"]
      /\ rec' = IF waits
                THEN [rec EXCEPT ![m.rec].reply = IF ok THEN "ok" ELSE "rejected"]
                ELSE rec
      /\ UNCHANGED <<rows, past, pub, files, reg, epoch, phase>>

\* A request, or the answer to it, is lost.
Lose(m) ==
  /\ m \in wire /\ wire' = wire \ {m}
  /\ UNCHANGED <<rows, past, pub, rec, files, reg, remote, epoch, phase>>

\* now reaches expires_at: of the job, of the CLI claim that ends with it.
DeadlinePasses(j) ==
  /\ rows[j].state # Absent /\ ~past[j]
  /\ past' = [past EXCEPT ![j] = TRUE]
  /\ rows' = IF rows[j].owner = CliOwner THEN [rows EXCEPT ![j].lease = "lapsed"]
                                         ELSE rows
  /\ UNCHANGED <<pub, rec, files, reg, remote, wire, epoch, phase>>

\* The Agent's pending credential reaches its own expiry.
PendingLapses(j) ==
  /\ remote[j] = "pending" /\ past[j]
  /\ remote' = [remote EXCEPT ![j] = "lapsed"]
  /\ UNCHANGED <<rows, past, pub, rec, files, reg, wire, epoch, phase>>

\* now reaches recovery_lease_until of a recovery claim: nobody renews it any
\* more, or the process stalled.
LeaseLapses(j) ==
  /\ rows[j].owner >= 1 /\ rows[j].lease = "live"
  /\ Stalls \/ \A r \in Recs : rec[r].job = j => ~Fenced(r)
  /\ rows' = [rows EXCEPT ![j].lease = "lapsed"]
  /\ UNCHANGED <<past, pub, rec, files, reg, remote, wire, epoch, phase>>

-----------------------------------------------------------------------------
(* Crash and restart.                                                      *)

\* Coroutines die; an interactive CLI keeps its helper result and its nonce.
Die ==
  /\ phase # "down" /\ phase' = "down"
  /\ pub' = [j \in Jobs |-> IF /\ pub[j].pc \in {"issuing", "issued"}
                               /\ pub[j].row.method = "ssh_cli"
                            THEN pub[j] ELSE IdlePub]
  /\ rec' = [r \in Recs |-> IdleRec]
  /\ UNCHANGED <<past, reg, remote, wire, epoch>>

Crash == epoch < MaxEpoch /\ Die /\ UNCHANGED <<rows, files>>

\* Between the insertion of a job and its dispatch.
CrashInCreate(j) ==
  /\ epoch < MaxEpoch /\ phase = "up" /\ rows[j].state = Absent /\ CreateAccepted
  /\ rows' = [BulkExpired EXCEPT ![j] = [NoRow EXCEPT !.state = "pending"]]
  /\ files' = files /\ Die

\* After the token file is written, before or after the row references it.
CrashInPublish(j) ==
  /\ epoch < MaxEpoch /\ pub[j].pc = "issued" /\ MayPublish(j)
  /\ pub[j].row.method = "ssh_cli" => phase = "up"
  /\ files' = files \cup {<<j, rows[j].method>>}
  /\ rows' \in {rows, [rows EXCEPT ![j] = IssuedRow(j)]}
  /\ Die

\* After jobs.cancel, before or after the token file is deleted.
CrashInCancel(j) ==
  /\ epoch < MaxEpoch /\ phase = "up" /\ rows[j].state \in Expirable /\ ~past[j]
  /\ rows[j].ref # NoRef
  /\ rows' = [rows EXCEPT ![j] = CancelledRow(@)]
  /\ files' \in {files, files \ {<<j, rows[j].ref>>}}
  /\ Die

\* After the compensated token file is deleted, before the job fails.
CrashInCompensation(r) ==
  LET j == rec[r].job IN
  /\ epoch < MaxEpoch /\ rec[r].pc = "revoke" /\ rec[r].reply = "ok" /\ Fenced(r)
  /\ files' = files \ {<<j, rows[j].ref>>}
  /\ rows' = [rows EXCEPT ![j] = Renewed(r)]
  /\ Die

\* During the terminal cleanup: a file is gone, its row still names it.
CrashInCleanup(r) ==
  /\ epoch < MaxEpoch /\ rec[r].pc = "next" /\ rec[r].todo = {}
  /\ \E j \in Uncleaned : files' = files \ {<<j, rows[j].ref>>}
  /\ rows' = rows
  /\ Die

\* What _recover_auto_startup makes of one job: an undispatched one is
\* dispatched if the adapter is healthy, an interrupted one goes to the CLI.
StartupRow(j, healthy) ==
  LET row == rows[j] IN
  CASE row.state = "pending" /\ ~healthy ->
         [row EXCEPT !.state = "awaiting_cli", !.method = "ssh_cli"]
    [] row.state = "pending" /\ healthy ->
         IF past[j] THEN RawExpireRow(row) ELSE [row EXCEPT !.state = "running"]
    [] row.state = "running" /\ row.method = "ssh_auto" ->
         [ClearClaim(row) EXCEPT !.state = "awaiting_cli", !.method = "ssh_cli"]
    [] OTHER -> row

\* The lifespan's startup: the scan above, then recover().
Restart(r) ==
  /\ phase = "down"
  /\ phase' = "boot" /\ epoch' = epoch + 1
  /\ \E healthy \in BOOLEAN :
       /\ rows' = [j \in Jobs |-> StartupRow(j, healthy)]
       /\ pub' = [j \in Jobs |->
                    IF rows[j].state = "pending" /\ StartupRow(j, healthy).state = "running"
                    THEN [pc |-> "scheduled", row |-> NoRow] ELSE pub[j]]
  /\ rec' = [rec EXCEPT ![r].pc = "prepare"]
  /\ UNCHANGED <<past, files, reg, remote, wire>>

\* cleanup_orphans, after startup recovery: only files that the registry or
\* some journal row references survive; then requests are served.
SweepOrphans ==
  /\ phase = "boot" /\ \A r \in Recs : rec[r].pc = "idle"
  /\ files' = {f \in files : f[2] \in {rows[f[1]].ref, reg[f[1]]}}
  /\ phase' = "up"
  /\ UNCHANGED <<rows, past, pub, rec, reg, remote, wire, epoch>>

-----------------------------------------------------------------------------
JobStep(j) ==
  \/ CreateAuto(j) \/ GetExpires(j) \/ Cancel(j)
  \/ DispatchAuto(j) \/ BeginCli(j) \/ AgentIssues(j) \/ IssueFails(j)
  \/ CliAbandons(j) \/ PublishIssued(j) \/ PublishVerified(j)
  \/ DeadlinePasses(j) \/ PendingLapses(j) \/ LeaseLapses(j)
  \/ CrashInCreate(j) \/ CrashInPublish(j) \/ CrashInCancel(j)

RecStep(r) ==
  \/ RecoverPrepare(r) \/ (\E j \in Jobs : Consume(r, j) \/ RecoverClaim(r, j))
  \/ BeginValidation(r) \/ RenewLease(r) \/ AbandonCall(r) \/ EndValidation(r)
  \/ BeginActivation(r) \/ EndActivation(r) \/ Commit(r)
  \/ BeginCompensation(r) \/ EndCompensation(r) \/ RecoverCleanup(r)
  \/ CrashInCompensation(r) \/ CrashInCleanup(r) \/ Restart(r)

Next ==
  \/ \E j \in Jobs : JobStep(j)
  \/ \E r \in Recs : RecStep(r)
  \/ \E m \in wire : AgentHandles(m) \/ Lose(m)
  \/ Crash
  \/ SweepOrphans

Spec == Init /\ [][Next]_vars

-----------------------------------------------------------------------------
(* Properties.                                                             *)

\* An Agent in the registry can be used: its token file is there, the Agent
\* holds the credential active and its job is consumed.  No compensation,
\* cleanup, orphan sweep, late request or crash may take that away.
RegisteredUsable ==
  \A j \in Jobs : Registered(j) =>
    /\ <<j, reg[j]>> \in files
    /\ remote[j] = "active"
    /\ rows[j].state = "consumed"

\* A live job never loses the only copy of its token: the file its row
\* references exists, unless the Agent already revoked that credential (a
\* crash inside the compensation).
LiveCredential ==
  \A j \in Jobs : Live(rows[j]) /\ rows[j].ref # NoRef =>
    HasToken(j, rows[j]) \/ remote[j] = "revoked"

\* The Agent's credential is activated only for a job the user saved, and such
\* a job can no longer be cancelled or expire: create, get, recovery and the
\* two publishers never reset it.
SavedIsFinal ==
  \A j \in Jobs :
    /\ remote[j] = "active" => rows[j].save
    /\ rows[j].save => rows[j].state \in {"activation_requested", "activated",
                                          "consumed", "failed"}

\* Every row satisfies _validate_job and the table's CHECKs, also the ones
\* written by raw UPDATE statements or from a stale snapshot.
RowsValid == \A j \in Jobs : rows[j].state # Absent => ValidRow(rows[j])

\* The table never holds more live jobs than max_active, whatever restarts and
\* expiries happen between two creates.
CapacityBound == Cardinality({j \in Jobs : Live(rows[j])}) <= MaxActive

\* What a client of the API can tell about a job.
Outcome ==
  [j \in Jobs |-> CASE Registered(j) -> "enrolled"
                    [] ~Registered(j) /\ rows[j].state = Absent -> "absent"
                    [] ~Registered(j) /\ rows[j].state \in Terminal -> "closed"
                    [] ~Registered(j) /\ Live(rows[j]) ->
                         IF rows[j].save THEN "saved" ELSE "open"]

P == INSTANCE EnrollmentPromise WITH outcome <- Outcome

\* The saga implements EnrollmentPromise: a job ends once and for all, only a
\* saved one is enrolled, saving is irrevocable, and one target is enrolled
\* once, whatever stale publishers, second recoverers and crashes do.
KeepsPromise == P!Spec

\* The steps of a recover() coroutine that the event loop and the bounded
\* duration of every call guarantee: all but a renewal.
RecProgress(r) ==
  \/ RecoverPrepare(r) \/ (\E j \in Jobs : RecoverClaim(r, j))
  \/ BeginValidation(r) \/ AbandonCall(r) \/ EndValidation(r)
  \/ BeginActivation(r) \/ EndActivation(r) \/ Commit(r)
  \/ BeginCompensation(r) \/ EndCompensation(r) \/ RecoverCleanup(r)

\* Coroutines run, time passes, Agents answer, a crashed Manager is restarted.
Fairness ==
  /\ \A r \in Recs : WF_vars(RecProgress(r))
  /\ \A j \in Jobs : WF_vars(LeaseLapses(j)) /\ WF_vars(DeadlinePasses(j))
  /\ WF_vars(\E m \in wire : AgentHandles(m))
  /\ WF_vars(\E r \in Recs : Restart(r))
  /\ WF_vars(SweepOrphans)

FairSpec == Spec /\ Fairness

\* Every recover() ends, so the consume request that runs it is answered and
\* startup goes on to serve requests, even if its claim is taken over mid-call.
RecoverEnds == \A r \in Recs : rec[r].pc # "idle" ~> rec[r].pc = "idle"

-----------------------------------------------------------------------------
(* What the documentation or the tests say and the code does not do.       *)

\* An expired job gives its place back: the expiry a create runs first is
\* never refused by the table
\* (test_expired_job_releases_capacity_and_cannot_be_cancelled).
ExpiryFreesCapacity == BulkExpiryAccepted

\* Only a registry commit or a confirmed revoke may discard the token of an
\* active credential (design, section on the recoverable saga).
ActiveTokenKept ==
  \A j \in Jobs : remote[j] = "active" => \E m \in Methods : <<j, m>> \in files

\* The startup scan finishes every saved job (design, database rules): it is
\* committed or fails, whenever the crash came.
StartupFinishesSaved ==
  \A j \in Jobs : (phase = "boot" /\ rows[j].save) ~>
                    (rows[j].state \in Terminal \/ phase = "down")
=============================================================================
