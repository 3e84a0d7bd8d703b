--------------------------- MODULE LocalBootstrap ---------------------------
(***************************************************************************)
(* Enrolling the Agent that runs beside the Manager: bootstrap_local of    *)
(* the orchestrator, called over the Manager's enrollment socket, and the  *)
(* Agent's socket that issues the credential.                              *)
(*                                                                         *)
(* The enrollment ID is fixed, so every attempt uses one journal row, and  *)
(* the Agent keeps one credential row for it: an attempt after the first   *)
(* re-arms the job and asks the Agent to replace the credential.  A call   *)
(* that timed out may still be handled, during a later attempt too.  An    *)
(* attempt works before its save for one socket exchange and two HTTP      *)
(* requests (about 25 s), which end before the job's deadline (60 s at     *)
(* least); no other enrollment uses the Agent's endpoint meanwhile (module *)
(* Enrollment has that race).                                              *)
(***************************************************************************)
EXTENDS EnrollmentJournal, FiniteSets

CONSTANTS
  Creds,      \* bound: the credentials the Agent may issue
  NoCred,     \* no credential
  MaxTries,   \* bound: attempts that reach the Agent
  MaxClaims,  \* bound: no claim by another recover() at this revision
  MaxLives    \* bound: Manager incarnations

ASSUME BootstrapAssumption ==
  /\ NoCred \notin Creds /\ NoRef \notin Creds
  /\ MaxTries \in Nat /\ MaxClaims \in Nat /\ MaxLives \in Nat \ {0}

VARIABLES
  job,      \* the journal row; ref: the credential whose token is stored
  due,      \* now >= expires_at
  attempt,  \* [pc, helper, snap]: the bootstrap request, and the row it read
  rescue,   \* [pc, boot, snap]: another recover(), at startup or of a save
  agent,    \* [cred, state]: the Agent's row for this enrollment ID
  used,     \* credentials issued so far
  tokens,   \* token files, by credential
  wire,     \* requests the Agent has not handled
  member,   \* the credential of the registered Agent, or NoCred
  tries,    \* attempts so far
  life      \* [n, up]: the Manager incarnation, and whether it runs

bootstrapVars == <<job, due, attempt, rescue, agent, used, tokens, wire, member,
                   tries, life>>

-----------------------------------------------------------------------------
Resting == [pc |-> "idle", helper |-> NoCred, snap |-> NoRow]
Unrescued == [pc |-> "idle", boot |-> FALSE, snap |-> NoRow]
Calls == {"activate", "revoke"}

BootstrapTypeOK ==
  /\ job.state \in States \cup {Absent} /\ job.ref \in Creds \cup {NoRef}
  /\ job.rev \in Nat /\ job.owner \in 0..MaxLives /\ due \in BOOLEAN
  /\ attempt.pc \in {"idle", "issue", "publish", "validate", "activate", "revoke"}
  /\ attempt.helper \in Creds \cup {NoCred}
  /\ rescue.pc \in {"idle", "validate", "activate", "sweep"}
  /\ agent.cred \in Creds \cup {NoCred}
  /\ agent.state \in {"none", "pending", "lapsed", "active", "revoked"}
  /\ used \subseteq Creds /\ tokens \subseteq Creds
  /\ wire \subseteq [kind: {"issue", "reissue"}, of: 1..MaxTries]
                    \cup [kind: Calls, of: Creds, by: {"attempt", "rescue"}]
  /\ member \in Creds \cup {NoCred}
  /\ tries \in 0..MaxTries
  /\ life \in [n: 1..MaxLives, up: BOOLEAN]

BootstrapInit ==
  /\ job = NoRow /\ due = FALSE
  /\ attempt = Resting /\ rescue = Unrescued
  /\ agent = [cred |-> NoCred, state |-> "none"] /\ used = {}
  /\ tokens = {} /\ wire = {} /\ member = NoCred
  /\ tries = 0 /\ life = [n |-> 1, up |-> TRUE]

-----------------------------------------------------------------------------
(* The Agent.                                                              *)

\* issue: refused when the enrollment ID has a row; reissue_expired: allowed
\* over a revoked or an expired pending row.
Issuable(kind) ==
  \/ agent.state = "none"
  \/ kind = "reissue" /\ agent.state \in {"revoked", "lapsed"}

\* The Agent's socket serves a request, maybe after its client has gone: a
\* refusal (duplicate, capacity, audit, storage) reaches the client as an error.
AgentIssue(m) ==
  /\ m \in wire /\ m.kind \notin Calls
  /\ wire' = wire \ {m}
  /\ \/ /\ Issuable(m.kind)
        /\ \E c \in Creds \ used :
             /\ used' = used \cup {c}
             /\ agent' = [cred |-> c, state |-> "pending"]
             /\ attempt' = IF attempt.pc = "issue" /\ m.of = tries
                           THEN [attempt EXCEPT !.pc = "publish", !.helper = c]
                           ELSE attempt
     \/ UNCHANGED <<agent, used, attempt>>
  /\ UNCHANGED <<job, due, rescue, tokens, member, tries, life>>

\* Faulty variant: the row is found by the enrollment ID alone.
AcceptsAny(m) == agent.state \in {"pending", "active", "revoked"}

\* The caller is authenticated by the token, and the credential is named: a
\* request for a credential the row no longer holds is refused.
Accepts(m) ==
  /\ agent.cred = m.of
  /\ agent.state \in IF m.kind = "activate" THEN {"pending", "active"}
                     ELSE {"pending", "active", "revoked"}

\* activate and revoke
AgentCall(m) ==
  /\ m \in wire /\ m.kind \in Calls
  /\ wire' = wire \ {m}
  /\ agent' = IF Accepts(m)
              THEN [agent EXCEPT !.state =
                      IF m.kind = "activate" THEN "active" ELSE "revoked"]
              ELSE agent
  /\ UNCHANGED <<job, due, attempt, rescue, used, tokens, member, tries, life>>

\* The pending credential's own deadline passes.
CredentialLapses ==
  /\ agent.state = "pending"
  /\ agent' = [agent EXCEPT !.state = "lapsed"]
  /\ UNCHANGED <<job, due, attempt, rescue, used, tokens, wire, member, tries, life>>

Request(kind, c, by) == [kind |-> kind, of |-> c, by |-> by]

-----------------------------------------------------------------------------
(* An attempt.                                                             *)

\* _cleanup_terminal deletes the token and then its reference, or marks the row
\* when the file cannot be deleted.
Cleaned(row, j, t) ==
  \/ j = FinishCleanupRow(row) /\ t = tokens \ {row.ref}
  \/ row.ref # NoRef /\ j = row /\ t = tokens

\* Up to the request to the Agent: the audit intent is recorded, or the job fails.
Dispatch(row, kind) ==
  /\ \/ /\ job' = row
        /\ attempt' = [Resting EXCEPT !.pc = "issue"]
        /\ wire' = wire \cup {[kind |-> kind, of |-> tries + 1]}
     \/ /\ job' = [row EXCEPT !.state = "failed"]
        /\ attempt' = Resting /\ wire' = wire
  /\ tries' = tries + 1 /\ due' = FALSE

MayBegin ==
  life.up /\ ~rescue.boot /\ attempt.pc = "idle" /\ tries < MaxTries /\ member = NoCred

\* _bootstrap_local without a journal row: the job is created and runs.
BeginFirst ==
  /\ MayBegin /\ job.state = Absent
  /\ Dispatch([NoRow EXCEPT !.state = "running"], "issue")
  /\ UNCHANGED <<rescue, agent, used, tokens, member, life>>

\* rearm_expired_local: every column of the former attempt is cleared, and the
\* revision goes on.
Rearmed(row) == [NoRow EXCEPT !.state = "running", !.rev = row.rev + 1]

\* _bootstrap_local over the row of a former attempt: jobs.get expires a job that
\* is due, a leftover token is deleted, and the job is re-armed.
BeginRetry ==
  LET ended == IF Due(job, due) THEN ExpireRow(job) ELSE job
  IN /\ MayBegin /\ due /\ ended.state \in Terminal \ {"consumed"}
     /\ \/ /\ Dispatch(Rearmed(ended), "reissue")
           /\ tokens' = tokens \ {ended.ref}
        \/ /\ Cleaned(ended, job', tokens') /\ job'.ref # NoRef
           /\ UNCHANGED <<attempt, wire, tries, due>>
  /\ UNCHANGED <<rescue, agent, used, member, life>>

\* _compensate_local_bootstrap up to its revoke: a saved activation is left to
\* recovery.
BeginCompensation(row) ==
  IF row.state \in {"activation_requested", "activated"}
  THEN attempt' = Resting /\ wire' = wire
  ELSE /\ attempt' = [attempt EXCEPT !.pc = "revoke", !.snap = row]
       /\ wire' = wire \cup {Request("revoke", attempt.helper, "attempt")}

\* The exchange with the Agent's socket fails, times out or is cancelled: no
\* credential is known, and the job fails.
IssueFails ==
  /\ attempt.pc = "issue"
  /\ job' = IF job.state = "running" THEN [job EXCEPT !.state = "failed"] ELSE job
  /\ attempt' = Resting
  /\ UNCHANGED <<due, rescue, agent, used, tokens, wire, member, tries, life>>

\* _publish_managed_helper: the token is stored and the job verifies; or the
\* Manager is closing, or the store or the journal fails.
Publish ==
  /\ attempt.pc = "publish"
  /\ \/ /\ job.state = "running"
        /\ LET row == [job EXCEPT !.state = "verifying", !.ref = attempt.helper]
           IN /\ job' = row
              /\ attempt' = [attempt EXCEPT !.pc = "validate", !.snap = row]
        /\ tokens' = tokens \cup {attempt.helper}
        /\ wire' = wire
     \/ BeginCompensation(job) /\ UNCHANGED <<job, tokens>>
  /\ UNCHANGED <<due, rescue, agent, used, member, tries, life>>

Validates(c) == agent.cred = c /\ agent.state \in {"pending", "active"}

\* The validation succeeds: the snapshot is written as verified if the job still
\* verifies, and consume saves it and claims it in recover().
ValidateAndSave ==
  LET saved == [attempt.snap EXCEPT !.state = "activation_requested", !.save = TRUE]
      claimed == ClaimRow(saved, life.n)
  IN /\ attempt.pc = "validate" /\ Validates(attempt.helper)
     /\ job.state = "verifying"
     /\ IF attempt.helper \in tokens
        THEN /\ job' = claimed
             /\ attempt' = [attempt EXCEPT !.pc = "activate", !.snap = claimed]
             /\ wire' = wire \cup {Request("activate", attempt.helper, "attempt")}
        ELSE /\ job' = FailRow(claimed)
             /\ BeginCompensation(job')
     /\ UNCHANGED <<due, rescue, agent, used, tokens, member, tries, life>>

\* The validation fails, the job has left verifying, or the request is cancelled.
ValidateFails ==
  /\ attempt.pc = "validate"
  /\ BeginCompensation(job)
  /\ UNCHANGED <<job, due, rescue, agent, used, tokens, member, tries, life>>

\* What the compensation writes once the credential is revoked, from the row it
\* read before: a claim of this Manager is failed under its fence, any other row
\* if the move is allowed and the state unchanged.
FailedRow(cur) ==
  IF cur.state \in Terminal THEN job
  ELSE IF cur.owner = life.n
  THEN IF Holds(job, life.n, cur.rev) THEN FailRow(job) ELSE job
  ELSE IF Allowed(cur.state, "failed") /\ job.state = cur.state
       THEN [cur EXCEPT !.state = "failed"] ELSE job

Revoked(m) == m \notin wire /\ agent = [cred |-> m.of, state |-> "revoked"]

\* The revoke is answered: the job fails and its token is deleted.
EndCompensation ==
  LET row == FailedRow(attempt.snap)
  IN /\ attempt.pc = "revoke"
     /\ Revoked(Request("revoke", attempt.helper, "attempt"))
     /\ attempt' = Resting
     /\ IF /\ attempt.snap.state \notin Terminal /\ row.state \in Terminal
           /\ row # job \/ attempt.snap.owner = life.n
        THEN Cleaned(row, job', tokens') ELSE job' = row /\ tokens' = tokens
     /\ UNCHANGED <<due, rescue, agent, used, wire, member, tries, life>>

\* The revoke fails, times out or is abandoned: everything is left as it is.
RevokeFails ==
  /\ attempt.pc = "revoke"
  /\ attempt' = Resting
  /\ UNCHANGED <<job, due, rescue, agent, used, tokens, wire, member, tries, life>>

\* The deadline of the operation or the shutdown cancels the attempt's recover():
\* its claim stays until the lease lapses.
CancelActivation ==
  /\ attempt.pc = "activate"
  /\ BeginCompensation(job)
  /\ UNCHANGED <<job, due, rescue, agent, used, tokens, member, tries, life>>

-----------------------------------------------------------------------------
(* recover(), in the attempt's own consume and elsewhere.                  *)

Activated(m) == m \notin wire /\ agent = [cred |-> m.of, state |-> "active"]

\* _recover_activation after its call, for a claim `snap`: a fence that was lost
\* ends it, an error leaves the job residual, success commits the Agent to the
\* registry, unless the commit fails and leaves the job activated and claimed.
FinishActivation(snap, ok) ==
  IF ~Holds(job, life.n, snap.rev) THEN UNCHANGED <<job, member>>
  ELSE IF ~ok THEN job' = ClearClaim(job) /\ member' = member
  ELSE \/ job' = ConsumeRow(job) /\ member' = job.ref
       \/ /\ job' = [RenewRow(job) EXCEPT !.state = "activated"]
          /\ member' = member

ActivationAnswered ==
  LET m == Request("activate", attempt.helper, "attempt")
  IN /\ attempt.pc = "activate"
     /\ \/ Activated(m) /\ FinishActivation(attempt.snap, TRUE)
        \/ FinishActivation(attempt.snap, FALSE)
     /\ IF job'.state = "consumed" THEN attempt' = Resting /\ wire' = wire
                                   ELSE BeginCompensation(job')
     /\ UNCHANGED <<due, rescue, agent, used, tokens, tries, life>>

\* Another recover() claims the job and calls the Agent, or goes on to clean up.
\* A saved job whose pinned address the target policy refuses, or whose token
\* cannot be read, fails.
RescueClaims ==
  LET row == IF Due(job, due) THEN ExpireRow(job) ELSE job
      claimed == ClaimRow(row, life.n)
      call == Request("activate", claimed.ref, "rescue")
      Go(pc) == rescue' = [rescue EXCEPT !.pc = pc, !.snap = claimed]
  IN /\ life.up /\ rescue.pc = "idle" /\ job.state # Absent
     /\ IF ~Claimable(row) \/ row.rev >= MaxClaims
        THEN Go("sweep") /\ job' = row /\ UNCHANGED <<wire, member>>
        ELSE \/ /\ row.state \in {"verifying", "verified"}
                /\ Go("validate") /\ job' = claimed /\ UNCHANGED <<wire, member>>
             \/ /\ row.state = "activation_requested" /\ row.ref \in tokens
                /\ Go("activate") /\ job' = claimed
                /\ wire' = wire \cup {call} /\ member' = member
             \/ /\ row.state = "activated"
                /\ Go("sweep") /\ wire' = wire
                /\ \/ job' = ConsumeRow(claimed) /\ member' = claimed.ref
                   \/ job' = claimed /\ member' = member
             \/ /\ row.state \in {"activation_requested", "activated"}
                /\ Go("sweep") /\ job' = FailRow(claimed)
                /\ UNCHANGED <<wire, member>>
     /\ UNCHANGED <<due, attempt, agent, used, tokens, tries, life>>

\* _recover_validation after its call
RescueValidates ==
  /\ rescue.pc = "validate"
  /\ rescue' = [rescue EXCEPT !.pc = "sweep"]
  /\ IF ~Holds(job, life.n, rescue.snap.rev) THEN job' = job
     ELSE \/ Validates(job.ref) /\ job' = [ClearClaim(job) EXCEPT !.state = "verified"]
          \/ job' = FailRow(job)
  /\ UNCHANGED <<due, attempt, agent, used, tokens, wire, member, tries, life>>

RescueActivates ==
  LET m == Request("activate", rescue.snap.ref, "rescue")
  IN /\ rescue.pc = "activate"
     /\ rescue' = [rescue EXCEPT !.pc = "sweep"]
     /\ \/ Activated(m) /\ FinishActivation(rescue.snap, TRUE)
        \/ FinishActivation(rescue.snap, FALSE)
     /\ UNCHANGED <<due, attempt, agent, used, tokens, wire, tries, life>>

\* The end of recover(): the tokens of ended jobs are deleted; at startup
\* cleanup_orphans then deletes every token that nothing refers to.
RescueSweeps ==
  /\ rescue.pc = "sweep" /\ rescue' = Unrescued
  /\ \E left \in SUBSET tokens :
       /\ IF job.state \in Terminal THEN Cleaned(job, job', left)
                                    ELSE job' = job /\ left = tokens
       /\ tokens' = IF rescue.boot THEN left \cap {job'.ref, member} ELSE left
  /\ UNCHANGED <<due, attempt, agent, used, wire, member, tries, life>>

-----------------------------------------------------------------------------
(* Time and crashes.                                                       *)

DeadlinePasses ==
  /\ ~due /\ job.state # Absent /\ attempt.pc \in {"idle", "activate"}
  /\ due' = TRUE
  /\ UNCHANGED <<job, attempt, rescue, agent, used, tokens, wire, member, tries, life>>

\* The lease of a claim that no coroutine holds any more.
ClaimLapses ==
  /\ job.lease = "live"
  /\ attempt.pc # "activate" /\ rescue.pc \notin {"validate", "activate"}
  /\ job' = [job EXCEPT !.lease = "lapsed"]
  /\ UNCHANGED <<due, attempt, rescue, agent, used, tokens, wire, member, tries, life>>

\* A crash: also between the token's file and the journal write.
ManagerCrashes ==
  /\ life.up /\ life.n < MaxLives
  /\ life' = [life EXCEPT !.up = FALSE]
  /\ attempt' = Resting /\ rescue' = Unrescued
  /\ \/ tokens' = tokens
     \/ attempt.pc = "publish" /\ tokens' = tokens \cup {attempt.helper}
  /\ UNCHANGED <<job, due, agent, used, wire, member, tries>>

\* The next incarnation recovers before it serves its socket.
ManagerStarts ==
  /\ ~life.up
  /\ life' = [n |-> life.n + 1, up |-> TRUE]
  /\ rescue' = [Unrescued EXCEPT !.boot = TRUE]
  /\ UNCHANGED <<job, due, attempt, agent, used, tokens, wire, member, tries>>

\* Without a row there is nothing to recover but orphans.
ManagerReady ==
  /\ rescue.boot /\ rescue.pc = "idle" /\ job.state = Absent
  /\ rescue' = Unrescued
  /\ tokens' = {}
  /\ UNCHANGED <<job, due, attempt, agent, used, wire, member, tries, life>>

BootstrapNext ==
  \/ BeginFirst \/ BeginRetry \/ IssueFails \/ Publish \/ ValidateAndSave
  \/ ValidateFails \/ EndCompensation \/ RevokeFails \/ CancelActivation
  \/ ActivationAnswered \/ RescueClaims \/ RescueValidates \/ RescueActivates
  \/ RescueSweeps \/ CredentialLapses \/ DeadlinePasses \/ ClaimLapses
  \/ ManagerCrashes \/ ManagerStarts \/ ManagerReady
  \/ \E m \in wire : AgentIssue(m) \/ AgentCall(m)

BootstrapSpec == BootstrapInit /\ [][BootstrapNext]_bootstrapVars

-----------------------------------------------------------------------------
\* An enrolled local Agent can be used: its credential is the one the Agent's row
\* holds, active, whatever late request is still handled, and its token is kept.
\* A saved activation has its token too, so that recovery can finish it.
LocalUsable ==
  /\ member # NoCred => /\ agent = [cred |-> member, state |-> "active"]
                        /\ member \in tokens
  /\ job.state \in CredentialStates => job.ref \in tokens
=============================================================================
