-------------------------- MODULE EnrollmentJournal --------------------------
(***************************************************************************)
(* One row of the Manager's durable enrollment journal                     *)
(* (table agent_enrollment_jobs) and what each repository method does to   *)
(* it.  Every method is one BEGIN IMMEDIATE transaction, so each operator  *)
(* here is an atomic function from the stored row to the stored row; the   *)
(* modules that use them decide who calls which method when.               *)
(*                                                                         *)
(* Abstractions.  The columns kept are the ones control flow depends on.   *)
(*   ref    credential_temp_ref: which publication produced the token file *)
(*   owner  recovery_owner: a Manager incarnation, or the CLI resume nonce *)
(*   lease  recovery_lease_until, compared with the clock: absent, still   *)
(*          in the future, or passed                                       *)
(*   cli    the four cli_* resume-claim columns, which are set and cleared *)
(*          together                                                       *)
(* ssh_service_key takes exactly the paths of ssh_auto and is not          *)
(* distinguished from it.                                                  *)
(***************************************************************************)
EXTENDS Integers

States ==
  {"pending", "running", "awaiting_cli", "credential_issued", "verifying",
   "verified", "activation_requested", "activated", "consumed", "cancelled",
   "failed", "expired"}

\* EnrollmentState.terminal
Terminal == {"consumed", "cancelled", "failed", "expired"}

\* Faulty variant: a saved activation may still be cancelled or expire.
ExpirableSaved ==
  {"pending", "running", "awaiting_cli", "credential_issued", "verifying",
   "verified", "activation_requested"}

\* States a deadline may still end (a saved activation is never expired).
Expirable ==
  {"pending", "running", "awaiting_cli", "credential_issued", "verifying",
   "verified"}

\* States in which the row must reference a stored token.
CredentialStates ==
  {"credential_issued", "verifying", "verified", "activation_requested",
   "activated"}

\* The states recovery lists and claims are the same five.
Recoverable == CredentialStates

\* _ALLOWED_TRANSITIONS: the moves replace_if_state and set_state accept.
AllowedTransitions ==
  [pending |-> {"running", "awaiting_cli", "cancelled", "expired"},
   running |-> {"awaiting_cli", "credential_issued", "cancelled", "failed",
                "expired"},
   awaiting_cli |-> {"running", "credential_issued", "cancelled", "failed",
                     "expired"},
   credential_issued |-> {"verifying", "cancelled", "expired"},
   verifying |-> {"verified", "cancelled", "failed", "expired"},
   verified |-> {"activation_requested", "cancelled", "expired"},
   activation_requested |-> {"activated", "failed"},
   activated |-> {"consumed", "failed"}]

Allowed(from, to) ==
  from \in DOMAIN AllowedTransitions /\ to \in AllowedTransitions[from]

Methods == {"ssh_auto", "ssh_cli"}
NoRef == "none"
Leases == {"none", "live", "lapsed"}

\* Owners: 0 is NULL, -1 the CLI nonce, n >= 1 the n-th Manager incarnation.
NoOwner == 0
CliOwner == -1

\* NoRow stands for "no such row".
Absent == "absent"

Row ==
  [state: States \cup {Absent}, method: Methods, ref: Methods \cup {NoRef},
   owner: Int, lease: Leases, rev: Nat, cli: BOOLEAN, save: BOOLEAN]

NoRow ==
  [state |-> Absent, method |-> "ssh_auto", ref |-> NoRef, owner |-> NoOwner,
   lease |-> "none", rev |-> 0, cli |-> FALSE, save |-> FALSE]

Live(row) == row.state \notin Terminal \cup {Absent}

-----------------------------------------------------------------------------
\* _validate_job and the CHECK constraints of the table, restricted to the
\* columns kept: what every stored row must satisfy.
ValidRow(row) ==
  /\ row.state \in CredentialStates => row.ref # NoRef
  /\ row.state \in {"pending", "running", "awaiting_cli"} => row.ref = NoRef
  /\ row.state \in {"activation_requested", "activated"} => row.save
  /\ (row.owner = NoOwner) = (row.lease = "none")
  /\ row.cli => /\ row.method = "ssh_cli"
                /\ row.state \in {"running"} \cup CredentialStates
  /\ row.state = "running" /\ row.method = "ssh_cli" => row.cli

-----------------------------------------------------------------------------
\* Row updates.  The caller checks the WHERE clause (the guards below).

\* Faulty variant: the fence goes back instead of forward.
ClearClaimBackwards(row) ==
  [row EXCEPT !.owner = NoOwner, !.lease = "none", !.rev = @ - 1]

ClearClaim(row) ==
  [row EXCEPT !.owner = NoOwner, !.lease = "none", !.rev = @ + 1]

\* The expiry written by jobs.get, prepare_recovery, claim_recovery and
\* recheck_cli_submission.
ExpireRow(row) == [ClearClaim(row) EXCEPT !.state = "expired", !.cli = FALSE]

\* The expiry written by the three create_*_with_capacity methods,
\* claim_pending_auto and recheck_auto_dispatch: the state column only.
RawExpireRow(row) == [row EXCEPT !.state = "expired"]

Due(row, past) == past /\ row.state \in Expirable

\* claim_recovery, its UPDATE's WHERE clause and its assignment.
Claimable(row) ==
  row.state \in Recoverable /\ (row.owner = NoOwner \/ row.lease = "lapsed")

ClaimRow(row, me) ==
  [row EXCEPT !.owner = me, !.lease = "live", !.rev = @ + 1]

\* The fence of every claimed write: same owner, same revision, lease alive.
Holds(row, me, rev) == row.owner = me /\ row.rev = rev /\ row.lease = "live"

RenewRow(row) == [row EXCEPT !.lease = "live", !.rev = @ + 1]

\* fail_recovery_claim: no state in its WHERE clause.
FailRow(row) == [ClearClaim(row) EXCEPT !.state = "failed", !.cli = FALSE]

\* finish_terminal_cleanup
FinishCleanupRow(row) == [row EXCEPT !.ref = NoRef]

\* commit_activated_enrollment's UPDATE of the job.
ConsumeRow(row) ==
  [ClearClaim(row) EXCEPT !.state = "consumed", !.ref = NoRef, !.cli = FALSE]
=============================================================================
