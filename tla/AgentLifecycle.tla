--------------------------- MODULE AgentLifecycle ---------------------------
(***************************************************************************)
(* One registered Agent over its life: credential rotation, update and     *)
(* removal.  Each is a saga over the registry row, the token files, a      *)
(* durable journal and the Agent's own credential rows; the mutation fence *)
(* keeps them apart.                                                       *)
(*                                                                         *)
(* Actors.                                                                 *)
(*   recoverers  the recover() coroutines that drive saved rotations       *)
(*   the remover _resume_removal, run by remove_agent or at startup        *)
(*   updaters    one per update_agent request                              *)
(*   the Agent   handles activate and revoke requests, late or never       *)
(*                                                                         *)
(* How a rotation job gets its credential (SSH, CLI, verification) is the  *)
(* subject of Enrollment; here it is one step.  A claim is named by the    *)
(* coroutine that took it, which stands for (recovery_owner, revision).    *)
(***************************************************************************)
EXTENDS Naturals, FiniteSets

CONSTANTS
  Rots,       \* rotation jobs; also the credentials they bring
  Upds,       \* update requests; also the legacy tokens they may bring
  Recs,       \* recover() coroutines
  First,      \* the credential the Agent was registered with
  Removal,    \* the removal job, and the coroutine that drives it
  NoOwner,    \* nobody: no job, no claim
  Stalls,     \* whether the event loop may stall for longer than a lease
  MaxCrash    \* bound: crashes of the Manager

ASSUME LifecycleAssumption ==
  /\ Stalls \in BOOLEAN
  /\ MaxCrash \in Nat
  /\ Rots \cap Upds = {} /\ First \notin Rots \cup Upds
  /\ Removal \notin Recs \cup Rots /\ NoOwner \notin Recs \cup Rots \cup {Removal}

VARIABLES
  agent,    \* the agents row
  updates,  \* how many updates were acknowledged
  rot,      \* [Rots -> ...]: the rotation rows of agent_enrollment_jobs
  rec,      \* [Recs -> [pc, job, reply]]
  removal,  \* the agent_removal_jobs row
  rm,       \* the coroutine that drives it: [pc, reply]
  upd,      \* [Upds -> [pc, old]]: update requests and the record they read
  files,    \* token files, named by their credential
  remote,   \* [Creds -> ...]: the Agent's view of each credential
  wire,     \* requests sent to the Agent and not handled yet
  phase,    \* "down", "removals" and "boot" (startup), "up"
  crashes

vars == <<agent, updates, rot, rec, removal, rm, upd, files, remote, wire,
          phase, crashes>>

-----------------------------------------------------------------------------
Creds == {First} \cup Rots \cup Upds
RemoteStates == {"none", "pending", "active", "revoked", "lapsed", "admin"}
RotStates == {"none", "open", "verified", "activation_requested", "activated",
              "consumed", "failed", "closed"}
RemovalPhases == {"none", "pending", "revoking", "revoked", "registry_deleted",
                  "credential_deleted", "completed", "residual"}
AgentRow == [present: BOOLEAN, rev: Nat, ref: Creds, pinned: BOOLEAN,
             legacy: BOOLEAN, cfg: Nat]
Request == [kind: {"activate", "revoke"}, token: Creds, cred: Creds,
            by: Recs \cup {Removal}]
Replies == {"none", "ok", "rejected"}

TypeOK ==
  /\ agent \in AgentRow
  /\ updates \in Nat
  /\ rot \in [Rots -> [state: RotStates, temp: BOOLEAN, kept: BOOLEAN,
                       old: AgentRow, claim: Recs \cup {NoOwner}, lease: BOOLEAN]]
  /\ rec \in [Recs -> [pc: {"idle", "next", "validate", "activate", "swap",
                            "revoke", "compensate", "cleanup"},
                       job: Rots \cup {NoOwner}, reply: Replies]]
  /\ \A r \in Recs : rec[r].job = NoOwner => rec[r].pc \in {"idle", "next", "cleanup"}
  /\ removal \in [phase: RemovalPhases, old: AgentRow, local: BOOLEAN]
  /\ rm \in [pc: {"idle", "run", "revoke"}, reply: Replies]
  /\ upd \in [Upds -> [pc: {"none", "validating", "done"}, old: AgentRow]]
  /\ files \subseteq Creds
  /\ remote \in [Creds -> RemoteStates]
  /\ wire \subseteq Request
  /\ phase \in {"down", "removals", "boot", "up"}
  /\ crashes \in Nat

IdleRec == [pc |-> "idle", job |-> NoOwner, reply |-> "none"]
IdleRm == [pc |-> "idle", reply |-> "none"]

\* An enrolled Agent, or an imported one with an admin token whose instance
\* no probe has pinned yet.
Init ==
  /\ \E legacy \in BOOLEAN :
       /\ agent = [present |-> TRUE, rev |-> 1, ref |-> First,
                   pinned |-> ~legacy, legacy |-> legacy, cfg |-> 0]
       /\ remote = [c \in Creds |->
            IF c \in Upds \/ (c = First /\ legacy) THEN "admin"
            ELSE IF c = First THEN "active" ELSE "none"]
  /\ updates = 0
  /\ rot = [j \in Rots |-> [state |-> "none", temp |-> FALSE, kept |-> FALSE,
                            old |-> agent, claim |-> NoOwner, lease |-> FALSE]]
  /\ rec = [r \in Recs |-> IdleRec]
  /\ removal = [phase |-> "none", old |-> agent, local |-> FALSE]
  /\ rm = IdleRm
  /\ upd = [u \in Upds |-> [pc |-> "none", old |-> agent]]
  /\ files = {First}
  /\ wire = {}
  /\ phase = "up"
  /\ crashes = 0

-----------------------------------------------------------------------------
(* The journals and the mutation fence.                                    *)

Saved(j) == rot[j].state \in {"activation_requested", "activated"}
Live(j) == Saved(j) \/ rot[j].state \in {"open", "verified"}
Unfinished == removal.phase \notin {"none", "completed"}

\* Faulty variant: only removals fence.
MutationAllowedRemovals(owner) == owner = Removal \/ ~Unfinished

\* assert_agent_mutation_allowed: no unfinished removal and no saved rotation
\* other than the caller's own.
MutationAllowed(owner) ==
  /\ owner = Removal \/ ~Unfinished
  /\ \A j \in Rots \ {owner} : ~Saved(j)

\* A compare-and-swap on the registry row someone read.
Unchanged(old) == agent.present /\ agent.rev = old.rev /\ agent.ref = old.ref

Waits(b) == IF b = Removal
            THEN [pc |-> rm.pc, cred |-> removal.old.ref]
            ELSE [pc |-> rec[b].pc,
                  cred |-> IF rec[b].pc = "revoke" THEN rot[rec[b].job].old.ref
                                                   ELSE rec[b].job]

Send(kind, token, cred, by) ==
  wire' = wire \cup {[kind |-> kind, token |-> token, cred |-> cred, by |-> by]}

-----------------------------------------------------------------------------
(* Rotation: start, publish, close, save.                                  *)

\* start_rotation: create_rotation_with_capacity captures the Agent's row; any
\* live rotation, saved or not, refuses a second one.
StartRotation(j) ==
  /\ phase = "up" /\ rot[j].state = "none"
  /\ agent.present /\ MutationAllowed(NoOwner) /\ \A k \in Rots : ~Live(k)
  /\ rot' = [rot EXCEPT ![j] = [@ EXCEPT !.state = "open", !.kept = TRUE,
                                         !.old = agent]]
  /\ UNCHANGED <<agent, updates, rec, removal, rm, upd, files, remote, wire,
                 phase, crashes>>

\* The job's publisher stores the pending credential and verifies it.
Publish(j) ==
  /\ phase \in {"boot", "up"} /\ rot[j].state = "open"
  /\ rot' = [rot EXCEPT ![j].state = "verified", ![j].temp = TRUE]
  /\ files' = files \cup {j}
  /\ remote' = [remote EXCEPT ![j] = "pending"]
  /\ UNCHANGED <<agent, updates, rec, removal, rm, upd, wire, phase, crashes>>

\* An unsaved rotation is cancelled, fails or expires; its token file and
\* reference go at once, or stay for the cleanup of a later recover().
Close(j) ==
  /\ phase \in {"boot", "up"} /\ rot[j].state \in {"open", "verified"}
  /\ \E deleted \in BOOLEAN :
       /\ rot' = [rot EXCEPT ![j] = [@ EXCEPT !.state = "closed",
                                              !.temp = @ /\ ~deleted,
                                              !.claim = NoOwner, !.lease = FALSE]]
       /\ files' = IF deleted THEN files \ {j} ELSE files
  /\ UNCHANGED <<agent, updates, rec, removal, rm, upd, remote, wire, phase,
                 crashes>>

\* Faulty variant: the Agent may have changed since the rotation started.
ConsumeAnyRevision(r, j) ==
  /\ phase = "up" /\ rec[r].pc = "idle" /\ rot[j].state = "verified"
  /\ agent.present /\ MutationAllowed(j)
  /\ rot' = [rot EXCEPT ![j].state = "activation_requested", ![j].old.rev = agent.rev]
  /\ rec' = [rec EXCEPT ![r].pc = "next"]
  /\ UNCHANGED <<agent, updates, removal, rm, upd, files, remote, wire, phase,
                 crashes>>

\* consume_rotation: saved only if the Agent is as the job captured it and the
\* fence allows; then the request runs recover().
ConsumeRotation(r, j) ==
  /\ phase = "up" /\ rec[r].pc = "idle" /\ rot[j].state = "verified"
  /\ Unchanged(rot[j].old) /\ agent.pinned = rot[j].old.pinned
  /\ MutationAllowed(j)
  /\ rot' = [rot EXCEPT ![j].state = "activation_requested"]
  /\ rec' = [rec EXCEPT ![r].pc = "next"]
  /\ UNCHANGED <<agent, updates, removal, rm, upd, files, remote, wire, phase,
                 crashes>>

-----------------------------------------------------------------------------
(* Rotation: recover().                                                    *)

Fenced(r) == /\ rec[r].job # NoOwner
             /\ rot[rec[r].job].claim = r /\ rot[rec[r].job].lease

Claimable(j) == /\ rot[j].state = "verified" \/ Saved(j)
                /\ rot[j].claim = NoOwner \/ ~rot[j].lease

\* Faulty variant: the job is dropped and the call goes on.
LeaveRunning(r) == rec' = [rec EXCEPT ![r].job = NoOwner]

\* recover() is done with its job and goes on to the cleanup.
Leave(r) == rec' = [rec EXCEPT ![r] = [IdleRec EXCEPT !.pc = "cleanup"]]

Enter(r, j, pc, reply) ==
  rec' = [rec EXCEPT ![r] = [pc |-> pc, job |-> j, reply |-> reply]]

Released(row) == [row EXCEPT !.claim = NoOwner, !.lease = FALSE]
Claimed(r, j) == [rot[j] EXCEPT !.claim = r, !.lease = TRUE]

\* release_recovery_residual: the claim is given back, all else stays.
Residual(r) ==
  LET j == rec[r].job IN
  rot' = IF rot[j].claim = r THEN [rot EXCEPT ![j] = Released(@)] ELSE rot

\* recover() looks for work: inside consume_rotation, at startup, or inside the
\* consume of another Agent's enrollment, at any time.
Looks(r) ==
  /\ phase \in {"boot", "up"}
  /\ rec[r].pc = "next" \/ (rec[r].pc = "idle" /\ phase = "up")

\* recover() claims a job and starts on it: an unsaved one is validated again;
\* a saved one is activated, or goes to the registry when it was activated
\* before.  If its target is refused or its token cannot be read, an unsaved
\* job fails and a saved one is a residual.
Claim(r, j) ==
  LET saved == Saved(j)
      claimed == [rot EXCEPT ![j] = Claimed(r, j)]
  IN  /\ Looks(r) /\ Claimable(j)
      /\ \/ /\ j \in files /\ rot' = claimed
            /\ CASE ~saved ->
                      Enter(r, j, "validate", "none") /\ wire' = wire
                 [] rot[j].state = "activation_requested" ->
                      Enter(r, j, "activate", "none") /\ Send("activate", j, j, r)
                 [] OTHER ->
                      Enter(r, j, "swap", "none") /\ wire' = wire
         \/ /\ rot' = [claimed EXCEPT ![j] = Released(
                         IF saved THEN @ ELSE [@ EXCEPT !.state = "failed"])]
            /\ Leave(r) /\ wire' = wire
      /\ UNCHANGED <<agent, updates, removal, rm, upd, files, remote, phase,
                     crashes>>

\* Nothing (more) to claim.
NothingToClaim(r) ==
  /\ Looks(r) /\ \A j \in Rots : ~Claimable(j)
  /\ Leave(r)
  /\ UNCHANGED <<agent, updates, rot, removal, rm, upd, files, remote, wire,
                 phase, crashes>>

\* A renewal finds the claim lost: the call is abandoned.
Abandon(r) ==
  /\ rec[r].pc \in {"validate", "activate", "revoke", "compensate"} /\ ~Fenced(r)
  /\ Leave(r)
  /\ UNCHANGED <<agent, updates, rot, removal, rm, upd, files, remote, wire,
                 phase, crashes>>

\* The second validation ends: an error fails the job, even one saved since;
\* otherwise a verified job is released.
EndValidation(r) ==
  LET j == rec[r].job IN
  /\ rec[r].pc = "validate" /\ Fenced(r)
  /\ \/ rot' = [rot EXCEPT ![j] = Released([@ EXCEPT !.state = "failed"])]
     \/ /\ remote[j] \in {"pending", "active"}
        /\ rot' = IF rot[j].state = "verified"
                  THEN [rot EXCEPT ![j] = Released(@)] ELSE rot
  /\ Leave(r)
  /\ UNCHANGED <<agent, updates, removal, rm, upd, files, remote, wire, phase,
                 crashes>>

\* Faulty variant: an unknown outcome counts as success.
EndActivationUnknown(r) ==
  LET j == rec[r].job IN
  /\ rec[r].pc = "activate" /\ Fenced(r)
  /\ rot' = [rot EXCEPT ![j].state = "activated"]
  /\ Enter(r, j, "swap", "none")
  /\ UNCHANGED <<agent, updates, removal, rm, upd, files, remote, wire, phase,
                 crashes>>

\* activate answered; a refusal or an unknown outcome leaves a residual.
EndActivation(r) ==
  LET j == rec[r].job IN
  /\ rec[r].pc = "activate" /\ Fenced(r)
  /\ \/ /\ rec[r].reply = "ok"
        /\ rot' = [rot EXCEPT ![j].state = "activated"]
        /\ Enter(r, j, "swap", "none")
     \/ rec[r].reply # "ok" /\ Residual(r) /\ Leave(r)
  /\ UNCHANGED <<agent, updates, removal, rm, upd, files, remote, wire, phase,
                 crashes>>

\* swap_rotation succeeds: the row is unchanged, the fence allows and the
\* instance matches; the UPDATE compares instance_id with =, which an unpinned
\* (NULL) instance never satisfies.
MaySwap(j) ==
  /\ Unchanged(rot[j].old) /\ MutationAllowed(j)
  /\ agent.pinned /\ rot[j].old.pinned

SwappedAgent(j) ==
  [agent EXCEPT !.rev = rot[j].old.rev + 1, !.ref = j, !.pinned = TRUE,
                !.legacy = FALSE, !.cfg = rot[j].old.cfg]

\* The registry takes the new credential; then the claim is renewed and the
\* old credential revoked with the new token (an admin token is not revoked).
\* An Agent that no longer matches has the new credential revoked instead.
SwapRegistry(r) ==
  LET j == rec[r].job
      old == rot[j].old
      swapped == MaySwap(j) \/ agent.ref = j
  IN  /\ rec[r].pc = "swap"
      /\ agent' = IF MaySwap(j) THEN SwappedAgent(j) ELSE agent
      /\ CASE ~agent.present ->
                Residual(r) /\ Leave(r) /\ wire' = wire
           [] agent.present /\ ~Fenced(r) ->
                Leave(r) /\ UNCHANGED <<rot, wire>>
           [] agent.present /\ Fenced(r) /\ swapped ->
                /\ rot' = rot
                /\ IF old.legacy THEN Enter(r, j, "revoke", "ok") /\ wire' = wire
                   ELSE Enter(r, j, "revoke", "none") /\ Send("revoke", j, old.ref, r)
           [] OTHER ->
                /\ rot' = rot
                /\ Enter(r, j, "compensate", "none") /\ Send("revoke", j, j, r)
      /\ UNCHANGED <<updates, removal, rm, upd, files, remote, phase, crashes>>

\* Faulty variant: the old token goes whatever the revoke answered.
RetireOldUnconfirmed(r) ==
  LET j == rec[r].job IN
  /\ rec[r].pc = "revoke" /\ Fenced(r)
  /\ rot' = [rot EXCEPT ![j] = Released([@ EXCEPT !.state = "consumed",
                                           !.temp = FALSE, !.kept = FALSE])]
  /\ files' = files \ {rot[j].old.ref}
  /\ Leave(r)
  /\ UNCHANGED <<agent, updates, removal, rm, upd, remote, wire, phase, crashes>>

\* The old credential is revoked: its file goes, then the job is consumed.  A
\* refused or unknown revoke, or a deletion that reports an error (before or
\* after the unlink), leaves a residual.
RetireOld(r) ==
  LET j == rec[r].job IN
  /\ rec[r].pc = "revoke" /\ Fenced(r)
  /\ \/ /\ rec[r].reply = "ok"
        /\ rot' = [rot EXCEPT ![j] = Released([@ EXCEPT !.state = "consumed",
                                                 !.temp = FALSE, !.kept = FALSE])]
        /\ files' = files \ {rot[j].old.ref}
     \/ /\ Residual(r)
        /\ \/ files' = files
           \/ rec[r].reply = "ok" /\ files' = files \ {rot[j].old.ref}
  /\ Leave(r)
  /\ UNCHANGED <<agent, updates, removal, rm, upd, remote, wire, phase, crashes>>

\* The new credential is revoked: the job fails, then its file goes (or is
\* left for the sweep); otherwise a residual.
EndCompensation(r) ==
  LET j == rec[r].job IN
  /\ rec[r].pc = "compensate" /\ Fenced(r)
  /\ \/ /\ rec[r].reply = "ok"
        /\ rot' = [rot EXCEPT ![j] = Released([@ EXCEPT !.state = "failed",
                                                 !.temp = FALSE, !.kept = FALSE])]
        /\ files' \in {files, files \ {j}}
     \/ rec[r].reply # "ok" /\ Residual(r) /\ files' = files
  /\ Leave(r)
  /\ UNCHANGED <<agent, updates, removal, rm, upd, remote, wire, phase, crashes>>

\* The end of recover(): tokens of failed and closed jobs, as far as their
\* files can be deleted.
RecoverCleanup(r) ==
  /\ rec[r].pc = "cleanup"
  /\ \E D \in SUBSET {j \in Rots : rot[j].state \in {"failed", "closed"} /\ rot[j].temp} :
       /\ files' = files \ D
       /\ rot' = [j \in Rots |-> IF j \in D THEN [rot[j] EXCEPT !.temp = FALSE]
                                            ELSE rot[j]]
  /\ rec' = [rec EXCEPT ![r] = IdleRec]
  /\ UNCHANGED <<agent, updates, removal, rm, upd, remote, wire, phase, crashes>>

-----------------------------------------------------------------------------
(* Update, and the probe that pins an instance.                            *)

\* update_agent reads the record; a changed target is validated (awaits).
BeginUpdate(u) ==
  /\ phase = "up" /\ upd[u].pc = "none" /\ agent.present
  /\ upd' = [upd EXCEPT ![u] = [pc |-> "validating", old |-> agent]]
  /\ UNCHANGED <<agent, updates, rot, rec, removal, rm, files, remote, wire,
                 phase, crashes>>

\* update_and_reset_status: fence, then compare-and-swap on the revision.
UpdateAccepted(old) ==
  agent.present /\ agent.rev = old.rev /\ MutationAllowed(NoOwner)

\* A new legacy token, which only an unpinned Agent's new target needs, is
\* stored first; the file that lost (the old one after a commit, the new one
\* after a refusal) is deleted, or left for the sweep.
EndUpdate(u) ==
  LET old == upd[u].old IN
  /\ phase = "up" /\ upd[u].pc = "validating"
  /\ \E ref \in {old.ref} \cup (IF old.pinned THEN {} ELSE {u}) :
       LET stored == IF ref = u THEN files \cup {u} ELSE files
           loser == IF UpdateAccepted(old) THEN old.ref ELSE u
       IN  /\ IF UpdateAccepted(old)
              THEN /\ agent' = [old EXCEPT !.rev = @ + 1, !.ref = ref, !.cfg = @ + 1]
                   /\ updates' = updates + 1
              ELSE UNCHANGED <<agent, updates>>
           /\ files' \in {stored, IF ref = u THEN stored \ {loser} ELSE stored}
  /\ upd' = [upd EXCEPT ![u].pc = "done"]
  /\ UNCHANGED <<rot, rec, removal, rm, remote, wire, phase, crashes>>

\* The validation of the new target fails.
UpdateFails(u) ==
  /\ upd[u].pc = "validating"
  /\ upd' = [upd EXCEPT ![u].pc = "done"]
  /\ UNCHANGED <<agent, updates, rot, rec, removal, rm, files, remote, wire,
                 phase, crashes>>

\* A probe pins the instance of an imported Agent.
Pin ==
  /\ phase = "up" /\ agent.present /\ ~agent.pinned /\ MutationAllowed(NoOwner)
  /\ agent' = [agent EXCEPT !.pinned = TRUE, !.rev = @ + 1]
  /\ UNCHANGED <<updates, rot, rec, removal, rm, upd, files, remote, wire,
                 phase, crashes>>

-----------------------------------------------------------------------------
(* Removal.                                                                *)

SetPhase(p) == removal' = [removal EXCEPT !.phase = p]
NeedsRevoke == ~removal.local /\ ~removal.old.legacy
RmRuns == phase # "down" /\ rm.pc = "run"

\* remove_agent: create_for_agent captures the row under the fence.
RemoveAgent(local) ==
  /\ phase = "up" /\ rm.pc = "idle" /\ removal.phase = "none"
  /\ agent.present /\ MutationAllowed(NoOwner)
  /\ removal' = [phase |-> "pending", old |-> agent, local |-> local]
  /\ rm' = [pc |-> "run", reply |-> "none"]
  /\ UNCHANGED <<agent, updates, rot, rec, upd, files, remote, wire, phase,
                 crashes>>

\* The remote credential is revoked with its own token; a token that cannot
\* be read or a refused target leaves a residual.
BeginRevoke ==
  /\ RmRuns /\ removal.phase \in {"pending", "revoking", "residual"} /\ NeedsRevoke
  /\ \/ /\ removal.old.ref \in files
        /\ SetPhase("revoking") /\ rm' = [pc |-> "revoke", reply |-> "none"]
        /\ Send("revoke", removal.old.ref, removal.old.ref, Removal)
     \/ SetPhase("residual") /\ rm' = IdleRm /\ wire' = wire
  /\ UNCHANGED <<agent, updates, rot, rec, upd, files, remote, phase, crashes>>

\* Faulty variant: the removal goes on although the revoke was not confirmed.
EndRevokeUnconfirmed ==
  /\ rm.pc = "revoke" /\ SetPhase("revoked")
  /\ rm' = [pc |-> "run", reply |-> "none"]
  /\ UNCHANGED <<agent, updates, rot, rec, upd, files, remote, wire, phase,
                 crashes>>

EndRevoke ==
  /\ rm.pc = "revoke"
  /\ \/ /\ rm.reply = "ok" /\ SetPhase("revoked")
        /\ rm' = [pc |-> "run", reply |-> "none"]
     \/ rm.reply # "ok" /\ SetPhase("residual") /\ rm' = IdleRm
  /\ UNCHANGED <<agent, updates, rot, rec, upd, files, remote, wire, phase,
                 crashes>>

\* A local-only removal, or an admin token, revokes nothing.
SkipRevoke ==
  /\ RmRuns /\ removal.phase \in {"pending", "revoking", "residual"} /\ ~NeedsRevoke
  /\ SetPhase("revoked")
  /\ UNCHANGED <<agent, updates, rot, rec, rm, upd, files, remote, wire, phase,
                 crashes>>

\* delete_if_revision_and_credential, then the phase.  A row that is gone
\* already counts as deleted, a changed one leaves a residual.
DeleteRegistryRow ==
  /\ RmRuns /\ removal.phase = "revoked"
  /\ Unchanged(removal.old) => \A j \in Rots : ~Live(j)
  /\ IF agent.present /\ ~Unchanged(removal.old)
     THEN agent' = agent /\ SetPhase("residual") /\ rm' = IdleRm
     ELSE agent' = [agent EXCEPT !.present = FALSE]
          /\ SetPhase("registry_deleted") /\ rm' = rm
  /\ UNCHANGED <<updates, rot, rec, upd, files, remote, wire, phase, crashes>>

\* Any live rotation of the Agent makes the delete raise RegistryConflict:
\* remove_agent answers an error; recover_removals does not catch it, and the
\* startup fails.
DeleteRefused ==
  /\ RmRuns /\ removal.phase = "revoked"
  /\ Unchanged(removal.old) /\ \E j \in Rots : Live(j)
  /\ rm' = IdleRm
  /\ phase' = IF phase = "removals" THEN "down" ELSE phase
  /\ UNCHANGED <<agent, updates, rot, rec, removal, upd, files, remote, wire,
                 crashes>>

\* The token file goes; a deletion that reports an error (before or after the
\* unlink) leaves a residual.
DeleteToken ==
  /\ RmRuns /\ removal.phase = "registry_deleted"
  /\ \/ /\ files' = files \ {removal.old.ref}
        /\ SetPhase("credential_deleted") /\ rm' = rm
     \/ /\ files' \in {files, files \ {removal.old.ref}}
        /\ SetPhase("residual") /\ rm' = IdleRm
  /\ UNCHANGED <<agent, updates, rot, rec, upd, remote, wire, phase, crashes>>

Complete ==
  /\ RmRuns /\ removal.phase = "credential_deleted"
  /\ SetPhase("completed") /\ rm' = IdleRm
  /\ UNCHANGED <<agent, updates, rot, rec, upd, files, remote, wire, phase,
                 crashes>>

-----------------------------------------------------------------------------
(* The Agent, the network and time.                                        *)

\* authenticate, and authenticate_revoked_for_revoke: a revoked token may
\* still ask for the revocation of itself.
Authorised(m) ==
  \/ remote[m.token] \in {"pending", "active"}
  \/ m.kind = "revoke" /\ m.token = m.cred /\ remote[m.token] = "revoked"

\* activate and revoke are idempotent; the answer reaches the caller only if
\* it still waits for it.
AgentHandles(m) ==
  LET reply == IF Authorised(m) THEN "ok" ELSE "rejected"
      waits == /\ Waits(m.by).cred = m.cred
               /\ \/ Waits(m.by).pc = m.kind
                  \/ Waits(m.by).pc = "compensate" /\ m.kind = "revoke"
  IN  /\ m \in wire /\ wire' = wire \ {m}
      /\ remote' = IF ~Authorised(m) THEN remote
                   ELSE [remote EXCEPT ![m.cred] =
                           IF m.kind = "activate" THEN "active" ELSE "revoked"]
      /\ IF m.by = Removal
         THEN /\ rm' = IF waits THEN [rm EXCEPT !.reply = reply] ELSE rm
              /\ rec' = rec
         ELSE /\ rec' = IF waits THEN [rec EXCEPT ![m.by].reply = reply] ELSE rec
              /\ rm' = rm
      /\ UNCHANGED <<agent, updates, rot, removal, upd, files, phase, crashes>>

Lose(m) ==
  /\ m \in wire /\ wire' = wire \ {m}
  /\ UNCHANGED <<agent, updates, rot, rec, removal, rm, upd, files, remote,
                 phase, crashes>>

\* A pending credential reaches its expiry on the Agent.
PendingLapses(j) ==
  /\ remote[j] = "pending"
  /\ remote' = [remote EXCEPT ![j] = "lapsed"]
  /\ UNCHANGED <<agent, updates, rot, rec, removal, rm, upd, files, wire, phase,
                 crashes>>

LeaseLapses(j) ==
  /\ rot[j].lease
  /\ Stalls \/ \A r \in Recs : rec[r].job = j => ~Fenced(r)
  /\ rot' = [rot EXCEPT ![j].lease = FALSE]
  /\ UNCHANGED <<agent, updates, rec, removal, rm, upd, files, remote, wire,
                 phase, crashes>>

-----------------------------------------------------------------------------
(* Crash and startup.                                                      *)

Die ==
  /\ phase # "down" /\ crashes < MaxCrash
  /\ phase' = "down" /\ crashes' = crashes + 1
  /\ rec' = [r \in Recs |-> IdleRec] /\ rm' = IdleRm
  /\ upd' = [u \in Upds |-> IF upd[u].pc = "none" THEN upd[u]
                            ELSE [upd[u] EXCEPT !.pc = "done"]]
  /\ UNCHANGED <<updates, remote, wire>>

Crash == Die /\ UNCHANGED <<agent, rot, removal, files>>

\* After the old token file is deleted, before the rotation is consumed.
CrashInRetire(r) ==
  /\ rec[r].pc = "revoke" /\ rec[r].reply = "ok" /\ Fenced(r)
  /\ files' = files \ {rot[rec[r].job].old.ref}
  /\ Die /\ UNCHANGED <<agent, rot, removal>>

\* After the new legacy token is stored, before the registry names it.
CrashInUpdate(u) ==
  /\ upd[u].pc = "validating" /\ ~upd[u].old.pinned
  /\ files' = files \cup {u}
  /\ Die /\ UNCHANGED <<agent, rot, removal>>

\* After the registry row is deleted, before the removal's phase says so.
CrashInDelete ==
  /\ RmRuns /\ removal.phase = "revoked" /\ Unchanged(removal.old)
  /\ \A j \in Rots : ~Live(j)
  /\ agent' = [agent EXCEPT !.present = FALSE]
  /\ Die /\ UNCHANGED <<rot, removal, files>>

\* After the token file is deleted, before the removal's phase says so.
CrashInToken ==
  /\ RmRuns /\ removal.phase = "registry_deleted"
  /\ files' = files \ {removal.old.ref}
  /\ Die /\ UNCHANGED <<agent, rot, removal>>

\* recover_and_cleanup: recover_removals first,
Restart ==
  /\ phase = "down" /\ phase' = "removals"
  /\ rm' = IF Unfinished THEN [pc |-> "run", reply |-> "none"] ELSE IdleRm
  /\ UNCHANGED <<agent, updates, rot, rec, removal, upd, files, remote, wire,
                 crashes>>

\* then recover(),
RestartRecovers(r) ==
  /\ phase = "removals" /\ rm.pc = "idle" /\ phase' = "boot"
  /\ rec' = [rec EXCEPT ![r].pc = "next"]
  /\ UNCHANGED <<agent, updates, rot, removal, rm, upd, files, remote, wire,
                 crashes>>

\* then cleanup_orphans: the registry and the rotation rows name what stays.
SweepOrphans ==
  /\ phase = "boot" /\ \A r \in Recs : rec[r].pc = "idle"
  /\ phase' = "up"
  /\ files' = {f \in files : \/ agent.present /\ f = agent.ref
                             \/ \E j \in Rots : \/ rot[j].temp /\ f = j
                                                \/ rot[j].kept /\ f = rot[j].old.ref}
  /\ UNCHANGED <<agent, updates, rot, rec, removal, rm, upd, remote, wire, crashes>>

-----------------------------------------------------------------------------
RotStep(j) ==
  \/ StartRotation(j) \/ Publish(j) \/ Close(j) \/ PendingLapses(j) \/ LeaseLapses(j)

RecStep(r) ==
  \/ (\E j \in Rots : ConsumeRotation(r, j) \/ Claim(r, j))
  \/ NothingToClaim(r) \/ Abandon(r) \/ EndValidation(r)
  \/ EndActivation(r) \/ SwapRegistry(r) \/ RetireOld(r) \/ EndCompensation(r)
  \/ RecoverCleanup(r) \/ CrashInRetire(r) \/ RestartRecovers(r)

UpdStep(u) == BeginUpdate(u) \/ EndUpdate(u) \/ UpdateFails(u) \/ CrashInUpdate(u)

RmStep ==
  \/ (\E local \in BOOLEAN : RemoveAgent(local))
  \/ BeginRevoke \/ EndRevoke \/ SkipRevoke \/ DeleteRegistryRow \/ DeleteRefused
  \/ DeleteToken \/ Complete \/ CrashInDelete \/ CrashInToken

Next ==
  \/ \E j \in Rots : RotStep(j)
  \/ \E r \in Recs : RecStep(r)
  \/ \E u \in Upds : UpdStep(u)
  \/ RmStep
  \/ Pin
  \/ \E m \in wire : AgentHandles(m) \/ Lose(m)
  \/ Crash \/ Restart \/ SweepOrphans

Spec == Init /\ [][Next]_vars

-----------------------------------------------------------------------------
(* Properties.                                                             *)

\* A registered Agent that is not being removed can be used: its token file is
\* there and the Agent accepts the token.  Rotation never swaps in a
\* credential that is not active, and no revoke, cleanup, sweep or late
\* request hits the one in the registry.
RegisteredWorks ==
  agent.present /\ ~Unfinished =>
    agent.ref \in files /\ remote[agent.ref] \in {"active", "admin"}

\* The Manager can revoke every credential that is active: its token is kept
\* until the revoke is confirmed, except where the user chose a local-only
\* removal.
TokenKept ==
  \A c \in Creds : remote[c] = "active" =>
    c \in files \/ (removal.local /\ c = removal.old.ref)

\* No acknowledged update is lost: not to another update, nor to the swap of a
\* rotation, which writes back the row it captured when it started.
UpdatesKept == agent.present => agent.cfg = updates

\* One saga owns the Agent: an unfinished removal and a saved rotation exclude
\* each other, and what the owner captured stays true until it changes it.
OneSaga ==
  /\ Unfinished => /\ \A j \in Rots : ~Saved(j)
                   /\ agent.present => Unchanged(removal.old)
  /\ \A j \in Rots : Saved(j) =>
       agent.present /\ (agent.ref = j \/ Unchanged(rot[j].old))

\* What a finished saga leaves: after a removal neither row nor file, and the
\* managed credential revoked unless local-only; after a rotation the old
\* credential revoked (an admin token is only forgotten) and its file gone.
CleanEnd ==
  /\ removal.phase = "completed" =>
       /\ ~agent.present /\ removal.old.ref \notin files
       /\ removal.local \/ remote[removal.old.ref] \in {"revoked", "admin"}
  /\ \A j \in Rots : rot[j].state = "consumed" =>
       /\ rot[j].old.ref \notin files
       /\ remote[rot[j].old.ref] \in {"revoked", "admin"}

\* The steps of the remover and of startup's recover() that need no user.
RmProgress ==
  \/ BeginRevoke \/ EndRevoke \/ SkipRevoke \/ DeleteRegistryRow \/ DeleteRefused
  \/ DeleteToken \/ Complete
RecProgress(r) ==
  \/ (\E j \in Rots : Claim(r, j)) \/ NothingToClaim(r) \/ Abandon(r)
  \/ EndValidation(r) \/ EndActivation(r) \/ SwapRegistry(r) \/ RetireOld(r)
  \/ EndCompensation(r) \/ RecoverCleanup(r)

\* A stopped Manager is started again, coroutines run, calls end, time passes.
Fairness ==
  /\ WF_vars(Restart) /\ WF_vars(SweepOrphans) /\ WF_vars(RmProgress)
  /\ WF_vars(\E r \in Recs : RestartRecovers(r))
  /\ \A r \in Recs : WF_vars(RecProgress(r))
  /\ \A j \in Rots : WF_vars(LeaseLapses(j))

FairSpec == Spec /\ Fairness

-----------------------------------------------------------------------------
(* What the documentation says and the code does not do.                   *)

\* After a removal failed because the Agent is offline, the user may still
\* remove it locally (guides, credential recovery and residuals).
LocalRemovalOpen ==
  phase = "up" /\ rm.pc = "idle" /\ agent.present /\ removal.phase = "residual"
    => MutationAllowed(NoOwner)

\* A Manager that starts gets to serve requests: trouble with one Agent does
\* not keep the others from being managed.
StartupEnds == phase = "removals" ~> phase = "up"
=============================================================================
