# Verification of ic_env_guard

`ic_env_guard` is a Manager / Agent control plane. A **Manager** keeps a
registry of **Agents**, one per Linux host, with one credential for each. It
enrolls Agents over SSH or a local socket, rotates and revokes their
credentials, probes them, discovers new ones on the LAN and proxies terminal
sessions to them. Each **Agent** keeps the credentials it issued to Managers,
its terminals, observations and log sources.

The hard part is that the Manager's SQLite database, its directory of token
files and the Agents' databases change in steps that no common transaction
covers, while coroutines interleave, requests are late or lost and the Manager
may crash. This directory holds TLA+ models of that part, TLC configurations
that check them and TLAPS proofs of what they promise. Paths below are
relative to `src/backend/ic_env_guard/`.

## Inventory

| Component | State | Operations | What is hard | What makes it correct |
|---|---|---|---|---|
| Enrollment journal (`storage/enrollment_journal.py`, `enrollment/jobs.py`) | table `agent_enrollment_jobs`: state, method, token reference, recovery claim (owner, lease, revision), CLI claim, `save_requested` | create, expire, cancel, save, claim, renew, release, fail, transition, clean up | raw UPDATEs and whole-row writes from snapshots; leases; CHECK constraints | rows stay valid, capacity is respected, a saved job is neither expired nor cancelled |
| Orchestrator (`enrollment/orchestrator.py`) | background tasks, CLI connections, recovery owner | create, publish, consume, cancel, recover, startup | awaits between read and write; crash between file, row and remote call; two recoverers | a job ends once; a registered Agent is usable; no live credential is lost |
| Local socket bootstrap (`orchestrator.py`, `enrollment/manager_socket.py`, `enrollment/socket_server.py`, `enrollment/local_socket.py`, `enrollment/local_cli.py`) | one journal row under a fixed ID, one credential row on the Agent | bootstrap, retry, reissue, compensate | a late request of an earlier attempt names the same enrollment | the registered local Agent is usable |
| Credential store (`enrollment/credential_store.py`) | token files, temporary files, a lifecycle lock | put, replace, read, delete, orphan sweep, recovery of temporary files | files and rows are not written atomically; power is lost between system calls | an acknowledged token is durable, a published one is complete; the sweep deletes only unreferenced files |
| Configuration import (`fleet/importer.py`) | import marker, rows, token files | import, verify, compensate | a commit that raises may have taken effect; two Managers start at once | an imported row has its token; the file is imported once |
| Agent registry (`storage/manager_registry.py`) | tables `agents` and `agent_status`, with revisions | commit, update, swap, delete, status | compare-and-swap on revision and credential | one Agent per endpoint and identity |
| Agent credentials (`storage/manager_credentials.py`, `enrollment/service.py`) | `pending`, `active`, `revoked` row per enrollment | issue, activate, revoke | late and repeated requests | activate and revoke are idempotent; a lapsed credential is never activated |
| Rotation, update, removal (`orchestrator.py`, `storage/removal_journal.py`, `storage/mutation_fence.py`) | rotation jobs, `agent_removal_jobs` phases | start, save, swap, revoke, compensate, remove, resume | two sagas on one Agent; revoke before or after the registry write | the registered credential is never the revoked one |
| Gateway (`proxy/*.py`, `agents/terminal_proxy.py`, `api/agent_*.py`) | reservations, tickets, active sessions, proxy slots, removing set, audit rows | proxied routes, reserve, commit, consume, release, prune, begin/abort removal, session watch | expiry against an upstream call; slots returned twice or never; a record that changes under a request | slots equal users; no session on an Agent being removed; the audit never denies what was sent |
| Fleet probes (`fleet/probes.py`, `fleet/status.py`) | per-Agent locks, `agent_status` | probe, poll, identity conflict | record captured before awaits | a status never describes another revision |
| Discovery (`discovery/service.py`, `storage/discovery.py`) | jobs, results, tasks | start, claim, record, cancel, expire, recover | cancel and deadline against the running task; resume after a crash | a job ends once with its audit outcome; each target is counted once |
| Agent terminals (`terminal/*.py`) | sessions, replay buffers | create, read, write, close, poll, purge | cursors over trimmed bytes | a cursor always denotes the same byte |
| Ingest, observations, logs (`api/ingest_guard.py`, `observations/`, `storage/observations.py`, `logs/`, `storage/log_sources.py`) | active counter, TTL tables | admit, upsert, expire, list by pages | compare-and-swap against expiry and other producers | an acknowledged report is kept; limits hold; a listing is complete |
| Audit log (`db/control_plane_audit.py`, `discovery/audit.py`, `enrollment/audit.py`) | one row for each control-plane request | intent, outcome | the outcome's own commit may fail | modelled where it belongs: gateway and discovery |
| SSH adapters, enrollment CLI, transports, target policy | subprocesses, connections | | I/O | outcomes are choices of the models' environment |
| Authentication, configuration, metrics, systemd, frontend | | | | sequential or stateless; not modelled |

How they interact: the API calls the orchestrator; the orchestrator writes the
journal, the store and the registry and calls the Agents; startup
(`bootstrap/lifecycle.py`) runs removal recovery, the job scan, `recover()`,
the orphan sweep and discovery recovery in that order before requests are
served; the mutation fence makes registry writes look at unfinished removals
and saved rotations; the ticket store blocks removals while a terminal is open
and is blocked by unfinished removals; probes read the registry and publish
status under the revision they saw.

## Plan

1. `EnrollmentJournal`, `Enrollment`, `EnrollmentPromise`: adding an Agent.
   *Done: modelled, checked, refinement and every safety property proved.*
2. `AgentLifecycle`: rotation, update and removal of one Agent, with the
   mutation fence, the removal journal and the registry's revisions.
   *Done: modelled, checked and every safety property proved.*
3. `TerminalGateway`: proxied calls, tickets, slots, audit and removal.
   `Discovery` and `FleetProbes`: jobs and statuses with stale reads.
   *Done: modelled, checked and every safety property proved.*
4. `AgentTerminals`, `AgentIngest`: the Agent's own concurrent parts.
   *Done: modelled, checked and every safety property proved.*
5. `LocalBootstrap`, `ConfigImport`, `CredentialFiles`: the other ways an Agent
   gets into the registry, and the files under all of them.
   *Done: modelled, checked and every safety property proved.*
6. Proofs. *Done: every safety property of every module above, for all values of
   the constants.* Outside the prover's reach and left to TLC: the liveness
   properties `RecoverEnds`, `StaleSessionEnds` and `JobsEnd`. `ManagerTypeOK`
   and `PartsTypeOK`, the type invariants of the two sums of modules, are
   conjunctions of type invariants that are proved one by one.
7. Left to model: SQLite failures inside a discovery worker, legacy admin
   tokens in enrollment, idle timeouts of terminals.

## Enrollment

`EnrollmentJournal` is one row of the journal and each repository method as a
function on rows. `Enrollment` adds the actors; one action is one journal
transaction or one section under the credential store's lifecycle lease, so a
crash can fall between any two of them, and the `CrashIn...` actions place it
inside the sections that write both a file and a row.

| Variable | In the code |
|---|---|
| `rows` | `agent_enrollment_jobs` |
| `past` | `now >= expires_at` of a job |
| `pub` | the publisher of a job: `_run_auto` task or CLI submission, with the row it read |
| `rec` | the `recover()` coroutines: list of claimable jobs, current job, the row as last read, the answer to the call in flight |
| `files` | token files, named by job and method that published them |
| `reg` | `agents` rows (`agent_id` is the enrollment ID) |
| `remote` | the Agent's `manager_credentials` row of the job |
| `wire` | requests sent and not handled yet |
| `epoch`, `phase` | the Manager incarnation (its `recovery_owner`); down, starting, serving |

Actions and code: `CreateAuto` create_auto; `GetExpires` jobs.get; `Cancel`
cancel; `Consume` consume up to its `recover()`; `DispatchAuto`, `AgentIssues`,
`IssueFails`, `PublishIssued`, `PublishVerified` the `_run_auto` task and
`_publish_managed_helper`; `BeginCli`, `CliAbandons` begin_cli_submission and
release_cli_connection; `RecoverPrepare`, `RecoverClaim`, `RecoverCleanup`
recover; `BeginValidation`, `EndValidation` `_recover_validation`;
`BeginActivation`, `EndActivation`, `Commit` `_recover_activation`;
`BeginCompensation`, `EndCompensation` `_compensate_activated_add_conflict`;
`RenewLease`, `AbandonCall` `_run_with_recovery_lease`; `Restart`,
`SweepOrphans` recover_and_cleanup. `AgentHandles`, `Lose`, `DeadlinePasses`,
`PendingLapses`, `LeaseLapses` and `Crash` are the environment.

Abstractions. `ssh_service_key` follows the paths of `ssh_auto` and is not told
apart; `local_socket` has a module
of its own (`LocalBootstrap`) and legacy tokens are left out. One CLI connection per
claim. The two synchronous writes of a publication (`credential_issued`, then
`verifying`) are one step, with a crash possible between them. A graceful
shutdown is a crash between steps. asyncio switches only at awaits; the model
interleaves at every transaction, which also covers handlers that run in worker
threads. A lease is absent, live or lapsed. `MaxRev` and `MaxEpoch` bound
claims, mid-call renewals and restarts; a claim refused at `MaxRev` behaves as
one lost to another owner.

`EnrollmentPromise` is what a client of the API is promised: a job is opened,
may be saved, and ends exactly once, enrolled or closed; only a saved job is
enrolled, saving is irrevocable, one target is enrolled once. `Enrollment`
implements it through the refinement mapping `Outcome`.

### Runs

| Run | Instance | Shows |
|---|---|---|
| `enrollment` | 2 jobs with one target, 2 recoverers, leases may lapse mid-call, one crash anywhere and a restart, after it 1 recoverer; 4.2 million states | `RegisteredUsable`, `LiveCredential`, `SavedIsFinal`, `RowsValid` |
| `enrollment_live` | 2 jobs, 2 recoverers, capacity 1, no crash, with fairness | `TypeOK`, `CapacityBound`, `KeepsPromise`, `RecoverEnds` |
| `enrollment_expiry` | 2 jobs, 1 recoverer, one crash | violation of `ExpiryFreesCapacity` |
| `enrollment_orphan` | 2 jobs, 1 recoverer, one crash | violation of `ActiveTokenKept` |
| `enrollment_startup` | 1 job, 1 recoverer, one crash, with fairness | violation of `StartupFinishesSaved` |

Why the bounds are enough. Two jobs with one target are needed for the
duplicate, its compensation and the capacity; two recoverers for a claim taken
over while its first owner is still in a call; revision 3 lets a job be
claimed, lose its lease and be claimed again while the first owner still holds
the old revision; two incarnations give a restart with the predecessor's claims.
Symmetry under permutations of jobs and recoverers is used only where no
liveness property is checked; every job has the same target, so it is sound.
Deadlock is not checked: a finished set of jobs, or the bounds, may stop the
system.

Fairness (`Fairness`): a coroutine that can run runs (the event loop), its calls
have timeouts, so it may always go on with an unknown outcome; clocks advance;
requests are handled or lost; a crashed Manager is restarted and finishes its
startup. Nothing is assumed of users, of the CLI or of an Agent's answer.

### Findings

* `create_with_capacity` (and the two other creates) expire overdue jobs by
  writing the state column only. A row with a CLI claim may not be `expired` by
  the table's CHECK, so one abandoned CLI enrollment makes every create fail
  until that job is read or recovered (`enrollment_expiry`).
* After an activation whose outcome is unknown the job fails and the token is
  deleted, while the Agent may still activate the credential: an active
  credential nobody can revoke. The design says the token is deleted only after
  a commit or a confirmed revoke (`enrollment_orphan`).
* A Manager restarted before the lease of its crashed predecessor lapses does
  not finish the predecessor's saved job, and nothing retries it
  (`enrollment_startup`).

### Proofs

Proved for every finite or infinite set of jobs and recoverers, every `Target`
and all bounds, from `EnrollmentAssumption` (the bounds are natural numbers,
`NoJob` is not a job):

* `TypeCorrect` (`EnrollmentProofs`): `Spec => []TypeOK`. One lemma per group of
  actions; the helpers `WriteType`, `EnterType`, `LeaveType` carry the common
  shapes.
* `InvCorrect`, `SavedFinal`, `Refinement` (`EnrollmentPromiseProofs`):
  `SavedIsFinal` is an invariant and `Spec => P!Spec`.

The inductive invariant `Inv` has five parts. `RowsOK` says of each row how its
state, save flag, claim and reference go together. `RegOK` says the registry
holds exactly the consumed jobs; without it a step that ends a job could take
an enrolled one. `PubOK` says a publisher's snapshot was taken before the save,
so its late whole-row write, compared on the state alone, cannot undo one.
`RecOK` says the same of recoverers in the other direction: what they read was
in order, and a saved snapshot means a saved job. `AskedOK` covers requests
that outlive their sender: an activation on the wire is for a saved job. The
step argument is two-layered: `NextMove` shows that every action moves the
rows in one of five ways (`Move`), `MoveKeeps` and `MoveRefines` show once what
such a move preserves and which step of the promise it is, and the remaining
lemmas treat snapshots and requests.

`EnrollmentTokenProofs` proves the other four, `RowsValid`, `CapacityBound`,
`LiveCredential` and `RegisteredUsable`, on top of these.

* `RowsStayValid` and `CapacityHolds`. `JournalInv` says that every stored row is
  sound, that a publisher before its publication agrees with a running row on
  who enrolls (`PubsFit`), and that a snapshot read before an await is valid and
  its row has ended or still names the same token (`PubsFit`, `SnapsFit`).
  Without the last, a recoverer whose claim was taken over could bring back a
  row without its reference. `Forward`, `Steady` and `Calm` say what a step may
  do to one row, once for all repository methods; `CapacityInv` needs `Steady`
  (nothing but a create makes a row live) and that the set of live jobs is
  finite, although `Jobs` need not be.
* `LiveKeepsToken` and `RegisteredStaysUsable`. `TokenInv` adds `AgentInv`: a
  revoke is sent, and a job is compensated, only when its target belongs to
  another registered job (`Lost`, which no later step undoes), an accepted
  activation or revoke took effect, and an activated job's credential is active
  or revoked. So the credential a commit registers is active and no revoke for
  it is, or ever will be, on the wire. `RegMoves`, `RemoteMoves`, `WireMoves` and
  `FileKept` summarise what a step may do to the registry, the Agents, the
  network and the token files.

`AgentHandles` once chose between refusal and effect with a `CASE` whose arms
overlapped. TLA+ leaves open which arm such a `CASE` takes, TLC takes the first,
and the proof could not be done; it is a conditional now, with the meaning TLC
had checked.

Only model-checked: `RecoverEnds` (liveness under fairness is outside the
prover). The proofs about the other modules are described with them.

## Agent lifecycle

`AgentLifecycle` follows one registered Agent, enrolled or imported with an
admin token, through rotations, updates and its removal. It keeps apart what
the code keeps apart: the registry row, the rotation rows, the removal row, the
token files and the Agent's own credential rows.

| Variable | In the code |
|---|---|
| `agent` | the `agents` row: revision, credential reference, whether `instance_id` is known (`pinned`), whether it uses an admin token (`legacy`), and the settings an update writes, as a version (`cfg`) |
| `updates` | how many updates were acknowledged (history) |
| `rot` | rotation rows of `agent_enrollment_jobs`: state, whether the new (`temp`) and the old (`kept`) reference is set, the captured Agent (`old`), the claim |
| `rec` | the `recover()` coroutines |
| `removal`, `rm` | the `agent_removal_jobs` row and the coroutine that drives it |
| `upd` | update requests and the record each read |
| `files`, `remote`, `wire` | as in `Enrollment`; credentials are named by the job or request that brought them |
| `phase` | down, `recover_removals` running, `recover()` running, serving |

Actions and code: `StartRotation`, `ConsumeRotation` start_rotation and
consume_rotation with their journal transactions; `Publish`, `Close` the
publisher, cancel and expiry (detailed in `Enrollment`); `Claim` ...
`RecoverCleanup` recover and `_recover_rotation`; `SwapRegistry` swap_rotation
and the branches around it; `RetireOld` the revocation and deletion of the old
credential; `EndCompensation` `_compensate_rotation_registry_mismatch`;
`BeginUpdate`, `EndUpdate`, `UpdateFails` update_agent; `Pin` the probe that
learns an instance; `RemoveAgent` ... `Complete` remove_agent and
`_resume_removal`; `DeleteRefused` the RegistryConflict of a live rotation;
`Restart`, `RestartRecovers`, `SweepOrphans` recover_and_cleanup. The `CrashIn...`
actions fall between an effect and the row that records it.

Abstractions. A claim is named by the coroutine that took it, which stands for
owner and revision (`Enrollment` has the detail). Deadlines are choices: an
unsaved rotation may close, a pending credential may lapse and a call may end
unanswered at any time. A deletion may report an error before or after the
unlink. set_enabled and an update of the display name are updates without a
validation. Terminal usage (`begin_removal`) belongs to `TerminalGateway`.

| Run | Instance | Shows |
|---|---|---|
| `lifecycle` | 2 rotations in a row, or 1 rotation with 2 updates; 2 recoverers, stalled leases, one crash | `TypeOK`, `RegisteredWorks`, `TokenKept`, `OneSaga`, `CleanEnd`, `UpdatesKept` |
| `lifecycle_local` | 1 rotation, no crash | violation of `LocalRemovalOpen` |
| `lifecycle_startup` | 1 rotation, one crash, with fairness | violation of `StartupEnds` |

Requests are one-shot (each rotation and update runs once), so revisions need no
bound of their own. Two rotations let a credential be both the new one of a job
and the old one of the next; two updates give a lost update its chance; both
managed and imported Agents are initial states of every run.

`TokenKept` holds here while its counterpart `ActiveTokenKept` fails for
enrollment: a rotation whose activation outcome is unknown stays residual with
its token, an enrollment fails and deletes it.

Proofs (`LifecycleProofs`). The types and all five safety properties are proved
for any number of rotations, updates, recoverers and crashes, with and without
stalls, from `LifecycleAssumption` alone (jobs, tokens and coroutines have
different names). Lemmas first say what any step can do to one column: one
rotation row (`JobStep`), the registry row (`AgentStep`), the removal
(`RemovalSteps`), one credential at the Agent (`RemoteStep`), one request
(`WireStep`), one recoverer (`RecMoves`), one token file (`FileStep`). The
invariants are then argued from these and not action by action, in two layers.

* `SagaInv`, for `OneSaga` and, with `SnapInv` alone, `UpdatesKept`. A snapshot
  of the row is no newer than the row, and the row itself if it is as new
  (`SnapInv`), because every accepted write raises the revision: that makes the
  compare-and-swaps sound. A claim that is still held implies the state its
  holder read (`ClaimInv`), the remover runs only while its row is unfinished
  (`RmInv`), and at most one rotation is saved (`OneSaved`).
* `CredInv`, for `RegisteredWorks`, `TokenKept` and `CleanEnd`. None of the
  three is inductive, because requests outlive their senders. `WireInv` says
  what any request on the wire may still do: an activate belongs to a job that
  was saved, and a revoke that is not the remover's hits only a credential that
  is `Dead`, one the registry neither names nor can come to name. `JobInv`
  relates a job's state, its references, its file and the Agent's view of its
  credential; `RecInv` what a recoverer may rely on at each await with its
  claim, and what it may rely on without; `KindInv` and `FreshInv` keep admin
  tokens and tokens of open updates apart from managed ones; `RefInv` makes a
  credential that a later saga replaces the credential of a consumed job.
  `WorksInv`, `ActiveInv` (someone names every active credential) and `EndInv`
  (what a removal has withdrawn at each phase) are the properties with what
  their induction needs. An unpinned row is the delicate case: its rotation can
  be activated but never swapped in, so `RecInv` and `Dead` have to tell it from
  the pinned one.

TLC checked each conjunct on the instance of `lifecycle` before it was proved.
`StartupEnds` and `LocalRemovalOpen` are refuted, see below.

Fairness (`Fairness`) is used by `lifecycle_startup` only: a stopped Manager is
started again, the coroutines of startup run, their calls end, leases lapse. It
assumes nothing of users.

### Findings

* A removal that could not revoke blocks the local-only removal documented for
  this case: the mutation fence counts it as unfinished, and only a restart
  resumes it, with a revoke again (`lifecycle_local`). A rotation that stays
  residual, for instance because its pending credential lapsed, blocks the
  Agent in the same way.
* A removal started while an unsaved rotation is live revokes the credential
  and is then refused by the registry. At the next startup `recover_removals`
  does not catch that refusal, so the Manager does not start, and the expiry
  that would end the rotation comes only later (`lifecycle_startup`). With the
  exception caught, the property holds.

## The Manager at work: gateway, discovery, fleet probes

`TerminalGateway`, `Discovery` and `FleetProbes` share no variable in the code
that matters to their properties, so they are three modules. `MCManager` is
their sum: a behaviour picks one part in `focus` and runs it while the others
rest. One run then checks all three without multiplying their states.

### TerminalGateway

| Variable | In the code |
|---|---|
| `record` | the `agents` row: present, enabled, revision |
| `removal`, `removing` | the removal job (durable) and `GatewayTicketStore._removing` (in memory) |
| `call` | a proxied HTTP request: its route, what it captured, where it awaits |
| `sock` | a WebSocket attach and the ticket it consumed |
| `slots`, `reserved`, `issued`, `active` | `GatewayProxyLimiter._slots`, and the store's `_reservations`, `_tickets`, `_active` |
| `lapsed` | entries whose `expires_at` has passed and that nobody pruned |
| `audit`, `sent` | the audit row of a request, and what it really put on the wire (history) |

A route is described by what distinguishes its control: whether it asks for the
capability before or after its audit intent, or not at all, whether it reserves
a ticket, and what an invalid request does. The eleven route families of
`api/agent_*.py` and the v1 and v2 probe routes are such descriptions.
`BeginToken*`, `BeginPlain`, `BeginDirect`, `BeginProbeCall`, `BeginSnapshot` are
the handlers up to their first await; `EndProbeCall`, `EndSnapshotCheck`,
`EndCheck`, `EndSend`, `CommitTicket` what follows an await in `request_json` and
its callers; `Attach...`, `ConnectEnds`, `SessionEnds`, `Watch`
the WebSocket handler; `UpdateRecord`, `StartRemoval`, `DeleteRow`, `EndRemoval`
the registry and `remove_agent`; `Lapse` and `Restart` time and crashes. Handlers
run on the event loop, so what stands between two awaits is one step. The
captured fields of a record change only with its revision, which stands for
them. Bodies, queries and frames are left out; the commit of an audit outcome
may fail.

Calling the HTTP client does not mean that anything leaves: `Sends` chooses. A
request that did not leave may still fail as "unknown", or be reported as
"dispatched" when building it raised a `TypeError` or `ValueError`
(`BuildFails`, `http.py:263`; on the v1 routes without the gateway client the
error escapes and the row stays pending). The reverse, a `ValueError` out of the
transport after the request left, has the outcome of an answer. `ProbeReports`
is what a probe says of itself: it may call an unsent request dispatched in the
same way, and never says "not_dispatched" of one that left. The v1 probe route
(`agents.py:339`) does not ask and closes its row "dispatched".

`SlotsConserved` is about expiry, release, refusal and commit each being able to
end the same entry. `RemovalQuiet` needs the durable check of `_durably_blocked`:
`remove_agent` lifts the in-memory block in `finally` even when the removal stays
residual. `DispatchNeverDenied` relates the audit row to what was sent, on every
error path: "not_dispatched" is never said of an operation that left, nor, where
the intent is recorded before the capability probe, of a probe; nothing leaves
without a committed intent. The monitoring snapshot probes before its intent, so
its row is about the operation alone. The converse, that "dispatched" means
something left, holds for sessions and is not true of calls (below).
`StaleSessionEnds` is liveness: a session on a changed Agent is closed
without either peer speaking.

Proofs (`GatewayProofs`). The three invariants are proved for any calls,
sessions, Agents, routes and caps, from `GatewayAssumption`. `SlotsConserved`
is inductive with the types and one more fact (`Settled`): a ticket or a
session belongs to a call whose handler has returned, so the release in that
handler cannot meet it. `RemovalQuiet` follows by induction on top of it.
`DispatchNeverDenied` (theorem `NeverDenied`) needs what is true of a request
under way (`CallHonest`, `SockHonest`): which of its sends and audit writes lie
behind it at each await, and that what its capability probe reported never
understates the probe.
`StaleSessionEnds` is liveness and stays with TLC.

### Discovery

`job` and `jaudit` are the rows, `task` and `stage` the task of a job and where
its workers are with each target, `cancels` the cancel requests that wait for
the task, `late` the jobs past their deadline, `probed` the probes really sent
(history). `StartJob` is start with its expiry of overdue jobs; `Claim`, `Take`,
`Acquire`, `EndProbe`, `EndTask` the task and its workers; `RequestCancel`,
`TaskCancelled`, `EndCancel` cancel, whose wait may time out; `Down` and the
`CrashIn...` actions stop the Manager between any two writes; `RecoverRows` and
`Resume` are recover_and_cleanup. A worker that waited for the semaphore does not
ask again for the deadline, so a probe may leave after it; the result is then
still recorded if the job runs.

`EndedIsFinal` is about late workers and a cancel that gave up waiting;
`AuditMatchesJob`, `CompletedChecked` and `DispatchHonest` about what the audit
row and the completed job claim, over crashes; `JobsEnd` is liveness.

Proofs (`ProbeProofs`). The three invariants and the two action properties are
proved for any sets of jobs and targets and any limits; only `JobsEnd` is left
to TLC. The inductive invariant `DiscoveryInv` is the type invariant and one
conjunction for each job (`JobInv`): a job not created has no rows, task or
probes; the audit intent precedes the job; a task and its cancels exist only
while the process does; a row that ended without its audit outcome is one the
startup repairs; results are of targets whose workers have ended; and a job
that has sent a probe is marked as dispatched, which is what `DispatchHonest`
needs when the probe was sent by a process that crashed. Steps on one job leave
the others alone, so each action is one lemma about one job.

### FleetProbes

`fleet` and `status` are the rows of `agents` and `agent_status`, `prober` the
probe that holds an Agent's lock with the record and the time it captured,
`polling` whether the polling task lives. `BeginProbe` captures;
`CapabilitiesAnswered`, `CapabilitiesMissing`, `LegacyAnswered`,
`SummaryAnswered`, `ProbeFails` are the answers; `SetEnabled`, `UpdateAgent`,
`RemoveAgent`, `RegisterAgent` change the record under a probe (an update may
also enable or disable the Agent). `ConnectionStatus`
is the projection the API shows. A v2 Agent that lacks a capability is not told
apart from a ready one.

`StatusDescribesRecord` says that what is shown was answered by the endpoint and
the instance of the record. The endpoint is claimed for records that came from
the configuration file only: an Agent that is removed and registered again under
the same id starts at revision one again, so a probe that was under way across
both can publish an answer of the former endpoint. The identity is compared, so
a ready status is of the right instance even then.

Proofs (`ProbeProofs`). `StatusDescribesRecord`, `IdentitiesDistinct` and
`StatusNeverOlder` are proved for any sets of Agents and instances, from
`FleetAssumption`. The invariant `FleetInv` says how far apart a record, its
status row and the probe under way may be: the status row's revision is never
ahead of the record's (`Follows`), a row that is shown fits the record it is
shown with (`Fits`), and a probe of an imported record that captured the
record's present revision knows its endpoint (`Tracks`); the last is false for
records that are registered again, for the reason above.

### Runs

| Run | Instance | Shows |
|---|---|---|
| `manager` | gateway: 3 calls, 2 sockets, 1 Agent, 2 slots, 1 outstanding ticket, 1 restart; discovery: 2 jobs, 2 targets (one refused), 1 worker, 1 active job, 1 crash; fleet: 2 Agents (1 imported), 2 instances, 3 revisions; 0.8 million states | gateway: `SlotsConserved`, `RemovalQuiet`, `DispatchNeverDenied`, `StaleSessionEnds`; discovery: `EndedIsFinal`, `AuditMatchesJob`, `CompletedChecked`, `DispatchHonest`, `JobsEnd`; fleet: `StatusDescribesRecord`, `IdentitiesDistinct`, `StatusNeverOlder`; all: `ManagerTypeOK` |
| `gateway_slots` | the gateway of `manager` | violation of `ExpiryFreesSlots` |
| `fleet_loop` | the fleet of `manager` | violation of `PollingSurvives` |

Bounds. `GatewayLoad` lets at most `MaxLoad` requests, new revisions, removals
and restarts happen in one behaviour, and calls begin in the order of their
numbers; the first call takes every route, the others ask for a connect token. A
call on another route counts twice, and only the first call and the first
session may fail before anything leaves: what the others send is a repetition.
Two token calls and a session are enough for a slot to be handed on while
another waits; a third call is allowed when nothing else has happened, so that
the caps are reached with a session open. Two discovery jobs are needed for the
capacity and for the expiry of one by the start of the other; one target that
is refused and one that is probed give the two ways to a result. Two Agents, one
without an identity, are needed for a conflict and a pin.

Fairness. `Watch` is weakly fair: the handler polls the record every 50 ms.
`DiscoveryProgress` is weakly fair: tasks run on the event loop, probes have
timeouts, the cancel wait is two seconds and the supervisor restarts a stopped
Manager. Nobody has to start, cancel or let a deadline pass.

### Findings

* `create_agent_terminal_connect_token` asks the limiter before the ticket store,
  which is the one that prunes. When every slot is held by a ticket that expired
  unused, each request is refused and prunes nothing, until a removal begins, an
  expired ticket is presented or the Manager restarts (`gateway_slots`).
* An imported v1 Agent removed while its capabilities request is in flight makes
  the v1 fallback raise an exception that `probe_all` does not catch; the polling
  of every Agent ends (`fleet_loop`).

Also seen, and not a run of its own: `request_json` (`http.py:263`) reports every
`TypeError` and `ValueError` as "dispatched", also one raised while the request was
built, and the v1 probe route (`agents.py:339`) closes its audit row "dispatched"
whatever the probe reports; the tests of the v2 probe route
(`test_agent_registry_v2.py:214`) ask for the exact state. The error is on the safe
side: the audit may claim a dispatch that was none, and never denies one, which is
what `DispatchNeverDenied` says.

## The parts beside it: terminals, ingest, local bootstrap, import, files

`MCParts` is the sum of five more modules in the same way as `MCManager`.

### AgentTerminals

One shell of an Agent, its replay buffer, and the connections of one browser
pane that reconnects with the count of what it has received. `term` is the
session's status and whether its `process` attribute is set, `shell` whether the
process lives; `written`, `taken` and `buffer` are the output the shell wrote,
what readers took from the pseudo-terminal and what `ReplayBuffer` retains;
`conn` and `thread` are the handlers and the threads their pumps read in. Output
is counted in units, one for each read, and unit *n* is the *n*-th written, so a
wrong replay shows as a wrong number. Nothing in the code is locked and a reading
thread outlives the cancellation of its pump, so `BeginRead`, `ReadUnit`,
`StoreUnit`, `EndRead`, `EndOfFile` and `ReadRaises` are separate steps, and
`BeginClose` and `EndClose` too.

`ReplayExact` is stated for replays made when every earlier connection had
stopped reading (`overlap`) and begun inside the retained range (`cut`). Without
the first condition the code has no such guarantee: the reader of a former or
half-open connection takes units from the pseudo-terminal and stores them after
the replay of the next connection was computed; they reach the buffer and not
the new pane. A dead shell may be marked exited by `_poll_exits` while its last
output is unread. Input, resize and the idle timeout are left out.

Proofs (`AgentProofs`). `TerminalsTypeOK`, `NoOrphanShell` and `ReplayExact` are
proved for any connections, any buffer size and any number of units, from
`TerminalsAssumption`. `SessionInv` says why nobody leaves a shell behind: who
ends a session (a close after its kill, a thread that read the end of the
output) has the shell dead already. `StreamInv` follows a unit from the
pseudo-terminal to the pane: the buffer's cursor and the units in threads
together do not exceed what was taken; while nothing has overlapped there is one
thread, and what it holds ends at the buffer's cursor (`SingleInv`); and the
messages to an open pane, in order, continue its screen up to what the thread
holds (`ChainInv`). The chain is stated with a function from messages to offsets
rather than with the concatenation of the messages, which would be a recursive
definition and its facts inductions over data. Lengths are claimed with
overlap too: that is what bounds the cursor of a reconnection.

### AgentIngest

`inflight` is the counter of the capacity middleware, `req` the requests with
what each read, `table` the rows of observations and log sources, `page` a client
that lists page by page. `ReadRow` and `SwapRow` are the two statements of an
upsert, retried up to `MaxAttempts`; `DeleteExpired` one batch of the expiry
loop. `AckedKept` is about an older report overwriting a newer one between the
two statements or after a deletion; `IngestBounded` about inserts at the limit
and every way out of a request; `PagesComplete` about rows that come and go
between pages.

Proofs (`AgentProofs`). The types and the three properties are proved for any
finite sets of requests and keys, any payloads, limits and page size, from
`IngestAssumption`. `IngestInv` adds to them that the counter counts the
requests in hand (`Counted`), that `max_series` bounds the rows
(`SeriesBounded`), and that a request about to swap reports a later time than
the row it read (`Ahead`), which is why a swap that succeeds cannot undo an
acknowledged report. `PageInv` says that an open listing has returned exactly
what is shown up to its cursor; `PageOf` is the lemma about a page and its
cursor, for which a finite set of keys is shown to have a greatest one.

### LocalBootstrap

The Agent beside the Manager is enrolled under a fixed ID, so a retry re-arms
the same journal row and asks the Agent to reissue over its one credential row.
It extends `EnrollmentJournal`: the row functions are the ones of `Enrollment`.
`attempt` is the bootstrap request, `rescue` any other `recover()`, `wire` the
requests not handled yet, which may be of an earlier attempt. `LocalUsable` says
that the registered Agent's credential is the active one whatever of these is
handled late. Two facts about time are assumed, from the code's constants: an
attempt's work before its save (about 25 s) ends before the job's deadline (60 s
at least), and a claim does not lapse under the coroutine that holds it. A saved
job whose pinned address the target policy refuses, or whose token cannot be
read, is failed by another `recover()` although the Agent may hold its credential
active; it is not registered then. A job
in `activation_requested` whose pending credential lapsed stays residual: it is
neither re-armed nor ended.

Proofs (`StoreProofs`). `BootstrapTypeOK` and `LocalUsable` are proved for any
number of attempts, credentials, incarnations and claims, from
`BootstrapAssumption` (there is at least one incarnation; `NoCred` and `NoRef`
are no credentials). `BootInv` adds to them: an attempt runs in a Manager that
has recovered and for an Agent that is not registered (`BootAlone`); what the
row may be in each phase of an attempt (`BootPhases`); a claim is on a row with
a credential, and an activated row is the one the Agent holds active
(`BootRows`); everything named was issued (`BootIssued`), so a new credential is
in no late request; and no revoke is under way for the registered credential, a
saved one or the one an attempt works with (`BootRevokes`). The delicate part of
`BootPhases` is that an attempt and another `recover()` may hold the same fence:
the save writes the row the attempt read when it published, so it takes the
revision that the other's claim took too. The other may then write the saved row
back to `verified` or `failed`. The invariant says what remains true: the row
then has a later revision than the attempt's claim, so the attempt's own write
is refused.

### ConfigImport

Imports of concurrent Manager starts: marker, rows, token files, the references
each import knows (`refs`, the `new_references` of the code), the credential
lease. A `put` may raise before or after its file is published, and returns no
reference then (`CredentialFiles` has the system calls); a commit may raise with
or without effect, a rollback may fail, a file may resist deletion, be gone
already or be deleted with an error, a process may die anywhere. `RemoveImported`,
`EnrollAgent` and `CleanupOrphans` are the work of a Manager that has started, the
last one the orphan sweep that ends its recovery. `ImportedHaveTokens` needs
`_verify_committed_import` before the compensation deletes, and the lease, which
keeps the sweep away from files whose rows are not committed;
`RemovedStayRemoved` needs the marker to be read inside the transaction;
`NoStrayTokens` says what a finished import has left: no file without a row when
it imported or skipped, and at most the one file whose `put` raised when it
reports a plain failure.

`StoreProofs` proves the types and the three for any sets of starts and Agents, from
`ImportAssumption` (finite sets, `Nobody` and `Enrolled` are no importers). Their
inductive invariant `ImportInv` adds: a row, a removed Agent or an
import that succeeded means that the marker is set, so no later transaction
commits (`Marked`); an import has no files before it writes them (`NoneYet`);
one that has not committed, or whose transaction was rolled back, is in no
row, so its compensation may delete all of its files (`NotInRows`); only an
import that gave up has a file it does not know (`Listed`); and an import that
writes holds the lease and still has every file it wrote (`LeaseHeld`,
`FilesHeld`). `ByImport` splits `NoStrayTokens` by import; `OnlyState` treats once
the steps that change nothing but the state of an import, `FilesGo` the ones that
delete files no row refers to.

What the importer leaves. The implementation plan (line 288) asks the importer to remove the newly copied
files on any failure. A file whose `put` raised after `os.link` is not removed,
and the failure is not reported as an incomplete compensation. `NoStrayTokens`
therefore allows that one file per failed import, and no other. The sweep of the
next Manager that starts deletes it (`CleanupOrphans`).

### CredentialFiles

The system calls under `put`, `replace` and `delete`. `after` is the set of
directories a power loss may leave (the file system keeps directory operations
in order; assumed), `synced` the inodes whose contents are on disk, `acked` what
callers were told. The other modules use these operations as atomic; this module
is why they may.

Proofs (`StoreProofs`). The types and the three properties are proved for any
number of writes, references and power losses, from `FilesAssumption` (the sets
are finite; `NoInode` and `"starting"`, the name under which a starting Manager
holds the lease, are no write). `FilesInv` adds to them that the writer between
its first and its last system call holds the lease (`Exclusive`), that no
directory a power loss may leave names an inode before it is published
(`Unpublished`), that a temporary file about to be published is complete
(`Complete`), that a publication is still in place when the directory is
synchronized (`Placed`), and that an inode has one published name (`OneName`).

### Run

`parts` checks the five: 2 connections, a buffer of 2 units and 3 units written
(so the buffer wraps); 3 requests over 4 keys with 2 series allowed and 2
admitted at once; 3 attempts, 3 credentials, 2 incarnations; 3 imports of 2
Agents; 3 writes, 2 references, 1 power loss; 2.1 million states. It checks
`PartsTypeOK`, `ReplayExact`, `NoOrphanShell`, `AckedKept`, `IngestBounded`,
`PagesComplete`, `LocalUsable`, `ImportedHaveTokens`, `RemovedStayRemoved`,
`NoStrayTokens`, `AckedDurable`, `NoTornToken` and `RecoveryAccepts`. The payloads
of `Reports` are two reports for one time, an older one for the same key, two more
series and a log source, the least that brings every answer of an upsert about.
Requests, connections and credentials are used in the order of their numbers.

## Not modelled

SSH adapters, the SSH enrollment CLI, HTTP and WebSocket transports and the
target policy: I/O and address arithmetic, whose outcomes (success, refusal,
error, timeout, late effect) are choices of the modules above. Authentication,
configuration parsing, metrics, systemd units and service supervision: stateless
checks or calls to external programs. The web frontend presents the API's
answers. Inside modelled components: legacy admin tokens in enrollment, the
creation of an enrollment from a discovery result (it differs in the result row
it links), SQLite failures inside a discovery worker (where `gather` keeps the
exception and the job may complete without that target's result), tailing of
log files, idle timeouts of terminals.
