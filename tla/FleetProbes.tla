---------------------------- MODULE FleetProbes ----------------------------
(***************************************************************************)
(* Fleet probes: how the Manager learns the state and the identity of its  *)
(* Agents, and what it shows of them.                                      *)
(*                                                                         *)
(* A probe captures an Agent's registry record and the time, asks the      *)
(* Agent twice (capabilities, summary) and publishes a status for the      *)
(* record it captured.  Probes come from the polling loop and from API     *)
(* calls; a lock per Agent keeps one at a time for each Agent, a semaphore *)
(* bounds all of them.  The first answer for an imported Agent pins its    *)
(* instance; an instance another Agent has is a conflict of both.          *)
(* The identity lock is never waited for: its body does not suspend.       *)
(***************************************************************************)
EXTENDS Naturals, FiniteSets

CONSTANTS
  FleetAgents,
  Instances,         \* identities an Agent may report
  NoInstance,        \* an imported Agent that is not pinned yet
  Imported,          \* Agents that come from the configuration file
  Edited,            \* bound: Agents the administrator touches
  MaxParallel,       \* max_parallel_probes
  StaleAfter,        \* stale_after_seconds
  MaxFleetRevision,  \* bound: revision of a record
  MaxTarget,         \* bound: endpoints an Agent has over time
  MaxClock           \* bound: the clock

ASSUME FleetAssumption ==
  /\ IsFiniteSet(FleetAgents) /\ Edited \cup Imported \subseteq FleetAgents
  /\ NoInstance \notin Instances
  /\ MaxParallel \in Nat \ {0} /\ StaleAfter \in Nat \ {0}
  /\ MaxFleetRevision \in Nat /\ MaxTarget \in Nat /\ MaxClock \in Nat

VARIABLES
  fleet,    \* [FleetAgents -> FleetRow]: rows of agents
  status,   \* [FleetAgents -> StatusRow]: rows of agent_status, rev 0 for none
  prober,   \* [FleetAgents -> ...]: the probe that holds the Agent's lock
  polling,  \* whether the task of _fleet_probe_loop lives
  clock

fleetVars == <<fleet, status, prober, polling, clock>>

-----------------------------------------------------------------------------
Identity == Instances \cup {NoInstance}
\* "ready" stands for an Agent that answered on v2, "degraded" for one that only
\* has v1; a v2 Agent that lacks a capability is not told apart.
Connection == {"unknown", "disabled", "ready", "degraded", "unavailable"}
Errors == {"none", "failed", "identity_conflict", "identity_changed",
           "legacy_identity_unavailable"}

\* legacy: imported from the configuration, with an admin token; target numbers
\* the endpoints an Agent has had.
FleetRow == [present: BOOLEAN, enabled: BOOLEAN, rev: Nat, inst: Identity,
             legacy: BOOLEAN, target: Nat]
\* from: the endpoint whose answer (capabilities, summary) the row shows, 0 for
\* none; inst: the instance that gave it; at: updated_at.
StatusRow == [rev: Nat, conn: Connection, error: Errors, from: Nat,
              inst: Identity, at: Nat]
Idle == [pc |-> "idle", rev |-> 0, target |-> 0, legacy |-> FALSE, now |-> 0,
         seen |-> NoInstance]
NoStatus == [rev |-> 0, conn |-> "unknown", error |-> "none", from |-> 0,
             inst |-> NoInstance, at |-> 0]

FleetTypeOK ==
  /\ fleet \in [FleetAgents -> FleetRow]
  /\ status \in [FleetAgents -> StatusRow]
  /\ prober \in [FleetAgents ->
       [pc: {"idle", "capabilities", "summary", "legacy"}, rev: Nat,
        target: Nat, legacy: BOOLEAN, now: Nat, seen: Identity]]
  /\ polling \in BOOLEAN
  /\ clock \in Nat

\* Faulty variant: a connection status the table does not know.
ResetStatusEnabled(row) ==
  [NoStatus EXCEPT !.rev = row.rev, !.at = clock,
                   !.conn = IF row.enabled THEN "enabled" ELSE "disabled"]

\* _insert_initial_status and update_and_reset_status
ResetStatus(row) ==
  [NoStatus EXCEPT !.rev = row.rev, !.at = clock,
                   !.conn = IF row.enabled THEN "unknown" ELSE "disabled"]

\* Enrolled Agents, and Agents imported from the configuration file, which have
\* no identity yet.
FleetInit ==
  /\ clock = 1
  /\ \E id \in [FleetAgents -> Identity] :
       /\ \A a \in FleetAgents : id[a] = NoInstance <=> a \in Imported
       /\ \A a, b \in FleetAgents \ Imported : id[a] = id[b] => a = b
       /\ fleet = [a \in FleetAgents |->
            [present |-> TRUE, enabled |-> TRUE, rev |-> 1, inst |-> id[a],
             legacy |-> a \in Imported, target |-> 1]]
  /\ status = [a \in FleetAgents |-> ResetStatus(fleet[a])]
  /\ prober = [a \in FleetAgents |-> Idle]
  /\ polling = TRUE

-----------------------------------------------------------------------------
(* Status rows.                                                            *)

\* Faulty variant: the row it replaces may be newer.
WritableAnyTime(a, rev, now) == fleet[a].present /\ fleet[a].rev = rev

\* update_many_if_target_revisions: the revision is the record's, and the row
\* it replaces is not newer.
Writable(a, rev, now) ==
  /\ fleet[a].present /\ fleet[a].rev = rev
  /\ ~(status[a].rev = rev /\ status[a].at > now)

\* All rows or none.
Publish(rows, now) ==
  status' = IF \A a \in DOMAIN rows : Writable(a, rows[a].rev, now)
            THEN [a \in FleetAgents |-> IF a \in DOMAIN rows THEN rows[a] ELSE status[a]]
            ELSE status
One(a, row) == [x \in {a} |-> row]

\* _failure_status: the last answer stays, if it was given at this revision.
FailureRow(a, rev, now, error) ==
  [IF status[a].rev = rev THEN status[a] ELSE NoStatus
     EXCEPT !.rev = rev, !.conn = "unavailable", !.error = error, !.at = now]

Fails(a, error) ==
  LET p == prober[a] IN
  Publish(One(a, FailureRow(a, p.rev, p.now, error)), p.now)

-----------------------------------------------------------------------------
(* Beginning a probe.                                                      *)

Ends(a) == prober' = [prober EXCEPT ![a] = Idle]
Conflicted(a) == status[a].rev = fleet[a].rev /\ status[a].error = "identity_conflict"
Refused(a) == ~fleet[a].present \/ ~fleet[a].enabled \/ Conflicted(a)
Running == {a \in FleetAgents : prober[a].pc # "idle"}

\* probe, polled or asked for by an API call: the lock, the semaphore, the record
\* and the time.  The target or the credential may be refused at once; an
\* imported Agent without a usable profile goes to its v1 route directly.
BeginProbe(a) ==
  LET r == fleet[a]
      p == [pc |-> "capabilities", rev |-> r.rev, target |-> r.target,
            legacy |-> r.legacy, now |-> clock, seen |-> NoInstance]
  IN
  /\ prober[a].pc = "idle" /\ Cardinality(Running) < MaxParallel
  /\ ~Refused(a)
  /\ \/ prober' = [prober EXCEPT ![a] = p] /\ UNCHANGED status
     \/ /\ r.legacy
        /\ prober' = [prober EXCEPT ![a] = [p EXCEPT !.pc = "legacy"]]
        /\ UNCHANGED status
     \/ /\ Publish(One(a, FailureRow(a, r.rev, clock, "failed")), clock)
        /\ UNCHANGED prober
  /\ UNCHANGED <<fleet, polling, clock>>

-----------------------------------------------------------------------------
(* Answers.                                                                *)

\* An error of the client or an answer that does not parse.
ProbeFails(a) ==
  /\ prober[a].pc \in {"capabilities", "summary"}
  /\ Fails(a, "failed") /\ Ends(a)
  /\ UNCHANGED <<fleet, polling, clock>>

\* The capabilities name an instance; the summary is asked for.
CapabilitiesAnswered(a, i) ==
  /\ prober[a].pc = "capabilities"
  /\ prober' = [prober EXCEPT ![a].pc = "summary", ![a].seen = i]
  /\ UNCHANGED <<fleet, status, polling, clock>>

\* AgentRegistry.get, which probe_legacy calls: it raises for a removed Agent.
LegacyLookup(a) == fleet[a].present

\* 404: an Agent captured as imported is asked over v1, at the endpoint its record
\* has by now.  An AgentNotFoundError is not caught by probe_all: the loop ends, if
\* the probe was one of its own.
CapabilitiesMissing(a) ==
  /\ prober[a].pc = "capabilities" /\ prober[a].legacy
  /\ \/ /\ LegacyLookup(a)
        /\ prober' = [prober EXCEPT ![a].pc = "legacy", ![a].target = fleet[a].target]
        /\ UNCHANGED polling
     \/ /\ ~LegacyLookup(a)
        /\ Ends(a)
        /\ polling' \in {polling, FALSE}
  /\ UNCHANGED <<fleet, status, clock>>

\* probe_legacy: what the v1 health route answers for, without an identity.
LegacyRow(p) ==
  [rev |-> p.rev, conn |-> "degraded", error |-> "legacy_identity_unavailable",
   from |-> p.target, inst |-> NoInstance, at |-> p.now]

\* _legacy_fallback: the v1 answer, or its failure, for the captured record.
LegacyAnswered(a) ==
  LET p == prober[a] IN
  /\ p.pc = "legacy"
  /\ \/ Publish(One(a, LegacyRow(p)), p.now)
     \/ Publish(One(a, FailureRow(a, p.rev, p.now, "failed")), p.now)
  /\ Ends(a)
  /\ UNCHANGED <<fleet, polling, clock>>

-----------------------------------------------------------------------------
(* The summary has come: the identity, then the status.  One step.         *)

\* Faulty variant: only Agents that have answered are compared.
MatchingSeen(a, i) ==
  {b \in FleetAgents \ {a} : fleet[b].present /\ fleet[b].inst = i /\ status[b].inst = i}

Matching(a, i) == {b \in FleetAgents \ {a} : fleet[b].present /\ fleet[b].inst = i}

\* _mark_identity_conflicts
MarkConflicts(S, now) ==
  Publish([b \in S |-> FailureRow(b, fleet[b].rev, now, "identity_conflict")], now)

\* The published row; a pin has moved the revision, so no row of it is newer.
ReadyRow(p, rev) ==
  [rev |-> rev, conn |-> "ready", error |-> "none", from |-> p.target,
   inst |-> p.seen, at |-> p.now]

SummaryAnswered(a) ==
  LET p == prober[a]
      r == fleet[a]
  IN
  /\ p.pc = "summary"
  /\ Ends(a)
  /\ \/ /\ ~r.present \/ r.rev # p.rev
        /\ UNCHANGED <<fleet, status>>
     \/ /\ r.present /\ r.rev = p.rev
        /\ Matching(a, p.seen) # {}
        /\ MarkConflicts({a} \cup Matching(a, p.seen), p.now)
        /\ UNCHANGED fleet
     \/ /\ r.present /\ r.rev = p.rev
        /\ Matching(a, p.seen) = {} /\ r.inst \notin {NoInstance, p.seen}
        /\ Publish(One(a, FailureRow(a, r.rev, p.now, "identity_changed")), p.now)
        /\ UNCHANGED fleet
     \/ /\ r.present /\ r.rev = p.rev
        /\ Matching(a, p.seen) = {} /\ r.inst = p.seen
        /\ Publish(One(a, ReadyRow(p, r.rev)), p.now)
        /\ UNCHANGED fleet
     \/ /\ r.present /\ r.rev = p.rev
        /\ Matching(a, p.seen) = {} /\ r.inst = NoInstance
        /\ r.rev < MaxFleetRevision
        /\ fleet' = [fleet EXCEPT ![a].inst = p.seen, ![a].rev = @ + 1]
        /\ status' = [status EXCEPT ![a] = ReadyRow(p, r.rev + 1)]
     \/ \* The mutation fence holds the record: the pin is refused.
        /\ r.present /\ r.rev = p.rev
        /\ Matching(a, p.seen) = {} /\ r.inst = NoInstance
        /\ UNCHANGED <<fleet, status>>
  /\ UNCHANGED <<polling, clock>>

-----------------------------------------------------------------------------
(* Administration of the registry.                                         *)

\* FleetRegistry.set_enabled: update_if_revision leaves the status row; a row
\* with an identity error, of whatever revision, forbids to enable.
SetEnabled(a) ==
  /\ fleet[a].present /\ fleet[a].rev < MaxFleetRevision
  /\ fleet[a].enabled \/ status[a].error \notin {"identity_conflict", "identity_changed"}
  /\ fleet' = [fleet EXCEPT ![a].enabled = ~@, ![a].rev = @ + 1]
  /\ UNCHANGED <<status, prober, polling, clock>>

\* Faulty variant: the revision stays.
UpdateAgentSameRevision(a) ==
  /\ fleet[a].present
  /\ \E t \in {fleet[a].target, fleet[a].target + 1}, e \in BOOLEAN :
       /\ t <= MaxTarget
       /\ fleet' = [fleet EXCEPT ![a].target = t, ![a].enabled = e]
       /\ status' = [status EXCEPT ![a] = ResetStatus(fleet'[a])]
  /\ UNCHANGED <<prober, polling, clock>>

\* update_agent: update_and_reset_status
UpdateAgent(a) ==
  /\ fleet[a].present /\ fleet[a].rev < MaxFleetRevision
  /\ \E t \in {fleet[a].target, fleet[a].target + 1}, e \in BOOLEAN :
       /\ t <= MaxTarget
       /\ fleet' = [fleet EXCEPT ![a].target = t, ![a].enabled = e, ![a].rev = @ + 1]
       /\ status' = [status EXCEPT ![a] = ResetStatus(fleet'[a])]
  /\ UNCHANGED <<prober, polling, clock>>

\* The end of a removal; the status row goes with the record.
RemoveAgent(a) ==
  /\ fleet[a].present
  /\ fleet' = [fleet EXCEPT ![a].present = FALSE]
  /\ status' = [status EXCEPT ![a] = NoStatus]
  /\ UNCHANGED <<prober, polling, clock>>

\* The end of an enrollment under an id that is free: a record at revision one,
\* with an instance no other record has.
RegisterAgent(a, i) ==
  /\ ~fleet[a].present /\ Matching(a, i) = {} /\ fleet[a].target < MaxTarget
  /\ fleet' = [fleet EXCEPT ![a] =
       [present |-> TRUE, enabled |-> TRUE, rev |-> 1, inst |-> i, legacy |-> FALSE,
        target |-> @.target + 1]]
  /\ status' = [status EXCEPT ![a] = ResetStatus(fleet'[a])]
  /\ UNCHANGED <<prober, polling, clock>>

Tick ==
  /\ clock < MaxClock
  /\ clock' = clock + 1
  /\ UNCHANGED <<fleet, status, prober, polling>>

\* A crash or a restart: the rows stay.
RestartFleet ==
  /\ prober' = [a \in FleetAgents |-> Idle]
  /\ polling' = TRUE
  /\ UNCHANGED <<fleet, status, clock>>

-----------------------------------------------------------------------------
FleetNext ==
  \/ \E a \in FleetAgents : BeginProbe(a)
  \/ \E a \in FleetAgents : ProbeFails(a)
  \/ \E a \in FleetAgents, i \in Instances : CapabilitiesAnswered(a, i)
  \/ \E a \in FleetAgents : CapabilitiesMissing(a)
  \/ \E a \in FleetAgents : LegacyAnswered(a)
  \/ \E a \in FleetAgents : SummaryAnswered(a)
  \/ \E a \in Edited : SetEnabled(a)
  \/ \E a \in Edited : UpdateAgent(a)
  \/ \E a \in Edited : RemoveAgent(a)
  \/ \E a \in Edited, i \in Instances : RegisterAgent(a, i)
  \/ Tick
  \/ RestartFleet

FleetSpec == FleetInit /\ [][FleetNext]_fleetVars

-----------------------------------------------------------------------------
(* What the API shows (FleetStatusService._project).                       *)

Shown(a) == status[a].rev = fleet[a].rev

ConnectionStatus(a) ==
  CASE ~fleet[a].enabled -> "disabled"
    [] fleet[a].enabled /\ ~Shown(a) -> "unknown"
    [] fleet[a].enabled /\ Shown(a) /\ status[a].error = "identity_conflict" -> "unavailable"
    [] OTHER -> IF /\ status[a].conn \in {"ready", "degraded", "unavailable"}
                   /\ clock >= status[a].at + StaleAfter
                THEN "unknown" ELSE status[a].conn

-----------------------------------------------------------------------------
(* Properties.                                                             *)

\* What is shown of an Agent was answered by the endpoint its record names and,
\* when it is ready, by the instance its record is pinned to: a probe that was
\* under way across an update, a disable, a pin or a removal does not publish
\* what it learned (update_many_if_target_revisions).  A second registration
\* under the same id starts again at revision one, and only its identity is kept.
StatusDescribesRecord ==
  \A a \in FleetAgents : fleet[a].present /\ Shown(a) =>
    /\ status[a].from # 0 /\ fleet[a].legacy => status[a].from = fleet[a].target
    /\ ConnectionStatus(a) = "ready" => status[a].inst = fleet[a].inst
    /\ ConnectionStatus(a) = "ready" => fleet[a].inst # NoInstance

\* Two registered Agents are never pinned to one instance, and never both shown
\* as ready with one instance (_probe under the identity lock, the pin and the
\* enrollment that registers).
IdentitiesDistinct ==
  \A a, b \in FleetAgents : a # b /\ fleet[a].present /\ fleet[b].present =>
    /\ fleet[a].inst = fleet[b].inst => fleet[a].inst = NoInstance
    /\ ConnectionStatus(a) = "ready" /\ ConnectionStatus(b) = "ready"
         => status[a].inst # status[b].inst

\* At one revision a status row is never replaced by what was observed earlier,
\* whichever of an Agent's own probe and another Agent's conflict ends first.
StatusNeverOlder ==
  [][\A a \in FleetAgents :
       status'[a].rev = status[a].rev => status'[a].at >= status[a].at]_fleetVars

\* Nothing that happens to one Agent ends the polling of the others.
PollingSurvives == polling
=============================================================================
