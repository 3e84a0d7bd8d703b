-------------------------- MODULE TerminalGateway --------------------------
(***************************************************************************)
(* The Manager's gateway to the Agents: proxied HTTP calls, the connect    *)
(* tokens and proxy slots of terminal sessions, and the audit rows that    *)
(* say what was dispatched.                                                *)
(*                                                                         *)
(* Every handler runs on the event loop, so the code between two awaits is *)
(* one step.  A call that asks for a connect token holds a proxy slot from *)
(* its reservation to its ticket to the session that consumes the ticket;  *)
(* the three stores and the slot set name an entry by the call it began    *)
(* with.  The captured fields of a record (credential, profile, endpoint,  *)
(* method, source) change only with its revision, which stands for them.   *)
(***************************************************************************)
EXTENDS Naturals, FiniteSets

CONSTANTS
  Calls,          \* proxied HTTP requests
  Socks,          \* WebSocket attach requests
  Agents,
  NoTicket,       \* a socket that holds no ticket
  MaxSlots,       \* max_active_terminal_proxies
  MaxOutstanding, \* max_outstanding_tickets
  MaxRevision,    \* bound: revision of a record
  MaxRestart      \* bound: restarts of the Manager

VARIABLES
  record,    \* [Agents -> [present, enabled, rev]]: rows of agents
  removal,   \* [Agents -> ...]: the removal job of each Agent (durable)
  removing,  \* GatewayTicketStore._removing
  call,      \* [Calls -> [pc, route, agent, rev, probe]]
  sock,      \* [Socks -> [pc, ticket]]
  slots,     \* GatewayProxyLimiter._slots
  reserved,  \* GatewayTicketStore._reservations
  issued,    \* GatewayTicketStore._tickets
  active,    \* GatewayTicketStore._active
  lapsed,    \* entries of the two former whose expires_at has passed
  audit,     \* [Calls \cup Socks -> ...]: control_plane_audit rows (durable)
  sent,      \* [Calls \cup Socks -> SUBSET {"probe", "op"}]: put on the wire
  restarts

gatewayVars == <<record, removal, removing, call, sock, slots, reserved, issued,
                 active, lapsed, audit, sent, restarts>>

-----------------------------------------------------------------------------
(* Routes.  "token" reserves a ticket and passes the record it captured,   *)
(* "check_first" asks for the capability before it writes the audit        *)
(* intent, "plain" after it, "direct" not at all; "probe" and "probe_v2"   *)
(* only probe the Agent.  A request a route finds invalid is answered      *)
(* without an audit row, or with one closed at once.                       *)

Route(kind, invalid) == [kind |-> kind, invalid |-> invalid]

TerminalRoute == Route("plain", "never")
TokenRoute == Route("token", "never")
ServiceRoute == Route("plain", "never")
ServiceRouteV2 == Route("plain", "silent")
ServiceMutation == Route("plain", "recorded")
LogRoute == Route("plain", "silent")
ObservationRoute == Route("plain", "silent")
AuditRoute == Route("plain", "never")
AuditRouteV2 == Route("plain", "silent")
SnapshotRoute == Route("check_first", "never")
HealthRoute == Route("direct", "never")
ProbeRoute == Route("probe", "never")
ProbeRouteV2 == Route("probe_v2", "never")
Routes == {TerminalRoute, TokenRoute, HealthRoute, ServiceRoute, ServiceRouteV2,
           ServiceMutation, LogRoute, ObservationRoute, AuditRoute, AuditRouteV2,
           SnapshotRoute, ProbeRoute, ProbeRouteV2}

ASSUME GatewayAssumption ==
  /\ NoTicket \notin Calls
  /\ Calls \cap Socks = {}
  /\ IsFiniteSet(Calls) /\ IsFiniteSet(Socks)
  /\ MaxSlots \in Nat /\ MaxOutstanding \in Nat
  /\ MaxRevision \in Nat /\ MaxRestart \in Nat

DispatchStates == {"not_dispatched", "unknown", "dispatched"}
RemovalStates == {"none", "open", "residual", "done"}
Actors == Calls \cup Socks

GatewayTypeOK ==
  /\ record \in [Agents -> [present: BOOLEAN, enabled: BOOLEAN, rev: Nat]]
  /\ removal \in [Agents -> RemovalStates]
  /\ removing \subseteq Agents
  /\ call \in [Calls -> [pc: {"new", "early", "check", "probing", "send", "full", "done"},
                         route: Routes, agent: Agents, rev: Nat, probe: DispatchStates]]
  /\ sock \in [Socks -> [pc: {"new", "check", "connect", "open", "done"},
                         ticket: Calls \cup {NoTicket}]]
  /\ slots \subseteq Calls /\ reserved \subseteq Calls /\ issued \subseteq Calls
  /\ active \subseteq Calls /\ lapsed \subseteq Calls
  /\ audit \in [Actors -> {"none", "pending"} \cup DispatchStates]
  /\ sent \in [Actors -> SUBSET {"probe", "op"}]
  /\ restarts \in Nat

GatewayInit ==
  /\ record \in [Agents -> [present: {TRUE}, enabled: BOOLEAN, rev: {1}]]
  /\ removal = [a \in Agents |-> "none"]
  /\ removing = {}
  /\ call \in [Calls -> [pc: {"new"}, route: Routes, agent: Agents, rev: {0},
                         probe: {"not_dispatched"}]]
  /\ sock = [s \in Socks |-> [pc |-> "new", ticket |-> NoTicket]]
  /\ slots = {} /\ reserved = {} /\ issued = {} /\ active = {} /\ lapsed = {}
  /\ audit = [x \in Actors |-> "none"]
  /\ sent = [x \in Actors |-> {}]
  /\ restarts = 0

-----------------------------------------------------------------------------
(* The ticket store.                                                       *)

Unfinished(a) == removal[a] \in {"open", "residual"}
\* Faulty variant: only the block that remove_agent lifts is asked.
BlockedInMemory(a) == a \in removing

\* _durably_blocked, and the block of begin_removal.
Blocked(a) == a \in removing \/ Unfinished(a)

Pruned == (reserved \cup issued) \cap lapsed
Usage(a) == {c \in (reserved \cup issued \cup active) \ Pruned : call[c].agent = a}

\* _matches_capture and _ticket_matches_record
Matches(a, rev) == record[a].present /\ record[a].enabled /\ record[a].rev = rev

\* Faulty variant: the slots of what is pruned are not released.
PruneToKeepsSlots(res, tic, held) ==
  /\ reserved' = res \ (reserved \cap lapsed)
  /\ issued' = tic \ (issued \cap lapsed)
  /\ slots' = held
  /\ lapsed' = lapsed \ Pruned

\* The stores after _prune_expired_unlocked, with these reservations, tickets
\* and slots besides.
PruneTo(res, tic, held) ==
  /\ reserved' = res \ (reserved \cap lapsed)
  /\ issued' = tic \ (issued \cap lapsed)
  /\ slots' = held \ Pruned
  /\ lapsed' = lapsed \ Pruned

\* _release_reservation: a pruned reservation has released its slot already.
ReleaseReservation(c) ==
  /\ reserved' = reserved \ {c}
  /\ slots' = IF c \in reserved THEN slots \ {c} ELSE slots
  /\ lapsed' = IF c \in reserved THEN lapsed \ {c} ELSE lapsed
  /\ UNCHANGED issued

ReleaseActive(c) ==
  /\ active' = active \ {c}
  /\ slots' = IF c \in active THEN slots \ {c} ELSE slots

\* An entry's expires_at passes.
Lapse(c) ==
  /\ c \in (reserved \cup issued) \ lapsed
  /\ lapsed' = lapsed \cup {c}
  /\ UNCHANGED <<record, removal, removing, call, sock, slots, reserved, issued,
                 active, audit, sent, restarts>>

-----------------------------------------------------------------------------
(* Audit rows.  The commit of an outcome may fail, which leaves the intent *)
(* pending; an event recorded and closed in one commit then never existed, *)
(* while one whose intent has a commit of its own is pending.              *)

CloseAudit(x, ds) == \E row \in {ds, "pending"} : audit' = [audit EXCEPT ![x] = row]
RecordFailure(x) == \E row \in {"not_dispatched", "none"} :
                      audit' = [audit EXCEPT ![x] = row]
RecordRouteFailure(x) == CloseAudit(x, "not_dispatched") \/ UNCHANGED audit
OpenAudit(x) == audit' = [audit EXCEPT ![x] = "pending"]

Combined(first, second) ==
  CASE "dispatched" \in {first, second} -> "dispatched"
    [] "unknown" \in {first, second} /\ "dispatched" \notin {first, second} -> "unknown"
    [] OTHER -> "not_dispatched"

-----------------------------------------------------------------------------
(* Proxied calls.                                                          *)

CallAt(c, pc) == call' = [call EXCEPT ![c].pc = pc]

\* The handler returns, and its locals are gone; rev is what its ticket keeps.
Returns(c, rev) ==
  call' = [call EXCEPT ![c].pc = "done", ![c].rev = rev, ![c].probe = "not_dispatched"]

\* A call ends; a connect-token call that did not commit gives up what it holds.
EndCall(c) ==
  /\ Returns(c, 0)
  /\ ReleaseReservation(c)

\* The part of request_json before its first await: the record is captured,
\* then the target and the credential are read.  A fresh capability list skips
\* the await of check_capability, and the client is called in the same step.
Captured(c, rev) == call' = [call EXCEPT ![c].pc = "check", ![c].rev = rev]

\* The client is called, after these requests.  The operation leaves, or never
\* does: the client can not build a request of the path, the headers and the
\* body it is given, or has no connection.
Sends(c, rev, ds, seen) ==
  /\ call' = [call EXCEPT ![c].pc = "send", ![c].rev = rev, ![c].probe = ds]
  /\ \E op \in SUBSET {"op"} : sent' = [sent EXCEPT ![c] = seen \cup op]

StartRequest(c, a) ==
  /\ record[a].present /\ record[a].enabled
  /\ OpenAudit(c)
  /\ \/ Captured(c, record[a].rev) /\ UNCHANGED sent
     \/ Sends(c, record[a].rev, "not_dispatched", sent[c])

\* No record, a disabled one, a changed one, no profile, no credential, no
\* capability; or the intent could not be committed.
RequestRefused(c) == RecordRouteFailure(c) /\ UNCHANGED sent

InvalidRequest(c) ==
  /\ call[c].route.invalid # "never"
  /\ IF call[c].route.invalid = "recorded" THEN RecordFailure(c) ELSE UNCHANGED audit
  /\ UNCHANGED sent

\* The limiter has no slot: the ticket store is not asked, and prunes nothing.
BeginTokenFull(c) ==
  /\ call[c].pc = "new" /\ call[c].route.kind = "token"
  /\ Cardinality(slots) >= MaxSlots
  /\ CallAt(c, "full")
  /\ RecordFailure(c)
  /\ UNCHANGED <<record, removal, removing, sock, slots, reserved, issued, active,
                 lapsed, sent, restarts>>

\* No such Agent: the slot is released before the ticket store is asked.
BeginTokenUnknown(c) ==
  /\ call[c].pc = "new" /\ call[c].route.kind = "token"
  /\ Cardinality(slots) < MaxSlots
  /\ ~record[call[c].agent].present
  /\ CallAt(c, "done")
  /\ RecordFailure(c)
  /\ UNCHANGED <<record, removal, removing, sock, slots, reserved, issued, active,
                 lapsed, sent, restarts>>

BeginToken(c) ==
  LET a == call[c].agent
      outstanding == Cardinality((reserved \cup issued) \ Pruned)
  IN
  /\ call[c].pc = "new" /\ call[c].route.kind = "token"
  /\ Cardinality(slots) < MaxSlots
  /\ record[a].present
  /\ \/ /\ Blocked(a) \/ outstanding >= MaxOutstanding
        /\ CallAt(c, "full")
        /\ RecordFailure(c)
        /\ UNCHANGED sent
        /\ PruneTo(reserved, issued, slots)
     \/ /\ ~Blocked(a) /\ outstanding < MaxOutstanding
        /\ \/ /\ StartRequest(c, a)
              /\ PruneTo(reserved \cup {c}, issued, slots \cup {c})
           \/ /\ CallAt(c, "done") /\ RequestRefused(c)
              /\ PruneTo(reserved, issued, slots)
  /\ UNCHANGED <<record, removal, removing, sock, active, restarts>>

BeginPlain(c) ==
  /\ call[c].pc = "new" /\ call[c].route.kind = "plain"
  /\ \/ StartRequest(c, call[c].agent)
     \/ CallAt(c, "done") /\ RequestRefused(c)
     \/ CallAt(c, "done") /\ InvalidRequest(c)
  /\ UNCHANGED <<record, removal, removing, sock, slots, reserved, issued, active,
                 lapsed, restarts>>

\* _proxy_agent_status: no capability is asked for, so nothing is awaited before
\* the client is called.
BeginDirect(c) ==
  LET a == call[c].agent IN
  /\ call[c].pc = "new" /\ call[c].route.kind = "direct"
  /\ \/ /\ record[a].present /\ record[a].enabled
        /\ OpenAudit(c)
        /\ Sends(c, record[a].rev, "not_dispatched", sent[c])
     \/ CallAt(c, "done") /\ RequestRefused(c)
  /\ UNCHANGED <<record, removal, removing, sock, slots, reserved, issued, active,
                 lapsed, restarts>>

\* The two probe routes, up to the await of the probe.
BeginProbeCall(c) ==
  LET a == call[c].agent IN
  /\ call[c].pc = "new" /\ call[c].route.kind \in {"probe", "probe_v2"}
  /\ \/ /\ record[a].present /\ record[a].enabled
        /\ OpenAudit(c)
        /\ CallAt(c, "probing")
        /\ UNCHANGED sent
     \/ CallAt(c, "done") /\ RequestRefused(c)
  /\ UNCHANGED <<record, removal, removing, sock, slots, reserved, issued, active,
                 lapsed, restarts>>

\* What a probe reports of itself.  "dispatched" may be an error of the legacy
\* probe, which takes one raised before the request left for a bad answer.
ProbeReports(ds, probed) == ds = "not_dispatched" => ~probed

\* The probe has ended.  The v1 route does not ask what the probe reports; an
\* error that escapes a route leaves its row pending.
EndProbeCall(c) ==
  /\ call[c].pc = "probing"
  /\ \E ds \in DispatchStates, probed \in BOOLEAN :
       /\ ProbeReports(ds, probed)
       /\ sent' = [sent EXCEPT ![c] = IF probed THEN {"probe"} ELSE {}]
       /\ CloseAudit(c, IF call[c].route.kind = "probe" THEN "dispatched" ELSE ds)
  /\ CallAt(c, "done")
  /\ UNCHANGED <<record, removal, removing, sock, slots, reserved, issued, active,
                 lapsed, restarts>>

\* The monitoring snapshot checks the capability before the audit intent.
BeginSnapshot(c) ==
  /\ call[c].pc = "new" /\ call[c].route.kind = "check_first"
  /\ \/ /\ record[call[c].agent].present /\ record[call[c].agent].enabled
        /\ CallAt(c, "early")
        /\ UNCHANGED audit
     \/ /\ ~(record[call[c].agent].present /\ record[call[c].agent].enabled)
        /\ CallAt(c, "done")
        /\ RecordFailure(c)
  /\ UNCHANGED <<record, removal, removing, sock, slots, reserved, issued, active,
                 lapsed, sent, restarts>>

\* The capability is there or not; a legacy Agent is then called with the record
\* read before the check, whatever became of it.
EndSnapshotCheck(c) ==
  /\ call[c].pc = "early"
  /\ \E probe \in SUBSET {"probe"} :
       \/ /\ CallAt(c, "done")
          /\ RecordFailure(c) \/ RecordRouteFailure(c)
          /\ sent' = [sent EXCEPT ![c] = @ \cup probe]
       \/ /\ OpenAudit(c)
          /\ Sends(c, record[call[c].agent].rev, "not_dispatched", sent[c] \cup probe)
  /\ UNCHANGED <<record, removal, removing, sock, slots, reserved, issued, active,
                 lapsed, restarts>>

\* check_capability returns, having probed the Agent or not; the capture is
\* compared again and the request leaves without another await.
EndCheck(c) ==
  LET a == call[c].agent IN
  /\ call[c].pc = "check"
  /\ \E ds \in DispatchStates, probed \in BOOLEAN :
       /\ ProbeReports(ds, probed)
       /\ LET seen == IF probed THEN sent[c] \cup {"probe"} ELSE sent[c] IN
          \/ /\ EndCall(c)
             /\ CloseAudit(c, ds)
             /\ sent' = [sent EXCEPT ![c] = seen]
          \/ /\ Matches(a, call[c].rev)
             /\ Sends(c, call[c].rev, ds, seen)
             /\ UNCHANGED <<audit, slots, reserved, issued, lapsed>>
  /\ UNCHANGED <<record, removal, removing, sock, active, restarts>>

\* Faulty variant: every error of the client is taken for a request not sent.
RequestFailsUnsent(c) == EndCall(c) /\ CloseAudit(c, "not_dispatched")

\* The client gives up: a path it rejects, refused, timed out, a connection lost,
\* a 401.  Whether the Agent acted is unknown.
RequestFails(c) == EndCall(c) /\ CloseAudit(c, Combined(call[c].probe, "unknown"))

\* An answer; under a changed record, or of a wrong shape, it is not passed on.
AnswerArrives(c) == "op" \in sent[c] /\ EndCall(c) /\ CloseAudit(c, "dispatched")

\* A header or a body can not be encoded: request_json takes the TypeError or
\* ValueError for a bad answer, and out of a legacy call it escapes.
BuildFails(c) == "op" \notin sent[c] /\ EndCall(c) /\ CloseAudit(c, "dispatched")

EndSend(c) ==
  /\ call[c].pc = "send"
  /\ RequestFails(c) \/ AnswerArrives(c) \/ BuildFails(c)
  /\ UNCHANGED <<record, removal, removing, sock, active, sent, restarts>>

\* A good answer of connect-token: commit the ticket.
CommitTicket(c) ==
  LET a == call[c].agent IN
  /\ call[c].pc = "send" /\ call[c].route.kind = "token"
  /\ "op" \in sent[c]
  /\ Matches(a, call[c].rev)
  /\ Returns(c, call[c].rev)
  /\ CloseAudit(c, "dispatched")
  /\ IF c \in reserved \ lapsed /\ ~Blocked(a)
     THEN PruneTo(reserved \ {c}, issued \cup {c}, slots)
     ELSE PruneTo(reserved \ {c}, issued, slots \ (reserved \cap {c}))
  /\ UNCHANGED <<record, removal, removing, sock, active, sent, restarts>>

-----------------------------------------------------------------------------
(* Terminal sessions.                                                      *)

Socket(s, pc, t) == sock' = [sock EXCEPT ![s] = [pc |-> pc, ticket |-> t]]

\* finally: release_active
EndSocket(s) == Socket(s, "done", NoTicket) /\ ReleaseActive(sock[s].ticket)

\* Authentication, cursor or ticket missing or wrong, an unknown or disabled
\* Agent, another actor's or another path's ticket: the ticket stays.  The
\* handler's release_active finds no active ticket of this name, because a
\* close before accept does not suspend.  An expired ticket gives up its slot.
AttachRefused(s) ==
  /\ sock[s].pc = "new"
  /\ Socket(s, "done", NoTicket)
  /\ RecordFailure(s)
  /\ \/ UNCHANGED <<slots, issued, lapsed>>
     \/ \E c \in issued \cap lapsed :
          /\ issued' = issued \ {c}
          /\ slots' = slots \ {c}
          /\ lapsed' = lapsed \ {c}
  /\ UNCHANGED <<record, removal, removing, call, reserved, active, sent, restarts>>

\* The ticket is consumed before the record is compared with it.
Attach(s, c) ==
  LET a == call[c].agent IN
  /\ sock[s].pc = "new"
  /\ c \in issued \ lapsed
  /\ record[a].present /\ record[a].enabled
  /\ issued' = issued \ {c}
  /\ \/ /\ Matches(a, call[c].rev)
        /\ Socket(s, "check", c)
        /\ active' = active \cup {c}
        /\ UNCHANGED <<slots, audit>>
     \/ /\ ~Matches(a, call[c].rev)
        /\ Socket(s, "done", NoTicket)
        /\ slots' = slots \ {c}
        /\ RecordFailure(s)
        /\ UNCHANGED active
  /\ UNCHANGED <<record, removal, removing, call, reserved, lapsed, sent, restarts>>

\* ensure_capability returns; resolve_captured_route compares the record again.
AttachChecked(s) ==
  LET c == sock[s].ticket IN
  /\ sock[s].pc = "check"
  /\ \E probe \in SUBSET {"probe"} :
       \/ /\ Matches(call[c].agent, call[c].rev)
          /\ Socket(s, "connect", c)
          /\ OpenAudit(s)
          /\ \E op \in SUBSET {"op"} : sent' = [sent EXCEPT ![s] = @ \cup probe \cup op]
          /\ UNCHANGED <<active, slots>>
       \/ /\ EndSocket(s)
          /\ sent' = [sent EXCEPT ![s] = @ \cup probe]
          /\ RecordFailure(s) \/ CloseAudit(s, "not_dispatched")
  /\ UNCHANGED <<record, removal, removing, call, reserved, issued, lapsed, restarts>>

ConnectEnds(s) ==
  /\ sock[s].pc = "connect"
  /\ \/ /\ "op" \in sent[s]
        /\ Socket(s, "open", sock[s].ticket)
        /\ UNCHANGED <<active, slots, audit>>
     \/ EndSocket(s) /\ CloseAudit(s, "unknown")
  /\ UNCHANGED <<record, removal, removing, call, reserved, issued, lapsed, sent, restarts>>

\* Either side disconnects, a frame is too large, a peer does not drain.
SessionEnds(s) ==
  /\ sock[s].pc = "open"
  /\ EndSocket(s)
  /\ CloseAudit(s, "dispatched") \/ CloseAudit(s, "unknown")
  /\ UNCHANGED <<record, removal, removing, call, reserved, issued, lapsed, sent, restarts>>

\* Faulty variant: only a disabled or removed Agent is noticed.
WatchEnabled(s) ==
  LET a == call[sock[s].ticket].agent IN
  /\ sock[s].pc = "open"
  /\ ~(record[a].present /\ record[a].enabled)
  /\ EndSocket(s)
  /\ CloseAudit(s, "dispatched")
  /\ UNCHANGED <<record, removal, removing, call, reserved, issued, lapsed, sent, restarts>>

\* _watch_agent_revision, every 50 ms
Watch(s) ==
  LET c == sock[s].ticket IN
  /\ sock[s].pc = "open"
  /\ ~Matches(call[c].agent, call[c].rev)
  /\ EndSocket(s)
  /\ CloseAudit(s, "dispatched")
  /\ UNCHANGED <<record, removal, removing, call, reserved, issued, lapsed, sent, restarts>>

-----------------------------------------------------------------------------
(* The registry and removals.                                              *)

\* An update, a rotation, a pin or an enable: a new revision, refused by the
\* mutation fence while a removal is unfinished.
UpdateRecord(a) ==
  /\ record[a].present /\ ~Unfinished(a)
  /\ record[a].rev < MaxRevision
  /\ \E e \in BOOLEAN :
       record' = [record EXCEPT ![a].rev = @ + 1, ![a].enabled = e]
  /\ UNCHANGED <<removal, removing, call, sock, slots, reserved, issued, active,
                 lapsed, audit, sent, restarts>>

\* begin_removal, which prunes, then create_for_agent.
StartRemoval(a) ==
  /\ record[a].present /\ ~Blocked(a)
  /\ PruneTo(reserved, issued, slots)
  /\ \/ /\ Usage(a) = {}
        /\ removing' = removing \cup {a}
        /\ removal' = [removal EXCEPT ![a] = "open"]
     \/ UNCHANGED <<removing, removal>>
  /\ UNCHANGED <<record, call, sock, active, audit, sent, restarts>>

\* _resume_removal deletes the registry row; the token files go after it.
DeleteRow(a) ==
  /\ removal[a] = "open" /\ record[a].present
  /\ record' = [record EXCEPT ![a].present = FALSE]
  /\ UNCHANGED <<removal, removing, call, sock, slots, reserved, issued, active,
                 lapsed, audit, sent, restarts>>

\* remove_agent returns or raises: abort_removal in both cases.
EndRemoval(a) ==
  /\ removal[a] = "open"
  /\ removing' = removing \ {a}
  /\ \/ ~record[a].present /\ removal' = [removal EXCEPT ![a] = "done"]
     \/ removal' = [removal EXCEPT ![a] = "residual"]
  /\ UNCHANGED <<record, call, sock, slots, reserved, issued, active, lapsed,
                 audit, sent, restarts>>

\* The Manager stops at any step and starts again: what was in memory is gone,
\* and recover_removals has run before the first request is served.
Restart ==
  /\ restarts < MaxRestart
  /\ restarts' = restarts + 1
  /\ removing' = {} /\ slots' = {} /\ reserved' = {} /\ issued' = {}
  /\ active' = {} /\ lapsed' = {}
  /\ call' = [c \in Calls |-> IF call[c].pc = "new" THEN call[c]
                              ELSE [call[c] EXCEPT !.pc = "done"]]
  /\ sock' = [s \in Socks |-> IF sock[s].pc = "new" THEN sock[s]
                              ELSE [pc |-> "done", ticket |-> NoTicket]]
  /\ \E R \in SUBSET {a \in Agents : Unfinished(a)} :
       /\ removal' = [a \in Agents |->
                        IF a \in R THEN "done" ELSE
                        IF Unfinished(a) THEN "residual" ELSE removal[a]]
       /\ record' = [a \in Agents |->
                        IF a \in R THEN [record[a] EXCEPT !.present = FALSE] ELSE record[a]]
  /\ UNCHANGED <<audit, sent>>

-----------------------------------------------------------------------------
GatewayNext ==
  \/ \E c \in Calls : Lapse(c)
  \/ \E c \in Calls : BeginTokenFull(c)
  \/ \E c \in Calls : BeginTokenUnknown(c)
  \/ \E c \in Calls : BeginToken(c)
  \/ \E c \in Calls : BeginPlain(c)
  \/ \E c \in Calls : BeginDirect(c)
  \/ \E c \in Calls : BeginProbeCall(c)
  \/ \E c \in Calls : EndProbeCall(c)
  \/ \E c \in Calls : BeginSnapshot(c)
  \/ \E c \in Calls : EndSnapshotCheck(c)
  \/ \E c \in Calls : EndCheck(c)
  \/ \E c \in Calls : EndSend(c)
  \/ \E c \in Calls : CommitTicket(c)
  \/ \E s \in Socks : AttachRefused(s)
  \/ \E s \in Socks, c \in Calls : Attach(s, c)
  \/ \E s \in Socks : AttachChecked(s)
  \/ \E s \in Socks : ConnectEnds(s)
  \/ \E s \in Socks : SessionEnds(s)
  \/ \E s \in Socks : Watch(s)
  \/ \E a \in Agents : UpdateRecord(a)
  \/ \E a \in Agents : StartRemoval(a)
  \/ \E a \in Agents : DeleteRow(a)
  \/ \E a \in Agents : EndRemoval(a)
  \/ Restart

GatewaySpec == GatewayInit /\ [][GatewayNext]_gatewayVars

-----------------------------------------------------------------------------
(* Properties.                                                             *)

Live(s) == sock[s].pc \in {"check", "connect", "open"}

\* A proxy slot is held by exactly one of a reservation, a ticket and a
\* session, whatever expires, is pruned, refused, committed or released first
\* (_prune_expired_unlocked, release_reservation, commit, release_active); a
\* ticket is in the hands of at most one session, and every session's ticket is
\* active; both configured caps hold.
SlotsConserved ==
  /\ slots = reserved \cup issued \cup active
  /\ reserved \cap issued = {} /\ reserved \cap active = {} /\ issued \cap active = {}
  /\ active = {sock[s].ticket : s \in {t \in Socks : Live(t)}}
  /\ \A s, t \in Socks : Live(s) /\ Live(t) /\ sock[s].ticket = sock[t].ticket => s = t
  /\ \A c \in reserved : call[c].pc \in {"check", "send"}
  /\ Cardinality(slots) <= MaxSlots
  /\ Cardinality(reserved \cup issued) <= MaxOutstanding

\* While the removal of an Agent is unfinished - running, residual after a
\* failure, or residual again after a restart, when the in-memory block of
\* begin_removal is long lifted - no reservation, ticket or session uses it.
RemovalQuiet ==
  \A a \in Agents : Unfinished(a) =>
    \A c \in reserved \cup issued \cup active : call[c].agent # a

\* The audit never denies what was dispatched: a row closed as "not_dispatched"
\* means the operation never left the Manager, nor, on the routes that record
\* their intent first, a probe for it; nothing leaves without a committed intent;
\* and a session is "dispatched" only if its handshake left (request_json,
\* _combined_dispatch_state and the handlers' finalize calls).  A call may be
\* "dispatched" with nothing sent: its request could not be built, or the v1 probe
\* route did not ask.
DispatchNeverDenied ==
  \A x \in Actors :
    /\ audit[x] = "not_dispatched" =>
         /\ "op" \notin sent[x]
         /\ x \in Calls /\ call[x].route.kind # "check_first" => "probe" \notin sent[x]
    /\ "op" \in sent[x] => audit[x] # "none"
    /\ x \in Socks /\ audit[x] = "dispatched" => "op" \in sent[x]

\* A session whose Agent was changed, disabled or removed under it is closed,
\* without either side having to speak (_watch_agent_revision).
StaleSessionEnds ==
  \A s \in Socks :
    (sock[s].pc = "open" /\ ~Matches(call[sock[s].ticket].agent, call[sock[s].ticket].rev))
      ~> sock[s].pc = "done"

\* Capacity is refused only while live entries hold it: the expiry of a ticket
\* or a reservation gives its slot back (create_agent_terminal_connect_token
\* asks the limiter before the store that prunes).
ExpiryFreesSlots ==
  [][\A c \in Calls : call[c].pc = "new" /\ call'[c].pc = "full" /\ ~Blocked(call[c].agent)
                        => Pruned = {}]_gatewayVars
=============================================================================
