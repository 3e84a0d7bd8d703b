---------------------------- MODULE GatewayProofs ----------------------------
(***************************************************************************)
(* Proofs about TerminalGateway, for any number of calls, sessions and     *)
(* Agents, and any caps.                                                   *)
(***************************************************************************)
EXTENDS TerminalGateway, FiniteSetTheorems, TLAPS

-----------------------------------------------------------------------------
(* The inductive invariants.                                               *)

\* A ticket, and a session on one, is of a call whose handler has returned.
Settled == \A c \in issued \cup active : call[c].pc = "done"

SlotsInv == GatewayTypeOK /\ SlotsConserved /\ Settled

\* What a call that has not ended has put on the wire and in its audit row.
CallHonest ==
  \A c \in Calls :
    /\ call[c].pc \in {"new", "early"} => audit[c] = "none" /\ sent[c] = {}
    /\ call[c].pc = "early" => call[c].route.kind = "check_first"
    /\ call[c].pc \in {"check", "probing"} => audit[c] = "pending" /\ sent[c] = {}
    /\ call[c].pc = "send" => audit[c] = "pending"

\* The same of a session.
SockHonest ==
  \A s \in Socks :
    /\ sock[s].pc \in {"new", "check"} => audit[s] = "none" /\ sent[s] = {}
    /\ sock[s].pc \in {"connect", "open"} => audit[s] = "pending"
    /\ sock[s].pc = "open" => "op" \in sent[s]

AuditInv == GatewayTypeOK /\ DispatchNeverDenied /\ CallHonest /\ SockHonest

-----------------------------------------------------------------------------
(* Types.                                                                  *)

RowType == [present: BOOLEAN, enabled: BOOLEAN, rev: Nat]

\* A registry row keeps its type when it is updated, deleted or first written.
LEMMA RowTypes ==
  ASSUME NEW r \in RowType
  PROVE  /\ [r EXCEPT !.present = FALSE] \in RowType
         /\ \A e \in BOOLEAN : [r EXCEPT !.rev = @ + 1, !.enabled = e] \in RowType
<1>1. r.rev + 1 \in Nat
  BY DEF RowType
<1> QED BY <1>1, Zenon DEF RowType

LEMMA FirstRowType == [present: {TRUE}, enabled: BOOLEAN, rev: {1}] \subseteq RowType
<1>1. 1 \in Nat
  OBVIOUS
<1> QED BY <1>1, Zenon DEF RowType

LEMMA TypeInit == GatewayInit => GatewayTypeOK
<1> SUFFICES ASSUME GatewayInit PROVE GatewayTypeOK
  OBVIOUS
<1>1. record \in [Agents -> RowType]
  BY FirstRowType DEF GatewayInit
<1>2. call \in [Calls -> [pc: {"new", "early", "check", "probing", "send", "full", "done"},
                         route: Routes, agent: Agents, rev: Nat, probe: DispatchStates]]
  BY DEF GatewayInit, DispatchStates
<1>3. sock \in [Socks -> [pc: {"new", "check", "connect", "open", "done"},
                         ticket: Calls \cup {NoTicket}]]
  BY DEF GatewayInit
<1> QED BY <1>1, <1>2, <1>3 DEF GatewayInit, GatewayTypeOK, RemovalStates, RowType

LEMMA CombinedType ==
  ASSUME NEW f \in DispatchStates, NEW g \in DispatchStates
  PROVE  Combined(f, g) \in DispatchStates
  BY DEF Combined, DispatchStates

\* The rows that the audit operators write have their type.
LEMMA AuditTypes ==
  ASSUME GatewayTypeOK, NEW x \in Actors
  PROVE  /\ OpenAudit(x) => audit' \in [Actors -> {"none", "pending"} \cup DispatchStates]
         /\ RecordFailure(x) => audit' \in [Actors -> {"none", "pending"} \cup DispatchStates]
         /\ RecordRouteFailure(x) =>
              audit' \in [Actors -> {"none", "pending"} \cup DispatchStates]
         /\ \A ds \in DispatchStates : CloseAudit(x, ds) =>
              audit' \in [Actors -> {"none", "pending"} \cup DispatchStates]
  BY ZenonT(30) DEF GatewayTypeOK, OpenAudit, RecordFailure, RecordRouteFailure, CloseAudit,
                    DispatchStates

\* So do the calls after every way a handler moves on.
CallType == [Calls -> [pc: {"new", "early", "check", "probing", "send", "full", "done"},
                       route: Routes, agent: Agents, rev: Nat, probe: DispatchStates]]

LEMMA CallTypes ==
  ASSUME GatewayTypeOK, NEW c \in Calls
  PROVE  /\ \A p \in {"early", "probing", "full", "done"} : CallAt(c, p) => call' \in CallType
         /\ \A r \in Nat : Returns(c, r) => call' \in CallType
         /\ \A r \in Nat : Captured(c, r) => call' \in CallType
         /\ \A r \in Nat, ds \in DispatchStates : \A S : Sends(c, r, ds, S) => call' \in CallType
<1>1. call \in CallType
  BY DEF GatewayTypeOK, CallType
<1>2. ASSUME NEW p \in {"early", "probing", "full", "done"}
      PROVE  [call EXCEPT ![c].pc = p] \in CallType
  BY <1>1 DEF CallType
<1>3. ASSUME NEW r \in Nat
      PROVE  [call EXCEPT ![c].pc = "done", ![c].rev = r, ![c].probe = "not_dispatched"]
               \in CallType
  BY <1>1, ZenonT(30) DEF CallType, DispatchStates
<1>4. ASSUME NEW r \in Nat PROVE [call EXCEPT ![c].pc = "check", ![c].rev = r] \in CallType
  BY <1>1 DEF CallType
<1>5. ASSUME NEW r \in Nat, NEW ds \in DispatchStates
      PROVE  [call EXCEPT ![c].pc = "send", ![c].rev = r, ![c].probe = ds] \in CallType
  BY <1>1 DEF CallType
<1> QED BY <1>2, <1>3, <1>4, <1>5 DEF CallAt, Returns, Captured, Sends

LEMMA SentTypes ==
  ASSUME GatewayTypeOK, NEW x \in Actors, NEW S \in SUBSET {"probe", "op"},
         sent' = [sent EXCEPT ![x] = S]
  PROVE  sent' \in [Actors -> SUBSET {"probe", "op"}]
  BY DEF GatewayTypeOK

\* The client is called after the requests S, and the operation leaves or not.
LEMMA SendsTypes ==
  ASSUME GatewayTypeOK, NEW c \in Calls, NEW r, NEW ds, NEW S \in SUBSET {"probe", "op"},
         Sends(c, r, ds, S)
  PROVE  sent' \in [Actors -> SUBSET {"probe", "op"}]
<1>1. PICK op \in SUBSET {"op"} : sent' = [sent EXCEPT ![c] = S \cup op]
  BY DEF Sends
<1>2. S \cup op \in SUBSET {"probe", "op"} /\ c \in Actors
  BY DEF Actors
<1> QED BY <1>1, <1>2, SentTypes

LEMMA PruneTypes ==
  ASSUME NEW R \in SUBSET Calls, NEW I \in SUBSET Calls, NEW H \in SUBSET Calls,
         GatewayTypeOK, PruneTo(R, I, H)
  PROVE  slots' \subseteq Calls /\ reserved' \subseteq Calls /\ issued' \subseteq Calls
         /\ lapsed' \subseteq Calls
  BY DEF GatewayTypeOK, PruneTo

LEMMA ReleaseTypes ==
  ASSUME GatewayTypeOK, NEW c
  PROVE  /\ ReleaseReservation(c) =>
              slots' \subseteq Calls /\ reserved' \subseteq Calls /\ issued' \subseteq Calls
              /\ lapsed' \subseteq Calls
         /\ ReleaseActive(c) => slots' \subseteq Calls /\ active' \subseteq Calls
  BY DEF GatewayTypeOK, ReleaseReservation, ReleaseActive

LEMMA SocketTypes ==
  ASSUME GatewayTypeOK, NEW s \in Socks, NEW p \in {"check", "connect", "open", "done"},
         NEW t \in Calls \cup {NoTicket}, Socket(s, p, t)
  PROVE  sock' \in [Socks -> [pc: {"new", "check", "connect", "open", "done"},
                              ticket: Calls \cup {NoTicket}]]
  BY DEF GatewayTypeOK, Socket

\* A request that starts is captured, or is on the wire.
LEMMA StartTypes ==
  ASSUME GatewayTypeOK, NEW c \in Calls, NEW a \in Agents, StartRequest(c, a)
  PROVE  /\ call' \in CallType
         /\ audit' \in [Actors -> {"none", "pending"} \cup DispatchStates]
         /\ sent' \in [Actors -> SUBSET {"probe", "op"}]
<1>1. record[a].rev \in Nat /\ c \in Actors /\ "not_dispatched" \in DispatchStates
  BY DEF GatewayTypeOK, Actors, DispatchStates
<1>2. call' \in CallType
  BY <1>1, CallTypes DEF StartRequest
<1>3. sent' \in [Actors -> SUBSET {"probe", "op"}]
  <2>1. sent[c] \in SUBSET {"probe", "op"}
    BY <1>1 DEF GatewayTypeOK
  <2> QED BY <2>1, SendsTypes DEF StartRequest, GatewayTypeOK
<1> QED BY <1>1, <1>2, <1>3, AuditTypes DEF StartRequest

LEMMA RefusedTypes ==
  ASSUME GatewayTypeOK, NEW c \in Calls, RequestRefused(c) \/ InvalidRequest(c)
  PROVE  /\ audit' \in [Actors -> {"none", "pending"} \cup DispatchStates]
         /\ sent' \in [Actors -> SUBSET {"probe", "op"}]
<1>1. c \in Actors /\ "not_dispatched" \in DispatchStates
  BY DEF Actors, DispatchStates
<1> QED BY <1>1, AuditTypes DEF RequestRefused, InvalidRequest, GatewayTypeOK

LEMMA TypeStep == GatewayTypeOK /\ [GatewayNext]_gatewayVars => GatewayTypeOK'
<1> SUFFICES ASSUME GatewayTypeOK, [GatewayNext]_gatewayVars PROVE GatewayTypeOK'
  OBVIOUS
<1> USE DEF CallType
<1>0. \A x \in Calls \cup Socks : x \in Actors
  BY DEF Actors
<1>d. {"not_dispatched", "unknown", "dispatched"} \subseteq DispatchStates
  BY DEF DispatchStates
<1>1. ASSUME NEW c \in Calls, Lapse(c) PROVE GatewayTypeOK'
  BY <1>1 DEF Lapse, GatewayTypeOK
<1>2. ASSUME NEW c \in Calls, BeginTokenFull(c) \/ BeginTokenUnknown(c) PROVE GatewayTypeOK'
  <2>1. call' \in CallType
    BY <1>2, CallTypes DEF BeginTokenFull, BeginTokenUnknown
  <2> QED BY <1>0, <1>2, <2>1, AuditTypes DEF BeginTokenFull, BeginTokenUnknown, GatewayTypeOK
<1>3. ASSUME NEW c \in Calls, BeginToken(c) PROVE GatewayTypeOK'
  <2> DEFINE a == call[c].agent
  <2>1. a \in Agents /\ reserved \cup {c} \subseteq Calls /\ slots \cup {c} \subseteq Calls
    BY DEF GatewayTypeOK
  <2>2. /\ call' \in CallType
        /\ audit' \in [Actors -> {"none", "pending"} \cup DispatchStates]
        /\ sent' \in [Actors -> SUBSET {"probe", "op"}]
    <3>1. CASE CallAt(c, "full") /\ RecordFailure(c) /\ UNCHANGED sent
      BY <1>0, <3>1, CallTypes, AuditTypes DEF GatewayTypeOK
    <3>2. CASE StartRequest(c, a)
      BY <2>1, <3>2, StartTypes
    <3>3. CASE CallAt(c, "done") /\ RequestRefused(c)
      BY <3>3, CallTypes, RefusedTypes
    <3> QED BY <1>3, <3>1, <3>2, <3>3 DEF BeginToken
  <2>3. slots' \subseteq Calls /\ reserved' \subseteq Calls /\ issued' \subseteq Calls
        /\ lapsed' \subseteq Calls
    BY <1>3, <2>1, PruneTypes DEF BeginToken, GatewayTypeOK
  <2> QED BY <1>3, <2>2, <2>3 DEF BeginToken, GatewayTypeOK
<1>4. ASSUME NEW c \in Calls, BeginPlain(c) PROVE GatewayTypeOK'
  <2>1. /\ call' \in CallType
        /\ audit' \in [Actors -> {"none", "pending"} \cup DispatchStates]
        /\ sent' \in [Actors -> SUBSET {"probe", "op"}]
    <3>1. call[c].agent \in Agents
      BY DEF GatewayTypeOK
    <3> QED BY <1>4, <3>1, CallTypes, StartTypes, RefusedTypes DEF BeginPlain
  <2> QED BY <1>4, <2>1 DEF BeginPlain, GatewayTypeOK
<1>5. ASSUME NEW c \in Calls, BeginDirect(c) PROVE GatewayTypeOK'
  <2>1. record[call[c].agent].rev \in Nat /\ sent[c] \in SUBSET {"probe", "op"}
    BY <1>0 DEF GatewayTypeOK
  <2>2. /\ call' \in CallType
        /\ audit' \in [Actors -> {"none", "pending"} \cup DispatchStates]
    BY <1>0, <1>d, <1>5, <2>1, CallTypes, AuditTypes, RefusedTypes DEF BeginDirect
  <2>3. sent' \in [Actors -> SUBSET {"probe", "op"}]
    BY <1>5, <2>1, RefusedTypes, SendsTypes DEF BeginDirect
  <2> QED BY <1>5, <2>2, <2>3 DEF BeginDirect, GatewayTypeOK
<1>6. ASSUME NEW c \in Calls, BeginSnapshot(c) PROVE GatewayTypeOK'
  <2>1. /\ call' \in CallType
        /\ audit' \in [Actors -> {"none", "pending"} \cup DispatchStates]
    BY <1>0, <1>6, CallTypes, AuditTypes DEF BeginSnapshot, GatewayTypeOK
  <2> QED BY <1>6, <2>1 DEF BeginSnapshot, GatewayTypeOK
<1>7. ASSUME NEW c \in Calls, EndSnapshotCheck(c) PROVE GatewayTypeOK'
  <2>1. record[call[c].agent].rev \in Nat
    BY DEF GatewayTypeOK
  <2>2. /\ call' \in CallType
        /\ audit' \in [Actors -> {"none", "pending"} \cup DispatchStates]
    BY <1>0, <1>d, <1>7, <2>1, CallTypes, AuditTypes DEF EndSnapshotCheck, GatewayTypeOK
  <2>3. sent' \in [Actors -> SUBSET {"probe", "op"}]
    <3>1. PICK p \in SUBSET {"probe"} :
            \/ sent' = [sent EXCEPT ![c] = sent[c] \cup p]
            \/ Sends(c, record[call[c].agent].rev, "not_dispatched", sent[c] \cup p)
      BY <1>7 DEF EndSnapshotCheck
    <3>2. c \in Actors /\ sent[c] \in SUBSET {"probe", "op"}
      BY <1>0 DEF GatewayTypeOK
    <3>3. sent[c] \cup p \in SUBSET {"probe", "op"}
      BY <3>2
    <3> QED BY <3>1, <3>2, <3>3, SentTypes, SendsTypes
  <2> QED BY <1>7, <2>2, <2>3 DEF EndSnapshotCheck, GatewayTypeOK
<1>8. ASSUME NEW c \in Calls, EndCheck(c) PROVE GatewayTypeOK'
  <2>1. PICK ds \in DispatchStates, probed \in BOOLEAN :
          LET seen == IF probed THEN sent[c] \cup {"probe"} ELSE sent[c] IN
          \/ /\ EndCall(c)
             /\ CloseAudit(c, ds)
             /\ sent' = [sent EXCEPT ![c] = seen]
          \/ /\ Sends(c, call[c].rev, ds, seen)
             /\ UNCHANGED <<audit, slots, reserved, issued, lapsed>>
    BY <1>8 DEF EndCheck
  <2>2. call[c].rev \in Nat /\ 0 \in Nat
    BY DEF GatewayTypeOK
  <2>3. call' \in CallType
    BY <2>1, <2>2, CallTypes DEF EndCall
  <2>4. audit' \in [Actors -> {"none", "pending"} \cup DispatchStates]
    BY <1>0, <2>1, AuditTypes DEF GatewayTypeOK
  <2>5. sent' \in [Actors -> SUBSET {"probe", "op"}]
    <3>1. c \in Actors /\ (IF probed THEN sent[c] \cup {"probe"} ELSE sent[c])
                             \in SUBSET {"probe", "op"}
      BY <1>0 DEF GatewayTypeOK
    <3> QED BY <2>1, <3>1, SentTypes, SendsTypes
  <2>6. slots' \subseteq Calls /\ reserved' \subseteq Calls /\ issued' \subseteq Calls
        /\ lapsed' \subseteq Calls
    BY <2>1, ReleaseTypes DEF EndCall, GatewayTypeOK
  <2> QED BY <1>8, <2>3, <2>4, <2>5, <2>6 DEF EndCheck, GatewayTypeOK
<1>9. ASSUME NEW c \in Calls, EndSend(c) PROVE GatewayTypeOK'
  <2>1. Combined(call[c].probe, "unknown") \in DispatchStates
    BY <1>d, CombinedType DEF GatewayTypeOK
  <2>2. EndCall(c) /\ \E ds \in DispatchStates : CloseAudit(c, ds)
    BY <1>d, <1>9, <2>1 DEF EndSend, RequestFails, AnswerArrives, BuildFails
  <2>3. call' \in CallType
    BY <2>2, CallTypes DEF EndCall
  <2>4. audit' \in [Actors -> {"none", "pending"} \cup DispatchStates]
    BY <1>0, <2>2, AuditTypes
  <2>5. slots' \subseteq Calls /\ reserved' \subseteq Calls /\ issued' \subseteq Calls
        /\ lapsed' \subseteq Calls
    BY <2>2, ReleaseTypes DEF EndCall
  <2> QED BY <1>9, <2>3, <2>4, <2>5 DEF EndSend, GatewayTypeOK
<1>10. ASSUME NEW c \in Calls, CommitTicket(c) PROVE GatewayTypeOK'
  <2>1. call' \in CallType
    <3>1. call[c].rev \in Nat
      BY DEF GatewayTypeOK
    <3> QED BY <1>10, <3>1, CallTypes DEF CommitTicket
  <2>2. audit' \in [Actors -> {"none", "pending"} \cup DispatchStates]
    BY <1>0, <1>d, <1>10, AuditTypes DEF CommitTicket
  <2>3. slots' \subseteq Calls /\ reserved' \subseteq Calls /\ issued' \subseteq Calls
        /\ lapsed' \subseteq Calls
    <3>1. /\ reserved \ {c} \in SUBSET Calls /\ issued \cup {c} \in SUBSET Calls
          /\ issued \in SUBSET Calls /\ slots \in SUBSET Calls
          /\ slots \ (reserved \cap {c}) \in SUBSET Calls
      BY DEF GatewayTypeOK
    <3>2. \/ PruneTo(reserved \ {c}, issued \cup {c}, slots)
          \/ PruneTo(reserved \ {c}, issued, slots \ (reserved \cap {c}))
      BY <1>10 DEF CommitTicket
    <3> QED BY <3>1, <3>2, PruneTypes
  <2> QED BY <1>10, <2>1, <2>2, <2>3 DEF CommitTicket, GatewayTypeOK
<1>11. ASSUME NEW s \in Socks, AttachRefused(s) PROVE GatewayTypeOK'
  <2>1. slots' \subseteq Calls /\ issued' \subseteq Calls /\ lapsed' \subseteq Calls
    BY <1>11 DEF AttachRefused, GatewayTypeOK
  <2> QED BY <1>0, <1>11, <2>1, SocketTypes, AuditTypes DEF AttachRefused, GatewayTypeOK
<1>12. ASSUME NEW s \in Socks, NEW c \in Calls, Attach(s, c) PROVE GatewayTypeOK'
  <2>1. slots' \subseteq Calls /\ issued' \subseteq Calls /\ active' \subseteq Calls
    BY <1>12 DEF Attach, GatewayTypeOK
  <2>2. audit' \in [Actors -> {"none", "pending"} \cup DispatchStates]
    BY <1>0, <1>12, AuditTypes DEF Attach, GatewayTypeOK
  <2>3. sock' \in [Socks -> [pc: {"new", "check", "connect", "open", "done"},
                             ticket: Calls \cup {NoTicket}]]
    BY <1>12, SocketTypes DEF Attach
  <2> QED BY <1>12, <2>1, <2>2, <2>3 DEF Attach, GatewayTypeOK
<1>13. ASSUME NEW s \in Socks, AttachChecked(s) PROVE GatewayTypeOK'
  <2>1. slots' \subseteq Calls /\ active' \subseteq Calls
    BY <1>13, ReleaseTypes DEF AttachChecked, EndSocket, GatewayTypeOK
  <2>2. audit' \in [Actors -> {"none", "pending"} \cup DispatchStates]
    BY <1>0, <1>d, <1>13, AuditTypes DEF AttachChecked
  <2>3. sock' \in [Socks -> [pc: {"new", "check", "connect", "open", "done"},
                             ticket: Calls \cup {NoTicket}]]
    <3>1. sock[s].ticket \in Calls \cup {NoTicket}
      BY DEF GatewayTypeOK
    <3> QED BY <1>13, <3>1, SocketTypes DEF AttachChecked, EndSocket
  <2>4. sent' \in [Actors -> SUBSET {"probe", "op"}]
    <3>1. PICK p \in SUBSET {"probe"} :
            \/ sent' = [sent EXCEPT ![s] = sent[s] \cup p]
            \/ \E op \in SUBSET {"op"} : sent' = [sent EXCEPT ![s] = sent[s] \cup p \cup op]
      BY <1>13 DEF AttachChecked
    <3>2. s \in Actors /\ sent[s] \in SUBSET {"probe", "op"}
      BY <1>0 DEF GatewayTypeOK
    <3>3. /\ sent[s] \cup p \in SUBSET {"probe", "op"}
          /\ \A op \in SUBSET {"op"} : sent[s] \cup p \cup op \in SUBSET {"probe", "op"}
      BY <3>2
    <3> QED BY <3>1, <3>2, <3>3, SentTypes
  <2> QED BY <1>13, <2>1, <2>2, <2>3, <2>4 DEF AttachChecked, GatewayTypeOK
<1>14. ASSUME NEW s \in Socks, ConnectEnds(s) \/ SessionEnds(s) \/ Watch(s) PROVE GatewayTypeOK'
  <2>1. slots' \subseteq Calls /\ active' \subseteq Calls
    BY <1>14, ReleaseTypes DEF ConnectEnds, SessionEnds, Watch, EndSocket, GatewayTypeOK
  <2>2. audit' \in [Actors -> {"none", "pending"} \cup DispatchStates]
    BY <1>0, <1>d, <1>14, AuditTypes DEF ConnectEnds, SessionEnds, Watch, GatewayTypeOK
  <2>3. sock' \in [Socks -> [pc: {"new", "check", "connect", "open", "done"},
                             ticket: Calls \cup {NoTicket}]]
    <3>1. sock[s].ticket \in Calls \cup {NoTicket}
      BY DEF GatewayTypeOK
    <3> QED BY <1>14, <3>1, SocketTypes DEF ConnectEnds, SessionEnds, Watch, EndSocket
  <2> QED BY <1>14, <2>1, <2>2, <2>3 DEF ConnectEnds, SessionEnds, Watch, GatewayTypeOK
<1>15. ASSUME NEW a \in Agents, UpdateRecord(a) PROVE GatewayTypeOK'
  <2>1. PICK e \in BOOLEAN : record' = [record EXCEPT ![a].rev = @ + 1, ![a].enabled = e]
    BY <1>15 DEF UpdateRecord
  <2>2. record \in [Agents -> RowType]
    BY DEF GatewayTypeOK, RowType
  <2>3. record' = [record EXCEPT ![a] = [record[a] EXCEPT !.rev = @ + 1, !.enabled = e]]
    BY <2>1, <2>2
  <2>4. record' \in [Agents -> RowType]
    BY <2>2, <2>3, RowTypes
  <2> QED BY <1>15, <2>4 DEF UpdateRecord, GatewayTypeOK, RowType
<1>16. ASSUME NEW a \in Agents, StartRemoval(a) PROVE GatewayTypeOK'
  <2>1. removal' \in [Agents -> RemovalStates] /\ removing' \subseteq Agents
    BY <1>16 DEF StartRemoval, GatewayTypeOK, RemovalStates
  <2> QED BY <1>16, <2>1, PruneTypes DEF StartRemoval, GatewayTypeOK
<1>17. ASSUME NEW a \in Agents, DeleteRow(a) PROVE GatewayTypeOK'
  <2>1. record \in [Agents -> RowType]
    BY DEF GatewayTypeOK, RowType
  <2>2. record' = [record EXCEPT ![a] = [record[a] EXCEPT !.present = FALSE]]
    BY <1>17 DEF DeleteRow
  <2>3. record' \in [Agents -> RowType]
    BY <2>1, <2>2, RowTypes
  <2> QED BY <1>17, <2>3 DEF DeleteRow, GatewayTypeOK, RowType
<1>18. ASSUME NEW a \in Agents, EndRemoval(a) PROVE GatewayTypeOK'
  BY <1>18 DEF EndRemoval, GatewayTypeOK, RemovalStates
<1>19. CASE Restart
  <2>1. removal' \in [Agents -> RemovalStates]
    BY <1>19 DEF Restart, GatewayTypeOK, RemovalStates
  <2>2. record' \in [Agents -> RowType]
    <3>1. record \in [Agents -> RowType]
      BY DEF GatewayTypeOK, RowType
    <3>2. PICK R \in SUBSET Agents :
            record' = [a \in Agents |->
                         IF a \in R THEN [record[a] EXCEPT !.present = FALSE] ELSE record[a]]
      BY <1>19 DEF Restart
    <3>3. \A a \in Agents : record[a] \in RowType /\ [record[a] EXCEPT !.present = FALSE] \in RowType
      BY <3>1, RowTypes
    <3> QED BY <3>2, <3>3
  <2>3. call' \in CallType
    <3>1. \A c \in Calls : [call[c] EXCEPT !.pc = "done"] \in
             [pc: {"new", "early", "check", "probing", "send", "full", "done"},
              route: Routes, agent: Agents, rev: Nat, probe: DispatchStates]
      BY DEF GatewayTypeOK
    <3> QED BY <1>19, <3>1 DEF Restart, GatewayTypeOK
  <2>4. sock' \in [Socks -> [pc: {"new", "check", "connect", "open", "done"},
                             ticket: Calls \cup {NoTicket}]]
    BY <1>19 DEF Restart, GatewayTypeOK
  <2> QED BY <1>19, <2>1, <2>2, <2>3, <2>4 DEF Restart, GatewayTypeOK, RowType
<1>20. CASE UNCHANGED gatewayVars
  BY <1>20 DEF gatewayVars, GatewayTypeOK
<1>21. ASSUME NEW c \in Calls, BeginProbeCall(c) PROVE GatewayTypeOK'
  <2>1. call' \in CallType
    BY <1>21, CallTypes DEF BeginProbeCall
  <2>2. audit' \in [Actors -> {"none", "pending"} \cup DispatchStates]
    BY <1>0, <1>21, AuditTypes, RefusedTypes DEF BeginProbeCall
  <2>3. sent' \in [Actors -> SUBSET {"probe", "op"}]
    BY <1>21, RefusedTypes DEF BeginProbeCall, GatewayTypeOK
  <2> QED BY <1>21, <2>1, <2>2, <2>3 DEF BeginProbeCall, GatewayTypeOK
<1>22. ASSUME NEW c \in Calls, EndProbeCall(c) PROVE GatewayTypeOK'
  <2>1. PICK ds \in DispatchStates, S \in SUBSET {"probe", "op"} :
          /\ sent' = [sent EXCEPT ![c] = S]
          /\ CloseAudit(c, IF call[c].route.kind = "probe" THEN "dispatched" ELSE ds)
    BY <1>22 DEF EndProbeCall
  <2>2. (IF call[c].route.kind = "probe" THEN "dispatched" ELSE ds) \in DispatchStates
    BY <1>d
  <2>3. audit' \in [Actors -> {"none", "pending"} \cup DispatchStates]
    BY <1>0, <2>1, <2>2, AuditTypes
  <2>4. call' \in CallType
    BY <1>22, CallTypes DEF EndProbeCall
  <2>5. sent' \in [Actors -> SUBSET {"probe", "op"}]
    BY <1>0, <2>1, SentTypes
  <2> QED BY <1>22, <2>3, <2>4, <2>5 DEF EndProbeCall, GatewayTypeOK
<1> QED BY <1>1, <1>2, <1>3, <1>4, <1>5, <1>6, <1>7, <1>8, <1>9, <1>10, <1>11, <1>12,
           <1>13, <1>14, <1>15, <1>16, <1>17, <1>18, <1>19, <1>20, <1>21, <1>22 DEF GatewayNext

-----------------------------------------------------------------------------
(* Slots, reservations, tickets and sessions.                              *)

\* Every set of calls is finite, and a part of it is no larger.
LEMMA Finite ==
  ASSUME NEW S \in SUBSET Calls, NEW T \in SUBSET S
  PROVE  /\ IsFiniteSet(S) /\ IsFiniteSet(T)
         /\ Cardinality(S) \in Nat /\ Cardinality(T) \in Nat
         /\ Cardinality(T) <= Cardinality(S)
<1>1. IsFiniteSet(S) /\ IsFiniteSet(T) /\ Cardinality(T) <= Cardinality(S)
  BY GatewayAssumption, FS_Subset
<1> QED BY <1>1, FS_CardinalityType

\* One element more is one more at most.
LEMMA OneMore ==
  ASSUME NEW S \in SUBSET Calls, NEW c \in Calls, NEW n \in Nat, Cardinality(S) < n
  PROVE  Cardinality(S \cup {c}) <= n
<1>1. IsFiniteSet(S) /\ Cardinality(S) \in Nat
  BY Finite
<1>2. Cardinality(S \cup {c}) \in {Cardinality(S), Cardinality(S) + 1}
  BY <1>1, FS_AddElement
<1> QED BY <1>1, <1>2

LEMMA SlotsInit == GatewayInit => SlotsInv
<1> SUFFICES ASSUME GatewayInit PROVE SlotsInv
  OBVIOUS
<1>1. GatewayTypeOK
  BY TypeInit
<1>2. ~ \E s \in Socks : Live(s)
  BY DEF GatewayInit, Live
<1>3. Cardinality({}) = 0
  BY FS_EmptySet
<1>4. SlotsConserved
  BY <1>2, <1>3, GatewayAssumption DEF GatewayInit, SlotsConserved
<1>5. Settled
  BY DEF GatewayInit, Settled
<1> QED BY <1>1, <1>4, <1>5 DEF SlotsInv

\* Sessions keep what they hold.
SessionsKept ==
  \A s \in Socks : /\ Live(s)' <=> Live(s)
                   /\ Live(s) => sock'[s].ticket = sock[s].ticket

\* Some reservations and tickets are given up, with their slots; a step that
\* gives up none is a case of it.
LEMMA Shrinks ==
  ASSUME SlotsInv, GatewayTypeOK',
         NEW D \in SUBSET (reserved \cup issued),
         reserved' = reserved \ D, issued' = issued \ D, slots' = slots \ D,
         active' = active,
         SessionsKept,
         \A c \in reserved \ D : call'[c].pc \in {"check", "send"},
         \A c \in issued \cup active : call'[c].pc = "done"
  PROVE  SlotsInv'
<1> USE DEF SlotsInv, SlotsConserved
<1>1. slots' = reserved' \cup issued' \cup active'
  OBVIOUS
<1>2. reserved' \cap issued' = {} /\ reserved' \cap active' = {} /\ issued' \cap active' = {}
  OBVIOUS
<1>3. active' = {sock'[s].ticket : s \in {t \in Socks : Live(t)'}}
  BY DEF SessionsKept
<1>4. \A s, t \in Socks : Live(s)' /\ Live(t)' /\ sock'[s].ticket = sock'[t].ticket => s = t
  BY DEF SessionsKept
<1>5. Cardinality(slots') <= MaxSlots /\ Cardinality(reserved' \cup issued') <= MaxOutstanding
  <2>1. slots \in SUBSET Calls /\ reserved \cup issued \in SUBSET Calls
    BY DEF GatewayTypeOK
  <2>2. slots' \in SUBSET slots /\ reserved' \cup issued' \in SUBSET (reserved \cup issued)
    OBVIOUS
  <2>3. Cardinality(slots') <= Cardinality(slots) /\ Cardinality(slots) \in Nat /\ Cardinality(slots') \in Nat
    BY <2>1, <2>2, Finite
  <2>4. /\ Cardinality(reserved' \cup issued') <= Cardinality(reserved \cup issued)
        /\ Cardinality(reserved \cup issued) \in Nat /\ Cardinality(reserved' \cup issued') \in Nat
    BY <2>1, <2>2, Finite
  <2> QED BY <2>3, <2>4, GatewayAssumption
<1>6. Settled'
  BY DEF Settled
<1> QED BY <1>1, <1>2, <1>3, <1>4, <1>5, <1>6, Zenon

\* A session ends, and its ticket and slot with it.
LEMMA SessionGone ==
  ASSUME SlotsInv, GatewayTypeOK', NEW s \in Socks, Live(s), EndSocket(s),
         UNCHANGED <<call, reserved, issued>>
  PROVE  SlotsInv'
<1> USE DEF SlotsInv, SlotsConserved
<1> DEFINE c == sock[s].ticket
<1>1. c \in active /\ active' = active \ {c} /\ slots' = slots \ {c}
  BY DEF EndSocket, ReleaseActive
<1>2. /\ ~Live(s)'
      /\ \A t \in Socks \ {s} : sock'[t] = sock[t] /\ (Live(t)' <=> Live(t))
  BY DEF EndSocket, Socket, Live, GatewayTypeOK
<1>3. slots' = reserved' \cup issued' \cup active'
  BY <1>1
<1>4. reserved' \cap issued' = {} /\ reserved' \cap active' = {} /\ issued' \cap active' = {}
  BY <1>1
<1>5. active' = {sock'[t].ticket : t \in {u \in Socks : Live(u)'}}
  BY <1>1, <1>2
<1>6. \A t, u \in Socks : Live(t)' /\ Live(u)' /\ sock'[t].ticket = sock'[u].ticket => t = u
  BY <1>2
<1>7. Cardinality(slots') <= MaxSlots
  <2>1. slots \in SUBSET Calls /\ slots' \in SUBSET slots
    BY <1>1 DEF GatewayTypeOK
  <2>2. Cardinality(slots') <= Cardinality(slots) /\ Cardinality(slots) \in Nat /\ Cardinality(slots') \in Nat
    BY <2>1, Finite
  <2> QED BY <2>2, GatewayAssumption
<1>8. Settled'
  BY <1>1 DEF Settled
<1>9. /\ \A d \in reserved' : call'[d].pc \in {"check", "send"}
      /\ Cardinality(reserved' \cup issued') <= MaxOutstanding
  OBVIOUS
<1> QED BY <1>3, <1>4, <1>5, <1>6, <1>7, <1>8, <1>9, Zenon

\* A ticket passes to the session that consumes it.
LEMMA SessionBegins ==
  ASSUME SlotsInv, GatewayTypeOK', NEW s \in Socks, NEW c \in issued, sock[s].pc = "new",
         Socket(s, "check", c), issued' = issued \ {c}, active' = active \cup {c},
         UNCHANGED <<call, slots, reserved>>
  PROVE  SlotsInv'
<1> USE DEF SlotsInv, SlotsConserved
<1>1. c \notin active /\ c \notin reserved
  OBVIOUS
<1>2. /\ Live(s)' /\ sock'[s].ticket = c /\ ~Live(s)
      /\ \A t \in Socks \ {s} : sock'[t] = sock[t] /\ (Live(t)' <=> Live(t))
  BY DEF Socket, Live, GatewayTypeOK
<1>3. slots' = reserved' \cup issued' \cup active'
  BY <1>1
<1>4. reserved' \cap issued' = {} /\ reserved' \cap active' = {} /\ issued' \cap active' = {}
  BY <1>1
<1>5. active' = {sock'[t].ticket : t \in {u \in Socks : Live(u)'}}
  BY <1>1, <1>2
<1>6. \A t, u \in Socks : Live(t)' /\ Live(u)' /\ sock'[t].ticket = sock'[u].ticket => t = u
  BY <1>1, <1>2
<1>7. Cardinality(reserved' \cup issued') <= MaxOutstanding
  <2>1. reserved \cup issued \in SUBSET Calls /\ reserved' \cup issued' \in SUBSET (reserved \cup issued)
    BY DEF GatewayTypeOK
  <2>2. /\ Cardinality(reserved' \cup issued') <= Cardinality(reserved \cup issued)
        /\ Cardinality(reserved \cup issued) \in Nat /\ Cardinality(reserved' \cup issued') \in Nat
    BY <2>1, Finite
  <2> QED BY <2>2, GatewayAssumption
<1>8. Settled'
  BY DEF Settled
<1>9. /\ \A d \in reserved' : call'[d].pc \in {"check", "send"}
      /\ Cardinality(slots') <= MaxSlots
  OBVIOUS
<1> QED BY <1>3, <1>4, <1>5, <1>6, <1>7, <1>8, <1>9, Zenon

\* A call that has not reserved holds nothing.
LEMMA Outside ==
  ASSUME SlotsInv, NEW c \in Calls, call[c].pc \notin {"check", "send", "done"}
  PROVE  c \notin slots
  BY DEF SlotsInv, SlotsConserved, Settled

LEMMA SockSame ==
  ASSUME UNCHANGED sock
  PROVE  SessionsKept
  BY DEF SessionsKept, Live

\* A call is at p, the same call, and the others are where they were.
Moved(c, p) ==
  /\ call'[c].pc \in p
  /\ call'[c].agent = call[c].agent /\ call'[c].route = call[c].route
  /\ \A d \in Calls \ {c} : call'[d] = call[d]

\* How a handler's move changes the calls' states.
LEMMA CallMoves ==
  ASSUME GatewayTypeOK, NEW c \in Calls
  PROVE  /\ \A p \in {"early", "probing", "full", "done"} : CallAt(c, p) => Moved(c, {p})
         /\ \A r : Returns(c, r) => Moved(c, {"done"})
         /\ \A a : StartRequest(c, a) => Moved(c, {"check", "send"})
         /\ \A r, ds, S : Sends(c, r, ds, S) => Moved(c, {"send"})
<1> USE DEF GatewayTypeOK, Moved
<1>1. ASSUME NEW p \in {"early", "probing", "full", "done"}, CallAt(c, p) PROVE Moved(c, {p})
  BY <1>1 DEF CallAt
<1>2. ASSUME NEW r, Returns(c, r) PROVE Moved(c, {"done"})
  BY <1>2 DEF Returns
<1>3. ASSUME NEW r, NEW ds, NEW S, Sends(c, r, ds, S) PROVE Moved(c, {"send"})
  BY <1>3 DEF Sends
<1>4. ASSUME NEW r, Captured(c, r) PROVE Moved(c, {"check"})
  BY <1>4 DEF Captured
<1>5. ASSUME NEW a, StartRequest(c, a) PROVE Moved(c, {"check", "send"})
  BY <1>3, <1>4, <1>5 DEF StartRequest
<1> QED BY <1>1, <1>2, <1>3, <1>5

\* A call without entries moves on.
LEMMA FreeCallMoves ==
  ASSUME SlotsInv, GatewayTypeOK', NEW c \in Calls, c \notin slots,
         \A d \in Calls \ {c} : call'[d] = call[d],
         UNCHANGED <<sock, slots, reserved, issued, active>>
  PROVE  SlotsInv'
<1>1. SessionsKept
  BY SockSame
<1>2. \A d \in reserved \cup issued \cup active : d \in Calls /\ d # c
  BY DEF SlotsInv, SlotsConserved, GatewayTypeOK
<1>3. \A d \in reserved \ {} : call'[d].pc \in {"check", "send"}
  BY <1>2 DEF SlotsInv, SlotsConserved
<1>4. \A d \in issued \cup active : call'[d].pc = "done"
  BY <1>2 DEF SlotsInv, Settled
<1>5. {} \in SUBSET (reserved \cup issued) /\ reserved' = reserved \ {} /\ issued' = issued \ {}
      /\ slots' = slots \ {} /\ active' = active
  OBVIOUS
<1> QED BY <1>1, <1>3, <1>4, <1>5, Shrinks

\* What is pruned is given up with its slots.
LEMMA Prunes ==
  ASSUME SlotsInv, GatewayTypeOK', PruneTo(reserved, issued, slots),
         UNCHANGED <<active, sock>>,
         \A d \in slots : call'[d] = call[d]
  PROVE  SlotsInv'
<1>1. SessionsKept
  BY SockSame
<1>2. Pruned \in SUBSET (reserved \cup issued)
  BY DEF Pruned
<1>3. reserved' = reserved \ Pruned /\ issued' = issued \ Pruned /\ slots' = slots \ Pruned
  BY DEF PruneTo, Pruned
<1>4. \A d \in reserved \ Pruned : call'[d].pc \in {"check", "send"}
  BY DEF SlotsInv, SlotsConserved
<1>5. \A d \in issued \cup active : call'[d].pc = "done"
  BY DEF SlotsInv, SlotsConserved, Settled
<1> QED BY <1>1, <1>2, <1>3, <1>4, <1>5, Shrinks

\* A call that ends gives up its reservation.
LEMMA CallGone ==
  ASSUME SlotsInv, GatewayTypeOK', NEW c \in Calls, EndCall(c), UNCHANGED <<sock, active>>
  PROVE  SlotsInv'
<1> DEFINE D == reserved \cap {c}
<1>1. SessionsKept
  BY SockSame
<1>2. D \in SUBSET (reserved \cup issued)
  OBVIOUS
<1>3. call'[c].pc = "done" /\ \A d \in Calls \ {c} : call'[d] = call[d]
  BY CallMoves DEF EndCall, SlotsInv, Moved
<1>4. reserved' = reserved \ D /\ slots' = slots \ D
  BY DEF EndCall, ReleaseReservation
<1>5. issued' = issued \ D
  BY DEF EndCall, ReleaseReservation, SlotsInv, SlotsConserved
<1>6. \A d \in reserved \ D : call'[d].pc \in {"check", "send"}
  BY <1>3 DEF SlotsInv, SlotsConserved, GatewayTypeOK
<1>7. \A d \in issued \cup active : call'[d].pc = "done"
  BY <1>3 DEF SlotsInv, Settled, GatewayTypeOK
<1> HIDE DEF D
<1> QED BY <1>1, <1>2, <1>4, <1>5, <1>6, <1>7, Shrinks

\* A connect-token call reserves: its reservation and its slot are new, what has
\* lapsed is pruned, and both caps were asked before.
LEMMA Reserves ==
  ASSUME SlotsInv, GatewayTypeOK', NEW c \in Calls, BeginToken(c),
         StartRequest(c, call[c].agent), PruneTo(reserved \cup {c}, issued, slots \cup {c}),
         Cardinality((reserved \cup issued) \ Pruned) < MaxOutstanding
  PROVE  SlotsInv'
<1> USE DEF SlotsInv, SlotsConserved
<1>1. c \notin slots /\ Cardinality(slots) < MaxSlots /\ UNCHANGED <<sock, active>>
  BY Outside DEF BeginToken
<1>2. Moved(c, {"check", "send"})
  BY CallMoves
<1>3. /\ reserved' = (reserved \ Pruned) \cup {c}
      /\ issued' = issued \ Pruned
      /\ slots' = (slots \ Pruned) \cup {c}
  BY <1>1 DEF PruneTo, Pruned
<1>4. Pruned \cap active = {}
  BY DEF Pruned
<1>5. slots' = reserved' \cup issued' \cup active'
  BY <1>1, <1>3, <1>4
<1>6. reserved' \cap issued' = {} /\ reserved' \cap active' = {} /\ issued' \cap active' = {}
  BY <1>1, <1>3
<1>7. SessionsKept
  BY <1>1, SockSame
<1>8. active' = {sock'[s].ticket : s \in {t \in Socks : Live(t)'}}
  BY <1>1, <1>7 DEF SessionsKept
<1>9. \A s, t \in Socks : Live(s)' /\ Live(t)' /\ sock'[s].ticket = sock'[t].ticket => s = t
  BY <1>7 DEF SessionsKept
<1>10. \A d \in reserved' : call'[d].pc \in {"check", "send"}
  BY <1>2, <1>3 DEF Moved, GatewayTypeOK
<1>11. Cardinality(slots') <= MaxSlots
  <2>1. slots \in SUBSET Calls /\ slots \ Pruned \in SUBSET slots
    BY DEF GatewayTypeOK
  <2>2. /\ Cardinality(slots \ Pruned) <= Cardinality(slots)
        /\ Cardinality(slots) \in Nat /\ Cardinality(slots \ Pruned) \in Nat
    BY <2>1, Finite
  <2>3. Cardinality(slots \ Pruned) < MaxSlots /\ slots \ Pruned \in SUBSET Calls
    BY <1>1, <2>1, <2>2, GatewayAssumption
  <2> QED BY <1>3, <2>3, OneMore, GatewayAssumption
<1>12. Cardinality(reserved' \cup issued') <= MaxOutstanding
  <2>1. reserved' \cup issued' = ((reserved \cup issued) \ Pruned) \cup {c}
    BY <1>3
  <2>2. (reserved \cup issued) \ Pruned \in SUBSET Calls
    BY DEF GatewayTypeOK
  <2> QED BY <2>1, <2>2, OneMore, GatewayAssumption
<1>13. Settled'
  <2>1. \A d \in issued' \cup active' : d \in issued \cup active /\ d \in Calls /\ d # c
    BY <1>1, <1>3 DEF GatewayTypeOK
  <2> QED BY <1>2, <2>1 DEF Settled, Moved
<1> QED BY <1>5, <1>6, <1>8, <1>9, <1>10, <1>11, <1>12, <1>13, Zenon

\* A live reservation becomes a ticket, on the slot it had.
LEMMA Issues ==
  ASSUME SlotsInv, GatewayTypeOK', NEW c \in reserved \ lapsed,
         PruneTo(reserved \ {c}, issued \cup {c}, slots),
         Moved(c, {"done"}), UNCHANGED <<sock, active>>
  PROVE  SlotsInv'
<1> USE DEF SlotsInv, SlotsConserved
<1>1. c \in Calls /\ c \notin Pruned /\ c \notin issued /\ c \notin active /\ Pruned \cap active = {}
  BY DEF Pruned, GatewayTypeOK
<1>2. /\ reserved' = reserved \ (Pruned \cup {c})
      /\ issued' = (issued \ Pruned) \cup {c}
      /\ slots' = slots \ Pruned
  BY <1>1 DEF PruneTo, Pruned
<1>3. slots' = reserved' \cup issued' \cup active'
  BY <1>1, <1>2
<1>4. reserved' \cap issued' = {} /\ reserved' \cap active' = {} /\ issued' \cap active' = {}
  BY <1>1, <1>2
<1>5. SessionsKept
  BY SockSame
<1>6. active' = {sock'[s].ticket : s \in {t \in Socks : Live(t)'}}
  BY <1>5 DEF SessionsKept
<1>7. \A s, t \in Socks : Live(s)' /\ Live(t)' /\ sock'[s].ticket = sock'[t].ticket => s = t
  BY <1>5 DEF SessionsKept
<1>8. \A d \in reserved' : call'[d].pc \in {"check", "send"}
  BY <1>2 DEF Moved, GatewayTypeOK
<1>9. Cardinality(slots') <= MaxSlots /\ Cardinality(reserved' \cup issued') <= MaxOutstanding
  <2>1. /\ slots \in SUBSET Calls /\ reserved \cup issued \in SUBSET Calls
        /\ slots' \in SUBSET slots /\ reserved' \cup issued' \in SUBSET (reserved \cup issued)
    BY <1>2 DEF GatewayTypeOK
  <2>2. Cardinality(slots') <= Cardinality(slots) /\ Cardinality(slots) \in Nat /\ Cardinality(slots') \in Nat
    BY <2>1, Finite
  <2>3. /\ Cardinality(reserved' \cup issued') <= Cardinality(reserved \cup issued)
        /\ Cardinality(reserved \cup issued) \in Nat /\ Cardinality(reserved' \cup issued') \in Nat
    BY <2>1, Finite
  <2> QED BY <2>2, <2>3, GatewayAssumption
<1>10. Settled'
  BY <1>1, <1>2 DEF Settled, Moved, GatewayTypeOK
<1> QED BY <1>3, <1>4, <1>6, <1>7, <1>8, <1>9, <1>10, Zenon

\* A reservation that lapsed, or whose Agent is being removed, is given up when
\* its answer arrives; a reservation pruned before is not given up twice.
LEMMA CommitRefused ==
  ASSUME SlotsInv, GatewayTypeOK', NEW c \in Calls, call[c].pc = "send",
         PruneTo(reserved \ {c}, issued, slots \ (reserved \cap {c})),
         Moved(c, {"done"}), UNCHANGED <<sock, active>>
  PROVE  SlotsInv'
<1> DEFINE D == Pruned \cup (reserved \cap {c})
<1>1. c \notin issued
  BY DEF SlotsInv, Settled
<1>2. D \in SUBSET (reserved \cup issued)
  BY DEF Pruned
<1>3. reserved' = reserved \ D /\ slots' = slots \ D
  BY DEF PruneTo, Pruned
<1>4. issued' = issued \ D
  BY <1>1 DEF PruneTo, Pruned
<1>5. \A d \in reserved \ D : call'[d].pc \in {"check", "send"}
  BY DEF SlotsInv, SlotsConserved, Moved, GatewayTypeOK
<1>6. \A d \in issued \cup active : call'[d].pc = "done"
  BY DEF SlotsInv, Settled, Moved, GatewayTypeOK
<1>7. SessionsKept
  BY SockSame
<1> HIDE DEF D
<1> QED BY <1>2, <1>3, <1>4, <1>5, <1>6, <1>7, Shrinks

LEMMA SlotsStep == SlotsInv /\ [GatewayNext]_gatewayVars => SlotsInv'
<1> SUFFICES ASSUME SlotsInv, [GatewayNext]_gatewayVars PROVE SlotsInv'
  OBVIOUS
<1>0. GatewayTypeOK /\ GatewayTypeOK'
  BY TypeStep DEF SlotsInv
<1>a. ASSUME UNCHANGED <<call, sock, slots, reserved, issued, active>> PROVE SlotsInv'
  BY <1>0, <1>a DEF SlotsInv, SlotsConserved, Settled, Live
<1>1. ASSUME NEW c \in Calls, Lapse(c) PROVE SlotsInv'
  BY <1>1, <1>a DEF Lapse
<1>2. ASSUME NEW c \in Calls, BeginTokenFull(c) \/ BeginTokenUnknown(c) PROVE SlotsInv'
  <2>1. c \notin slots /\ UNCHANGED <<sock, slots, reserved, issued, active>>
    BY <1>2, Outside DEF BeginTokenFull, BeginTokenUnknown
  <2>2. Moved(c, {"full"}) \/ Moved(c, {"done"})
    BY <1>0, <1>2, CallMoves DEF BeginTokenFull, BeginTokenUnknown
  <2> QED BY <1>0, <2>1, <2>2, FreeCallMoves DEF Moved
<1>3. ASSUME NEW c \in Calls, BeginToken(c) PROVE SlotsInv'
  <2>1. c \notin slots /\ UNCHANGED <<sock, active>>
    BY <1>3, Outside DEF BeginToken
  <2>2. CASE (CallAt(c, "full") \/ CallAt(c, "done")) /\ PruneTo(reserved, issued, slots)
    <3>1. Moved(c, {"full"}) \/ Moved(c, {"done"})
      BY <1>0, <2>2, CallMoves
    <3>2. \A d \in slots : call'[d] = call[d]
      BY <1>0, <2>1, <3>1 DEF Moved, GatewayTypeOK
    <3> QED BY <1>0, <2>1, <2>2, <3>2, Prunes
  <2>3. CASE /\ StartRequest(c, call[c].agent)
             /\ PruneTo(reserved \cup {c}, issued, slots \cup {c})
             /\ Cardinality((reserved \cup issued) \ Pruned) < MaxOutstanding
    BY <1>0, <1>3, <2>3, Reserves
  <2> QED BY <1>3, <2>2, <2>3 DEF BeginToken
<1>4. ASSUME NEW c \in Calls, \/ BeginPlain(c) \/ BeginDirect(c) \/ BeginSnapshot(c)
                              \/ BeginProbeCall(c) \/ EndProbeCall(c)
      PROVE  SlotsInv'
  <2>1. c \notin slots /\ UNCHANGED <<sock, slots, reserved, issued, active>>
    BY <1>4, Outside DEF BeginPlain, BeginDirect, BeginSnapshot, BeginProbeCall, EndProbeCall
  <2>2. \E p : Moved(c, p)
    BY <1>0, <1>4, CallMoves
    DEF BeginPlain, BeginDirect, BeginSnapshot, BeginProbeCall, EndProbeCall
  <2> QED BY <1>0, <2>1, <2>2, FreeCallMoves DEF Moved
<1>5. ASSUME NEW c \in Calls, EndSnapshotCheck(c) PROVE SlotsInv'
  <2>1. c \notin slots /\ UNCHANGED <<sock, slots, reserved, issued, active>>
    BY <1>5, Outside DEF EndSnapshotCheck
  <2>2. CallAt(c, "done") \/ \E S : Sends(c, record[call[c].agent].rev, "not_dispatched", S)
    BY <1>5 DEF EndSnapshotCheck
  <2>3. \E p : Moved(c, p)
    BY <1>0, <2>2, CallMoves
  <2> QED BY <1>0, <2>1, <2>3, FreeCallMoves DEF Moved
<1>6. ASSUME NEW c \in Calls, EndCheck(c) PROVE SlotsInv'
  <2>1. call[c].pc = "check" /\ UNCHANGED <<sock, active>>
    BY <1>6 DEF EndCheck
  <2>2. CASE EndCall(c)
    BY <1>0, <2>1, <2>2, CallGone
  <2>3. CASE /\ \E ds, S : Sends(c, call[c].rev, ds, S)
             /\ UNCHANGED <<slots, reserved, issued>>
    <3>1. Moved(c, {"send"})
      BY <1>0, <2>3, CallMoves
    <3>2. \A d \in reserved : call'[d].pc \in {"check", "send"}
      BY <3>1 DEF Moved, SlotsInv, SlotsConserved, GatewayTypeOK
    <3>3. \A d \in issued \cup active : call'[d].pc = "done"
      BY <2>1, <3>1 DEF Moved, SlotsInv, Settled, GatewayTypeOK
    <3>4. SessionsKept
      BY <2>1, SockSame
    <3>5. {} \in SUBSET (reserved \cup issued) /\ reserved' = reserved \ {} /\ issued' = issued \ {}
          /\ slots' = slots \ {} /\ active' = active
      BY <2>1, <2>3
    <3>6. \A d \in reserved \ {} : call'[d].pc \in {"check", "send"}
      BY <3>2
    <3> QED BY <1>0, <3>3, <3>4, <3>5, <3>6, Shrinks
  <2> QED BY <1>6, <2>2, <2>3 DEF EndCheck
<1>7. ASSUME NEW c \in Calls, EndSend(c) PROVE SlotsInv'
  BY <1>0, <1>7, CallGone DEF EndSend, RequestFails, AnswerArrives, BuildFails
<1>8. ASSUME NEW c \in Calls, CommitTicket(c) PROVE SlotsInv'
  <2>1. Moved(c, {"done"}) /\ call[c].pc = "send" /\ UNCHANGED <<sock, active>>
    BY <1>0, <1>8, CallMoves DEF CommitTicket
  <2>2. CASE c \in reserved \ lapsed /\ PruneTo(reserved \ {c}, issued \cup {c}, slots)
    BY <1>0, <2>1, <2>2, Issues
  <2>3. CASE PruneTo(reserved \ {c}, issued, slots \ (reserved \cap {c}))
    BY <1>0, <2>1, <2>3, CommitRefused
  <2> QED BY <1>8, <2>2, <2>3 DEF CommitTicket
<1>9. ASSUME NEW s \in Socks, AttachRefused(s) PROVE SlotsInv'
  <2>1. SessionsKept
    BY <1>0, <1>9 DEF AttachRefused, Socket, SessionsKept, Live, GatewayTypeOK
  <2>2. UNCHANGED <<call, reserved, active>>
    BY <1>9 DEF AttachRefused
  <2>3. PICK D \in SUBSET issued : issued' = issued \ D /\ slots' = slots \ D
    <3>1. CASE UNCHANGED <<slots, issued, lapsed>>
      BY <3>1
    <3>2. CASE \E c \in issued \cap lapsed : issued' = issued \ {c} /\ slots' = slots \ {c}
      <4>1. PICK c \in issued : issued' = issued \ {c} /\ slots' = slots \ {c}
        BY <3>2
      <4> QED BY <4>1
    <3> QED BY <1>9, <3>1, <3>2 DEF AttachRefused
  <2>4. D \in SUBSET (reserved \cup issued) /\ reserved' = reserved \ D
    BY <2>2 DEF SlotsInv, SlotsConserved
  <2>5. \A d \in reserved \ D : call'[d].pc \in {"check", "send"}
    BY <2>2 DEF SlotsInv, SlotsConserved
  <2>6. \A d \in issued \cup active : call'[d].pc = "done"
    BY <2>2 DEF SlotsInv, Settled
  <2>7. active' = active
    BY <2>2
  <2> QED BY <1>0, <2>1, <2>3, <2>4, <2>5, <2>6, <2>7, Shrinks
<1>10. ASSUME NEW s \in Socks, NEW c \in Calls, Attach(s, c) PROVE SlotsInv'
  <2>1. c \in issued /\ sock[s].pc = "new" /\ issued' = issued \ {c} /\ UNCHANGED <<call, reserved>>
    BY <1>10 DEF Attach
  <2>2. CASE Socket(s, "check", c) /\ active' = active \cup {c} /\ UNCHANGED slots
    BY <1>0, <2>1, <2>2, SessionBegins
  <2>3. CASE Socket(s, "done", NoTicket) /\ slots' = slots \ {c} /\ UNCHANGED active
    <3>1. SessionsKept
      BY <1>0, <2>1, <2>3 DEF Socket, SessionsKept, Live, GatewayTypeOK
    <3>2. reserved' = reserved \ {c} /\ {c} \in SUBSET (reserved \cup issued)
      BY <2>1 DEF SlotsInv, SlotsConserved
    <3>3. \A d \in reserved \ {c} : call'[d].pc \in {"check", "send"}
      BY <2>1 DEF SlotsInv, SlotsConserved
    <3>4. \A d \in issued \cup active : call'[d].pc = "done"
      BY <2>1 DEF SlotsInv, Settled
    <3> QED BY <1>0, <2>1, <2>3, <3>1, <3>2, <3>3, <3>4, Shrinks
  <2> QED BY <1>10, <2>2, <2>3 DEF Attach
<1>11. ASSUME NEW s \in Socks, AttachChecked(s) \/ ConnectEnds(s) \/ SessionEnds(s) \/ Watch(s)
       PROVE  SlotsInv'
  <2>1. Live(s) /\ UNCHANGED <<call, reserved, issued>>
    BY <1>11 DEF AttachChecked, ConnectEnds, SessionEnds, Watch, Live
  <2>2. CASE EndSocket(s)
    BY <1>0, <2>1, <2>2, SessionGone
  <2>3. CASE /\ Socket(s, "connect", sock[s].ticket) \/ Socket(s, "open", sock[s].ticket)
             /\ UNCHANGED <<active, slots>>
    <3>1. SessionsKept
      BY <1>0, <2>1, <2>3 DEF Socket, SessionsKept, Live, GatewayTypeOK
    <3>2. \A d \in reserved \ {} : call'[d].pc \in {"check", "send"}
      BY <2>1 DEF SlotsInv, SlotsConserved
    <3>3. \A d \in issued \cup active : call'[d].pc = "done"
      BY <2>1 DEF SlotsInv, Settled
    <3>4. {} \in SUBSET (reserved \cup issued) /\ reserved' = reserved \ {} /\ issued' = issued \ {}
          /\ slots' = slots \ {} /\ active' = active
      BY <2>1, <2>3
    <3> QED BY <1>0, <3>1, <3>2, <3>3, <3>4, Shrinks
  <2> QED BY <1>11, <2>2, <2>3 DEF AttachChecked, ConnectEnds, SessionEnds, Watch
<1>12. ASSUME NEW a \in Agents, UpdateRecord(a) \/ DeleteRow(a) \/ EndRemoval(a) PROVE SlotsInv'
  BY <1>12, <1>a DEF UpdateRecord, DeleteRow, EndRemoval
<1>13. ASSUME NEW a \in Agents, StartRemoval(a) PROVE SlotsInv'
  BY <1>0, <1>13, Prunes DEF StartRemoval
<1>14. CASE Restart
  <2>1. slots' = {} /\ reserved' = {} /\ issued' = {} /\ active' = {}
    BY <1>14 DEF Restart
  <2>2. \A s \in Socks : ~Live(s)'
    BY <1>0, <1>14 DEF Restart, Live, GatewayTypeOK
  <2>3. Cardinality({}) = 0
    BY FS_EmptySet
  <2>4. SlotsConserved'
    BY <2>1, <2>2, <2>3, GatewayAssumption DEF SlotsConserved
  <2> QED BY <1>0, <2>1, <2>4 DEF SlotsInv, Settled
<1>15. CASE UNCHANGED gatewayVars
  BY <1>15, <1>a DEF gatewayVars
<1> QED BY <1>1, <1>2, <1>3, <1>4, <1>5, <1>6, <1>7, <1>8, <1>9, <1>10, <1>11, <1>12,
           <1>13, <1>14, <1>15 DEF GatewayNext

-----------------------------------------------------------------------------
(* Removals.                                                               *)

\* No entry is new, and no removal begins.
LEMMA QuietKept ==
  ASSUME SlotsInv, SlotsInv', RemovalQuiet,
         slots' \subseteq slots,
         \A c \in Calls : call'[c].agent = call[c].agent,
         \A a \in Agents : Unfinished(a)' => Unfinished(a)
  PROVE  RemovalQuiet'
<1> SUFFICES ASSUME NEW a \in Agents, Unfinished(a)',
                    NEW c \in (reserved \cup issued \cup active)'
             PROVE  call'[c].agent # a
  BY DEF RemovalQuiet
<1>1. c \in reserved \cup issued \cup active /\ c \in Calls
  BY DEF SlotsInv, SlotsConserved, GatewayTypeOK
<1> QED BY <1>1 DEF RemovalQuiet

\* An admitted call is for an Agent that is not being removed.
LEMMA QuietReserves ==
  ASSUME SlotsInv, SlotsInv', RemovalQuiet, NEW c \in Calls, BeginToken(c),
         ~Blocked(call[c].agent)
  PROVE  RemovalQuiet'
<1> SUFFICES ASSUME NEW a \in Agents, Unfinished(a)',
                    NEW d \in (reserved \cup issued \cup active)'
             PROVE  call'[d].agent # a
  BY DEF RemovalQuiet
<1>1. Unfinished(a) /\ d \in Calls
  BY DEF BeginToken, Unfinished, SlotsInv, GatewayTypeOK
<1>2. d \in reserved \cup issued \cup active \cup {c}
  BY DEF BeginToken, PruneTo, SlotsInv, SlotsConserved
<1>3. \E p : Moved(c, p)
  BY CallMoves DEF BeginToken, SlotsInv
<1> QED BY <1>1, <1>2, <1>3 DEF Moved, Blocked, RemovalQuiet

LEMMA QuietStep == SlotsInv /\ RemovalQuiet /\ [GatewayNext]_gatewayVars => RemovalQuiet'
<1> SUFFICES ASSUME SlotsInv, RemovalQuiet, [GatewayNext]_gatewayVars PROVE RemovalQuiet'
  OBVIOUS
<1>0. SlotsInv' /\ GatewayTypeOK
  BY SlotsStep DEF SlotsInv
<1>a. ASSUME UNCHANGED <<call, removal>>, slots' \subseteq slots PROVE RemovalQuiet'
  BY <1>0, <1>a, QuietKept DEF Unfinished
<1>b. ASSUME NEW c \in Calls, NEW p, Moved(c, p), UNCHANGED removal, slots' \subseteq slots
      PROVE  RemovalQuiet'
  <2>1. \A d \in Calls : call'[d].agent = call[d].agent
    BY <1>b DEF Moved
  <2> QED BY <1>0, <1>b, <2>1, QuietKept DEF Unfinished
<1>1. ASSUME NEW c \in Calls, Lapse(c) PROVE RemovalQuiet'
  BY <1>1, <1>a DEF Lapse
<1>2. ASSUME NEW c \in Calls, BeginTokenFull(c) \/ BeginTokenUnknown(c) PROVE RemovalQuiet'
  <2>1. Moved(c, {"full"}) \/ Moved(c, {"done"})
    BY <1>0, <1>2, CallMoves DEF BeginTokenFull, BeginTokenUnknown
  <2> QED BY <1>2, <1>b, <2>1 DEF BeginTokenFull, BeginTokenUnknown
<1>3. ASSUME NEW c \in Calls, BeginToken(c) PROVE RemovalQuiet'
  <2>1. CASE ~Blocked(call[c].agent)
    BY <1>0, <1>3, <2>1, QuietReserves
  <2>2. CASE Blocked(call[c].agent)
    <3>1. CallAt(c, "full") /\ PruneTo(reserved, issued, slots) /\ UNCHANGED removal
      BY <1>3, <2>2 DEF BeginToken
    <3>2. Moved(c, {"full"}) /\ slots' \subseteq slots
      BY <1>0, <3>1, CallMoves DEF PruneTo
    <3> QED BY <1>b, <3>1, <3>2
  <2> QED BY <2>1, <2>2
<1>4. ASSUME NEW c \in Calls,
             \/ BeginPlain(c) \/ BeginDirect(c) \/ BeginSnapshot(c)
             \/ BeginProbeCall(c) \/ EndProbeCall(c)
      PROVE  RemovalQuiet'
  <2>1. \E p : Moved(c, p)
    BY <1>0, <1>4, CallMoves
    DEF BeginPlain, BeginDirect, BeginSnapshot, BeginProbeCall, EndProbeCall
  <2> QED BY <1>4, <1>b, <2>1
          DEF BeginPlain, BeginDirect, BeginSnapshot, BeginProbeCall, EndProbeCall
<1>5. ASSUME NEW c \in Calls, EndSnapshotCheck(c) PROVE RemovalQuiet'
  <2>1. CallAt(c, "done") \/ \E S : Sends(c, record[call[c].agent].rev, "not_dispatched", S)
    BY <1>5 DEF EndSnapshotCheck
  <2>2. \E p : Moved(c, p)
    BY <1>0, <2>1, CallMoves
  <2> QED BY <1>5, <1>b, <2>2 DEF EndSnapshotCheck
<1>6. ASSUME NEW c \in Calls, EndCheck(c) PROVE RemovalQuiet'
  <2>1. EndCall(c) \/ ((\E ds, S : Sends(c, call[c].rev, ds, S)) /\ UNCHANGED slots)
    BY <1>6 DEF EndCheck
  <2>2. (\E p : Moved(c, p)) /\ slots' \subseteq slots
    BY <1>0, <2>1, CallMoves DEF EndCall, ReleaseReservation
  <2> QED BY <1>6, <1>b, <2>2 DEF EndCheck
<1>7. ASSUME NEW c \in Calls, EndSend(c) PROVE RemovalQuiet'
  <2>1. EndCall(c)
    BY <1>7 DEF EndSend, RequestFails, AnswerArrives, BuildFails
  <2>2. Moved(c, {"done"}) /\ slots' \subseteq slots
    BY <1>0, <2>1, CallMoves DEF EndCall, ReleaseReservation
  <2> QED BY <1>7, <1>b, <2>2 DEF EndSend
<1>8. ASSUME NEW c \in Calls, CommitTicket(c) PROVE RemovalQuiet'
  <2>1. Moved(c, {"done"}) /\ slots' \subseteq slots
    BY <1>0, <1>8, CallMoves DEF CommitTicket, PruneTo
  <2> QED BY <1>8, <1>b, <2>1 DEF CommitTicket
<1>9. ASSUME NEW s \in Socks, AttachRefused(s) PROVE RemovalQuiet'
  BY <1>9, <1>a DEF AttachRefused
<1>10. ASSUME NEW s \in Socks, NEW c \in Calls, Attach(s, c) PROVE RemovalQuiet'
  BY <1>10, <1>a DEF Attach
<1>11. ASSUME NEW s \in Socks, AttachChecked(s) \/ ConnectEnds(s) \/ SessionEnds(s) \/ Watch(s)
       PROVE  RemovalQuiet'
  <2>1. slots' \subseteq slots /\ UNCHANGED <<call, removal>>
    BY <1>11 DEF AttachChecked, ConnectEnds, SessionEnds, Watch, EndSocket, ReleaseActive
  <2> QED BY <1>a, <2>1
<1>12. ASSUME NEW a \in Agents, UpdateRecord(a) \/ DeleteRow(a) PROVE RemovalQuiet'
  BY <1>12, <1>a DEF UpdateRecord, DeleteRow
<1>13. ASSUME NEW a \in Agents, EndRemoval(a) PROVE RemovalQuiet'
  <2>1. \A b \in Agents : Unfinished(b)' => Unfinished(b)
    BY <1>0, <1>13 DEF EndRemoval, Unfinished, GatewayTypeOK
  <2> QED BY <1>0, <1>13, <2>1, QuietKept DEF EndRemoval
<1>14. ASSUME NEW a \in Agents, StartRemoval(a) PROVE RemovalQuiet'
  <2>0. slots' \subseteq slots /\ UNCHANGED call
    BY <1>14 DEF StartRemoval, PruneTo
  <2>1. CASE UNCHANGED removal
    BY <1>a, <2>0, <2>1
  <2>2. CASE Usage(a) = {} /\ removal' = [removal EXCEPT ![a] = "open"]
    <3> SUFFICES ASSUME NEW b \in Agents, Unfinished(b)',
                        NEW c \in (reserved \cup issued \cup active)'
                 PROVE  call[c].agent # b
      BY <2>0 DEF RemovalQuiet
    <3>1. c \in reserved \cup issued \cup active /\ c \notin Pruned
      BY <1>14 DEF StartRemoval, PruneTo, Pruned, SlotsInv, SlotsConserved
    <3>2. CASE b = a
      BY <2>2, <3>1, <3>2 DEF Usage
    <3>3. CASE b # a
      <4>1. Unfinished(b)
        BY <1>0, <2>2, <3>3 DEF Unfinished, GatewayTypeOK
      <4> QED BY <3>1, <4>1 DEF RemovalQuiet
    <3> QED BY <3>2, <3>3
  <2> QED BY <1>14, <2>1, <2>2 DEF StartRemoval
<1>15. CASE Restart
  BY <1>15 DEF Restart, RemovalQuiet
<1>16. CASE UNCHANGED gatewayVars
  BY <1>16, <1>a DEF gatewayVars
<1> QED BY <1>1, <1>2, <1>3, <1>4, <1>5, <1>6, <1>7, <1>8, <1>9, <1>10, <1>11, <1>12,
           <1>13, <1>14, <1>15, <1>16 DEF GatewayNext

-----------------------------------------------------------------------------
(* Audit rows.                                                             *)

\* What one call or session has to keep for its row to be honest.
RowHonest(x) ==
  /\ audit[x] = "not_dispatched" =>
       /\ "op" \notin sent[x]
       /\ x \in Calls /\ call[x].route.kind # "check_first" => "probe" \notin sent[x]
  /\ "op" \in sent[x] => audit[x] # "none"
  /\ x \in Socks /\ audit[x] = "dispatched" => "op" \in sent[x]

CallHonestAt(c) ==
  /\ call[c].pc \in {"new", "early"} => audit[c] = "none" /\ sent[c] = {}
  /\ call[c].pc = "early" => call[c].route.kind = "check_first"
  /\ call[c].pc \in {"check", "probing"} => audit[c] = "pending" /\ sent[c] = {}
  /\ call[c].pc = "send" => audit[c] = "pending"

SockHonestAt(s) ==
  /\ sock[s].pc \in {"new", "check"} => audit[s] = "none" /\ sent[s] = {}
  /\ sock[s].pc \in {"connect", "open"} => audit[s] = "pending"
  /\ sock[s].pc = "open" => "op" \in sent[s]

LEMMA AuditParts ==
  /\ AuditInv <=> /\ GatewayTypeOK
                  /\ \A x \in Actors : RowHonest(x)
                  /\ \A c \in Calls : CallHonestAt(c)
                  /\ \A s \in Socks : SockHonestAt(s)
  /\ AuditInv' <=> /\ GatewayTypeOK'
                   /\ \A x \in Actors : RowHonest(x)'
                   /\ \A c \in Calls : CallHonestAt(c)'
                   /\ \A s \in Socks : SockHonestAt(s)'
<1> USE DEF AuditInv, DispatchNeverDenied, CallHonest, SockHonest, RowHonest, CallHonestAt, SockHonestAt
<1> QED OBVIOUS

LEMMA AuditInit == GatewayInit => AuditInv
<1> SUFFICES ASSUME GatewayInit PROVE AuditInv
  OBVIOUS
<1>1. \A x \in Actors : audit[x] = "none" /\ sent[x] = {}
  BY DEF GatewayInit
<1>2. \A c \in Calls : call[c].pc = "new" /\ c \in Actors
  BY DEF GatewayInit, Actors
<1>3. \A s \in Socks : sock[s].pc = "new" /\ s \in Actors
  BY DEF GatewayInit, Actors
<1> QED BY <1>1, <1>2, <1>3, TypeInit
    DEF AuditInv, DispatchNeverDenied, CallHonest, SockHonest

\* Only one call's row, requests and state change.
LEMMA AuditOfCall ==
  ASSUME AuditInv, GatewayTypeOK', NEW c \in Calls, NEW p, Moved(c, p), UNCHANGED sock,
         \A x \in Actors \ {c} : audit'[x] = audit[x] /\ sent'[x] = sent[x],
         RowHonest(c)', CallHonestAt(c)'
  PROVE  AuditInv'
<1>1. \A s \in Socks : s \in Actors \ {c}
  BY GatewayAssumption DEF Actors
<1>2. \A x \in Actors \ {c} : RowHonest(x) /\ (x \in Calls => call'[x] = call[x])
  BY AuditParts DEF Moved
<1>3. \A x \in Actors \ {c} : RowHonest(x)'
  BY <1>2 DEF RowHonest
<1>4. \A d \in Calls \ {c} : CallHonestAt(d)'
  BY AuditParts DEF CallHonestAt, Moved, Actors
<1>5. \A s \in Socks : SockHonestAt(s)'
  BY <1>1, AuditParts DEF SockHonestAt
<1> QED BY <1>3, <1>4, <1>5, AuditParts

\* Only one session's row, requests and state change.
LEMMA AuditOfSock ==
  ASSUME AuditInv, GatewayTypeOK', NEW s \in Socks, UNCHANGED call,
         \A t \in Socks \ {s} : sock'[t] = sock[t],
         \A x \in Actors \ {s} : audit'[x] = audit[x] /\ sent'[x] = sent[x],
         RowHonest(s)', SockHonestAt(s)'
  PROVE  AuditInv'
<1>1. \A c \in Calls : c \in Actors \ {s}
  BY GatewayAssumption DEF Actors
<1>2. \A x \in Actors \ {s} : RowHonest(x)'
  BY AuditParts DEF RowHonest
<1>3. \A c \in Calls : CallHonestAt(c)'
  BY <1>1, AuditParts DEF CallHonestAt
<1>4. \A t \in Socks \ {s} : SockHonestAt(t)'
  BY AuditParts DEF SockHonestAt, Actors
<1> QED BY <1>2, <1>3, <1>4, AuditParts

\* What the audit operators write, and where.
LEMMA AuditWrites ==
  ASSUME GatewayTypeOK, NEW x \in Actors
  PROVE  /\ OpenAudit(x) => audit'[x] = "pending" /\ \A y \in Actors \ {x} : audit'[y] = audit[y]
         /\ RecordFailure(x) => /\ audit'[x] \in {"not_dispatched", "none"}
                                /\ \A y \in Actors \ {x} : audit'[y] = audit[y]
         /\ \A ds : CloseAudit(x, ds) => /\ audit'[x] \in {ds, "pending"}
                                         /\ \A y \in Actors \ {x} : audit'[y] = audit[y]
  BY DEF GatewayTypeOK, OpenAudit, RecordFailure, CloseAudit

LEMMA RouteFailureWrites ==
  ASSUME GatewayTypeOK, NEW x \in Actors, RecordRouteFailure(x)
  PROVE  /\ audit'[x] \in {"not_dispatched", "pending", audit[x]}
         /\ \A y \in Actors \ {x} : audit'[y] = audit[y]
  BY AuditWrites DEF RecordRouteFailure

LEMMA SentWrites ==
  ASSUME GatewayTypeOK, NEW x \in Actors, NEW S, sent' = [sent EXCEPT ![x] = S]
  PROVE  sent'[x] = S /\ \A y \in Actors \ {x} : sent'[y] = sent[y]
  BY DEF GatewayTypeOK

\* The client is called under a pending row, and the operation leaves or not.
LEMMA SendsHonest ==
  ASSUME AuditInv, GatewayTypeOK', NEW c \in Calls, NEW r, NEW ds, NEW S, Sends(c, r, ds, S),
         UNCHANGED sock,
         audit'[c] = "pending", \A x \in Actors \ {c} : audit'[x] = audit[x]
  PROVE  AuditInv'
<1>1. GatewayTypeOK /\ c \in Actors /\ c \notin Socks
  BY GatewayAssumption DEF AuditInv, Actors
<1>2. Moved(c, {"send"})
  BY <1>1, CallMoves
<1>3. \A x \in Actors \ {c} : sent'[x] = sent[x]
  BY <1>1, SentWrites DEF Sends
<1>4. RowHonest(c)' /\ CallHonestAt(c)'
  BY <1>1, <1>2 DEF RowHonest, CallHonestAt, Moved
<1> QED BY <1>2, <1>3, <1>4, AuditOfCall

\* A call that had sent nothing ends with a row that says so, or with none.
LEMMA EndsUnsent ==
  ASSUME AuditInv, GatewayTypeOK', NEW c \in Calls, NEW p, Moved(c, {p}), p \in {"full", "done"},
         UNCHANGED <<sock, sent>>, sent[c] = {},
         audit'[c] \in {"not_dispatched", "none", "pending"},
         \A x \in Actors \ {c} : audit'[x] = audit[x]
  PROVE  AuditInv'
<1>1. RowHonest(c)' /\ CallHonestAt(c)'
  BY DEF RowHonest, CallHonestAt, Moved
<1> QED BY <1>1, AuditOfCall

\* The intent is committed, and the request may leave.
LEMMA StartHonest ==
  ASSUME AuditInv, GatewayTypeOK', NEW c \in Calls, call[c].pc = "new", UNCHANGED sock,
         StartRequest(c, call[c].agent)
  PROVE  AuditInv'
<1>0. GatewayTypeOK /\ c \in Actors /\ sent[c] = {}
  BY DEF AuditInv, CallHonest, Actors
<1>1. audit'[c] = "pending" /\ \A x \in Actors \ {c} : audit'[x] = audit[x]
  BY <1>0, AuditWrites DEF StartRequest
<1>2. CASE Captured(c, record[call[c].agent].rev) /\ UNCHANGED sent
  <2>1. Moved(c, {"check"})
    BY <1>0, <1>2 DEF Captured, Moved, GatewayTypeOK
  <2>2. RowHonest(c)' /\ CallHonestAt(c)'
    BY <1>0, <1>1, <1>2, <2>1 DEF RowHonest, CallHonestAt, Moved
  <2> QED BY <1>1, <1>2, <2>1, <2>2, AuditOfCall
<1>3. CASE Sends(c, record[call[c].agent].rev, "not_dispatched", sent[c])
  BY <1>1, <1>3, SendsHonest
<1> QED BY <1>2, <1>3 DEF StartRequest

LEMMA RefusedHonest ==
  ASSUME AuditInv, GatewayTypeOK', NEW c \in Calls, call[c].pc = "new", UNCHANGED sock,
         CallAt(c, "done"), RequestRefused(c) \/ InvalidRequest(c)
  PROVE  AuditInv'
<1>0. GatewayTypeOK /\ c \in Actors /\ sent[c] = {} /\ audit[c] = "none"
  BY DEF AuditInv, CallHonest, Actors
<1>1. /\ audit'[c] \in {"not_dispatched", "none", "pending"}
      /\ \A x \in Actors \ {c} : audit'[x] = audit[x]
  BY <1>0, AuditWrites, RouteFailureWrites DEF RequestRefused, InvalidRequest
<1>2. UNCHANGED sent
  BY DEF RequestRefused, InvalidRequest
<1>3. Moved(c, {"done"})
  BY <1>0, CallMoves
<1> QED BY <1>0, <1>1, <1>2, <1>3, EndsUnsent

LEMMA BeginHonest ==
  ASSUME AuditInv, GatewayTypeOK', NEW c \in Calls,
         BeginTokenFull(c) \/ BeginTokenUnknown(c) \/ BeginToken(c) \/ BeginPlain(c)
           \/ BeginDirect(c) \/ BeginSnapshot(c) \/ BeginProbeCall(c)
  PROVE  AuditInv'
<1>0. GatewayTypeOK /\ c \in Actors /\ call[c].pc = "new" /\ sent[c] = {} /\ audit[c] = "none"
      /\ UNCHANGED sock
  BY DEF BeginTokenFull, BeginTokenUnknown, BeginToken, BeginPlain, BeginDirect, BeginSnapshot,
         BeginProbeCall, AuditInv, CallHonest, Actors
<1>1. CASE (CallAt(c, "full") \/ CallAt(c, "done")) /\ RecordFailure(c) /\ UNCHANGED sent
  <2>1. Moved(c, {"full"}) \/ Moved(c, {"done"})
    BY <1>0, <1>1, CallMoves
  <2>2. /\ audit'[c] \in {"not_dispatched", "none", "pending"}
        /\ \A x \in Actors \ {c} : audit'[x] = audit[x]
    BY <1>0, <1>1, AuditWrites
  <2> QED BY <1>0, <1>1, <2>1, <2>2, EndsUnsent
<1>2. CASE StartRequest(c, call[c].agent)
  BY <1>0, <1>2, StartHonest
<1>3. CASE CallAt(c, "done") /\ (RequestRefused(c) \/ InvalidRequest(c))
  BY <1>0, <1>3, RefusedHonest
<1>4. CASE OpenAudit(c) /\ Sends(c, record[call[c].agent].rev, "not_dispatched", sent[c])
  <2>1. audit'[c] = "pending" /\ \A x \in Actors \ {c} : audit'[x] = audit[x]
    BY <1>0, <1>4, AuditWrites
  <2> QED BY <1>0, <1>4, <2>1, SendsHonest
<1>5. CASE CallAt(c, "early") /\ call[c].route.kind = "check_first" /\ UNCHANGED <<audit, sent>>
  <2>1. Moved(c, {"early"})
    BY <1>0, <1>5, CallMoves
  <2>2. RowHonest(c)' /\ CallHonestAt(c)'
    BY <1>0, <1>5, <2>1 DEF RowHonest, CallHonestAt, Moved
  <2> QED BY <1>0, <1>5, <2>1, <2>2, AuditOfCall
<1>6. CASE BeginTokenFull(c) \/ BeginTokenUnknown(c)
  BY <1>1, <1>6 DEF BeginTokenFull, BeginTokenUnknown
<1>7. CASE BeginToken(c)
  BY <1>1, <1>2, <1>3, <1>7 DEF BeginToken
<1>8. CASE BeginPlain(c)
  BY <1>2, <1>3, <1>8 DEF BeginPlain
<1>9. CASE BeginDirect(c)
  BY <1>3, <1>4, <1>9 DEF BeginDirect
<1>10. CASE BeginSnapshot(c)
  BY <1>1, <1>5, <1>10 DEF BeginSnapshot
<1>11. CASE CallAt(c, "probing") /\ OpenAudit(c) /\ UNCHANGED sent
  <2>1. Moved(c, {"probing"})
    BY <1>0, <1>11, CallMoves
  <2>2. audit'[c] = "pending" /\ \A x \in Actors \ {c} : audit'[x] = audit[x]
    BY <1>0, <1>11, AuditWrites
  <2>3. RowHonest(c)' /\ CallHonestAt(c)'
    BY <1>0, <1>11, <2>1, <2>2 DEF RowHonest, CallHonestAt, Moved
  <2> QED BY <1>0, <1>11, <2>1, <2>2, <2>3, AuditOfCall
<1>12. CASE BeginProbeCall(c)
  BY <1>3, <1>11, <1>12 DEF BeginProbeCall
<1> QED BY <1>6, <1>7, <1>8, <1>9, <1>10, <1>12

\* The probe has ended: the v2 row says of it what it reports, the v1 row never
\* denies it.
LEMMA ProbeHonest ==
  ASSUME AuditInv, GatewayTypeOK', NEW c \in Calls, EndProbeCall(c)
  PROVE  AuditInv'
<1>0. GatewayTypeOK /\ c \in Actors /\ c \notin Socks /\ UNCHANGED sock
  BY GatewayAssumption DEF EndProbeCall, AuditInv, Actors
<1>1. PICK ds \in {"not_dispatched", "unknown", "dispatched"}, S \in {{}, {"probe"}} :
        /\ ds = "not_dispatched" => S = {}
        /\ sent' = [sent EXCEPT ![c] = S]
        /\ CloseAudit(c, ds)
  <2>1. PICK e \in DispatchStates, probed \in BOOLEAN :
          /\ e = "not_dispatched" => ~probed
          /\ sent' = [sent EXCEPT ![c] = IF probed THEN {"probe"} ELSE {}]
          /\ CloseAudit(c, IF call[c].route.kind = "probe" THEN "dispatched" ELSE e)
    BY DEF EndProbeCall, ProbeReports
  <2> DEFINE ds == IF call[c].route.kind = "probe" THEN "dispatched" ELSE e
             S == IF probed THEN {"probe"} ELSE {}
  <2>2. ds \in {"not_dispatched", "unknown", "dispatched"} /\ S \in {{}, {"probe"}}
    BY DEF DispatchStates
  <2>3. ds = "not_dispatched" => S = {}
    BY <2>1
  <2>4. sent' = [sent EXCEPT ![c] = S] /\ CloseAudit(c, ds)
    BY <2>1
  <2> QED BY <2>2, <2>3, <2>4
<1>2. /\ sent'[c] = S /\ audit'[c] \in {ds, "pending"}
      /\ \A x \in Actors \ {c} : audit'[x] = audit[x] /\ sent'[x] = sent[x]
  BY <1>0, <1>1, AuditWrites, SentWrites
<1>3. Moved(c, {"done"})
  BY <1>0, CallMoves DEF EndProbeCall
<1>4. RowHonest(c)' /\ CallHonestAt(c)'
  BY <1>0, <1>1, <1>2, <1>3 DEF RowHonest, CallHonestAt, Moved
<1> QED BY <1>0, <1>2, <1>3, <1>4, AuditOfCall

LEMMA SnapshotHonest ==
  ASSUME AuditInv, GatewayTypeOK', NEW c \in Calls, EndSnapshotCheck(c)
  PROVE  AuditInv'
<1>0. /\ GatewayTypeOK /\ c \in Actors /\ c \notin Socks /\ UNCHANGED sock
      /\ sent[c] = {} /\ audit[c] = "none" /\ call[c].route.kind = "check_first"
  BY GatewayAssumption DEF EndSnapshotCheck, AuditInv, CallHonest, Actors
<1>1. PICK p \in SUBSET {"probe"} :
        \/ /\ CallAt(c, "done")
           /\ RecordFailure(c) \/ RecordRouteFailure(c)
           /\ sent' = [sent EXCEPT ![c] = sent[c] \cup p]
        \/ /\ OpenAudit(c)
           /\ Sends(c, record[call[c].agent].rev, "not_dispatched", sent[c] \cup p)
  BY DEF EndSnapshotCheck
<1>2. CASE /\ CallAt(c, "done") /\ sent' = [sent EXCEPT ![c] = sent[c] \cup p]
           /\ RecordFailure(c) \/ RecordRouteFailure(c)
  <2>1. Moved(c, {"done"})
    BY <1>0, <1>2, CallMoves
  <2>2. sent'[c] = p /\ \A x \in Actors \ {c} : sent'[x] = sent[x]
    BY <1>0, <1>2, SentWrites
  <2>3. /\ audit'[c] \in {"not_dispatched", "none", "pending"}
        /\ \A x \in Actors \ {c} : audit'[x] = audit[x]
    BY <1>0, <1>2, AuditWrites, RouteFailureWrites
  <2>4. RowHonest(c)' /\ CallHonestAt(c)'
    BY <1>0, <2>1, <2>2, <2>3 DEF RowHonest, CallHonestAt, Moved
  <2> QED BY <1>0, <2>1, <2>2, <2>3, <2>4, AuditOfCall
<1>3. CASE /\ OpenAudit(c)
           /\ Sends(c, record[call[c].agent].rev, "not_dispatched", sent[c] \cup p)
  <2>1. audit'[c] = "pending" /\ \A x \in Actors \ {c} : audit'[x] = audit[x]
    BY <1>0, <1>3, AuditWrites
  <2> QED BY <1>0, <1>3, <2>1, SendsHonest
<1> QED BY <1>1, <1>2, <1>3

\* After the capability check: what the row says of the probe is what happened.
LEMMA CheckHonest ==
  ASSUME AuditInv, GatewayTypeOK', NEW c \in Calls, EndCheck(c)
  PROVE  AuditInv'
<1>0. /\ GatewayTypeOK /\ c \in Actors /\ c \notin Socks /\ UNCHANGED sock
      /\ sent[c] = {} /\ audit[c] = "pending"
  BY GatewayAssumption DEF EndCheck, AuditInv, CallHonest, Actors
<1>1. PICK ds \in DispatchStates, S \in {{}, {"probe"}} :
        /\ ds = "not_dispatched" => S = {}
        /\ \/ EndCall(c) /\ CloseAudit(c, ds) /\ sent' = [sent EXCEPT ![c] = S]
           \/ Sends(c, call[c].rev, ds, S) /\ UNCHANGED audit
  <2>1. PICK ds \in DispatchStates, probed \in BOOLEAN :
          /\ ds = "not_dispatched" => ~probed
          /\ LET seen == IF probed THEN sent[c] \cup {"probe"} ELSE sent[c] IN
             \/ EndCall(c) /\ CloseAudit(c, ds) /\ sent' = [sent EXCEPT ![c] = seen]
             \/ Sends(c, call[c].rev, ds, seen) /\ UNCHANGED audit
    BY DEF EndCheck, ProbeReports
  <2>2. CASE probed
    <3>1. (IF probed THEN sent[c] \cup {"probe"} ELSE sent[c]) = {"probe"}
      BY <1>0, <2>2
    <3> QED BY <2>1, <2>2, <3>1
  <2>3. CASE ~probed
    <3>1. (IF probed THEN sent[c] \cup {"probe"} ELSE sent[c]) = {}
      BY <1>0, <2>3
    <3> QED BY <2>1, <2>3, <3>1
  <2> QED BY <2>2, <2>3
<1>2. CASE EndCall(c) /\ CloseAudit(c, ds) /\ sent' = [sent EXCEPT ![c] = S]
  <2>1. Moved(c, {"done"})
    BY <1>0, <1>2, CallMoves DEF EndCall
  <2>2. /\ sent'[c] = S /\ audit'[c] \in {ds, "pending"}
        /\ \A x \in Actors \ {c} : audit'[x] = audit[x] /\ sent'[x] = sent[x]
    BY <1>0, <1>2, SentWrites, AuditWrites
  <2>3. RowHonest(c)' /\ CallHonestAt(c)'
    BY <1>0, <1>1, <2>1, <2>2 DEF RowHonest, CallHonestAt, Moved, DispatchStates
  <2> QED BY <1>0, <2>1, <2>2, <2>3, AuditOfCall
<1>3. CASE Sends(c, call[c].rev, ds, S) /\ UNCHANGED audit
  BY <1>0, <1>3, SendsHonest
<1> QED BY <1>1, <1>2, <1>3

\* After the client was called, no outcome says that nothing left.
LEMMA SendHonest ==
  ASSUME AuditInv, GatewayTypeOK', NEW c \in Calls, EndSend(c) \/ CommitTicket(c)
  PROVE  AuditInv'
<1>0. GatewayTypeOK /\ c \in Actors /\ c \notin Socks /\ UNCHANGED <<sock, sent>>
  BY GatewayAssumption DEF EndSend, CommitTicket, AuditInv, Actors
<1>1. Combined(call[c].probe, "unknown") \in {"unknown", "dispatched"}
  BY DEF Combined
<1>2. \E ds \in {"unknown", "dispatched"} : CloseAudit(c, ds)
  BY <1>1 DEF EndSend, CommitTicket, RequestFails, AnswerArrives, BuildFails
<1>3. /\ audit'[c] \in {"unknown", "dispatched", "pending"}
      /\ \A x \in Actors \ {c} : audit'[x] = audit[x]
  BY <1>0, <1>2, AuditWrites
<1>4. Moved(c, {"done"})
  BY <1>0, CallMoves DEF EndSend, CommitTicket, RequestFails, AnswerArrives, BuildFails, EndCall
<1>5. RowHonest(c)' /\ CallHonestAt(c)'
  BY <1>0, <1>3, <1>4 DEF RowHonest, CallHonestAt, Moved
<1> QED BY <1>0, <1>3, <1>4, <1>5, AuditOfCall

\* Where a session goes; the others stay.
LEMMA SocketMoves ==
  ASSUME GatewayTypeOK, NEW s \in Socks, NEW p, NEW t, Socket(s, p, t)
  PROVE  sock'[s].pc = p /\ \A u \in Socks \ {s} : sock'[u] = sock[u]
  BY DEF GatewayTypeOK, Socket

LEMMA SocketHonest ==
  ASSUME AuditInv, GatewayTypeOK', NEW s \in Socks,
         AttachRefused(s) \/ (\E c \in Calls : Attach(s, c)) \/ AttachChecked(s)
           \/ ConnectEnds(s) \/ SessionEnds(s) \/ Watch(s)
  PROVE  AuditInv'
<1>0. GatewayTypeOK /\ s \in Actors /\ s \notin Calls /\ UNCHANGED call
  BY GatewayAssumption
  DEF AttachRefused, Attach, AttachChecked, ConnectEnds, SessionEnds, Watch, AuditInv, Actors
<1>1. ASSUME sock[s].pc = "new", UNCHANGED sent,
             \/ Socket(s, "done", NoTicket) /\ RecordFailure(s)
             \/ \E c : Socket(s, "check", c) /\ UNCHANGED audit
      PROVE  AuditInv'
  <2>1. sent[s] = {} /\ audit[s] = "none"
    BY <1>1 DEF AuditInv, SockHonest
  <2>2. /\ \/ sock'[s].pc = "done" /\ audit'[s] \in {"not_dispatched", "none"}
           \/ sock'[s].pc = "check" /\ UNCHANGED audit
        /\ \A u \in Socks \ {s} : sock'[u] = sock[u]
        /\ \A x \in Actors \ {s} : audit'[x] = audit[x]
    BY <1>0, <1>1, SocketMoves, AuditWrites
  <2>3. RowHonest(s)' /\ SockHonestAt(s)'
    BY <1>0, <1>1, <2>1, <2>2 DEF RowHonest, SockHonestAt
  <2> QED BY <1>0, <1>1, <2>2, <2>3, AuditOfSock
<1>2. CASE AttachRefused(s) \/ \E c \in Calls : Attach(s, c)
  BY <1>1, <1>2 DEF AttachRefused, Attach
<1>3. CASE AttachChecked(s)
  <2>1. sent[s] = {} /\ audit[s] = "none"
    BY <1>3 DEF AttachChecked, AuditInv, SockHonest
  <2>2. PICK p \in SUBSET {"probe"} :
          \/ /\ Socket(s, "connect", sock[s].ticket) /\ OpenAudit(s)
             /\ \E op \in SUBSET {"op"} : sent' = [sent EXCEPT ![s] = sent[s] \cup p \cup op]
          \/ /\ Socket(s, "done", NoTicket)
             /\ RecordFailure(s) \/ CloseAudit(s, "not_dispatched")
             /\ sent' = [sent EXCEPT ![s] = sent[s] \cup p]
    BY <1>3 DEF AttachChecked, EndSocket
  <2>3. /\ \A u \in Socks \ {s} : sock'[u] = sock[u]
        /\ \A x \in Actors \ {s} : audit'[x] = audit[x] /\ sent'[x] = sent[x]
    BY <1>0, <2>2, SocketMoves, AuditWrites, SentWrites
  <2>4. CASE Socket(s, "connect", sock[s].ticket) /\ OpenAudit(s)
    <3>1. sock'[s].pc = "connect" /\ audit'[s] = "pending"
      BY <1>0, <2>4, SocketMoves, AuditWrites
    <3>2. RowHonest(s)' /\ SockHonestAt(s)'
      BY <3>1 DEF RowHonest, SockHonestAt
    <3> QED BY <1>0, <2>3, <3>2, AuditOfSock
  <2>5. CASE /\ Socket(s, "done", NoTicket)
             /\ RecordFailure(s) \/ CloseAudit(s, "not_dispatched")
             /\ sent' = [sent EXCEPT ![s] = sent[s] \cup p]
    <3>1. /\ sock'[s].pc = "done" /\ audit'[s] \in {"not_dispatched", "none", "pending"}
          /\ sent'[s] = p
      BY <1>0, <2>1, <2>5, SocketMoves, AuditWrites, SentWrites
    <3>2. RowHonest(s)' /\ SockHonestAt(s)'
      BY <1>0, <3>1 DEF RowHonest, SockHonestAt
    <3> QED BY <1>0, <2>3, <3>2, AuditOfSock
  <2> QED BY <2>2, <2>4, <2>5
<1>4. CASE ConnectEnds(s) \/ SessionEnds(s) \/ Watch(s)
  <2>1. audit[s] = "pending" /\ UNCHANGED sent
    BY <1>4 DEF ConnectEnds, SessionEnds, Watch, AuditInv, SockHonest
  <2>2. \/ Socket(s, "open", sock[s].ticket) /\ UNCHANGED audit /\ "op" \in sent[s]
        \/ Socket(s, "done", NoTicket) /\ CloseAudit(s, "dispatched") /\ "op" \in sent[s]
        \/ Socket(s, "done", NoTicket) /\ CloseAudit(s, "unknown")
    BY <1>4 DEF ConnectEnds, SessionEnds, Watch, EndSocket, AuditInv, SockHonest
  <2>3. /\ \A u \in Socks \ {s} : sock'[u] = sock[u]
        /\ \A x \in Actors \ {s} : audit'[x] = audit[x]
        /\ \/ sock'[s].pc = "open" /\ audit'[s] = "pending" /\ "op" \in sent[s]
           \/ /\ sock'[s].pc = "done" /\ audit'[s] \in {"dispatched", "unknown", "pending"}
              /\ audit'[s] = "dispatched" => "op" \in sent[s]
    BY <1>0, <2>1, <2>2, SocketMoves, AuditWrites
  <2>4. RowHonest(s)' /\ SockHonestAt(s)'
    BY <2>1, <2>3 DEF RowHonest, SockHonestAt
  <2> QED BY <1>0, <2>1, <2>3, <2>4, AuditOfSock
<1> QED BY <1>2, <1>3, <1>4

\* A restart leaves the rows as they are: those of the calls and sessions it
\* cuts short stay pending.
LEMMA RestartHonest ==
  ASSUME AuditInv, GatewayTypeOK', Restart
  PROVE  AuditInv'
<1>0. GatewayTypeOK /\ UNCHANGED <<audit, sent>>
  BY DEF AuditInv, Restart
<1>1. \A c \in Calls : /\ call'[c].route = call[c].route
                       /\ call'[c].pc = call[c].pc \/ call'[c].pc = "done"
  BY <1>0 DEF Restart, GatewayTypeOK
<1>2. \A s \in Socks : sock'[s].pc = sock[s].pc \/ sock'[s].pc = "done"
  BY <1>0 DEF Restart, GatewayTypeOK
<1>3. \A x \in Actors : RowHonest(x)'
  BY <1>0, <1>1, AuditParts DEF RowHonest
<1>4. \A c \in Calls : CallHonestAt(c)'
  BY <1>0, <1>1, AuditParts DEF CallHonestAt
<1>5. \A s \in Socks : SockHonestAt(s)'
  BY <1>0, <1>2, AuditParts DEF SockHonestAt
<1> QED BY <1>3, <1>4, <1>5, AuditParts

LEMMA AuditStep == AuditInv /\ [GatewayNext]_gatewayVars => AuditInv'
<1> SUFFICES ASSUME AuditInv, [GatewayNext]_gatewayVars PROVE AuditInv'
  OBVIOUS
<1>0. GatewayTypeOK'
  BY TypeStep DEF AuditInv
<1>a. ASSUME UNCHANGED <<call, sock, audit, sent>> PROVE AuditInv'
  BY <1>0, <1>a DEF AuditInv, DispatchNeverDenied, CallHonest, SockHonest
<1>1. CASE \E c \in Calls : Lapse(c)
  BY <1>1, <1>a DEF Lapse
<1>2. CASE \E a \in Agents : UpdateRecord(a) \/ StartRemoval(a) \/ DeleteRow(a) \/ EndRemoval(a)
  BY <1>2, <1>a DEF UpdateRecord, StartRemoval, DeleteRow, EndRemoval
<1>3. CASE UNCHANGED gatewayVars
  BY <1>3, <1>a DEF gatewayVars
<1> QED BY <1>0, <1>1, <1>2, <1>3, BeginHonest, ProbeHonest, SnapshotHonest, CheckHonest,
           SendHonest, SocketHonest, RestartHonest DEF GatewayNext

-----------------------------------------------------------------------------
(* The theorems.                                                           *)

\* Every variable of the gateway keeps its type.
THEOREM GatewayTyped == GatewaySpec => []GatewayTypeOK
  BY TypeInit, TypeStep, PTL DEF GatewaySpec

\* The slots are exactly what reservations, tickets and sessions hold, each held
\* once, and neither cap is ever exceeded, for any number of concurrent calls
\* and sessions, any caps and any order of expiry, pruning, commit and release.
THEOREM SlotsAlwaysConserved == GatewaySpec => []SlotsConserved
<1>1. SlotsInv => SlotsConserved
  BY DEF SlotsInv
<1> QED BY <1>1, SlotsInit, SlotsStep, PTL DEF GatewaySpec

\* No reservation, ticket or session uses an Agent whose removal is unfinished,
\* before and after any number of restarts.
THEOREM RemovalAlwaysQuiet == GatewaySpec => []RemovalQuiet
<1>1. GatewayInit => RemovalQuiet
  BY DEF GatewayInit, RemovalQuiet
<1> QED BY <1>1, SlotsInit, SlotsStep, QuietStep, PTL DEF GatewaySpec

\* The audit rows never deny what was dispatched, and nothing is dispatched
\* without a row, for any number of concurrent calls and sessions.  (A call's row
\* may claim a dispatch that was none: a request that could not be built, and the
\* v1 probe route.)
THEOREM NeverDenied == GatewaySpec => []DispatchNeverDenied
<1>1. AuditInv => DispatchNeverDenied
  BY DEF AuditInv
<1> QED BY <1>1, AuditInit, AuditStep, PTL DEF GatewaySpec
=============================================================================
