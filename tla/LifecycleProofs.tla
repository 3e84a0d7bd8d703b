--------------------------- MODULE LifecycleProofs ---------------------------
(***************************************************************************)
(* Rotation, update and removal of a registered Agent keep it usable and   *)
(* its credentials accounted for: the invariants of AgentLifecycle for     *)
(* every number of rotations, updates, recoverers and crashes, and whether *)
(* or not the event loop stalls.                                           *)
(***************************************************************************)
EXTENDS AgentLifecycle, TLAPS

-----------------------------------------------------------------------------
(* Types.                                                                  *)

RotRow == [state: RotStates, temp: BOOLEAN, kept: BOOLEAN, old: AgentRow,
           claim: Recs \cup {NoOwner}, lease: BOOLEAN]
RecRow == [pc: {"idle", "next", "validate", "activate", "swap", "revoke",
                "compensate", "cleanup"},
           job: Rots \cup {NoOwner}, reply: Replies]
RemovalRow == [phase: RemovalPhases, old: AgentRow, local: BOOLEAN]
RmRow == [pc: {"idle", "run", "revoke"}, reply: Replies]
UpdRow == [pc: {"none", "validating", "done"}, old: AgentRow]

\* The program counters at which recover() may have no job.
Jobless == {"idle", "next", "cleanup"}

\* The type invariant, variable by variable.
LEMMA Typed ==
  TypeOK <=>
    /\ agent \in AgentRow /\ updates \in Nat
    /\ rot \in [Rots -> RotRow]
    /\ rec \in [Recs -> RecRow]
    /\ \A r \in Recs : rec[r].job = NoOwner => rec[r].pc \in Jobless
    /\ removal \in RemovalRow /\ rm \in RmRow
    /\ upd \in [Upds -> UpdRow]
    /\ files \subseteq Creds
    /\ remote \in [Creds -> RemoteStates]
    /\ wire \subseteq Request
    /\ phase \in {"down", "removals", "boot", "up"}
    /\ crashes \in Nat
  BY Zenon DEF TypeOK, RotRow, RecRow, Jobless, RemovalRow, RmRow, UpdRow

\* The same in the next state.
LEMMA TypedNext ==
  ASSUME agent' \in AgentRow, updates' \in Nat, rot' \in [Rots -> RotRow],
         rec' \in [Recs -> RecRow],
         \A r \in Recs : rec'[r].job = NoOwner => rec'[r].pc \in Jobless,
         removal' \in RemovalRow, rm' \in RmRow, upd' \in [Upds -> UpdRow],
         files' \subseteq Creds, remote' \in [Creds -> RemoteStates],
         wire' \subseteq Request, phase' \in {"down", "removals", "boot", "up"},
         crashes' \in Nat
  PROVE  TypeOK'
  BY Zenon DEF TypeOK, RotRow, RecRow, Jobless, RemovalRow, RmRow, UpdRow

\* Fields of the rows.
LEMMA AgentFields ==
  ASSUME NEW a \in AgentRow
  PROVE  /\ a.present \in BOOLEAN /\ a.rev \in Nat /\ a.ref \in Creds
         /\ a.pinned \in BOOLEAN /\ a.legacy \in BOOLEAN /\ a.cfg \in Nat
  BY Zenon DEF AgentRow

LEMMA RotFields ==
  ASSUME NEW row \in RotRow
  PROVE  /\ row.state \in RotStates /\ row.temp \in BOOLEAN /\ row.kept \in BOOLEAN
         /\ row.old \in AgentRow /\ row.claim \in Recs \cup {NoOwner}
         /\ row.lease \in BOOLEAN
  BY Zenon DEF RotRow

\* Names.
LEMMA NamesApart ==
  /\ First \in Creds /\ Rots \subseteq Creds /\ Upds \subseteq Creds
  /\ \A j \in Rots : j \notin Upds /\ j # First /\ j # NoOwner /\ j # Removal
  /\ \A u \in Upds : u # First
  /\ \A r \in Recs : r # NoOwner /\ r # Removal
  BY LifecycleAssumption, Zenon DEF Creds

-----------------------------------------------------------------------------
(* What the steps do to one row.                                           *)

\* The job's row becomes `row', the others stay.
RotBecomes(j, row) == rot' = [rot EXCEPT ![j] = row]

LEMMA RotPut ==
  ASSUME rot \in [Rots -> RotRow], NEW j \in Rots, NEW row \in RotRow,
         RotBecomes(j, row)
  PROVE  /\ rot' \in [Rots -> RotRow] /\ rot'[j] = row
         /\ \A k \in Rots : k # j => rot'[k] = rot[k]
  BY Zenon DEF RotBecomes

\* The rows the steps write.
Opened(row, a) == [row EXCEPT !.state = "open", !.kept = TRUE, !.old = a]
Published(row) == [row EXCEPT !.state = "verified", !.temp = TRUE]
To(row, s) == [row EXCEPT !.state = s]
EndedRow(row, s) ==
  Released([row EXCEPT !.state = s, !.temp = FALSE, !.kept = FALSE])
ClaimedRow(row, r) == [row EXCEPT !.claim = r, !.lease = TRUE]
Lapsed(row) == [row EXCEPT !.lease = FALSE]
Cleaned(row) == [row EXCEPT !.temp = FALSE]

LEMMA OpenedFields ==
  ASSUME NEW row \in RotRow, NEW a \in AgentRow
  PROVE  /\ Opened(row, a) \in RotRow
         /\ Opened(row, a).state = "open" /\ Opened(row, a).old = a
         /\ Opened(row, a).temp = row.temp /\ Opened(row, a).kept
         /\ Opened(row, a).claim = row.claim
  BY Zenon DEF Opened, RotRow, RotStates

LEMMA PublishedFields ==
  ASSUME NEW row \in RotRow
  PROVE  /\ Published(row) \in RotRow
         /\ Published(row).state = "verified" /\ Published(row).old = row.old
         /\ Published(row).temp /\ Published(row).kept = row.kept
         /\ Published(row).claim = row.claim
  BY Zenon DEF Published, RotRow, RotStates

LEMMA ToFields ==
  ASSUME NEW row \in RotRow, NEW s \in RotStates
  PROVE  /\ To(row, s) \in RotRow
         /\ To(row, s).state = s /\ To(row, s).old = row.old
         /\ To(row, s).temp = row.temp /\ To(row, s).kept = row.kept
         /\ To(row, s).claim = row.claim /\ To(row, s).lease = row.lease
  BY Zenon DEF To, RotRow

LEMMA EndedFields ==
  ASSUME NEW row \in RotRow, NEW s \in RotStates
  PROVE  /\ EndedRow(row, s) \in RotRow
         /\ EndedRow(row, s).state = s /\ EndedRow(row, s).old = row.old
         /\ EndedRow(row, s).claim = NoOwner
  BY Zenon DEF EndedRow, Released, RotRow

LEMMA ReleasedFields ==
  ASSUME NEW row \in RotRow
  PROVE  /\ Released(row) \in RotRow
         /\ Released(row).state = row.state /\ Released(row).old = row.old
         /\ Released(row).temp = row.temp /\ Released(row).kept = row.kept
         /\ Released(row).claim = NoOwner
  BY Zenon DEF Released, RotRow

LEMMA ClaimedFields ==
  ASSUME NEW row \in RotRow, NEW r \in Recs
  PROVE  /\ ClaimedRow(row, r) \in RotRow
         /\ ClaimedRow(row, r).state = row.state /\ ClaimedRow(row, r).old = row.old
         /\ ClaimedRow(row, r).temp = row.temp /\ ClaimedRow(row, r).kept = row.kept
         /\ ClaimedRow(row, r).claim = r
  BY Zenon DEF ClaimedRow, RotRow

LEMMA LapsedFields ==
  ASSUME NEW row \in RotRow
  PROVE  /\ Lapsed(row) \in RotRow
         /\ Lapsed(row).state = row.state /\ Lapsed(row).old = row.old
         /\ Lapsed(row).temp = row.temp /\ Lapsed(row).kept = row.kept
         /\ Lapsed(row).claim = row.claim
  BY Zenon DEF Lapsed, RotRow

LEMMA CleanedFields ==
  ASSUME NEW row \in RotRow
  PROVE  /\ Cleaned(row) \in RotRow
         /\ Cleaned(row).state = row.state /\ Cleaned(row).old = row.old
         /\ Cleaned(row).kept = row.kept /\ Cleaned(row).claim = row.claim
  BY Zenon DEF Cleaned, RotRow

-----------------------------------------------------------------------------
(* What the steps do to a recoverer.                                       *)

\* Every recoverer but r is as before.
OthersStay(r) == \A s \in Recs : s # r => rec'[s] = rec[s]

RecTyped == /\ rec \in [Recs -> RecRow]
            /\ \A r \in Recs : rec[r].job = NoOwner => rec[r].pc \in Jobless

LEMMA LeaveDoes ==
  ASSUME RecTyped, NEW r \in Recs, Leave(r)
  PROVE  RecTyped' /\ rec'[r].pc = "cleanup" /\ OthersStay(r)
<1>1. [IdleRec EXCEPT !.pc = "cleanup"] \in RecRow /\ [IdleRec EXCEPT !.pc = "cleanup"].pc = "cleanup"
  BY Zenon DEF IdleRec, RecRow, Replies
<1>2. rec' \in [Recs -> RecRow] /\ rec'[r] = [IdleRec EXCEPT !.pc = "cleanup"] /\ OthersStay(r)
  BY <1>1, Zenon DEF Leave, RecTyped, OthersStay
<1> QED BY <1>1, <1>2, Zenon DEF RecTyped, OthersStay, Jobless

LEMMA EnterDoes ==
  ASSUME RecTyped, NEW r \in Recs, NEW j \in Rots,
         NEW pc \in {"validate", "activate", "swap", "revoke", "compensate"},
         NEW reply \in Replies, Enter(r, j, pc, reply)
  PROVE  /\ RecTyped' /\ OthersStay(r)
         /\ rec'[r].pc = pc /\ rec'[r].job = j /\ rec'[r].reply = reply
<1>1. [pc |-> pc, job |-> j, reply |-> reply] \in RecRow
  BY Zenon DEF RecRow
<1>2. rec' \in [Recs -> RecRow] /\ rec'[r] = [pc |-> pc, job |-> j, reply |-> reply]
      /\ OthersStay(r)
  BY <1>1, Zenon DEF Enter, RecTyped, OthersStay
<1>3. rec'[r].pc = pc /\ rec'[r].job = j /\ rec'[r].reply = reply
  BY <1>2
<1> QED BY <1>2, <1>3, NamesApart, Zenon DEF RecTyped, OthersStay

\* A recoverer that looks for work, or is idle again.
LEMMA RecAt ==
  ASSUME RecTyped, NEW r \in Recs,
         \/ rec' = [rec EXCEPT ![r].pc = "next"]
         \/ rec' = [rec EXCEPT ![r] = IdleRec]
  PROVE  RecTyped' /\ rec'[r].pc \in Jobless /\ OthersStay(r)
<1>1. CASE rec' = [rec EXCEPT ![r].pc = "next"]
  <2>1. rec' \in [Recs -> RecRow]
    BY <1>1 DEF RecTyped, RecRow
  <2>2. rec'[r].pc = "next" /\ OthersStay(r)
    BY <1>1, Zenon DEF RecTyped, RecRow, OthersStay
  <2> QED BY <2>1, <2>2, Zenon DEF RecTyped, OthersStay, Jobless
<1>2. CASE rec' = [rec EXCEPT ![r] = IdleRec]
  <2>1. IdleRec \in RecRow /\ IdleRec.pc = "idle"
    BY Zenon DEF IdleRec, RecRow, Replies
  <2>2. rec' \in [Recs -> RecRow] /\ rec'[r] = IdleRec /\ OthersStay(r)
    BY <1>2, <2>1, Zenon DEF RecTyped, OthersStay
  <2> QED BY <2>1, <2>2, Zenon DEF RecTyped, OthersStay, Jobless
<1> QED BY <1>1, <1>2

\* An answer that arrives.
LEMMA RecReply ==
  ASSUME RecTyped, NEW r \in Recs, NEW reply \in Replies,
         rec' = [rec EXCEPT ![r].reply = reply]
  PROVE  /\ RecTyped' /\ OthersStay(r)
         /\ rec'[r].pc = rec[r].pc /\ rec'[r].job = rec[r].job /\ rec'[r].reply = reply
<1>1. rec' \in [Recs -> RecRow]
  BY DEF RecTyped, RecRow
<1>2. /\ OthersStay(r)
      /\ rec'[r].pc = rec[r].pc /\ rec'[r].job = rec[r].job /\ rec'[r].reply = reply
  BY Zenon DEF RecTyped, RecRow, OthersStay
<1> QED BY <1>1, <1>2, Zenon DEF RecTyped, OthersStay

\* The job of a recoverer that has one.
LEMMA JobOf ==
  ASSUME RecTyped, NEW r \in Recs, rec[r].pc \notin Jobless
  PROVE  rec[r].job \in Rots
  BY Zenon DEF RecTyped, RecRow

LEMMA FencedJob ==
  ASSUME RecTyped, NEW r \in Recs, Fenced(r)
  PROVE  rec[r].job \in Rots /\ rot[rec[r].job].claim = r
  BY Zenon DEF RecTyped, RecRow, Fenced

\* Giving a claim back leaves everything else.
LEMMA ResidualDoes ==
  ASSUME rot \in [Rots -> RotRow], NEW r \in Recs, rec[r].job \in Rots, Residual(r)
  PROVE  rot' = rot \/ RotBecomes(rec[r].job, Released(rot[rec[r].job]))
  BY Zenon DEF Residual, RotBecomes

\* A request on the wire.
LEMMA SendDoes ==
  ASSUME wire \subseteq Request, NEW kind \in {"activate", "revoke"},
         NEW token \in Creds, NEW cred \in Creds, NEW by \in Recs \cup {Removal},
         Send(kind, token, cred, by)
  PROVE  /\ wire' \subseteq Request
         /\ \A m \in wire' : m \in wire \/ (/\ m.kind = kind /\ m.token = token
                                           /\ m.cred = cred /\ m.by = by)
<1>1. [kind |-> kind, token |-> token, cred |-> cred, by |-> by] \in Request
  BY Zenon DEF Request
<1>2. wire' = wire \cup {[kind |-> kind, token |-> token, cred |-> cred, by |-> by]}
  BY DEF Send
<1> QED BY <1>1, <1>2

-----------------------------------------------------------------------------
(* What each step of a rotation does to the rows.                          *)

LEMMA StartDoes ==
  ASSUME rot \in [Rots -> RotRow], NEW j \in Rots, StartRotation(j)
  PROVE  RotBecomes(j, Opened(rot[j], agent))
  BY Zenon DEF StartRotation, RotBecomes, Opened

LEMMA PublishDoes ==
  ASSUME rot \in [Rots -> RotRow], NEW j \in Rots, Publish(j)
  PROVE  RotBecomes(j, Published(rot[j]))
  BY Zenon DEF Publish, RotBecomes, Published, RotRow

LEMMA CloseDoes ==
  ASSUME rot \in [Rots -> RotRow], NEW j \in Rots, Close(j)
  PROVE  /\ files' \in {files, files \ {j}}
         /\ \E row \in RotRow :
              /\ RotBecomes(j, row) /\ row.state = "closed" /\ row.claim = NoOwner
              /\ row.old = rot[j].old
<1>1. PICK deleted \in BOOLEAN :
        /\ rot' = [rot EXCEPT ![j] = [@ EXCEPT !.state = "closed", !.temp = @ /\ ~deleted,
                                              !.claim = NoOwner, !.lease = FALSE]]
        /\ files' = IF deleted THEN files \ {j} ELSE files
  BY DEF Close
<1>2. PICK t \in BOOLEAN :
        rot' = [rot EXCEPT ![j] = [rot[j] EXCEPT !.state = "closed", !.temp = t,
                                                 !.claim = NoOwner, !.lease = FALSE]]
  BY <1>1
<1> DEFINE row == [rot[j] EXCEPT !.state = "closed", !.temp = t, !.claim = NoOwner,
                                 !.lease = FALSE]
<1>3. row \in RotRow /\ row.state = "closed" /\ row.claim = NoOwner /\ row.old = rot[j].old
  BY Zenon DEF RotRow, RotStates
<1>4. RotBecomes(j, row)
  BY <1>2, Zenon DEF RotBecomes
<1> HIDE DEF row
<1> QED BY <1>1, <1>3, <1>4, Zenon

LEMMA ConsumeDoes ==
  ASSUME rot \in [Rots -> RotRow], NEW r \in Recs, NEW j \in Rots, ConsumeRotation(r, j)
  PROVE  RotBecomes(j, To(rot[j], "activation_requested"))
  BY Zenon DEF ConsumeRotation, RotBecomes, To

LEMMA LapseDoes ==
  ASSUME rot \in [Rots -> RotRow], NEW j \in Rots, LeaseLapses(j)
  PROVE  RotBecomes(j, Lapsed(rot[j]))
  BY Zenon DEF LeaseLapses, RotBecomes, Lapsed

LEMMA ClaimDoes ==
  ASSUME rot \in [Rots -> RotRow], NEW r \in Recs, NEW j \in Rots, Claim(r, j)
  PROVE  \/ /\ RotBecomes(j, ClaimedRow(rot[j], r)) /\ j \in files
            /\ \/ ~Saved(j) /\ Enter(r, j, "validate", "none") /\ wire' = wire
               \/ /\ rot[j].state = "activation_requested"
                  /\ Enter(r, j, "activate", "none") /\ Send("activate", j, j, r)
               \/ /\ rot[j].state = "activated"
                  /\ Enter(r, j, "swap", "none") /\ wire' = wire
         \/ /\ \/ Saved(j) /\ RotBecomes(j, Released(ClaimedRow(rot[j], r)))
               \/ ~Saved(j) /\ RotBecomes(j, Released(To(ClaimedRow(rot[j], r), "failed")))
            /\ Leave(r) /\ wire' = wire
<1> DEFINE claimed == [rot EXCEPT ![j] = ClaimedRow(rot[j], r)]
<1>1. claimed[j] = ClaimedRow(rot[j], r)
  BY Zenon
<1>2. \A row : [claimed EXCEPT ![j] = row] = [rot EXCEPT ![j] = row]
  BY Zenon
<1>3. claimed = [rot EXCEPT ![j] = Claimed(r, j)]
  BY Zenon DEF Claimed, ClaimedRow
<1>4. \/ /\ j \in files /\ rot' = claimed
         /\ CASE ~Saved(j) ->
                      Enter(r, j, "validate", "none") /\ wire' = wire
                 [] rot[j].state = "activation_requested" ->
                      Enter(r, j, "activate", "none") /\ Send("activate", j, j, r)
                 [] OTHER ->
                      Enter(r, j, "swap", "none") /\ wire' = wire
      \/ /\ rot' = [claimed EXCEPT ![j] = Released(
                      IF Saved(j) THEN claimed[j] ELSE [claimed[j] EXCEPT !.state = "failed"])]
         /\ Leave(r) /\ wire' = wire
  BY <1>3, Zenon DEF Claim
<1> HIDE DEF claimed
<1>5. CASE /\ j \in files /\ rot' = claimed
           /\ CASE ~Saved(j) ->
                      Enter(r, j, "validate", "none") /\ wire' = wire
                 [] rot[j].state = "activation_requested" ->
                      Enter(r, j, "activate", "none") /\ Send("activate", j, j, r)
                 [] OTHER ->
                      Enter(r, j, "swap", "none") /\ wire' = wire
  <2>1. RotBecomes(j, ClaimedRow(rot[j], r))
    BY <1>5, Zenon DEF RotBecomes, claimed
  <2> QED BY <1>5, <2>1 DEF Saved
<1>6. CASE /\ rot' = [claimed EXCEPT ![j] = Released(
                      IF Saved(j) THEN claimed[j] ELSE [claimed[j] EXCEPT !.state = "failed"])]
           /\ Leave(r) /\ wire' = wire
  BY <1>1, <1>2, <1>6, Zenon DEF RotBecomes, To
<1> QED BY <1>4, <1>5, <1>6, Zenon

LEMMA ValidationDoes ==
  ASSUME rot \in [Rots -> RotRow], NEW r \in Recs, rec[r].job \in Rots, EndValidation(r)
  PROVE  LET j == rec[r].job IN
         \/ rot' = rot
         \/ RotBecomes(j, Released(To(rot[j], "failed")))
         \/ RotBecomes(j, Released(rot[j]))
  BY Zenon DEF EndValidation, RotBecomes, To

LEMMA ActivationDoes ==
  ASSUME rot \in [Rots -> RotRow], NEW r \in Recs, rec[r].job \in Rots, EndActivation(r)
  PROVE  LET j == rec[r].job IN
         \/ /\ RotBecomes(j, To(rot[j], "activated")) /\ rec[r].reply = "ok"
            /\ Enter(r, j, "swap", "none")
         \/ Residual(r) /\ Leave(r)
  BY Zenon DEF EndActivation, RotBecomes, To

LEMMA RetireDoes ==
  ASSUME rot \in [Rots -> RotRow], NEW r \in Recs, rec[r].job \in Rots, RetireOld(r)
  PROVE  LET j == rec[r].job IN
         \/ /\ RotBecomes(j, EndedRow(rot[j], "consumed")) /\ rec[r].reply = "ok"
            /\ files' = files \ {rot[j].old.ref}
         \/ /\ Residual(r)
            /\ \/ files' = files
               \/ rec[r].reply = "ok" /\ files' = files \ {rot[j].old.ref}
  BY Zenon DEF RetireOld, RotBecomes, EndedRow

LEMMA CompensationDoes ==
  ASSUME rot \in [Rots -> RotRow], NEW r \in Recs, rec[r].job \in Rots, EndCompensation(r)
  PROVE  LET j == rec[r].job IN
         \/ /\ RotBecomes(j, EndedRow(rot[j], "failed")) /\ rec[r].reply = "ok"
            /\ files' \in {files, files \ {j}}
         \/ Residual(r) /\ files' = files
  BY Zenon DEF EndCompensation, RotBecomes, EndedRow

\* The cleanup touches only the token references of failed and closed jobs.
LEMMA CleanupDoes ==
  ASSUME rot \in [Rots -> RotRow], NEW r \in Recs, RecoverCleanup(r)
  PROVE  \E D \in SUBSET {j \in Rots : rot[j].state \in {"failed", "closed"}} :
           /\ files' = files \ D
           /\ rot' \in [Rots -> RotRow]
           /\ \A j \in D : rot'[j] = Cleaned(rot[j])
           /\ \A j \in Rots \ D : rot'[j] = rot[j]
<1>1. PICK D \in SUBSET {j \in Rots : rot[j].state \in {"failed", "closed"} /\ rot[j].temp} :
        /\ files' = files \ D
        /\ rot' = [j \in Rots |-> IF j \in D THEN Cleaned(rot[j]) ELSE rot[j]]
  BY Zenon DEF RecoverCleanup, Cleaned
<1>2. D \in SUBSET {j \in Rots : rot[j].state \in {"failed", "closed"}} /\ D \subseteq Rots
  BY <1>1, Zenon
<1>3. \A j \in Rots : (IF j \in D THEN Cleaned(rot[j]) ELSE rot[j]) \in RotRow
  BY <1>2, CleanedFields, Zenon
<1>4. rot' \in [Rots -> RotRow]
  BY <1>1, <1>3, Zenon
<1>5. (\A j \in D : rot'[j] = Cleaned(rot[j])) /\ (\A j \in Rots \ D : rot'[j] = rot[j])
  BY <1>1, <1>2, Zenon
<1> QED BY <1>1, <1>2, <1>4, <1>5, Zenon
-----------------------------------------------------------------------------
(* Type correctness.                                                       *)

LEMMA InitTyped == Init => TypeOK
<1> SUFFICES ASSUME Init PROVE TypeOK
  OBVIOUS
<1>0. First \in Creds /\ Rots \subseteq Creds /\ Upds \subseteq Creds
  BY NamesApart, Zenon
<1>1. agent \in AgentRow
  <2>1. PICK legacy \in BOOLEAN :
          agent = [present |-> TRUE, rev |-> 1, ref |-> First, pinned |-> ~legacy,
                   legacy |-> legacy, cfg |-> 0]
    BY Zenon DEF Init
  <2>2. 1 \in Nat /\ 0 \in Nat /\ (~legacy) \in BOOLEAN
    OBVIOUS
  <2> QED BY <1>0, <2>1, <2>2, Zenon DEF AgentRow
<1>2. remote \in [Creds -> RemoteStates]
  <2>1. PICK legacy \in BOOLEAN :
          remote = [c \in Creds |-> IF c \in Upds \/ (c = First /\ legacy) THEN "admin"
                                    ELSE IF c = First THEN "active" ELSE "none"]
    BY Zenon DEF Init
  <2> QED BY <2>1 DEF RemoteStates
<1>3. rot \in [Rots -> RotRow]
  BY <1>1, Zenon DEF Init, RotRow, RotStates
<1>4. rec \in [Recs -> RecRow] /\ \A r \in Recs : rec[r].pc = "idle"
  BY Zenon DEF Init, IdleRec, RecRow, Replies
<1>5. removal \in RemovalRow /\ rm \in RmRow
  BY <1>1, Zenon DEF Init, RemovalRow, RmRow, RemovalPhases, IdleRm, Replies
<1>6. upd \in [Upds -> UpdRow]
  BY <1>1, Zenon DEF Init, UpdRow
<1>7. files \subseteq Creds /\ wire \subseteq Request /\ updates \in Nat /\ crashes \in Nat
      /\ phase \in {"down", "removals", "boot", "up"}
  BY <1>0 DEF Init
<1> QED BY <1>1, <1>2, <1>3, <1>4, <1>5, <1>6, <1>7, Typed, Zenon DEF Jobless

LEMMA TypedParts ==
  ASSUME TypeOK
  PROVE  /\ agent \in AgentRow /\ updates \in Nat /\ rot \in [Rots -> RotRow]
         /\ rec \in [Recs -> RecRow] /\ RecTyped
         /\ removal \in RemovalRow /\ rm \in RmRow /\ upd \in [Upds -> UpdRow]
         /\ files \subseteq Creds /\ remote \in [Creds -> RemoteStates]
         /\ wire \subseteq Request /\ phase \in {"down", "removals", "boot", "up"}
         /\ crashes \in Nat
  BY Typed, Zenon DEF RecTyped

\* The steps of rotations that no recoverer takes.
LEMMA RotStepTyped ==
  ASSUME TypeOK, NEW j \in Rots, RotStep(j)
  PROVE  TypeOK'
<1>0. /\ agent \in AgentRow /\ updates \in Nat /\ rot \in [Rots -> RotRow] /\ RecTyped
      /\ removal \in RemovalRow /\ rm \in RmRow /\ upd \in [Upds -> UpdRow]
      /\ files \subseteq Creds /\ remote \in [Creds -> RemoteStates]
      /\ wire \subseteq Request /\ phase \in {"down", "removals", "boot", "up"}
      /\ crashes \in Nat /\ rot[j] \in RotRow /\ j \in Creds
  BY TypedParts, NamesApart, Zenon
<1> USE DEF RecTyped
<1>1. CASE StartRotation(j)
  <2>1. rot' \in [Rots -> RotRow]
    BY <1>0, <1>1, StartDoes, OpenedFields, RotPut, Zenon
  <2> QED BY <1>0, <1>1, <2>1, TypedNext, Zenon DEF StartRotation
<1>2. CASE Publish(j)
  <2>1. rot' \in [Rots -> RotRow]
    BY <1>0, <1>2, PublishDoes, PublishedFields, RotPut, Zenon
  <2>2. files' \subseteq Creds
    BY <1>0, <1>2 DEF Publish
  <2>3. remote' \in [Creds -> RemoteStates]
    BY <1>0, <1>2 DEF Publish, RemoteStates
  <2> QED BY <1>0, <1>2, <2>1, <2>2, <2>3, TypedNext, Zenon DEF Publish
<1>3. CASE Close(j)
  <2>1. rot' \in [Rots -> RotRow]
    BY <1>0, <1>3, CloseDoes, RotPut, Zenon
  <2>2. files' \subseteq Creds
    BY <1>0, <1>3, CloseDoes
  <2> QED BY <1>0, <1>3, <2>1, <2>2, TypedNext, Zenon DEF Close
<1>4. CASE PendingLapses(j)
  <2>1. remote' \in [Creds -> RemoteStates]
    BY <1>0, <1>4 DEF PendingLapses, RemoteStates
  <2> QED BY <1>0, <1>4, <2>1, TypedNext, Zenon DEF PendingLapses
<1>5. CASE LeaseLapses(j)
  <2>1. rot' \in [Rots -> RotRow]
    BY <1>0, <1>5, LapseDoes, LapsedFields, RotPut, Zenon
  <2> QED BY <1>0, <1>5, <2>1, TypedNext, Zenon DEF LeaseLapses
<1> QED BY <1>1, <1>2, <1>3, <1>4, <1>5 DEF RotStep
\* The compensation, swap and retirement need the agent's next row typed.
LEMMA SwappedTyped ==
  ASSUME agent \in AgentRow, NEW j \in Rots, rot[j] \in RotRow
  PROVE  /\ SwappedAgent(j) \in AgentRow
         /\ SwappedAgent(j).present = agent.present
         /\ SwappedAgent(j).rev = rot[j].old.rev + 1 /\ SwappedAgent(j).ref = j
         /\ SwappedAgent(j).pinned /\ ~SwappedAgent(j).legacy
         /\ SwappedAgent(j).cfg = rot[j].old.cfg
<1>1. rot[j].old.rev + 1 \in Nat /\ rot[j].old.cfg \in Nat
  <2>1. rot[j].old.rev \in Nat /\ rot[j].old.cfg \in Nat
    BY RotFields, AgentFields, Zenon
  <2> QED BY <2>1
<1> QED BY <1>1, NamesApart, Zenon DEF SwappedAgent, AgentRow

\* What the swap does: the registry row, and where recover() goes next.
LEMMA SwapDoes ==
  ASSUME TypeOK, NEW r \in Recs, SwapRegistry(r)
  PROVE  LET j == rec[r].job IN
         /\ j \in Rots
         /\ agent' = IF MaySwap(j) THEN SwappedAgent(j) ELSE agent
         /\ \/ Residual(r) /\ Leave(r) /\ wire' = wire
            \/ Leave(r) /\ UNCHANGED <<rot, wire>>
            \/ /\ rot' = rot /\ Fenced(r) /\ (MaySwap(j) \/ agent.ref = j)
               /\ \/ rot[j].old.legacy /\ Enter(r, j, "revoke", "ok") /\ wire' = wire
                  \/ /\ ~rot[j].old.legacy /\ Enter(r, j, "revoke", "none")
                     /\ Send("revoke", j, rot[j].old.ref, r)
            \/ /\ rot' = rot /\ Fenced(r) /\ ~MaySwap(j) /\ agent.ref # j /\ agent.present
               /\ Enter(r, j, "compensate", "none") /\ Send("revoke", j, j, r)
<1>1. rec[r].job \in Rots
  BY TypedParts, JobOf, Zenon DEF SwapRegistry, Jobless
<1>2. agent' = IF MaySwap(rec[r].job) THEN SwappedAgent(rec[r].job) ELSE agent
  BY Zenon DEF SwapRegistry
<1>3. CASE ~agent.present
  BY <1>1, <1>2, <1>3 DEF SwapRegistry
<1>4. CASE agent.present /\ ~Fenced(r)
  BY <1>1, <1>2, <1>4 DEF SwapRegistry
<1>5. CASE agent.present /\ Fenced(r) /\ (MaySwap(rec[r].job) \/ agent.ref = rec[r].job)
  BY <1>1, <1>2, <1>5 DEF SwapRegistry
<1>6. CASE agent.present /\ Fenced(r) /\ ~(MaySwap(rec[r].job) \/ agent.ref = rec[r].job)
  BY <1>1, <1>2, <1>6 DEF SwapRegistry
<1> QED BY <1>3, <1>4, <1>5, <1>6, Zenon

\* Giving a claim back keeps the rows typed.
LEMMA ResidualTyped ==
  ASSUME TypeOK, NEW r \in Recs, rec[r].job \in Rots, Residual(r)
  PROVE  rot' \in [Rots -> RotRow]
<1>1. rot \in [Rots -> RotRow] /\ rot[rec[r].job] \in RotRow
  BY TypedParts, Zenon
<1>2. CASE rot' = rot
  BY <1>1, <1>2, Zenon
<1>3. CASE RotBecomes(rec[r].job, Released(rot[rec[r].job]))
  BY <1>1, <1>3, ReleasedFields, RotPut, Zenon
<1> QED BY <1>1, <1>2, <1>3, ResidualDoes, Zenon

\* A step that ends the Manager's process.
LEMMA DieTyped ==
  ASSUME TypeOK, Die
  PROVE  /\ RecTyped' /\ rm' \in RmRow /\ upd' \in [Upds -> UpdRow]
         /\ phase' \in {"down", "removals", "boot", "up"} /\ crashes' \in Nat
         /\ UNCHANGED <<updates, remote, wire>>
         /\ \A r \in Recs : rec'[r].pc \in Jobless
         /\ rm'.pc = "idle"
         /\ \A u \in Upds : upd'[u].old = upd[u].old
                            /\ (upd'[u].pc = "none" => upd[u].pc = "none")
                            /\ upd'[u].pc # "validating"
<1>0. upd \in [Upds -> UpdRow] /\ crashes \in Nat
  BY TypedParts, Zenon
<1>1. IdleRec \in RecRow /\ IdleRec.pc = "idle" /\ IdleRm \in RmRow /\ IdleRm.pc = "idle"
  BY Zenon DEF IdleRec, RecRow, IdleRm, RmRow, Replies
<1>2. rec' \in [Recs -> RecRow] /\ \A r \in Recs : rec'[r].pc = "idle"
  BY <1>1, Zenon DEF Die
<1>3. upd' = [u \in Upds |-> IF upd[u].pc = "none" THEN upd[u]
                             ELSE [upd[u] EXCEPT !.pc = "done"]]
  BY Zenon DEF Die
<1>4. ASSUME NEW u \in Upds
      PROVE  /\ upd'[u] \in UpdRow /\ upd'[u].old = upd[u].old
             /\ (upd'[u].pc = "none" => upd[u].pc = "none") /\ upd'[u].pc # "validating"
  BY <1>0, <1>3 DEF UpdRow
<1>5. upd' \in [Upds -> UpdRow]
  BY <1>3, <1>4, Zenon
<1>6. phase' \in {"down", "removals", "boot", "up"} /\ crashes' \in Nat
      /\ UNCHANGED <<updates, remote, wire>>
  BY <1>0 DEF Die
<1>7. rm' \in RmRow /\ rm'.pc = "idle"
  BY <1>1, Zenon DEF Die
<1> QED BY <1>2, <1>4, <1>5, <1>6, <1>7, Zenon DEF RecTyped, Jobless

\* The steps of a recoverer.
LEMMA RecStepTyped ==
  ASSUME TypeOK, NEW r \in Recs, RecStep(r)
  PROVE  TypeOK'
<1>0. /\ agent \in AgentRow /\ updates \in Nat /\ rot \in [Rots -> RotRow] /\ RecTyped
      /\ removal \in RemovalRow /\ rm \in RmRow /\ upd \in [Upds -> UpdRow]
      /\ files \subseteq Creds /\ remote \in [Creds -> RemoteStates]
      /\ wire \subseteq Request /\ phase \in {"down", "removals", "boot", "up"}
      /\ crashes \in Nat
  BY TypedParts, Zenon
<1>a. /\ \A j \in Rots : rot[j] \in RotRow /\ j \in Creds
      /\ "activation_requested" \in RotStates /\ "failed" \in RotStates
      /\ "activated" \in RotStates /\ "consumed" \in RotStates
      /\ "none" \in Replies /\ "ok" \in Replies
  BY <1>0, NamesApart, Zenon DEF RotStates, Replies
<1>1. ASSUME NEW j \in Rots, ConsumeRotation(r, j) PROVE TypeOK'
  <2>1. rot' \in [Rots -> RotRow]
    BY <1>0, <1>a, <1>1, ConsumeDoes, ToFields, RotPut, Zenon
  <2>2. RecTyped'
    BY <1>0, <1>1, RecAt, Zenon DEF ConsumeRotation
  <2> QED BY <1>0, <1>1, <2>1, <2>2, TypedNext, Zenon DEF ConsumeRotation, RecTyped
<1>2. ASSUME NEW j \in Rots, Claim(r, j) PROVE TypeOK'
  <2>1. rot[j] \in RotRow /\ ClaimedRow(rot[j], r) \in RotRow
    BY <1>0, ClaimedFields, Zenon
  <2>2. rot' \in [Rots -> RotRow]
    <3>1. Released(ClaimedRow(rot[j], r)) \in RotRow
          /\ Released(To(ClaimedRow(rot[j], r), "failed")) \in RotRow
      BY <1>a, <2>1, ToFields, ReleasedFields, Zenon
    <3> QED BY <1>0, <1>2, <2>1, <3>1, ClaimDoes, RotPut, Zenon
  <2>3. RecTyped'
    BY <1>0, <1>a, <1>2, ClaimDoes, EnterDoes, LeaveDoes, Zenon
  <2>4. wire' \subseteq Request
    BY <1>0, <1>a, <1>2, ClaimDoes, SendDoes, Zenon
  <2> QED BY <1>0, <1>2, <2>2, <2>3, <2>4, TypedNext, Zenon DEF Claim, RecTyped
<1>3. CASE NothingToClaim(r) \/ Abandon(r)
  <2>1. RecTyped'
    BY <1>0, <1>3, LeaveDoes, Zenon DEF NothingToClaim, Abandon
  <2> QED BY <1>0, <1>3, <2>1, TypedNext, Zenon DEF NothingToClaim, Abandon, RecTyped
<1>4. CASE EndValidation(r)
  <2>0. rec[r].job \in Rots
    BY <1>0, <1>4, FencedJob, Zenon DEF EndValidation
  <2>1. Released(To(rot[rec[r].job], "failed")) \in RotRow /\ Released(rot[rec[r].job]) \in RotRow
    BY <1>a, <2>0, ToFields, ReleasedFields, Zenon
  <2>2. rot' \in [Rots -> RotRow]
    BY <1>0, <1>4, <2>0, <2>1, ValidationDoes, RotPut, Zenon
  <2>3. RecTyped'
    BY <1>0, <1>4, LeaveDoes, Zenon DEF EndValidation
  <2> QED BY <1>0, <1>4, <2>2, <2>3, TypedNext, Zenon DEF EndValidation, RecTyped
<1>5. CASE EndActivation(r)
  <2>0. rec[r].job \in Rots
    BY <1>0, <1>5, FencedJob, Zenon DEF EndActivation
  <2>1. To(rot[rec[r].job], "activated") \in RotRow
    BY <1>a, <2>0, ToFields, Zenon
  <2>2. rot' \in [Rots -> RotRow]
    BY <1>0, <1>5, <2>0, <2>1, ActivationDoes, ResidualTyped, RotPut, Zenon
  <2>3. RecTyped'
    BY <1>0, <1>a, <1>5, <2>0, ActivationDoes, EnterDoes, LeaveDoes, Zenon
  <2> QED BY <1>0, <1>5, <2>2, <2>3, TypedNext, Zenon DEF EndActivation, RecTyped
<1>6. CASE SwapRegistry(r)
  <2>0. rec[r].job \in Rots /\ rot[rec[r].job].old.ref \in Creds
    BY <1>0, <1>6, SwapDoes, RotFields, AgentFields, Zenon
  <2>1. agent' \in AgentRow
    BY <1>0, <1>6, <2>0, SwapDoes, SwappedTyped, Zenon
  <2>2. rot' \in [Rots -> RotRow]
    <3>1. CASE Residual(r)
      BY <2>0, <3>1, ResidualTyped, Zenon
    <3>2. CASE rot' = rot
      BY <1>0, <3>2, Zenon
    <3> QED BY <1>6, <3>1, <3>2, SwapDoes, Zenon
  <2>3. RecTyped'
    <3>1. CASE Leave(r)
      BY <1>0, <3>1, LeaveDoes, Zenon
    <3>2. ASSUME NEW pc \in {"revoke", "compensate"}, NEW reply \in {"none", "ok"},
                 Enter(r, rec[r].job, pc, reply)
          PROVE  RecTyped'
      BY <1>0, <1>a, <2>0, <3>2, EnterDoes, Zenon
    <3> QED BY <1>6, <3>1, <3>2, SwapDoes, Zenon
  <2>4. wire' \subseteq Request
    <3>1. CASE wire' = wire
      BY <1>0, <3>1, Zenon
    <3>2. ASSUME NEW c \in Creds, Send("revoke", rec[r].job, c, r)
          PROVE  wire' \subseteq Request
      BY <1>0, <1>a, <2>0, <3>2, SendDoes, Zenon
    <3> QED BY <1>6, <1>a, <2>0, <3>1, <3>2, SwapDoes, Zenon
  <2> QED BY <1>0, <1>6, <2>1, <2>2, <2>3, <2>4, TypedNext, Zenon DEF SwapRegistry, RecTyped
<1>7. CASE RetireOld(r)
  <2>0. rec[r].job \in Rots
    BY <1>0, <1>7, FencedJob, Zenon DEF RetireOld
  <2>1. EndedRow(rot[rec[r].job], "consumed") \in RotRow
    BY <1>a, <2>0, EndedFields, Zenon
  <2>2. rot' \in [Rots -> RotRow]
    BY <1>0, <1>7, <2>0, <2>1, RetireDoes, ResidualTyped, RotPut, Zenon
  <2>3. RecTyped'
    BY <1>0, <1>7, LeaveDoes, Zenon DEF RetireOld
  <2>4. files' \subseteq Creds
    BY <1>0, <1>7, <2>0, RetireDoes
  <2> QED BY <1>0, <1>7, <2>2, <2>3, <2>4, TypedNext, Zenon DEF RetireOld, RecTyped
<1>8. CASE EndCompensation(r)
  <2>0. rec[r].job \in Rots
    BY <1>0, <1>8, FencedJob, Zenon DEF EndCompensation
  <2>1. EndedRow(rot[rec[r].job], "failed") \in RotRow
    BY <1>a, <2>0, EndedFields, Zenon
  <2>2. rot' \in [Rots -> RotRow]
    BY <1>0, <1>8, <2>0, <2>1, CompensationDoes, ResidualTyped, RotPut, Zenon
  <2>3. RecTyped'
    BY <1>0, <1>8, LeaveDoes, Zenon DEF EndCompensation
  <2>4. files' \subseteq Creds
    BY <1>0, <1>8, <2>0, CompensationDoes
  <2> QED BY <1>0, <1>8, <2>2, <2>3, <2>4, TypedNext, Zenon DEF EndCompensation, RecTyped
<1>9. CASE RecoverCleanup(r)
  <2>1. rot' \in [Rots -> RotRow] /\ files' \subseteq Creds
    BY <1>0, <1>9, CleanupDoes
  <2>3. RecTyped'
    BY <1>0, <1>9, RecAt, Zenon DEF RecoverCleanup
  <2> QED BY <1>0, <1>9, <2>1, <2>3, TypedNext, Zenon DEF RecoverCleanup, RecTyped
<1>10. CASE CrashInRetire(r)
  <2>1. files' \subseteq Creds
    BY <1>0, <1>10 DEF CrashInRetire
  <2> QED BY <1>0, <1>10, <2>1, DieTyped, TypedNext, Zenon DEF CrashInRetire, RecTyped
<1>11. CASE RestartRecovers(r)
  <2>1. RecTyped'
    BY <1>0, <1>11, RecAt, Zenon DEF RestartRecovers
  <2> QED BY <1>0, <1>11, <2>1, TypedNext, Zenon DEF RestartRecovers, RecTyped
<1> QED BY <1>1, <1>2, <1>3, <1>4, <1>5, <1>6, <1>7, <1>8, <1>9, <1>10, <1>11 DEF RecStep
\* What an update writes when it is accepted.
UpdatedAgent(old, ref) == [old EXCEPT !.rev = @ + 1, !.ref = ref, !.cfg = @ + 1]

LEMMA UpdatedFields ==
  ASSUME NEW old \in AgentRow, NEW ref \in Creds
  PROVE  /\ UpdatedAgent(old, ref) \in AgentRow
         /\ UpdatedAgent(old, ref).present = old.present
         /\ UpdatedAgent(old, ref).rev = old.rev + 1 /\ UpdatedAgent(old, ref).ref = ref
         /\ UpdatedAgent(old, ref).pinned = old.pinned
         /\ UpdatedAgent(old, ref).legacy = old.legacy
         /\ UpdatedAgent(old, ref).cfg = old.cfg + 1
<1>1. old.rev + 1 \in Nat /\ old.cfg + 1 \in Nat
  <2>1. old.rev \in Nat /\ old.cfg \in Nat
    BY AgentFields, Zenon
  <2> QED BY <2>1
<1> QED BY <1>1, Zenon DEF UpdatedAgent, AgentRow

\* An update ends: accepted with the same or a new token, or refused.
LEMMA EndUpdateDoes ==
  ASSUME TypeOK, NEW u \in Upds, EndUpdate(u)
  PROVE  LET old == upd[u].old IN
         /\ old \in AgentRow /\ upd[u].pc = "validating"
         /\ upd' = [upd EXCEPT ![u].pc = "done"]
         /\ \/ /\ UpdateAccepted(old) /\ updates' = updates + 1
               /\ \/ agent' = UpdatedAgent(old, old.ref) /\ files' = files
                  \/ /\ agent' = UpdatedAgent(old, u) /\ (~old.pinned \/ old.ref = u)
                     /\ files' \in {files \cup {u}, (files \cup {u}) \ {old.ref}}
            \/ /\ ~UpdateAccepted(old) /\ UNCHANGED <<agent, updates>>
               /\ files' \in {files, files \cup {u}, (files \cup {u}) \ {u}}
<1>1. upd[u].old \in AgentRow /\ upd[u].pc = "validating"
  BY TypedParts, Zenon DEF EndUpdate, UpdRow
<1>2. PICK ref \in {upd[u].old.ref} \cup (IF upd[u].old.pinned THEN {} ELSE {u}) :
        LET old == upd[u].old
            stored == IF ref = u THEN files \cup {u} ELSE files
            loser == IF UpdateAccepted(old) THEN old.ref ELSE u
        IN  /\ IF UpdateAccepted(old)
               THEN /\ agent' = UpdatedAgent(old, ref)
                    /\ updates' = updates + 1
               ELSE UNCHANGED <<agent, updates>>
            /\ files' \in {stored, IF ref = u THEN stored \ {loser} ELSE stored}
  BY Zenon DEF EndUpdate, UpdatedAgent
<1>3. upd' = [upd EXCEPT ![u].pc = "done"]
  BY Zenon DEF EndUpdate
<1>4. ref = upd[u].old.ref \/ (~upd[u].old.pinned /\ ref = u)
  BY <1>2
<1>5. CASE ~UpdateAccepted(upd[u].old)
  BY <1>1, <1>2, <1>3, <1>5
<1>6. CASE UpdateAccepted(upd[u].old) /\ ref # u
  BY <1>1, <1>2, <1>3, <1>4, <1>6
<1>7. CASE UpdateAccepted(upd[u].old) /\ ref = u
  BY <1>1, <1>2, <1>3, <1>4, <1>7
<1> QED BY <1>5, <1>6, <1>7, Zenon

\* An update request moves on.
LEMMA UpdAt ==
  ASSUME upd \in [Upds -> UpdRow], NEW u \in Upds, upd' = [upd EXCEPT ![u].pc = "done"]
  PROVE  /\ upd' \in [Upds -> UpdRow]
         /\ upd'[u].pc = "done" /\ upd'[u].old = upd[u].old
         /\ \A v \in Upds : v # u => upd'[v] = upd[v]
<1>1. [upd[u] EXCEPT !.pc = "done"] \in UpdRow
  BY DEF UpdRow
<1>2. upd' \in [Upds -> UpdRow] /\ upd'[u] = [upd[u] EXCEPT !.pc = "done"]
  BY <1>1, Zenon
<1>3. \A v \in Upds : v # u => upd'[v] = upd[v]
  BY Zenon
<1>4. upd'[u].pc = "done" /\ upd'[u].old = upd[u].old
  BY <1>2 DEF UpdRow
<1> QED BY <1>2, <1>3, <1>4, Zenon

\* The steps of an update.
LEMMA UpdStepTyped ==
  ASSUME TypeOK, NEW u \in Upds, UpdStep(u)
  PROVE  TypeOK'
<1>0. /\ agent \in AgentRow /\ updates \in Nat /\ rot \in [Rots -> RotRow] /\ RecTyped
      /\ removal \in RemovalRow /\ rm \in RmRow /\ upd \in [Upds -> UpdRow]
      /\ files \subseteq Creds /\ remote \in [Creds -> RemoteStates]
      /\ wire \subseteq Request /\ phase \in {"down", "removals", "boot", "up"}
      /\ crashes \in Nat /\ u \in Creds
  BY TypedParts, NamesApart, Zenon
<1>1. CASE BeginUpdate(u)
  <2>1. upd' \in [Upds -> UpdRow]
    BY <1>0, <1>1, Zenon DEF BeginUpdate, UpdRow
  <2> QED BY <1>0, <1>1, <2>1, TypedNext, Zenon DEF BeginUpdate, RecTyped
<1>2. CASE EndUpdate(u)
  <2>1. upd' \in [Upds -> UpdRow] /\ upd[u].old \in AgentRow
    BY <1>0, <1>2, EndUpdateDoes, UpdAt, Zenon
  <2>2. agent' \in AgentRow
    <3>1. upd[u].old.ref \in Creds
      BY <2>1, AgentFields, Zenon
    <3>2. UpdatedAgent(upd[u].old, upd[u].old.ref) \in AgentRow
          /\ UpdatedAgent(upd[u].old, u) \in AgentRow
      BY <1>0, <2>1, <3>1, UpdatedFields, Zenon
    <3> QED BY <1>0, <1>2, <3>2, EndUpdateDoes, Zenon
  <2>3. files' \subseteq Creds
    BY <1>0, <1>2, EndUpdateDoes
  <2>4. updates' \in Nat
    BY <1>0, <1>2, EndUpdateDoes
  <2> QED BY <1>0, <1>2, <2>1, <2>2, <2>3, <2>4, TypedNext, Zenon DEF EndUpdate, RecTyped
<1>3. CASE UpdateFails(u)
  <2>1. upd' \in [Upds -> UpdRow]
    BY <1>0, <1>3, UpdAt, Zenon DEF UpdateFails
  <2> QED BY <1>0, <1>3, <2>1, TypedNext, Zenon DEF UpdateFails, RecTyped
<1>4. CASE CrashInUpdate(u)
  <2>1. files' \subseteq Creds
    BY <1>0, <1>4 DEF CrashInUpdate
  <2> QED BY <1>0, <1>4, <2>1, DieTyped, TypedNext, Zenon DEF CrashInUpdate, RecTyped
<1> QED BY <1>1, <1>2, <1>3, <1>4 DEF UpdStep

\* The removal's row and coroutine after each of their moves.
LEMMA PhaseSet ==
  ASSUME removal \in RemovalRow, NEW p \in RemovalPhases, SetPhase(p)
  PROVE  /\ removal' \in RemovalRow /\ removal'.phase = p
         /\ removal'.old = removal.old /\ removal'.local = removal.local
  BY Zenon DEF SetPhase, RemovalRow

LEMMA RmRows ==
  /\ IdleRm \in RmRow /\ IdleRm.pc = "idle"
  /\ [pc |-> "run", reply |-> "none"] \in RmRow
  /\ [pc |-> "revoke", reply |-> "none"] \in RmRow
  /\ "none" \in RemovalPhases /\ "pending" \in RemovalPhases /\ "revoking" \in RemovalPhases
  /\ "revoked" \in RemovalPhases /\ "registry_deleted" \in RemovalPhases
  /\ "credential_deleted" \in RemovalPhases /\ "completed" \in RemovalPhases
  /\ "residual" \in RemovalPhases
  BY Zenon DEF IdleRm, RmRow, Replies, RemovalPhases

LEMMA GoneTyped ==
  ASSUME agent \in AgentRow
  PROVE  /\ [agent EXCEPT !.present = FALSE] \in AgentRow
         /\ ~[agent EXCEPT !.present = FALSE].present
         /\ [agent EXCEPT !.present = FALSE].rev = agent.rev
         /\ [agent EXCEPT !.present = FALSE].ref = agent.ref
         /\ [agent EXCEPT !.present = FALSE].pinned = agent.pinned
         /\ [agent EXCEPT !.present = FALSE].legacy = agent.legacy
         /\ [agent EXCEPT !.present = FALSE].cfg = agent.cfg
  BY Zenon DEF AgentRow

\* The steps of a removal.
LEMMA RmStepTyped ==
  ASSUME TypeOK, RmStep
  PROVE  TypeOK'
<1>0. /\ agent \in AgentRow /\ updates \in Nat /\ rot \in [Rots -> RotRow] /\ RecTyped
      /\ removal \in RemovalRow /\ rm \in RmRow /\ upd \in [Upds -> UpdRow]
      /\ files \subseteq Creds /\ remote \in [Creds -> RemoteStates]
      /\ wire \subseteq Request /\ phase \in {"down", "removals", "boot", "up"}
      /\ crashes \in Nat
  BY TypedParts, Zenon
<1>1. ASSUME NEW local \in BOOLEAN, RemoveAgent(local) PROVE TypeOK'
  <2>1. removal' \in RemovalRow /\ rm' \in RmRow
    BY <1>0, <1>1, RmRows, Zenon DEF RemoveAgent, RemovalRow
  <2> QED BY <1>0, <1>1, <2>1, TypedNext, Zenon DEF RemoveAgent, RecTyped
<1>2. CASE BeginRevoke
  <2>1. removal' \in RemovalRow /\ rm' \in RmRow
    BY <1>0, <1>2, RmRows, PhaseSet, Zenon DEF BeginRevoke
  <2>2. removal.old.ref \in Creds
    BY <1>0, AgentFields, Zenon DEF RemovalRow
  <2>3. wire' \subseteq Request
    BY <1>0, <1>2, <2>2, SendDoes, Zenon DEF BeginRevoke
  <2> QED BY <1>0, <1>2, <2>1, <2>3, TypedNext, Zenon DEF BeginRevoke, RecTyped
<1>3. CASE EndRevoke
  <2>1. removal' \in RemovalRow /\ rm' \in RmRow
    BY <1>0, <1>3, RmRows, PhaseSet, Zenon DEF EndRevoke
  <2> QED BY <1>0, <1>3, <2>1, TypedNext, Zenon DEF EndRevoke, RecTyped
<1>4. CASE SkipRevoke
  <2>1. removal' \in RemovalRow
    BY <1>0, <1>4, RmRows, PhaseSet, Zenon DEF SkipRevoke
  <2> QED BY <1>0, <1>4, <2>1, TypedNext, Zenon DEF SkipRevoke, RecTyped
<1>5. CASE DeleteRegistryRow
  <2>1. removal' \in RemovalRow /\ rm' \in RmRow /\ agent' \in AgentRow
    BY <1>0, <1>5, RmRows, PhaseSet, GoneTyped, Zenon DEF DeleteRegistryRow
  <2> QED BY <1>0, <1>5, <2>1, TypedNext, Zenon DEF DeleteRegistryRow, RecTyped
<1>6. CASE DeleteRefused
  <2>1. rm' \in RmRow /\ phase' \in {"down", "removals", "boot", "up"}
    BY <1>0, <1>6, RmRows, Zenon DEF DeleteRefused
  <2> QED BY <1>0, <1>6, <2>1, TypedNext, Zenon DEF DeleteRefused, RecTyped
<1>7. CASE DeleteToken
  <2>1. removal' \in RemovalRow /\ rm' \in RmRow
    BY <1>0, <1>7, RmRows, PhaseSet, Zenon DEF DeleteToken
  <2>2. files' \subseteq Creds
    BY <1>0, <1>7 DEF DeleteToken
  <2> QED BY <1>0, <1>7, <2>1, <2>2, TypedNext, Zenon DEF DeleteToken, RecTyped
<1>8. CASE Complete
  <2>1. removal' \in RemovalRow /\ rm' \in RmRow
    BY <1>0, <1>8, RmRows, PhaseSet, Zenon DEF Complete
  <2> QED BY <1>0, <1>8, <2>1, TypedNext, Zenon DEF Complete, RecTyped
<1>9. CASE CrashInDelete
  <2>1. agent' \in AgentRow
    BY <1>0, <1>9, GoneTyped, Zenon DEF CrashInDelete
  <2> QED BY <1>0, <1>9, <2>1, DieTyped, TypedNext, Zenon DEF CrashInDelete, RecTyped
<1>10. CASE CrashInToken
  <2>1. files' \subseteq Creds
    BY <1>0, <1>10 DEF CrashInToken
  <2> QED BY <1>0, <1>10, <2>1, DieTyped, TypedNext, Zenon DEF CrashInToken, RecTyped
<1> QED BY <1>1, <1>2, <1>3, <1>4, <1>5, <1>6, <1>7, <1>8, <1>9, <1>10 DEF RmStep

\* The Agent answers: who hears it, and what becomes of the credential.
LEMMA HandlesDoes ==
  ASSUME TypeOK, NEW m \in wire, AgentHandles(m)
  PROVE  /\ m.kind \in {"activate", "revoke"} /\ m.token \in Creds /\ m.cred \in Creds
         /\ m.by \in Recs \cup {Removal}
         /\ wire' = wire \ {m}
         /\ \/ ~Authorised(m) /\ remote' = remote
            \/ Authorised(m) /\ remote' = [remote EXCEPT ![m.cred] =
                   IF m.kind = "activate" THEN "active" ELSE "revoked"]
         /\ \/ rm' = rm /\ rec' = rec
            \/ /\ m.by = Removal /\ rec' = rec
               /\ rm.pc = m.kind /\ m.cred = removal.old.ref
               /\ rm' = [rm EXCEPT !.reply = IF Authorised(m) THEN "ok" ELSE "rejected"]
            \/ /\ m.by \in Recs /\ rm' = rm
               /\ rec' = [rec EXCEPT ![m.by].reply =
                            IF Authorised(m) THEN "ok" ELSE "rejected"]
               /\ \/ /\ rec[m.by].pc = m.kind
                     /\ m.cred = IF m.kind = "revoke" THEN rot[rec[m.by].job].old.ref
                                                      ELSE rec[m.by].job
                  \/ /\ rec[m.by].pc = "compensate" /\ m.kind = "revoke"
                     /\ m.cred = rec[m.by].job
<1>1. m \in Request
  BY TypedParts, Zenon
<1>2. /\ m.kind \in {"activate", "revoke"} /\ m.token \in Creds /\ m.cred \in Creds
      /\ m.by \in Recs \cup {Removal}
  BY <1>1, Zenon DEF Request
<1>3. wire' = wire \ {m}
  BY Zenon DEF AgentHandles
<1>4. \/ ~Authorised(m) /\ remote' = remote
      \/ Authorised(m) /\ remote' = [remote EXCEPT ![m.cred] =
                   IF m.kind = "activate" THEN "active" ELSE "revoked"]
  BY Zenon DEF AgentHandles
<1> DEFINE reply == IF Authorised(m) THEN "ok" ELSE "rejected"
           waits == /\ Waits(m.by).cred = m.cred
                    /\ \/ Waits(m.by).pc = m.kind
                       \/ Waits(m.by).pc = "compensate" /\ m.kind = "revoke"
<1>5. IF m.by = Removal
      THEN rm' = (IF waits THEN [rm EXCEPT !.reply = reply] ELSE rm) /\ rec' = rec
      ELSE rec' = (IF waits THEN [rec EXCEPT ![m.by].reply = reply] ELSE rec) /\ rm' = rm
  BY Zenon DEF AgentHandles
<1>6. CASE ~waits
  BY <1>2, <1>3, <1>4, <1>5, <1>6, Zenon
<1>7. CASE waits /\ m.by = Removal
  <2>1. Waits(m.by).pc = rm.pc /\ Waits(m.by).cred = removal.old.ref
    BY <1>7 DEF Waits
  <2>2. rm.pc # "compensate"
    BY TypedParts DEF RmRow
  <2> QED BY <1>2, <1>3, <1>4, <1>5, <1>7, <2>1, <2>2, Zenon
<1>8. CASE waits /\ m.by # Removal
  <2>1. /\ Waits(m.by).pc = rec[m.by].pc
        /\ Waits(m.by).cred = IF rec[m.by].pc = "revoke" THEN rot[rec[m.by].job].old.ref
                                                         ELSE rec[m.by].job
    BY <1>8 DEF Waits
  <2>2. m.by \in Recs
    BY <1>2, <1>8, Zenon
  <2>3. rm' = rm /\ rec' = [rec EXCEPT ![m.by].reply = reply]
    BY <1>5, <1>8, Zenon
  <2>4. \/ /\ rec[m.by].pc = m.kind
           /\ m.cred = IF m.kind = "revoke" THEN rot[rec[m.by].job].old.ref
                                            ELSE rec[m.by].job
        \/ /\ rec[m.by].pc = "compensate" /\ m.kind = "revoke"
           /\ m.cred = rec[m.by].job
    BY <1>8, <2>1
  <2> QED BY <1>2, <1>3, <1>4, <2>2, <2>3, <2>4, Zenon
<1> QED BY <1>6, <1>7, <1>8, Zenon

LEMMA RmReply ==
  ASSUME rm \in RmRow, NEW reply \in Replies, rm' = [rm EXCEPT !.reply = reply]
  PROVE  rm' \in RmRow /\ rm'.pc = rm.pc /\ rm'.reply = reply
  BY Zenon DEF RmRow

\* Pinning.
LEMMA PinDoes ==
  ASSUME agent \in AgentRow, Pin
  PROVE  /\ agent' \in AgentRow /\ agent'.present = agent.present /\ agent'.pinned
         /\ agent'.rev = agent.rev + 1 /\ agent'.ref = agent.ref
         /\ agent'.legacy = agent.legacy /\ agent'.cfg = agent.cfg
<1>1. agent.rev + 1 \in Nat
  <2>1. agent.rev \in Nat
    BY AgentFields, Zenon
  <2> QED BY <2>1
<1> QED BY <1>1, Zenon DEF Pin, AgentRow

LEMMA NextTyped == TypeOK /\ [Next]_vars => TypeOK'
<1> SUFFICES ASSUME TypeOK, [Next]_vars PROVE TypeOK'
  OBVIOUS
<1>0. /\ agent \in AgentRow /\ updates \in Nat /\ rot \in [Rots -> RotRow] /\ RecTyped
      /\ removal \in RemovalRow /\ rm \in RmRow /\ upd \in [Upds -> UpdRow]
      /\ files \subseteq Creds /\ remote \in [Creds -> RemoteStates]
      /\ wire \subseteq Request /\ phase \in {"down", "removals", "boot", "up"}
      /\ crashes \in Nat
  BY TypedParts, Zenon
<1>1. CASE Pin
  BY <1>0, <1>1, PinDoes, TypedNext, Zenon DEF Pin, RecTyped
<1>2. ASSUME NEW m \in wire, AgentHandles(m) PROVE TypeOK'
  <2>0. {"ok", "rejected"} \subseteq Replies /\ wire' \subseteq Request
        /\ (IF Authorised(m) THEN "ok" ELSE "rejected") \in {"ok", "rejected"}
    BY <1>0, <1>2, HandlesDoes DEF Replies
  <2>1. remote' \in [Creds -> RemoteStates]
    BY <1>0, <1>2, HandlesDoes DEF RemoteStates
  <2>2. RecTyped' /\ rm' \in RmRow
    <3>1. CASE rm' = rm /\ rec' = rec
      BY <1>0, <3>1, Zenon DEF RecTyped
    <3>2. CASE rec' = rec /\ rm' = [rm EXCEPT !.reply = IF Authorised(m) THEN "ok" ELSE "rejected"]
      <4>1. rm' \in RmRow
        BY <1>0, <2>0, <3>2, RmReply
      <4> QED BY <1>0, <3>2, <4>1, Zenon DEF RecTyped
    <3>3. CASE /\ m.by \in Recs /\ rm' = rm
               /\ rec' = [rec EXCEPT ![m.by].reply = IF Authorised(m) THEN "ok" ELSE "rejected"]
      <4>1. (IF Authorised(m) THEN "ok" ELSE "rejected") \in Replies
        BY <2>0, Zenon
      <4> HIDE DEF Authorised
      <4> QED BY <1>0, <3>3, <4>1, RecReply, Zenon
    <3> QED BY <1>2, <3>1, <3>2, <3>3, HandlesDoes, Zenon
  <2> QED BY <1>0, <1>2, <2>0, <2>1, <2>2, TypedNext, Zenon DEF AgentHandles, RecTyped
<1>3. ASSUME NEW m \in wire, Lose(m) PROVE TypeOK'
  <2>1. wire' \subseteq Request
    BY <1>0, <1>3 DEF Lose
  <2> QED BY <1>0, <1>3, <2>1, TypedNext, Zenon DEF Lose, RecTyped
<1>4. CASE Crash
  BY <1>0, <1>4, DieTyped, TypedNext, Zenon DEF Crash, RecTyped
<1>5. CASE Restart
  <2>1. rm' \in RmRow
    BY <1>5, RmRows, Zenon DEF Restart
  <2> QED BY <1>0, <1>5, <2>1, TypedNext, Zenon DEF Restart, RecTyped
<1>6. CASE SweepOrphans
  <2>1. files' \subseteq Creds
    BY <1>0, <1>6 DEF SweepOrphans
  <2> QED BY <1>0, <1>6, <2>1, TypedNext, Zenon DEF SweepOrphans, RecTyped
<1>7. CASE UNCHANGED vars
  BY <1>0, <1>7, TypedNext, Zenon DEF vars, RecTyped
<1> QED BY <1>1, <1>2, <1>3, <1>4, <1>5, <1>6, <1>7, RotStepTyped, RecStepTyped, UpdStepTyped,
     RmStepTyped DEF Next

\* Every variable of the rotation, update and removal sagas keeps its type,
\* for any number of jobs, requests, coroutines and crashes.
THEOREM LifecycleTyped == Spec => []TypeOK
<1> QED BY InitTyped, NextTyped, PTL DEF Spec
-----------------------------------------------------------------------------
(* What is captured of the registry row stays comparable with it.          *)

\* The steps that write the registry row.
AgentWrites ==
  \/ \E r \in Recs : SwapRegistry(r)
  \/ \E u \in Upds : EndUpdate(u)
  \/ Pin \/ DeleteRegistryRow \/ CrashInDelete

LEMMA AgentQuiet ==
  ASSUME [Next]_vars
  PROVE  UNCHANGED <<agent, updates>> \/ AgentWrites
<1>1. ASSUME NEW j \in Rots, RotStep(j) PROVE UNCHANGED <<agent, updates>>
  BY <1>1 DEF RotStep, StartRotation, Publish, Close, PendingLapses, LeaseLapses
<1>2. ASSUME NEW r \in Recs, RecStep(r) PROVE UNCHANGED <<agent, updates>> \/ AgentWrites
  <2>1. ASSUME NEW j \in Rots, ConsumeRotation(r, j) \/ Claim(r, j)
        PROVE  UNCHANGED <<agent, updates>>
    BY <2>1, Zenon DEF ConsumeRotation, Claim
  <2>2. CASE NothingToClaim(r) \/ Abandon(r) \/ EndValidation(r)
    BY <2>2, Zenon DEF NothingToClaim, Abandon, EndValidation
  <2>3. CASE EndActivation(r) \/ RetireOld(r) \/ EndCompensation(r) \/ RecoverCleanup(r)
    BY <2>3, Zenon DEF EndActivation, RetireOld, EndCompensation, RecoverCleanup
  <2>4. CASE CrashInRetire(r) \/ RestartRecovers(r)
    BY <2>4, Zenon DEF CrashInRetire, RestartRecovers, Die
  <2>5. CASE SwapRegistry(r)
    BY <2>5, Zenon DEF AgentWrites
  <2> QED BY <1>2, <2>1, <2>2, <2>3, <2>4, <2>5, Zenon DEF RecStep
<1>3. ASSUME NEW u \in Upds, UpdStep(u) PROVE UNCHANGED <<agent, updates>> \/ AgentWrites
  BY <1>3, Zenon DEF UpdStep, BeginUpdate, UpdateFails, CrashInUpdate, Die, AgentWrites
<1>4. CASE RmStep
  BY <1>4, Zenon DEF RmStep, RemoveAgent, BeginRevoke, EndRevoke, SkipRevoke, DeleteRefused,
    DeleteToken, Complete, CrashInToken, Die, AgentWrites
<1>5. ASSUME NEW m \in wire, AgentHandles(m) \/ Lose(m) PROVE UNCHANGED <<agent, updates>>
  BY <1>5, Zenon DEF AgentHandles, Lose
<1>6. CASE Pin \/ Crash \/ Restart \/ SweepOrphans \/ UNCHANGED vars
  BY <1>6, Zenon DEF Crash, Restart, SweepOrphans, vars, Die, AgentWrites
<1> QED BY <1>1, <1>2, <1>3, <1>4, <1>5, <1>6, Zenon DEF Next

\* A snapshot of the registry row is kept, or taken while the row stays.
CapturedAgain(a, b) == b = a \/ (b = agent /\ agent' = agent)

LEMMA SnapshotMoves ==
  ASSUME TypeOK, [Next]_vars
  PROVE  /\ \A j \in Rots : CapturedAgain(rot[j].old, rot'[j].old)
         /\ \A u \in Upds : CapturedAgain(upd[u].old, upd'[u].old)
         /\ CapturedAgain(removal.old, removal'.old)
<1> DEFINE Rot == \A k \in Rots : CapturedAgain(rot[k].old, rot'[k].old)
           Upd == \A v \in Upds : CapturedAgain(upd[v].old, upd'[v].old)
           Rem == CapturedAgain(removal.old, removal'.old)
<1>0. /\ agent \in AgentRow /\ rot \in [Rots -> RotRow] /\ RecTyped
      /\ removal \in RemovalRow /\ upd \in [Upds -> UpdRow]
      /\ \A j \in Rots : rot[j] \in RotRow
  BY TypedParts, Zenon
<1>a. /\ rot' = rot => Rot
      /\ upd' = upd => Upd
      /\ removal' = removal => Rem
  BY Zenon DEF CapturedAgain
<1>b. ASSUME NEW j \in Rots, NEW row \in RotRow, RotBecomes(j, row), row.old = rot[j].old
      PROVE  Rot
  BY <1>0, <1>b, RotPut, Zenon DEF CapturedAgain
<1>s. "activation_requested" \in RotStates /\ "failed" \in RotStates
      /\ "activated" \in RotStates /\ "consumed" \in RotStates
  BY Zenon DEF RotStates
<1>c. ASSUME NEW r \in Recs, Residual(r), rec[r].job \in Rots PROVE Rot
  BY <1>0, <1>a, <1>b, <1>c, ResidualDoes, ReleasedFields, Zenon
<1>d. ASSUME Die PROVE Upd
  BY <1>d, DieTyped, Zenon DEF CapturedAgain
<1>e. ASSUME NEW p \in RemovalPhases, SetPhase(p) PROVE Rem
  BY <1>0, <1>e, PhaseSet, Zenon DEF CapturedAgain
<1> SUFFICES Rot /\ Upd /\ Rem
  BY Zenon
<1> HIDE DEF Rot, Upd, Rem
<1>1. ASSUME NEW j \in Rots, RotStep(j) PROVE Rot /\ Upd /\ Rem
  <2>1. Upd /\ Rem
    BY <1>1, <1>a, Zenon DEF RotStep, StartRotation, Publish, Close, PendingLapses, LeaseLapses
  <2>2. CASE StartRotation(j)
    <3>1. Opened(rot[j], agent) \in RotRow /\ Opened(rot[j], agent).old = agent
      BY <1>0, OpenedFields, Zenon
    <3>2. rot'[j].old = agent /\ \A k \in Rots : k # j => rot'[k] = rot[k]
      BY <1>0, <2>2, <3>1, StartDoes, RotPut, Zenon
    <3>3. agent' = agent
      BY <2>2, Zenon DEF StartRotation
    <3>4. Rot
      BY <3>2, <3>3, Zenon DEF Rot, CapturedAgain
    <3> QED BY <2>1, <3>4, Zenon
  <2>3. CASE Publish(j)
    BY <1>0, <1>b, <2>1, <2>3, PublishDoes, PublishedFields, Zenon
  <2>4. CASE Close(j)
    BY <1>0, <1>b, <2>1, <2>4, CloseDoes, Zenon
  <2>5. CASE PendingLapses(j)
    BY <1>a, <2>5, Zenon DEF PendingLapses
  <2>6. CASE LeaseLapses(j)
    BY <1>0, <1>b, <2>1, <2>6, LapseDoes, LapsedFields, Zenon
  <2> QED BY <1>1, <2>1, <2>2, <2>3, <2>4, <2>5, <2>6, Zenon DEF RotStep
<1>2. ASSUME NEW r \in Recs, RecStep(r) PROVE Rot /\ Upd /\ Rem
  <2>1. ASSUME NEW j \in Rots, ConsumeRotation(r, j) PROVE Rot /\ Upd /\ Rem
    <3>1. RotBecomes(j, To(rot[j], "activation_requested"))
      BY <1>0, <2>1, ConsumeDoes, Zenon
    <3>2. /\ To(rot[j], "activation_requested") \in RotRow
          /\ To(rot[j], "activation_requested").old = rot[j].old
      BY <1>0, <1>s, ToFields, Zenon
    <3>3. Rot
      BY <1>b, <3>1, <3>2, Zenon
    <3>4. upd' = upd /\ removal' = removal
      BY <2>1, Zenon DEF ConsumeRotation
    <3> QED BY <1>a, <3>3, <3>4, Zenon
  <2>2. ASSUME NEW j \in Rots, Claim(r, j) PROVE Rot /\ Upd /\ Rem
    <3>1. ClaimedRow(rot[j], r) \in RotRow /\ ClaimedRow(rot[j], r).old = rot[j].old
      BY <1>0, ClaimedFields, Zenon
    <3>2. /\ Released(ClaimedRow(rot[j], r)) \in RotRow
          /\ Released(ClaimedRow(rot[j], r)).old = rot[j].old
          /\ Released(To(ClaimedRow(rot[j], r), "failed")) \in RotRow
          /\ Released(To(ClaimedRow(rot[j], r), "failed")).old = rot[j].old
      <4>1. /\ To(ClaimedRow(rot[j], r), "failed") \in RotRow
            /\ To(ClaimedRow(rot[j], r), "failed").old = rot[j].old
        BY <1>s, <3>1, ToFields, Zenon
      <4> QED BY <3>1, <4>1, ReleasedFields, Zenon
    <3>3. Rot
      BY <1>0, <1>b, <2>2, <3>1, <3>2, ClaimDoes, Zenon
    <3> QED BY <1>a, <2>2, <3>3, Zenon DEF Claim
  <2>3. CASE NothingToClaim(r) \/ Abandon(r) \/ RestartRecovers(r)
    BY <1>a, <2>3, Zenon DEF NothingToClaim, Abandon, RestartRecovers
  <2>4. CASE EndValidation(r)
    <3>0. rec[r].job \in Rots
      BY <1>0, <2>4, FencedJob, Zenon DEF EndValidation
    <3>1. /\ Released(To(rot[rec[r].job], "failed")) \in RotRow
          /\ Released(To(rot[rec[r].job], "failed")).old = rot[rec[r].job].old
          /\ Released(rot[rec[r].job]) \in RotRow
          /\ Released(rot[rec[r].job]).old = rot[rec[r].job].old
      <4>1. /\ To(rot[rec[r].job], "failed") \in RotRow
            /\ To(rot[rec[r].job], "failed").old = rot[rec[r].job].old
        BY <1>0, <1>s, <3>0, ToFields, Zenon
      <4> QED BY <1>0, <3>0, <4>1, ReleasedFields, Zenon
    <3>2. Rot
      BY <1>0, <1>a, <1>b, <2>4, <3>0, <3>1, ValidationDoes, Zenon
    <3> QED BY <1>a, <2>4, <3>2, Zenon DEF EndValidation
  <2>5. CASE EndActivation(r)
    <3>0. rec[r].job \in Rots
      BY <1>0, <2>5, FencedJob, Zenon DEF EndActivation
    <3>2. Rot
      BY <1>0, <1>b, <1>c, <1>s, <2>5, <3>0, ActivationDoes, ToFields, Zenon
    <3> QED BY <1>a, <2>5, <3>2, Zenon DEF EndActivation
  <2>6. CASE SwapRegistry(r)
    <3>1. Rot
      BY <1>a, <1>c, <2>6, SwapDoes, Zenon
    <3> QED BY <1>a, <2>6, <3>1, Zenon DEF SwapRegistry
  <2>7. CASE RetireOld(r)
    <3>0. rec[r].job \in Rots
      BY <1>0, <2>7, FencedJob, Zenon DEF RetireOld
    <3>1. /\ EndedRow(rot[rec[r].job], "consumed") \in RotRow
          /\ EndedRow(rot[rec[r].job], "consumed").old = rot[rec[r].job].old
      BY <1>0, <1>s, <3>0, EndedFields, Zenon
    <3>2. Rot
      BY <1>0, <1>b, <1>c, <2>7, <3>0, <3>1, RetireDoes, Zenon
    <3> QED BY <1>a, <2>7, <3>2, Zenon DEF RetireOld
  <2>8. CASE EndCompensation(r)
    <3>0. rec[r].job \in Rots
      BY <1>0, <2>8, FencedJob, Zenon DEF EndCompensation
    <3>2. Rot
      BY <1>0, <1>b, <1>c, <1>s, <2>8, <3>0, CompensationDoes, EndedFields, Zenon
    <3> QED BY <1>a, <2>8, <3>2, Zenon DEF EndCompensation
  <2>9. CASE RecoverCleanup(r)
    <3>1. PICK D \in SUBSET {j \in Rots : rot[j].state \in {"failed", "closed"}} :
            /\ \A j \in D : rot'[j] = Cleaned(rot[j])
            /\ \A j \in Rots \ D : rot'[j] = rot[j]
      BY <1>0, <2>9, CleanupDoes, Zenon
    <3>2. \A j \in Rots : Cleaned(rot[j]).old = rot[j].old
      BY <1>0, CleanedFields, Zenon
    <3>3. \A j \in Rots : rot'[j].old = rot[j].old
      BY <3>1, <3>2, Zenon
    <3>4. Rot
      BY <3>3, Zenon DEF Rot, CapturedAgain
    <3> QED BY <1>a, <2>9, <3>4, Zenon DEF RecoverCleanup
  <2>10. CASE CrashInRetire(r)
    BY <1>a, <1>d, <2>10, Zenon DEF CrashInRetire
  <2> QED BY <1>2, <2>1, <2>2, <2>3, <2>4, <2>5, <2>6, <2>7, <2>8, <2>9, <2>10, Zenon DEF RecStep
<1>3. ASSUME NEW u \in Upds, UpdStep(u) PROVE Rot /\ Upd /\ Rem
  <2>1. Rot /\ Rem
    BY <1>3, <1>a, Zenon DEF UpdStep, BeginUpdate, UpdateFails, EndUpdate, CrashInUpdate
  <2>2. CASE BeginUpdate(u)
    <3>1. \A v \in Upds : upd'[v] = IF v = u THEN [pc |-> "validating", old |-> agent] ELSE upd[v]
      BY <1>0, <2>2, Zenon DEF BeginUpdate
    <3>2. \A v \in Upds : upd'[v].old = upd[v].old \/ upd'[v].old = agent
      BY <3>1
    <3> QED BY <2>1, <2>2, <3>2, Zenon DEF Upd, CapturedAgain, BeginUpdate
  <2>3. CASE upd' = [upd EXCEPT ![u].pc = "done"]
    BY <1>0, <2>1, <2>3, UpdAt, Zenon DEF Upd, CapturedAgain
  <2> QED BY <1>3, <1>d, <2>1, <2>2, <2>3, Zenon DEF UpdStep, UpdateFails, EndUpdate, CrashInUpdate
<1>4. CASE RmStep
  <2>1. Rot
    BY <1>4, <1>a, Zenon DEF RmStep, RemoveAgent, BeginRevoke, EndRevoke, SkipRevoke, DeleteRefused,
      DeleteToken, Complete, DeleteRegistryRow, CrashInDelete, CrashInToken
  <2>2. Upd
    BY <1>4, <1>a, <1>d, Zenon DEF RmStep, RemoveAgent, BeginRevoke, EndRevoke, SkipRevoke, DeleteRefused,
      DeleteToken, Complete, DeleteRegistryRow, CrashInDelete, CrashInToken
  <2>3. ASSUME NEW local \in BOOLEAN, RemoveAgent(local) PROVE Rem
    <3>1. removal'.old = agent
      BY <2>3 DEF RemoveAgent
    <3> QED BY <2>3, <3>1, Zenon DEF Rem, CapturedAgain, RemoveAgent
  <2>4. CASE BeginRevoke \/ EndRevoke \/ SkipRevoke \/ DeleteRegistryRow
    BY <1>e, <2>1, <2>2, <2>4, RmRows, Zenon DEF BeginRevoke, EndRevoke, SkipRevoke, DeleteRegistryRow
  <2>5. CASE DeleteRefused \/ DeleteToken \/ Complete \/ CrashInDelete \/ CrashInToken
    BY <1>a, <1>e, <2>1, <2>2, <2>5, RmRows, Zenon DEF DeleteRefused, DeleteToken, Complete, CrashInDelete, CrashInToken
  <2> QED BY <1>4, <2>1, <2>2, <2>3, <2>4, <2>5, Zenon DEF RmStep
<1>5. ASSUME NEW m \in wire, AgentHandles(m) \/ Lose(m) PROVE Rot /\ Upd /\ Rem
  BY <1>5, <1>a, Zenon DEF AgentHandles, Lose
<1>6. CASE Pin \/ Restart \/ SweepOrphans \/ UNCHANGED vars
  BY <1>6, <1>a, Zenon DEF Pin, Restart, SweepOrphans, vars
<1>7. CASE Crash
  BY <1>7, <1>a, <1>d, Zenon DEF Crash
<1> QED BY <1>1, <1>2, <1>3, <1>4, <1>5, <1>6, <1>7, Zenon DEF Next
\* A snapshot is at most as new as the row, and as new only if it is the row
\* (deletion aside): every accepted write bumps the revision.
Older(a) ==
  /\ a.rev <= agent.rev
  /\ a.rev = agent.rev => /\ a.ref = agent.ref /\ (a.pinned <=> agent.pinned)
                          /\ (a.legacy <=> agent.legacy) /\ a.cfg = agent.cfg

SnapInv ==
  /\ Older(removal.old)
  /\ \A j \in Rots : Older(rot[j].old)
  /\ \A u \in Upds : Older(upd[u].old)

\* A write bumps the revision; a deletion leaves the other columns.
Bumped == agent'.rev = agent.rev + 1 /\ (agent'.present => agent.present)
Kept == /\ agent'.rev = agent.rev /\ agent'.ref = agent.ref
        /\ agent'.pinned = agent.pinned /\ agent'.legacy = agent.legacy
        /\ agent'.cfg = agent.cfg /\ (agent'.present => agent.present)

LEMMA AgentMoves ==
  ASSUME TypeOK, [Next]_vars
  PROVE  Bumped \/ Kept
<1>0. agent \in AgentRow /\ rot \in [Rots -> RotRow]
      /\ \A j \in Rots : rot[j] \in RotRow
  BY TypedParts, Zenon
<1>1. CASE UNCHANGED <<agent, updates>>
  BY <1>1, Zenon DEF Kept
<1>2. ASSUME NEW r \in Recs, SwapRegistry(r) PROVE Bumped \/ Kept
  <2>1. CASE MaySwap(rec[r].job)
    <3>1. /\ agent'.rev = rot[rec[r].job].old.rev + 1 /\ agent'.present = agent.present
      <4>1. agent' = SwappedAgent(rec[r].job) /\ rec[r].job \in Rots
        BY <1>2, <2>1, SwapDoes, Zenon
      <4> QED BY <1>0, <4>1, SwappedTyped, Zenon
    <3>2. agent.rev = rot[rec[r].job].old.rev
      BY <2>1, Zenon DEF MaySwap, Unchanged
    <3> QED BY <3>1, <3>2, Zenon DEF Bumped
  <2>2. CASE ~MaySwap(rec[r].job)
    BY <1>2, <2>2, SwapDoes, Zenon DEF Kept
  <2> QED BY <2>1, <2>2
<1>3. ASSUME NEW u \in Upds, EndUpdate(u) PROVE Bumped \/ Kept
  <2>1. CASE ~UpdateAccepted(upd[u].old)
    BY <1>3, <2>1, EndUpdateDoes, Zenon DEF Kept
  <2>2. CASE UpdateAccepted(upd[u].old)
    <3>1. upd[u].old \in AgentRow
      BY <1>3, EndUpdateDoes, Zenon
    <3>2. upd[u].old.ref \in Creds /\ u \in Creds
      BY <3>1, NamesApart, AgentFields, Zenon
    <3>3. agent'.rev = upd[u].old.rev + 1
      <4>1. agent' = UpdatedAgent(upd[u].old, upd[u].old.ref) \/ agent' = UpdatedAgent(upd[u].old, u)
        BY <1>3, <2>2, EndUpdateDoes, Zenon
      <4>2. /\ UpdatedAgent(upd[u].old, upd[u].old.ref).rev = upd[u].old.rev + 1
            /\ UpdatedAgent(upd[u].old, u).rev = upd[u].old.rev + 1
        BY <3>1, <3>2, UpdatedFields, Zenon
      <4> QED BY <4>1, <4>2, Zenon
    <3>4. agent.rev = upd[u].old.rev /\ agent.present
      BY <2>2, Zenon DEF UpdateAccepted
    <3> QED BY <3>3, <3>4, Zenon DEF Bumped
  <2> QED BY <2>1, <2>2
<1>4. CASE Pin
  BY <1>0, <1>4, PinDoes, Zenon DEF Bumped
<1>5. CASE DeleteRegistryRow \/ CrashInDelete
  <2>1. agent' = agent \/ agent' = [agent EXCEPT !.present = FALSE]
    BY <1>5, Zenon DEF DeleteRegistryRow, CrashInDelete
  <2> QED BY <1>0, <2>1, GoneTyped, Zenon DEF Kept
<1> QED BY <1>1, <1>2, <1>3, <1>4, <1>5, AgentQuiet, Zenon DEF AgentWrites

LEMMA OlderMoves ==
  ASSUME agent \in AgentRow, NEW a \in AgentRow, Older(a), Bumped \/ Kept
  PROVE  Older(a)'
<1>0. a.rev \in Nat /\ agent.rev \in Nat
  BY AgentFields, Zenon
<1>1. CASE Kept
  BY <1>1, Zenon DEF Kept, Older
<1>2. CASE Bumped
  <2>1. a.rev <= agent.rev /\ agent'.rev = agent.rev + 1
    BY <1>2, Zenon DEF Bumped, Older
  <2>2. a.rev <= agent'.rev /\ a.rev # agent'.rev
    BY <1>0, <2>1
  <2> QED BY <2>2, Zenon DEF Older
<1> QED BY <1>1, <1>2

LEMMA OlderSelf ==
  ASSUME agent \in AgentRow, agent' = agent, NEW b, b = agent
  PROVE  Older(b)'
<1>1. agent.rev \in Nat
  BY AgentFields, Zenon
<1>2. agent.rev <= agent.rev
  BY <1>1
<1> QED BY <1>2, Zenon DEF Older

LEMMA SnapInductive ==
  /\ Init => SnapInv
  /\ TypeOK /\ SnapInv /\ [Next]_vars => SnapInv'
<1>1. ASSUME Init PROVE SnapInv
  <2>1. agent \in AgentRow
    BY <1>1, InitTyped, TypedParts, Zenon
  <2>2. Older(agent)
    <3>1. agent.rev \in Nat
      BY <2>1, AgentFields, Zenon
    <3>2. agent.rev <= agent.rev
      BY <3>1
    <3> QED BY <3>2, Zenon DEF Older
  <2>3. /\ removal.old = agent
        /\ \A j \in Rots : rot[j].old = agent
        /\ \A u \in Upds : upd[u].old = agent
    BY <1>1 DEF Init
  <2> QED BY <2>2, <2>3, Zenon DEF SnapInv
<1>2. ASSUME TypeOK, SnapInv, [Next]_vars PROVE SnapInv'
  <2>0. /\ agent \in AgentRow /\ removal.old \in AgentRow
        /\ \A j \in Rots : rot[j].old \in AgentRow
        /\ \A u \in Upds : upd[u].old \in AgentRow
    BY <1>2, TypedParts, RotFields, Zenon DEF RemovalRow, UpdRow
  <2>1. Bumped \/ Kept
    BY <1>2, AgentMoves
  <2>2. ASSUME NEW a \in AgentRow, NEW b, Older(a), CapturedAgain(a, b) PROVE Older(b)'
    <3>1. CASE b = a
      BY <2>0, <2>1, <2>2, <3>1, OlderMoves, Zenon
    <3>2. CASE b = agent /\ agent' = agent
      BY <2>0, <3>2, OlderSelf, Zenon
    <3> QED BY <2>2, <3>1, <3>2, Zenon DEF CapturedAgain
  <2> QED BY <1>2, <2>0, <2>2, SnapshotMoves, Zenon DEF SnapInv
<1> QED BY <1>1, <1>2
\* No acknowledged update is lost to another update or to the swap of a
\* rotation that writes back the row it captured.
LEMMA UpdatesInductive ==
  /\ Init => UpdatesKept
  /\ TypeOK /\ SnapInv /\ UpdatesKept /\ [Next]_vars => UpdatesKept'
<1>1. ASSUME Init PROVE UpdatesKept
  BY <1>1 DEF Init, UpdatesKept
<1>2. ASSUME TypeOK, SnapInv, UpdatesKept, [Next]_vars PROVE UpdatesKept'
  <2>0. agent \in AgentRow /\ \A j \in Rots : rot[j] \in RotRow
    BY <1>2, TypedParts, Zenon
  <2>1. CASE UNCHANGED <<agent, updates>>
    BY <1>2, <2>1, Zenon DEF UpdatesKept
  <2>2. ASSUME NEW r \in Recs, SwapRegistry(r) PROVE UpdatesKept'
    <3>0. updates' = updates
      BY <2>2, Zenon DEF SwapRegistry
    <3>1. CASE MaySwap(rec[r].job)
      <4>1. agent' = SwappedAgent(rec[r].job) /\ rec[r].job \in Rots
        BY <1>2, <2>2, <3>1, SwapDoes, Zenon
      <4>2. agent'.cfg = rot[rec[r].job].old.cfg
        BY <2>0, <4>1, SwappedTyped, Zenon
      <4>3. agent.rev = rot[rec[r].job].old.rev /\ agent.present
        BY <3>1, Zenon DEF MaySwap, Unchanged
      <4>4. agent.cfg = rot[rec[r].job].old.cfg
        BY <1>2, <4>1, <4>3, Zenon DEF SnapInv, Older
      <4> QED BY <1>2, <3>0, <4>2, <4>3, <4>4, Zenon DEF UpdatesKept
    <3>2. CASE ~MaySwap(rec[r].job)
      BY <1>2, <2>2, <3>0, <3>2, SwapDoes, Zenon DEF UpdatesKept
    <3> QED BY <3>1, <3>2
  <2>3. ASSUME NEW u \in Upds, EndUpdate(u) PROVE UpdatesKept'
    <3>1. CASE ~UpdateAccepted(upd[u].old)
      BY <1>2, <2>3, <3>1, EndUpdateDoes, Zenon DEF UpdatesKept
    <3>2. CASE UpdateAccepted(upd[u].old)
      <4>1. upd[u].old \in AgentRow /\ u \in Creds /\ updates' = updates + 1
        BY <1>2, <2>3, <3>2, EndUpdateDoes, NamesApart, Zenon
      <4>2. agent' = UpdatedAgent(upd[u].old, upd[u].old.ref) \/ agent' = UpdatedAgent(upd[u].old, u)
        BY <1>2, <2>3, <3>2, EndUpdateDoes, Zenon
      <4>3. agent'.cfg = upd[u].old.cfg + 1
        <5>1. upd[u].old.ref \in Creds
          BY <4>1, AgentFields, Zenon
        <5>2. /\ UpdatedAgent(upd[u].old, upd[u].old.ref).cfg = upd[u].old.cfg + 1
              /\ UpdatedAgent(upd[u].old, u).cfg = upd[u].old.cfg + 1
          BY <4>1, <5>1, UpdatedFields, Zenon
        <5> QED BY <4>2, <5>2, Zenon
      <4>4. agent.rev = upd[u].old.rev /\ agent.present
        BY <3>2, Zenon DEF UpdateAccepted
      <4>5. agent.cfg = upd[u].old.cfg
        BY <1>2, <4>4, Zenon DEF SnapInv, Older
      <4> QED BY <1>2, <4>1, <4>3, <4>4, <4>5, Zenon DEF UpdatesKept
    <3> QED BY <3>1, <3>2
  <2>4. CASE Pin
    BY <1>2, <2>0, <2>4, PinDoes, Zenon DEF UpdatesKept, Pin
  <2>5. CASE DeleteRegistryRow \/ CrashInDelete
    <3>1. agent' = agent \/ agent' = [agent EXCEPT !.present = FALSE]
      BY <2>5, Zenon DEF DeleteRegistryRow, CrashInDelete
    <3>2. updates' = updates
      BY <2>5, Zenon DEF DeleteRegistryRow, CrashInDelete, Die
    <3> QED BY <1>2, <2>0, <3>1, <3>2, GoneTyped, Zenon DEF UpdatesKept
  <2> QED BY <1>2, <2>1, <2>2, <2>3, <2>4, <2>5, AgentQuiet, Zenon DEF AgentWrites
<1> QED BY <1>1, <1>2

\* An update that was acknowledged is in the registry row for as long as the
\* Agent is registered: the revision is compared with the row the writer read,
\* and every snapshot as new as the row is the row.
THEOREM UpdatesAlwaysKept == Spec => []UpdatesKept
<1>1. Init => TypeOK /\ SnapInv /\ UpdatesKept
  BY InitTyped, SnapInductive, UpdatesInductive
<1>2. (TypeOK /\ SnapInv /\ UpdatesKept) /\ [Next]_vars => (TypeOK /\ SnapInv /\ UpdatesKept)'
  BY NextTyped, SnapInductive, UpdatesInductive
<1> QED BY <1>1, <1>2, PTL DEF Spec
-----------------------------------------------------------------------------
(* What the steps do to the rotations, field by field.                     *)

\* Job j moves to state s and its claim becomes c; the other rows stay.
RowMoves(j, s, c) ==
  /\ \A k \in Rots : k # j => rot'[k] = rot[k]
  /\ rot'[j].state = s /\ rot'[j].old = rot[j].old /\ rot'[j].claim = c
  /\ s \in {"activation_requested", "activated"} =>
       rot'[j].temp = rot[j].temp /\ rot'[j].kept = rot[j].kept
  /\ s = "verified" => rot'[j].temp /\ rot'[j].kept = rot[j].kept

\* No job moves; at most the token of an ended job is forgotten.
RowsStay ==
  \A k \in Rots :
    /\ rot'[k].state = rot[k].state /\ rot'[k].old = rot[k].old
    /\ rot'[k].kept = rot[k].kept
    /\ rot[k].state \notin {"failed", "closed"} => rot'[k].temp = rot[k].temp

\* No claim is taken.
ClaimsFall == \A k \in Rots : rot'[k].claim \in {rot[k].claim, NoOwner}

LEMMA RowsSame ==
  ASSUME rot' = rot
  PROVE  RowsStay /\ ClaimsFall
  BY Zenon DEF RowsStay, ClaimsFall

LEMMA StateNames ==
  /\ "activation_requested" \in RotStates /\ "failed" \in RotStates
  /\ "activated" \in RotStates /\ "consumed" \in RotStates
  BY Zenon DEF RotStates

\* A row put in place of the job's.
LEMMA PutMoves ==
  ASSUME rot \in [Rots -> RotRow], NEW j \in Rots, NEW row \in RotRow, RotBecomes(j, row),
         NEW s, NEW c, row.state = s, row.old = rot[j].old, row.claim = c,
         s \notin {"activation_requested", "activated", "verified"}
  PROVE  RowMoves(j, s, c)
  BY RotPut, Zenon DEF RowMoves

\* A row that differs at most in its claim.
LEMMA PutStays ==
  ASSUME rot \in [Rots -> RotRow], NEW j \in Rots, NEW row \in RotRow, RotBecomes(j, row),
         row.state = rot[j].state, row.old = rot[j].old, row.kept = rot[j].kept,
         row.temp = rot[j].temp
  PROVE  /\ RowsStay /\ rot'[j].claim = row.claim
         /\ \A k \in Rots : k # j => rot'[k].claim = rot[k].claim
<1>1. rot'[j] = row /\ \A k \in Rots : k # j => rot'[k] = rot[k]
  BY RotPut, Zenon
<1>2. ASSUME NEW k \in Rots
      PROVE  /\ rot'[k].state = rot[k].state /\ rot'[k].old = rot[k].old
             /\ rot'[k].kept = rot[k].kept /\ rot'[k].temp = rot[k].temp
  <2>1. CASE k = j
    BY <1>1, <2>1, Zenon
  <2>2. CASE k # j
    BY <1>1, <2>2, Zenon
  <2> QED BY <2>1, <2>2
<1> QED BY <1>1, <1>2, Zenon DEF RowsStay

LEMMA StartMoves ==
  ASSUME TypeOK, NEW j \in Rots, StartRotation(j)
  PROVE  /\ \A k \in Rots : k # j => rot'[k] = rot[k]
         /\ rot'[j].state = "open" /\ rot'[j].old = agent /\ rot'[j].kept
         /\ rot'[j].claim = rot[j].claim
<1>0. rot \in [Rots -> RotRow] /\ rot[j] \in RotRow /\ agent \in AgentRow
  BY TypedParts, Zenon
<1>1. RotBecomes(j, Opened(rot[j], agent)) /\ Opened(rot[j], agent) \in RotRow
  BY <1>0, StartDoes, OpenedFields, Zenon
<1>2. rot'[j] = Opened(rot[j], agent) /\ \A k \in Rots : k # j => rot'[k] = rot[k]
  BY <1>0, <1>1, RotPut, Zenon
<1>3. /\ Opened(rot[j], agent).state = "open" /\ Opened(rot[j], agent).old = agent
      /\ Opened(rot[j], agent).kept /\ Opened(rot[j], agent).claim = rot[j].claim
  BY <1>0, OpenedFields, Zenon
<1> QED BY <1>2, <1>3, Zenon

LEMMA PublishMoves ==
  ASSUME TypeOK, NEW j \in Rots, Publish(j)
  PROVE  RowMoves(j, "verified", rot[j].claim)
<1>0. rot \in [Rots -> RotRow] /\ rot[j] \in RotRow
  BY TypedParts, Zenon
<1>1. RotBecomes(j, Published(rot[j])) /\ Published(rot[j]) \in RotRow
  BY <1>0, PublishDoes, PublishedFields, Zenon
<1>2. rot'[j] = Published(rot[j]) /\ \A k \in Rots : k # j => rot'[k] = rot[k]
  BY <1>0, <1>1, RotPut, Zenon
<1>3. /\ Published(rot[j]).state = "verified" /\ Published(rot[j]).old = rot[j].old
      /\ Published(rot[j]).temp /\ Published(rot[j]).kept = rot[j].kept
      /\ Published(rot[j]).claim = rot[j].claim
  BY <1>0, PublishedFields, Zenon
<1>4. "verified" \notin {"activation_requested", "activated"}
  OBVIOUS
<1> QED BY <1>2, <1>3, <1>4, Zenon DEF RowMoves

LEMMA CloseMoves ==
  ASSUME TypeOK, NEW j \in Rots, Close(j)
  PROVE  RowMoves(j, "closed", NoOwner)
<1>0. rot \in [Rots -> RotRow]
  BY TypedParts, Zenon
<1>1. PICK row \in RotRow : /\ RotBecomes(j, row) /\ row.state = "closed"
                            /\ row.claim = NoOwner /\ row.old = rot[j].old
  BY <1>0, CloseDoes, Zenon
<1> QED BY <1>0, <1>1, PutMoves

\* A state changes and nothing else.
LEMMA ToMoves ==
  ASSUME rot \in [Rots -> RotRow], NEW j \in Rots, NEW s \in RotStates, s # "verified",
         RotBecomes(j, To(rot[j], s))
  PROVE  RowMoves(j, s, rot[j].claim)
<1>0. rot[j] \in RotRow
  BY Zenon
<1>1. rot'[j] = To(rot[j], s) /\ \A k \in Rots : k # j => rot'[k] = rot[k]
  BY <1>0, RotPut, ToFields, Zenon
<1>2. /\ To(rot[j], s).state = s /\ To(rot[j], s).old = rot[j].old
      /\ To(rot[j], s).temp = rot[j].temp /\ To(rot[j], s).kept = rot[j].kept
      /\ To(rot[j], s).claim = rot[j].claim
  BY <1>0, ToFields, Zenon
<1> QED BY <1>1, <1>2, Zenon DEF RowMoves

LEMMA ConsumeMoves ==
  ASSUME TypeOK, NEW r \in Recs, NEW j \in Rots, ConsumeRotation(r, j)
  PROVE  RowMoves(j, "activation_requested", rot[j].claim)
<1>1. rot \in [Rots -> RotRow] /\ "activation_requested" # "verified"
  BY TypedParts
<1> QED BY <1>1, StateNames, ConsumeDoes, ToMoves, Zenon

LEMMA LapseMoves ==
  ASSUME TypeOK, NEW j \in Rots, LeaseLapses(j)
  PROVE  RowsStay /\ ClaimsFall
<1>0. rot \in [Rots -> RotRow] /\ rot[j] \in RotRow
  BY TypedParts, Zenon
<1>1. /\ RotBecomes(j, Lapsed(rot[j])) /\ Lapsed(rot[j]) \in RotRow
      /\ Lapsed(rot[j]).state = rot[j].state /\ Lapsed(rot[j]).old = rot[j].old
      /\ Lapsed(rot[j]).temp = rot[j].temp /\ Lapsed(rot[j]).kept = rot[j].kept
      /\ Lapsed(rot[j]).claim = rot[j].claim
  BY <1>0, LapseDoes, LapsedFields, Zenon
<1>2. /\ RowsStay /\ rot'[j].claim = rot[j].claim
      /\ \A k \in Rots : k # j => rot'[k].claim = rot[k].claim
  BY <1>0, <1>1, PutStays, Zenon
<1> QED BY <1>2, Zenon DEF ClaimsFall

LEMMA ResidualMoves ==
  ASSUME TypeOK, NEW r \in Recs, rec[r].job \in Rots, Residual(r)
  PROVE  RowsStay /\ ClaimsFall
<1> DEFINE j == rec[r].job
<1>0. rot \in [Rots -> RotRow] /\ rot[j] \in RotRow /\ j \in Rots
  BY TypedParts, Zenon
<1>1. CASE rot' = rot
  BY <1>1, RowsSame
<1>2. CASE RotBecomes(j, Released(rot[j]))
  <2>1. /\ Released(rot[j]) \in RotRow
        /\ Released(rot[j]).state = rot[j].state /\ Released(rot[j]).old = rot[j].old
        /\ Released(rot[j]).temp = rot[j].temp /\ Released(rot[j]).kept = rot[j].kept
        /\ Released(rot[j]).claim = NoOwner
    BY <1>0, ReleasedFields, Zenon
  <2> HIDE DEF j
  <2>2. /\ RowsStay /\ rot'[j].claim = NoOwner
        /\ \A k \in Rots : k # j => rot'[k].claim = rot[k].claim
    BY <1>0, <1>2, <2>1, PutStays, Zenon
  <2> QED BY <2>2, Zenon DEF ClaimsFall
<1> QED BY <1>0, <1>1, <1>2, ResidualDoes, Zenon

\* A claim: taken, given back at once, or the unsaved job fails.
LEMMA ClaimMoves ==
  ASSUME TypeOK, NEW r \in Recs, NEW j \in Rots, Claim(r, j)
  PROVE  \/ /\ RowsStay /\ rot'[j].claim = r /\ j \in files
            /\ \A k \in Rots : k # j => rot'[k].claim = rot[k].claim
            /\ \/ /\ rot[j].state = "verified"
                  /\ Enter(r, j, "validate", "none") /\ wire' = wire
               \/ /\ rot[j].state = "activation_requested"
                  /\ Enter(r, j, "activate", "none") /\ Send("activate", j, j, r)
               \/ /\ rot[j].state = "activated"
                  /\ Enter(r, j, "swap", "none") /\ wire' = wire
         \/ RowsStay /\ ClaimsFall /\ Leave(r) /\ wire' = wire
         \/ /\ RowMoves(j, "failed", NoOwner) /\ rot[j].state = "verified"
            /\ Leave(r) /\ wire' = wire
<1> DEFINE row == ClaimedRow(rot[j], r)
<1>0. rot \in [Rots -> RotRow] /\ rot[j] \in RotRow
  BY TypedParts, Zenon
<1>1. /\ row \in RotRow /\ row.state = rot[j].state /\ row.old = rot[j].old
      /\ row.temp = rot[j].temp /\ row.kept = rot[j].kept /\ row.claim = r
  BY <1>0, ClaimedFields, Zenon
<1>2. ~Saved(j) => rot[j].state = "verified"
  BY Zenon DEF Claim, Claimable
<1> HIDE DEF row
<1>3. \/ /\ RotBecomes(j, row) /\ j \in files
         /\ \/ ~Saved(j) /\ Enter(r, j, "validate", "none") /\ wire' = wire
            \/ /\ rot[j].state = "activation_requested"
               /\ Enter(r, j, "activate", "none") /\ Send("activate", j, j, r)
            \/ /\ rot[j].state = "activated"
               /\ Enter(r, j, "swap", "none") /\ wire' = wire
      \/ /\ \/ RotBecomes(j, Released(row))
            \/ ~Saved(j) /\ RotBecomes(j, Released(To(row, "failed")))
         /\ Leave(r) /\ wire' = wire
  BY <1>0, ClaimDoes, Zenon DEF row
<1>4. CASE RotBecomes(j, row)
  <2>1. /\ RowsStay /\ rot'[j].claim = r
        /\ \A k \in Rots : k # j => rot'[k].claim = rot[k].claim
    BY <1>0, <1>1, <1>4, PutStays, Zenon
  <2>2. \/ /\ j \in files
           /\ \/ ~Saved(j) /\ Enter(r, j, "validate", "none") /\ wire' = wire
              \/ /\ rot[j].state = "activation_requested"
                 /\ Enter(r, j, "activate", "none") /\ Send("activate", j, j, r)
              \/ /\ rot[j].state = "activated"
                 /\ Enter(r, j, "swap", "none") /\ wire' = wire
        \/ /\ \/ RotBecomes(j, Released(row))
              \/ ~Saved(j) /\ RotBecomes(j, Released(To(row, "failed")))
    BY <1>3, Zenon
  <2>3. /\ ~RotBecomes(j, Released(row)) /\ ~RotBecomes(j, Released(To(row, "failed")))
    <3>1. Released(row) \in RotRow /\ Released(row).claim = NoOwner
      BY <1>1, ReleasedFields, Zenon
    <3>2. To(row, "failed") \in RotRow
      BY <1>1, StateNames, ToFields, Zenon
    <3>3. Released(To(row, "failed")) \in RotRow /\ Released(To(row, "failed")).claim = NoOwner
      BY <3>2, ReleasedFields, Zenon
    <3>4. r # NoOwner
      BY NamesApart, Zenon
    <3> QED BY <1>0, <2>1, <3>1, <3>3, <3>4, RotPut, Zenon
  <2> QED BY <1>2, <2>1, <2>2, <2>3, Zenon
<1>5. CASE RotBecomes(j, Released(row)) /\ Leave(r) /\ wire' = wire
  <2>1. /\ Released(row) \in RotRow
        /\ Released(row).state = rot[j].state /\ Released(row).old = rot[j].old
        /\ Released(row).temp = rot[j].temp /\ Released(row).kept = rot[j].kept
        /\ Released(row).claim = NoOwner
    BY <1>1, ReleasedFields, Zenon
  <2>2. /\ RowsStay /\ rot'[j].claim = NoOwner
        /\ \A k \in Rots : k # j => rot'[k].claim = rot[k].claim
    BY <1>0, <1>5, <2>1, PutStays, Zenon
  <2> QED BY <1>5, <2>2, Zenon DEF ClaimsFall
<1>6. CASE ~Saved(j) /\ RotBecomes(j, Released(To(row, "failed"))) /\ Leave(r) /\ wire' = wire
  <2>1. /\ To(row, "failed") \in RotRow /\ To(row, "failed").state = "failed"
        /\ To(row, "failed").old = rot[j].old
    BY <1>1, StateNames, ToFields, Zenon
  <2>2. /\ Released(To(row, "failed")) \in RotRow
        /\ Released(To(row, "failed")).state = "failed"
        /\ Released(To(row, "failed")).old = rot[j].old
        /\ Released(To(row, "failed")).claim = NoOwner
    BY <2>1, ReleasedFields, Zenon
  <2>3. RowMoves(j, "failed", NoOwner)
    BY <1>0, <1>6, <2>2, PutMoves
  <2> QED BY <1>2, <1>6, <2>3, Zenon
<1> QED BY <1>3, <1>4, <1>5, <1>6, Zenon

LEMMA ValidationMoves ==
  ASSUME TypeOK, NEW r \in Recs, EndValidation(r)
  PROVE  /\ rec[r].job \in Rots /\ rot[rec[r].job].claim = r
         /\ \/ RowsStay /\ ClaimsFall
            \/ RowMoves(rec[r].job, "failed", NoOwner)
<1> DEFINE j == rec[r].job
<1>0. rot \in [Rots -> RotRow] /\ j \in Rots /\ rot[j] \in RotRow /\ rot[j].claim = r
  BY TypedParts, FencedJob, Zenon DEF EndValidation
<1>1. \/ rot' = rot
      \/ RotBecomes(j, Released(To(rot[j], "failed")))
      \/ RotBecomes(j, Released(rot[j]))
  BY <1>0, ValidationDoes, Zenon
<1> HIDE DEF j
<1>2. CASE rot' = rot
  BY <1>0, <1>2, RowsSame, Zenon DEF j
<1>3. CASE RotBecomes(j, Released(To(rot[j], "failed")))
  <2>1. /\ To(rot[j], "failed") \in RotRow /\ To(rot[j], "failed").state = "failed"
        /\ To(rot[j], "failed").old = rot[j].old
    BY <1>0, StateNames, ToFields, Zenon
  <2>2. /\ Released(To(rot[j], "failed")) \in RotRow
        /\ Released(To(rot[j], "failed")).state = "failed"
        /\ Released(To(rot[j], "failed")).old = rot[j].old
        /\ Released(To(rot[j], "failed")).claim = NoOwner
    BY <2>1, ReleasedFields, Zenon
  <2>3. RowMoves(j, "failed", NoOwner)
    BY <1>0, <1>3, <2>2, PutMoves
  <2> QED BY <1>0, <2>3, Zenon DEF j
<1>4. CASE RotBecomes(j, Released(rot[j]))
  <2>1. /\ Released(rot[j]) \in RotRow
        /\ Released(rot[j]).state = rot[j].state /\ Released(rot[j]).old = rot[j].old
        /\ Released(rot[j]).temp = rot[j].temp /\ Released(rot[j]).kept = rot[j].kept
        /\ Released(rot[j]).claim = NoOwner
    BY <1>0, ReleasedFields, Zenon
  <2>2. /\ RowsStay /\ rot'[j].claim = NoOwner
        /\ \A k \in Rots : k # j => rot'[k].claim = rot[k].claim
    BY <1>0, <1>4, <2>1, PutStays, Zenon
  <2> QED BY <1>0, <2>2, Zenon DEF ClaimsFall, j
<1> QED BY <1>1, <1>2, <1>3, <1>4, Zenon

LEMMA ActivationMoves ==
  ASSUME TypeOK, NEW r \in Recs, EndActivation(r)
  PROVE  /\ rec[r].job \in Rots /\ rot[rec[r].job].claim = r
         /\ \/ /\ RowMoves(rec[r].job, "activated", r) /\ rec[r].reply = "ok"
               /\ Enter(r, rec[r].job, "swap", "none")
            \/ RowsStay /\ ClaimsFall /\ Leave(r)
<1>0. rot \in [Rots -> RotRow] /\ rec[r].job \in Rots /\ rot[rec[r].job].claim = r
  BY TypedParts, FencedJob, Zenon DEF EndActivation
<1>1. CASE RotBecomes(rec[r].job, To(rot[rec[r].job], "activated"))
  <2>1. "activated" # "verified"
    OBVIOUS
  <2>2. RowMoves(rec[r].job, "activated", r)
    BY <1>0, <1>1, <2>1, StateNames, ToMoves
  <2> QED BY <1>0, <2>2, ActivationDoes, ResidualMoves, Zenon
<1>2. CASE Residual(r) /\ Leave(r)
  BY <1>0, <1>2, ResidualMoves, Zenon
<1> QED BY <1>0, <1>1, <1>2, ActivationDoes, Zenon

LEMMA RetireMoves ==
  ASSUME TypeOK, NEW r \in Recs, RetireOld(r)
  PROVE  /\ rec[r].job \in Rots /\ rot[rec[r].job].claim = r
         /\ \/ /\ RowMoves(rec[r].job, "consumed", NoOwner) /\ rec[r].reply = "ok"
               /\ files' = files \ {rot[rec[r].job].old.ref}
            \/ /\ RowsStay /\ ClaimsFall
               /\ \/ files' = files
                  \/ rec[r].reply = "ok" /\ files' = files \ {rot[rec[r].job].old.ref}
<1> DEFINE j == rec[r].job
<1>0. rot \in [Rots -> RotRow] /\ j \in Rots /\ rot[j] \in RotRow /\ rot[j].claim = r
  BY TypedParts, FencedJob, Zenon DEF RetireOld
<1>1. /\ EndedRow(rot[j], "consumed") \in RotRow
      /\ EndedRow(rot[j], "consumed").state = "consumed"
      /\ EndedRow(rot[j], "consumed").old = rot[j].old
      /\ EndedRow(rot[j], "consumed").claim = NoOwner
  BY <1>0, StateNames, EndedFields, Zenon
<1>2. \/ /\ RotBecomes(j, EndedRow(rot[j], "consumed")) /\ rec[r].reply = "ok"
         /\ files' = files \ {rot[j].old.ref}
      \/ /\ Residual(r)
         /\ \/ files' = files
            \/ rec[r].reply = "ok" /\ files' = files \ {rot[j].old.ref}
  BY <1>0, RetireDoes, Zenon
<1>3. RotBecomes(j, EndedRow(rot[j], "consumed")) => RowMoves(j, "consumed", NoOwner)
  <2> HIDE DEF j
  <2> QED BY <1>0, <1>1, PutMoves
<1>4. Residual(r) => RowsStay /\ ClaimsFall
  BY <1>0, ResidualMoves
<1> QED BY <1>0, <1>2, <1>3, <1>4, Zenon

LEMMA CompensationMoves ==
  ASSUME TypeOK, NEW r \in Recs, EndCompensation(r)
  PROVE  /\ rec[r].job \in Rots /\ rot[rec[r].job].claim = r
         /\ \/ /\ RowMoves(rec[r].job, "failed", NoOwner) /\ rec[r].reply = "ok"
               /\ files' \in {files, files \ {rec[r].job}}
            \/ RowsStay /\ ClaimsFall /\ files' = files
<1> DEFINE j == rec[r].job
<1>0. rot \in [Rots -> RotRow] /\ j \in Rots /\ rot[j] \in RotRow /\ rot[j].claim = r
  BY TypedParts, FencedJob, Zenon DEF EndCompensation
<1>1. /\ EndedRow(rot[j], "failed") \in RotRow
      /\ EndedRow(rot[j], "failed").state = "failed"
      /\ EndedRow(rot[j], "failed").old = rot[j].old
      /\ EndedRow(rot[j], "failed").claim = NoOwner
  BY <1>0, StateNames, EndedFields, Zenon
<1>2. \/ /\ RotBecomes(j, EndedRow(rot[j], "failed")) /\ rec[r].reply = "ok"
         /\ files' \in {files, files \ {j}}
      \/ Residual(r) /\ files' = files
  BY <1>0, CompensationDoes, Zenon
<1>3. RotBecomes(j, EndedRow(rot[j], "failed")) => RowMoves(j, "failed", NoOwner)
  <2> HIDE DEF j
  <2> QED BY <1>0, <1>1, PutMoves
<1>4. Residual(r) => RowsStay /\ ClaimsFall
  BY <1>0, ResidualMoves
<1> QED BY <1>0, <1>2, <1>3, <1>4, Zenon

LEMMA CleanupMoves ==
  ASSUME TypeOK, NEW r \in Recs, RecoverCleanup(r)
  PROVE  /\ RowsStay /\ ClaimsFall
         /\ \E D \in SUBSET {j \in Rots : rot[j].state \in {"failed", "closed"}} :
              files' = files \ D
<1>0. rot \in [Rots -> RotRow] /\ \A j \in Rots : rot[j] \in RotRow
  BY TypedParts, Zenon
<1>1. PICK D \in SUBSET {j \in Rots : rot[j].state \in {"failed", "closed"}} :
        /\ files' = files \ D
        /\ \A j \in D : rot'[j] = Cleaned(rot[j])
        /\ \A j \in Rots \ D : rot'[j] = rot[j]
  BY <1>0, CleanupDoes, Zenon
<1>2. ASSUME NEW k \in Rots
      PROVE  /\ rot'[k].state = rot[k].state /\ rot'[k].old = rot[k].old
             /\ rot'[k].kept = rot[k].kept /\ rot'[k].claim = rot[k].claim
             /\ rot[k].state \notin {"failed", "closed"} => rot'[k].temp = rot[k].temp
  <2>1. CASE k \in D
    <3>1. rot[k].state \in {"failed", "closed"} /\ rot'[k] = Cleaned(rot[k])
      BY <1>1, <2>1, Zenon
    <3>2. /\ Cleaned(rot[k]).state = rot[k].state /\ Cleaned(rot[k]).old = rot[k].old
          /\ Cleaned(rot[k]).kept = rot[k].kept /\ Cleaned(rot[k]).claim = rot[k].claim
      BY <1>0, CleanedFields, Zenon
    <3> QED BY <3>1, <3>2, Zenon
  <2>2. CASE k \notin D
    BY <1>1, <2>2, Zenon
  <2> QED BY <2>1, <2>2
<1> QED BY <1>1, <1>2, Zenon DEF RowsStay, ClaimsFall
-----------------------------------------------------------------------------
(* A claim keeps the job where the recoverer believes it is.               *)

\* What a recoverer that still holds the claim of its job knows of the job.
ClaimInv ==
  \A r \in Recs :
    /\ rec[r].pc = "validate" /\ rot[rec[r].job].claim = r =>
         rot[rec[r].job].state \in {"verified", "activation_requested"}
    /\ rec[r].pc = "activate" /\ rot[rec[r].job].claim = r =>
         rot[rec[r].job].state = "activation_requested"
    /\ rec[r].pc \in {"swap", "revoke", "compensate"} /\ rot[rec[r].job].claim = r =>
         rot[rec[r].job].state = "activated"

\* No recoverer starts on a job.
RecsStay ==
  \A r \in Recs : \/ rec'[r].pc \in Jobless
                  \/ rec'[r].pc = rec[r].pc /\ rec'[r].job = rec[r].job

\* A job is saved by consume_rotation only.
SavedByConsume ==
  \A k \in Rots : Saved(k)' =>
    /\ rot'[k].old = rot[k].old
    /\ Saved(k) \/ \E r \in Recs : ConsumeRotation(r, k)

LEMMA RecsStayWhen ==
  ASSUME RecTyped
  PROVE  /\ rec' = rec => RecsStay
         /\ \A r \in Recs : Leave(r) => RecsStay
         /\ \A r \in Recs : rec' = [rec EXCEPT ![r].pc = "next"] => RecsStay
         /\ \A r \in Recs : rec' = [rec EXCEPT ![r] = IdleRec] => RecsStay
<1>1. rec' = rec => RecsStay
  BY Zenon DEF RecsStay
<1>2. ASSUME NEW r \in Recs, Leave(r) PROVE RecsStay
  BY <1>2, LeaveDoes, Zenon DEF RecsStay, OthersStay, Jobless
<1>3. ASSUME NEW r \in Recs, rec' = [rec EXCEPT ![r].pc = "next"] \/ rec' = [rec EXCEPT ![r] = IdleRec]
      PROVE  RecsStay
  BY <1>3, RecAt, Zenon DEF RecsStay, OthersStay
<1> QED BY <1>1, <1>2, <1>3

\* A program counter at which recover() has a job.
LEMMA AtWork ==
  ASSUME RecTyped, NEW r \in Recs
  PROVE  /\ rec[r].pc \notin Jobless => rec[r].job \in Rots
         /\ "validate" \notin Jobless /\ "activate" \notin Jobless /\ "swap" \notin Jobless
         /\ "revoke" \notin Jobless /\ "compensate" \notin Jobless
         /\ r # NoOwner
  BY JobOf, NamesApart DEF Jobless

LEMMA ClaimFrame ==
  ASSUME RecTyped, ClaimInv, RowsStay, ClaimsFall, RecsStay
  PROVE  ClaimInv' /\ SavedByConsume
<1>1. ASSUME NEW r \in Recs, rec'[r].pc \notin Jobless, rot'[rec'[r].job].claim = r
      PROVE  /\ rec'[r].pc = rec[r].pc /\ rec'[r].job = rec[r].job
             /\ rot[rec[r].job].claim = r /\ rot'[rec[r].job].state = rot[rec[r].job].state
  <2>1. rec'[r].pc = rec[r].pc /\ rec'[r].job = rec[r].job /\ rec[r].job \in Rots /\ r # NoOwner
    BY <1>1, AtWork, Zenon DEF RecsStay
  <2> QED BY <1>1, <2>1, Zenon DEF RowsStay, ClaimsFall
<1>2. ClaimInv'
  <2> SUFFICES ASSUME NEW r \in Recs, rot'[rec'[r].job].claim = r,
                      rec'[r].pc \in {"validate", "activate", "swap", "revoke", "compensate"}
               PROVE  /\ rec'[r].pc = "validate" =>
                           rot'[rec'[r].job].state \in {"verified", "activation_requested"}
                      /\ rec'[r].pc = "activate" => rot'[rec'[r].job].state = "activation_requested"
                      /\ rec'[r].pc \in {"swap", "revoke", "compensate"} =>
                           rot'[rec'[r].job].state = "activated"
    BY DEF ClaimInv
  <2>1. rec'[r].pc \notin Jobless
    BY DEF Jobless
  <2>2. /\ rec'[r].pc = rec[r].pc /\ rec'[r].job = rec[r].job
        /\ rot[rec[r].job].claim = r /\ rot'[rec[r].job].state = rot[rec[r].job].state
    BY <1>1, <2>1, Zenon
  <2>3. /\ rec[r].pc = "validate" =>
             rot[rec[r].job].state \in {"verified", "activation_requested"}
        /\ rec[r].pc = "activate" => rot[rec[r].job].state = "activation_requested"
        /\ rec[r].pc \in {"swap", "revoke", "compensate"} => rot[rec[r].job].state = "activated"
    BY <2>2, Zenon DEF ClaimInv
  <2> QED BY <2>2, <2>3
<1>3. SavedByConsume
  BY Zenon DEF SavedByConsume, RowsStay, Saved
<1> QED BY <1>2, <1>3

\* A job that moves does so under its claim, or gives the claim up, or has
\* no recoverer at work on it.
LEMMA ClaimMoved ==
  ASSUME RecTyped, ClaimInv, NEW j \in Rots, NEW s, NEW c, RowMoves(j, s, c), RecsStay,
         \/ c = NoOwner
         \/ c = rot[j].claim /\ rot[j].state \in {"none", "open"}
         \/ c = rot[j].claim /\ rot[j].state = "verified" /\ s = "activation_requested"
  PROVE  ClaimInv'
<1> SUFFICES ASSUME NEW r \in Recs, rot'[rec'[r].job].claim = r,
                    rec'[r].pc \in {"validate", "activate", "swap", "revoke", "compensate"}
             PROVE  /\ rec'[r].pc = "validate" =>
                         rot'[rec'[r].job].state \in {"verified", "activation_requested"}
                    /\ rec'[r].pc = "activate" => rot'[rec'[r].job].state = "activation_requested"
                    /\ rec'[r].pc \in {"swap", "revoke", "compensate"} =>
                         rot'[rec'[r].job].state = "activated"
  BY DEF ClaimInv
<1>1. rec'[r].pc \notin Jobless
  BY DEF Jobless
<1>2. rec'[r].pc = rec[r].pc /\ rec'[r].job = rec[r].job /\ rec[r].job \in Rots /\ r # NoOwner
  BY <1>1, AtWork, Zenon DEF RecsStay
<1>3. CASE rec[r].job # j
  <2>1. rot'[rec[r].job] = rot[rec[r].job]
    BY <1>2, <1>3, Zenon DEF RowMoves
  <2> QED BY <1>2, <2>1, Zenon DEF ClaimInv
<1>4. CASE rec[r].job = j
  <2>1. rot'[j].claim = c /\ rot'[j].state = s /\ c = r
    BY <1>2, <1>4, Zenon DEF RowMoves
  <2>2. c = rot[j].claim
    BY <1>2, <2>1, Zenon
  <2>3. /\ rec[r].pc = "validate" => rot[j].state \in {"verified", "activation_requested"}
        /\ rec[r].pc = "activate" => rot[j].state = "activation_requested"
        /\ rec[r].pc \in {"swap", "revoke", "compensate"} => rot[j].state = "activated"
    BY <1>4, <2>1, <2>2, Zenon DEF ClaimInv
  <2> QED BY <1>2, <1>4, <2>1, <2>3
<1> QED BY <1>3, <1>4

\* The recoverer that claims a job, or has it activated, knows where it is.
LEMMA ClaimEntered ==
  ASSUME RecTyped, ClaimInv, NEW j \in Rots, NEW r \in Recs, NEW pc, NEW reply \in Replies,
         Enter(r, j, pc, reply),
         \A k \in Rots : k # j => rot'[k].claim = rot[k].claim /\ rot'[k].state = rot[k].state,
         rot'[j].claim = r,
         \/ pc = "validate" /\ rot'[j].state = "verified"
         \/ pc = "activate" /\ rot'[j].state = "activation_requested"
         \/ pc \in {"swap", "revoke", "compensate"} /\ rot'[j].state = "activated"
  PROVE  ClaimInv'
<1>0. pc \in {"validate", "activate", "swap", "revoke", "compensate"}
  OBVIOUS
<1>1. /\ rec'[r].pc = pc /\ rec'[r].job = j
      /\ \A s \in Recs : s # r => rec'[s] = rec[s]
  <2>1. rec'[r].pc = pc /\ rec'[r].job = j /\ OthersStay(r)
    BY <1>0, EnterDoes
  <2> QED BY <2>1, Zenon DEF OthersStay
<1> SUFFICES ASSUME NEW s \in Recs, rot'[rec'[s].job].claim = s,
                    rec'[s].pc \in {"validate", "activate", "swap", "revoke", "compensate"}
             PROVE  /\ rec'[s].pc = "validate" =>
                         rot'[rec'[s].job].state \in {"verified", "activation_requested"}
                    /\ rec'[s].pc = "activate" => rot'[rec'[s].job].state = "activation_requested"
                    /\ rec'[s].pc \in {"swap", "revoke", "compensate"} =>
                         rot'[rec'[s].job].state = "activated"
  BY DEF ClaimInv
<1>2. CASE s = r
  BY <1>1, <1>2
<1>3. CASE s # r
  <2>1. rec[s].pc \notin Jobless /\ rec'[s] = rec[s]
    BY <1>1, <1>3 DEF Jobless
  <2>2. rec[s].job \in Rots /\ rec[s].job # j
    BY <1>3, <2>1, AtWork, Zenon
  <2> QED BY <2>1, <2>2, Zenon DEF ClaimInv
<1> QED BY <1>2, <1>3

LEMMA SavedMoved ==
  ASSUME NEW j \in Rots, NEW s, NEW c, RowMoves(j, s, c),
         s \notin {"activation_requested", "activated"} \/ Saved(j)
  PROVE  SavedByConsume
<1>1. ASSUME NEW k \in Rots, Saved(k)' PROVE rot'[k].old = rot[k].old /\ Saved(k)
  <2>1. CASE k = j
    BY <1>1, <2>1, Zenon DEF RowMoves, Saved
  <2>2. CASE k # j
    BY <1>1, <2>2, Zenon DEF RowMoves, Saved
  <2> QED BY <2>1, <2>2
<1> QED BY <1>1, Zenon DEF SavedByConsume
LEMMA ClaimInit == Init => ClaimInv
<1> SUFFICES ASSUME Init PROVE ClaimInv
  OBVIOUS
<1>1. \A r \in Recs : rec[r].pc = "idle"
  BY DEF Init, IdleRec
<1> QED BY <1>1 DEF ClaimInv

\* Where nothing of a rotation changes but its recoverers stop.
LEMMA ClaimQuiet ==
  ASSUME TypeOK, ClaimInv, rot' = rot, RecsStay
  PROVE  ClaimInv' /\ SavedByConsume
  BY TypedParts, RowsSame, ClaimFrame, Zenon

LEMMA DieStays ==
  ASSUME TypeOK, Die
  PROVE  RecsStay
  BY DieTyped, Zenon DEF RecsStay

LEMMA ClaimRotStep ==
  ASSUME TypeOK, ClaimInv, NEW j \in Rots, RotStep(j)
  PROVE  ClaimInv' /\ SavedByConsume
<1>0. RecTyped /\ RecsStay
  <2>1. rec' = rec
    BY Zenon DEF RotStep, StartRotation, Publish, Close, PendingLapses, LeaseLapses
  <2> QED BY <2>1, TypedParts, RecsStayWhen, Zenon
<1>1. CASE StartRotation(j)
  <2>1. /\ \A k \in Rots : k # j => rot'[k] = rot[k]
        /\ rot'[j].state = "open" /\ rot'[j].claim = rot[j].claim /\ rot[j].state = "none"
    BY <1>1, StartMoves, Zenon DEF StartRotation
  <2>2. SavedByConsume
    <3>1. ASSUME NEW k \in Rots, Saved(k)' PROVE rot'[k].old = rot[k].old /\ Saved(k)
      <4>1. k # j
        BY <2>1, <3>1 DEF Saved
      <4> QED BY <2>1, <3>1, <4>1, Zenon DEF Saved
    <3> QED BY <3>1, Zenon DEF SavedByConsume
  <2>3. ClaimInv'
    <3> SUFFICES ASSUME NEW r \in Recs, rot'[rec'[r].job].claim = r,
                        rec'[r].pc \in {"validate", "activate", "swap", "revoke", "compensate"}
                 PROVE  /\ rec'[r].pc = "validate" =>
                             rot'[rec'[r].job].state \in {"verified", "activation_requested"}
                        /\ rec'[r].pc = "activate" => rot'[rec'[r].job].state = "activation_requested"
                        /\ rec'[r].pc \in {"swap", "revoke", "compensate"} =>
                             rot'[rec'[r].job].state = "activated"
      BY DEF ClaimInv
    <3>1. rec' = rec
      BY <1>1, Zenon DEF StartRotation
    <3>2. rec[r].pc \notin Jobless
      BY <3>1 DEF Jobless
    <3>3. rec[r].job \in Rots
      BY <1>0, <3>2, AtWork, Zenon
    <3>4. rot[rec[r].job].claim = r
      BY <2>1, <3>1, <3>3, Zenon
    <3>5. rec[r].job # j
      BY <2>1, <3>1, <3>4 DEF ClaimInv
    <3> QED BY <2>1, <3>1, <3>3, <3>4, <3>5, Zenon DEF ClaimInv
  <2> QED BY <2>2, <2>3
<1>2. CASE Publish(j)
  <2>1. RowMoves(j, "verified", rot[j].claim) /\ rot[j].state = "open"
    BY <1>2, PublishMoves, Zenon DEF Publish
  <2>2. "verified" \notin {"activation_requested", "activated"} /\ rot[j].state \in {"none", "open"}
    BY <2>1
  <2> QED BY <1>0, <2>1, <2>2, ClaimMoved, SavedMoved, Zenon
<1>3. CASE Close(j)
  <2>1. RowMoves(j, "closed", NoOwner) /\ "closed" \notin {"activation_requested", "activated"}
    BY <1>3, CloseMoves
  <2> QED BY <1>0, <2>1, ClaimMoved, SavedMoved, Zenon
<1>4. CASE PendingLapses(j)
  BY <1>0, <1>4, ClaimQuiet, Zenon DEF PendingLapses
<1>5. CASE LeaseLapses(j)
  BY <1>0, <1>5, LapseMoves, ClaimFrame, Zenon
<1> QED BY <1>1, <1>2, <1>3, <1>4, <1>5 DEF RotStep

LEMMA ClaimRecStep ==
  ASSUME TypeOK, ClaimInv, NEW r \in Recs, RecStep(r)
  PROVE  ClaimInv' /\ SavedByConsume
<1>0. RecTyped /\ "none" \in Replies /\ "ok" \in Replies
  BY TypedParts, Zenon DEF Replies
<1>a. /\ "failed" \notin {"activation_requested", "activated"}
      /\ "consumed" \notin {"activation_requested", "activated"}
  OBVIOUS
<1>1. ASSUME NEW j \in Rots, ConsumeRotation(r, j) PROVE ClaimInv' /\ SavedByConsume
  <2>1. /\ RowMoves(j, "activation_requested", rot[j].claim) /\ rot[j].state = "verified"
        /\ RecsStay
    BY <1>0, <1>1, ConsumeMoves, RecsStayWhen, Zenon DEF ConsumeRotation
  <2>2. ClaimInv'
    BY <1>0, <2>1, ClaimMoved
  <2>3. SavedByConsume
    <3>1. ASSUME NEW k \in Rots, Saved(k)', k # j PROVE rot'[k].old = rot[k].old /\ Saved(k)
      BY <2>1, <3>1, Zenon DEF RowMoves, Saved
    <3>2. rot'[j].old = rot[j].old
      BY <2>1, Zenon DEF RowMoves
    <3> QED BY <1>1, <3>1, <3>2, Zenon DEF SavedByConsume
  <2> QED BY <2>2, <2>3
<1>2. ASSUME NEW j \in Rots, Claim(r, j) PROVE ClaimInv' /\ SavedByConsume
  <2>1. CASE RowsStay /\ ClaimsFall /\ Leave(r)
    BY <1>0, <2>1, RecsStayWhen, ClaimFrame, Zenon
  <2>2. CASE RowMoves(j, "failed", NoOwner) /\ Leave(r)
    BY <1>0, <1>a, <2>2, RecsStayWhen, ClaimMoved, SavedMoved, Zenon
  <2>3. ASSUME NEW pc, Enter(r, j, pc, "none"),
               \A k \in Rots : k # j => rot'[k].claim = rot[k].claim,
               RowsStay, rot'[j].claim = r,
               \/ pc = "validate" /\ rot[j].state = "verified"
               \/ pc = "activate" /\ rot[j].state = "activation_requested"
               \/ pc = "swap" /\ rot[j].state = "activated"
        PROVE  ClaimInv' /\ SavedByConsume
    <3>1. \A k \in Rots : rot'[k].state = rot[k].state
      BY <2>3, Zenon DEF RowsStay
    <3>2. SavedByConsume
      BY <2>3, Zenon DEF SavedByConsume, RowsStay, Saved
    <3>3. ClaimInv'
      BY <1>0, <2>3, <3>1, ClaimEntered
    <3> QED BY <3>2, <3>3
  <2> QED BY <1>2, <2>1, <2>2, <2>3, ClaimMoves, Zenon
<1>3. CASE NothingToClaim(r) \/ Abandon(r) \/ RestartRecovers(r)
  BY <1>0, <1>3, RecsStayWhen, ClaimQuiet, Zenon DEF NothingToClaim, Abandon, RestartRecovers
<1>4. CASE EndValidation(r)
  <2>1. RecsStay
    BY <1>0, <1>4, RecsStayWhen, Zenon DEF EndValidation
  <2> QED BY <1>0, <1>a, <1>4, <2>1, ValidationMoves, ClaimFrame, ClaimMoved, SavedMoved, Zenon
<1>5. CASE EndActivation(r)
  <2>0. rec[r].job \in Rots /\ rot[rec[r].job].claim = r /\ rec[r].pc = "activate"
    BY <1>5, ActivationMoves, Zenon DEF EndActivation
  <2>1. rot[rec[r].job].state = "activation_requested"
    BY <2>0, Zenon DEF ClaimInv
  <2>2. CASE RowMoves(rec[r].job, "activated", r) /\ Enter(r, rec[r].job, "swap", "none")
    <3>1. Saved(rec[r].job)
      BY <2>1, Zenon DEF Saved
    <3>2. SavedByConsume
      BY <2>0, <2>2, <3>1, SavedMoved, Zenon
    <3>3. /\ \A k \in Rots : k # rec[r].job => rot'[k] = rot[k]
          /\ rot'[rec[r].job].claim = r /\ rot'[rec[r].job].state = "activated"
      BY <2>2, Zenon DEF RowMoves
    <3>4. ClaimInv'
      BY <1>0, <2>0, <2>2, <3>3, ClaimEntered
    <3> QED BY <3>2, <3>4
  <2>3. CASE RowsStay /\ ClaimsFall /\ Leave(r)
    BY <1>0, <2>3, RecsStayWhen, ClaimFrame, Zenon
  <2> QED BY <1>5, <2>2, <2>3, ActivationMoves, Zenon
<1>6. CASE SwapRegistry(r)
  <2>0. rec[r].job \in Rots
    BY <1>6, SwapDoes, Zenon
  <2>1. CASE Leave(r) /\ (Residual(r) \/ rot' = rot)
    BY <1>0, <2>0, <2>1, RecsStayWhen, ResidualMoves, RowsSame, ClaimFrame, Zenon
  <2>2. ASSUME NEW pc \in {"revoke", "compensate"}, NEW reply \in Replies, rot' = rot, Fenced(r),
               Enter(r, rec[r].job, pc, reply)
        PROVE  ClaimInv' /\ SavedByConsume
    <3>1. rot[rec[r].job].claim = r /\ rec[r].pc = "swap"
      BY <1>0, <1>6, <2>2, FencedJob, Zenon DEF SwapRegistry
    <3>2. rot[rec[r].job].state = "activated"
      BY <3>1 DEF ClaimInv
    <3>3. ClaimInv'
      BY <1>0, <2>0, <2>2, <3>1, <3>2, ClaimEntered
    <3>4. SavedByConsume
      BY <2>2, Zenon DEF SavedByConsume, Saved
    <3> QED BY <3>3, <3>4
  <2> QED BY <1>0, <1>6, <2>1, <2>2, SwapDoes, Zenon
<1>7. CASE RetireOld(r)
  <2>1. RecsStay
    BY <1>0, <1>7, RecsStayWhen, Zenon DEF RetireOld
  <2> QED BY <1>0, <1>a, <1>7, <2>1, RetireMoves, ClaimFrame, ClaimMoved, SavedMoved, Zenon
<1>8. CASE EndCompensation(r)
  <2>1. RecsStay
    BY <1>0, <1>8, RecsStayWhen, Zenon DEF EndCompensation
  <2> QED BY <1>0, <1>a, <1>8, <2>1, CompensationMoves, ClaimFrame, ClaimMoved, SavedMoved, Zenon
<1>9. CASE RecoverCleanup(r)
  <2>1. RecsStay
    BY <1>0, <1>9, RecsStayWhen, Zenon DEF RecoverCleanup
  <2> QED BY <1>0, <1>9, <2>1, CleanupMoves, ClaimFrame, Zenon
<1>10. CASE CrashInRetire(r)
  BY <1>10, DieStays, ClaimQuiet, Zenon DEF CrashInRetire
<1> QED BY <1>1, <1>2, <1>3, <1>4, <1>5, <1>6, <1>7, <1>8, <1>9, <1>10 DEF RecStep

LEMMA ClaimNext ==
  ASSUME TypeOK, ClaimInv, [Next]_vars
  PROVE  ClaimInv' /\ SavedByConsume
<1>0. RecTyped
  BY TypedParts, Zenon
<1>1. ASSUME NEW u \in Upds, UpdStep(u) PROVE ClaimInv' /\ SavedByConsume
  <2>1. rot' = rot /\ (rec' = rec \/ Die)
    BY <1>1, Zenon DEF UpdStep, BeginUpdate, EndUpdate, UpdateFails, CrashInUpdate
  <2> QED BY <1>0, <2>1, RecsStayWhen, DieStays, ClaimQuiet, Zenon
<1>2. CASE RmStep
  <2>1. rot' = rot /\ (rec' = rec \/ Die)
    BY <1>2, Zenon DEF RmStep, RemoveAgent, BeginRevoke, EndRevoke, SkipRevoke, DeleteRegistryRow,
      DeleteRefused, DeleteToken, Complete, CrashInDelete, CrashInToken
  <2> QED BY <1>0, <2>1, RecsStayWhen, DieStays, ClaimQuiet, Zenon
<1>3. ASSUME NEW m \in wire, AgentHandles(m) PROVE ClaimInv' /\ SavedByConsume
  <2>1. rot' = rot
    BY <1>3, Zenon DEF AgentHandles
  <2>2. RecsStay
    <3>1. CASE rec' = rec
      BY <1>0, <3>1, RecsStayWhen, Zenon
    <3>2. ASSUME NEW reply \in Replies, m.by \in Recs, rec' = [rec EXCEPT ![m.by].reply = reply]
          PROVE  RecsStay
      BY <1>0, <3>2, RecReply, Zenon DEF RecsStay, OthersStay
    <3>3. (IF Authorised(m) THEN "ok" ELSE "rejected") \in Replies
      BY DEF Replies
    <3> QED BY <1>3, <3>1, <3>2, <3>3, HandlesDoes, Zenon
  <2> QED BY <2>1, <2>2, ClaimQuiet, Zenon
<1>4. ASSUME NEW m \in wire, Lose(m) PROVE ClaimInv' /\ SavedByConsume
  BY <1>0, <1>4, RecsStayWhen, ClaimQuiet, Zenon DEF Lose
<1>5. CASE Pin \/ Restart \/ SweepOrphans \/ UNCHANGED vars
  BY <1>0, <1>5, RecsStayWhen, ClaimQuiet, Zenon DEF Pin, Restart, SweepOrphans, vars
<1>6. CASE Crash
  BY <1>6, DieStays, ClaimQuiet, Zenon DEF Crash
<1> QED BY <1>1, <1>2, <1>3, <1>4, <1>5, <1>6, ClaimRotStep, ClaimRecStep DEF Next
-----------------------------------------------------------------------------
(* One saga owns the Agent.                                                *)

\* The removal's coroutine runs only for an unfinished removal; the row is
\* there until the removal deletes it; an update read a row that was there.
RmInv ==
  /\ rm.pc # "idle" => Unfinished
  /\ rm.pc = "revoke" => removal.phase = "revoking"
  /\ removal.phase = "none" => agent.present
  /\ removal.phase \in {"registry_deleted", "credential_deleted", "completed"} => ~agent.present
  /\ \A u \in Upds : upd[u].old.present

OneSaved == \A j, k \in Rots : Saved(j) /\ Saved(k) => j = k

LEMMA RmInit == Init => RmInv
<1> SUFFICES ASSUME Init PROVE RmInv
  OBVIOUS
<1>1. agent.present
  <2>1. PICK legacy \in BOOLEAN :
          agent = [present |-> TRUE, rev |-> 1, ref |-> First,
                   pinned |-> ~legacy, legacy |-> legacy, cfg |-> 0]
    BY Zenon DEF Init
  <2> QED BY <2>1, Zenon
<1>2. rm.pc = "idle"
  BY RmRows, Zenon DEF Init
<1>3. removal.phase = "none"
  BY Zenon DEF Init
<1>4. \A u \in Upds : upd[u] = [pc |-> "none", old |-> agent]
  BY Zenon DEF Init
<1>5. \A u \in Upds : upd[u].old = agent
  BY <1>4
<1>6. \A u \in Upds : upd[u].old.present
  BY <1>1, <1>5, Zenon
<1> QED BY <1>1, <1>2, <1>3, <1>6 DEF RmInv

\* Updates read a row that is present.
LEMMA UpdPresent ==
  ASSUME TypeOK, RmInv, [Next]_vars
  PROVE  \A u \in Upds : upd'[u].old.present
<1>0. upd \in [Upds -> UpdRow]
  BY TypedParts, Zenon
<1>1. ASSUME upd' = upd PROVE \A u \in Upds : upd'[u].old.present
  BY <1>1, Zenon DEF RmInv
<1>2. ASSUME Die PROVE \A u \in Upds : upd'[u].old.present
  BY <1>2, DieTyped, Zenon DEF RmInv
<1>3. ASSUME NEW u \in Upds, UpdStep(u) PROVE \A v \in Upds : upd'[v].old.present
  <2>1. CASE BeginUpdate(u)
    <3>1. \A v \in Upds : upd'[v] = IF v = u THEN [pc |-> "validating", old |-> agent] ELSE upd[v]
      BY <1>0, <2>1, Zenon DEF BeginUpdate
    <3>2. \A v \in Upds : upd'[v].old = agent \/ upd'[v] = upd[v]
      BY <3>1
    <3> QED BY <2>1, <3>2, Zenon DEF BeginUpdate, RmInv
  <2>2. CASE upd' = [upd EXCEPT ![u].pc = "done"]
    BY <1>0, <2>2, UpdAt, Zenon DEF RmInv
  <2> QED BY <1>2, <1>3, <2>1, <2>2, Zenon DEF UpdStep, EndUpdate, UpdateFails, CrashInUpdate
<1>4. ASSUME NEW j \in Rots, RotStep(j) PROVE upd' = upd
  BY <1>4, Zenon DEF RotStep, StartRotation, Publish, Close, PendingLapses, LeaseLapses
<1>5. ASSUME NEW r \in Recs, RecStep(r) PROVE upd' = upd \/ Die
  <2>1. ASSUME NEW j \in Rots, ConsumeRotation(r, j) \/ Claim(r, j) PROVE upd' = upd
    BY <2>1, Zenon DEF ConsumeRotation, Claim
  <2>2. CASE NothingToClaim(r) \/ Abandon(r) \/ EndValidation(r) \/ EndActivation(r)
    BY <2>2, Zenon DEF NothingToClaim, Abandon, EndValidation, EndActivation
  <2>3. CASE RetireOld(r) \/ EndCompensation(r) \/ RecoverCleanup(r) \/ SwapRegistry(r)
    BY <2>3, Zenon DEF RetireOld, EndCompensation, RecoverCleanup, SwapRegistry
  <2>4. CASE CrashInRetire(r) \/ RestartRecovers(r)
    BY <2>4, Zenon DEF CrashInRetire, RestartRecovers
  <2> QED BY <1>5, <2>1, <2>2, <2>3, <2>4, Zenon DEF RecStep
<1>6. CASE RmStep
  <2>1. upd' = upd \/ Die
    BY <1>6, Zenon DEF RmStep, RemoveAgent, BeginRevoke, EndRevoke, SkipRevoke, DeleteRegistryRow,
      DeleteRefused, DeleteToken, Complete, CrashInDelete, CrashInToken
  <2> QED BY <1>1, <1>2, <2>1, Zenon
<1>7. ASSUME NEW m \in wire, AgentHandles(m) \/ Lose(m) PROVE upd' = upd
  BY <1>7, Zenon DEF AgentHandles, Lose
<1>8. CASE Pin \/ Restart \/ SweepOrphans \/ Crash \/ UNCHANGED vars
  BY <1>1, <1>2, <1>8, Zenon DEF Pin, Restart, SweepOrphans, Crash, vars
<1> QED BY <1>1, <1>2, <1>3, <1>4, <1>5, <1>6, <1>7, <1>8, Zenon DEF Next

\* Only a removal makes the row go.
LEMMA PresentStays ==
  ASSUME TypeOK, RmInv, [Next]_vars
  PROVE  (agent.present <=> agent'.present) \/ DeleteRegistryRow \/ CrashInDelete
<1>0. agent \in AgentRow /\ \A j \in Rots : rot[j] \in RotRow
  BY TypedParts, Zenon
<1>1. CASE UNCHANGED <<agent, updates>>
  BY <1>1, Zenon
<1>2. ASSUME NEW r \in Recs, SwapRegistry(r) PROVE agent.present <=> agent'.present
  <2>1. rec[r].job \in Rots /\ (agent' = agent \/ agent' = SwappedAgent(rec[r].job))
    BY <1>2, SwapDoes, Zenon
  <2> QED BY <1>0, <2>1, SwappedTyped, Zenon
<1>3. ASSUME NEW u \in Upds, EndUpdate(u) PROVE agent.present <=> agent'.present
  <2>0. upd[u].old \in AgentRow /\ u \in Creds
    BY <1>3, EndUpdateDoes, NamesApart, Zenon
  <2>1. upd[u].old.ref \in Creds
    BY <2>0, AgentFields, Zenon
  <2>2. /\ UpdatedAgent(upd[u].old, upd[u].old.ref).present = upd[u].old.present
        /\ UpdatedAgent(upd[u].old, u).present = upd[u].old.present
    BY <2>0, <2>1, UpdatedFields, Zenon
  <2>3. upd[u].old.present
    BY Zenon DEF RmInv
  <2>4. \/ agent' = agent
        \/ agent.present /\ agent' = UpdatedAgent(upd[u].old, upd[u].old.ref)
        \/ agent.present /\ agent' = UpdatedAgent(upd[u].old, u)
    BY <1>3, EndUpdateDoes, Zenon DEF UpdateAccepted
  <2> QED BY <2>2, <2>3, <2>4, Zenon
<1>4. CASE Pin
  BY <1>0, <1>4, PinDoes, Zenon
<1> QED BY <1>1, <1>2, <1>3, <1>4, AgentQuiet, Zenon DEF AgentWrites

\* The removal's own variables move in its steps, with the process and when
\* the Agent answers.
LEMMA RmQuiet ==
  ASSUME TypeOK, [Next]_vars
  PROVE  \/ RmStep \/ Restart
         \/ removal' = removal /\ (rm'.pc = rm.pc \/ rm'.pc = "idle")
<1>0. rm \in RmRow
  BY TypedParts, Zenon
<1>1. ASSUME NEW j \in Rots, RotStep(j) PROVE removal' = removal /\ rm' = rm
  BY <1>1, Zenon DEF RotStep, StartRotation, Publish, Close, PendingLapses, LeaseLapses
<1>2. ASSUME NEW r \in Recs, RecStep(r) PROVE removal' = removal /\ (rm' = rm \/ Die)
  <2>1. ASSUME NEW j \in Rots, ConsumeRotation(r, j) \/ Claim(r, j)
        PROVE  removal' = removal /\ rm' = rm
    BY <2>1, Zenon DEF ConsumeRotation, Claim
  <2>2. CASE NothingToClaim(r) \/ Abandon(r) \/ EndValidation(r) \/ EndActivation(r)
    BY <2>2, Zenon DEF NothingToClaim, Abandon, EndValidation, EndActivation
  <2>3. CASE RetireOld(r) \/ EndCompensation(r) \/ RecoverCleanup(r) \/ SwapRegistry(r)
    BY <2>3, Zenon DEF RetireOld, EndCompensation, RecoverCleanup, SwapRegistry
  <2>4. CASE CrashInRetire(r) \/ RestartRecovers(r)
    BY <2>4, Zenon DEF CrashInRetire, RestartRecovers
  <2> QED BY <1>2, <2>1, <2>2, <2>3, <2>4, Zenon DEF RecStep
<1>3. ASSUME NEW u \in Upds, UpdStep(u) PROVE removal' = removal /\ (rm' = rm \/ Die)
  BY <1>3, Zenon DEF UpdStep, BeginUpdate, EndUpdate, UpdateFails, CrashInUpdate
<1>4. ASSUME NEW m \in wire, AgentHandles(m) \/ Lose(m)
      PROVE  removal' = removal /\ rm'.pc = rm.pc
  <2>1. removal' = removal
    BY <1>4, Zenon DEF AgentHandles, Lose
  <2>2. CASE Lose(m)
    BY <2>1, <2>2, Zenon DEF Lose
  <2>3. CASE AgentHandles(m)
    <3>1. rm' = rm \/ rm' = [rm EXCEPT !.reply = IF Authorised(m) THEN "ok" ELSE "rejected"]
      BY <2>3, HandlesDoes, Zenon
    <3>2. (IF Authorised(m) THEN "ok" ELSE "rejected") \in Replies
      BY DEF Replies
    <3> QED BY <1>0, <2>1, <3>1, <3>2, RmReply, Zenon
  <2> QED BY <1>4, <2>2, <2>3
<1>5. CASE Pin \/ SweepOrphans \/ Crash \/ UNCHANGED vars
  <2>1. removal' = removal /\ (rm' = rm \/ Die)
    BY <1>5, Zenon DEF Pin, SweepOrphans, Crash, vars
  <2> QED BY <2>1, DieTyped, Zenon
<1> QED BY <1>1, <1>2, <1>3, <1>4, <1>5, DieTyped, Zenon DEF Next

\* What a step of the removal does to its row, its coroutine and the agent.
LEMMA RmMoves ==
  ASSUME TypeOK, RmInv, RmStep
  PROVE  \/ /\ removal.phase = "none" /\ agent.present /\ MutationAllowed(NoOwner)
            /\ removal'.phase = "pending" /\ removal'.old = agent /\ agent' = agent
            /\ rm'.pc = "run"
         \/ /\ Unfinished /\ removal'.old = removal.old /\ removal'.local = removal.local
            /\ removal'.phase \in {"revoking", "revoked", "residual"} /\ agent' = agent
            /\ rm'.pc \in {"idle", "run"} \/ (rm'.pc = "revoke" /\ removal'.phase = "revoking")
            /\ rm'.pc # "idle" => removal'.phase # "residual"
         \/ /\ removal.phase = "revoked" /\ removal' = removal
            /\ agent' = [agent EXCEPT !.present = FALSE] /\ rm'.pc = "idle"
         \/ /\ removal.phase = "revoked" /\ removal'.phase = "registry_deleted"
            /\ removal'.old = removal.old /\ removal'.local = removal.local
            /\ agent' = [agent EXCEPT !.present = FALSE] /\ rm'.pc = "run"
         \/ /\ removal.phase = "registry_deleted" /\ removal'.phase = "credential_deleted"
            /\ removal'.old = removal.old /\ removal'.local = removal.local
            /\ agent' = agent /\ rm'.pc = "run"
         \/ /\ removal.phase = "credential_deleted" /\ removal'.phase = "completed"
            /\ removal'.old = removal.old /\ removal'.local = removal.local
            /\ agent' = agent /\ rm'.pc = "idle"
         \/ removal' = removal /\ agent' = agent /\ rm'.pc = "idle"
<1>0. removal \in RemovalRow /\ rm \in RmRow
  BY TypedParts, Zenon
<1>a. \A p \in {"revoking", "revoked", "residual", "registry_deleted", "credential_deleted",
                "completed"} :
        SetPhase(p) => /\ removal'.phase = p /\ removal'.old = removal.old
                       /\ removal'.local = removal.local
  <2>1. \A p \in {"revoking", "revoked", "residual", "registry_deleted", "credential_deleted",
                  "completed"} : p \in RemovalPhases
    BY DEF RemovalPhases
  <2> QED BY <1>0, <2>1, PhaseSet, Zenon
<1>b. ASSUME NEW x \in RmRow, rm' = x PROVE rm'.pc = x.pc
  BY <1>b
<1>1. ASSUME NEW local \in BOOLEAN, RemoveAgent(local)
      PROVE  /\ removal.phase = "none" /\ agent.present /\ MutationAllowed(NoOwner)
             /\ removal'.phase = "pending" /\ removal'.old = agent /\ agent' = agent
             /\ rm'.pc = "run"
  BY <1>1 DEF RemoveAgent
<1>2. CASE BeginRevoke
  <2>1. removal.phase \in {"pending", "revoking", "residual"} /\ agent' = agent
    BY <1>2, Zenon DEF BeginRevoke
  <2>2. Unfinished
    BY <2>1 DEF Unfinished
  <2>3. \/ SetPhase("revoking") /\ rm' = [pc |-> "revoke", reply |-> "none"]
        \/ SetPhase("residual") /\ rm' = IdleRm
    BY <1>2, Zenon DEF BeginRevoke
  <2>4. \/ SetPhase("revoking") /\ rm'.pc = "revoke"
        \/ SetPhase("residual") /\ rm'.pc = "idle"
    BY <2>3, RmRows
  <2> QED BY <1>a, <2>1, <2>2, <2>4
<1>3. CASE EndRevoke
  <2>1. Unfinished /\ agent' = agent
    BY <1>3 DEF EndRevoke, RmInv
  <2>2. \/ SetPhase("revoked") /\ rm' = [pc |-> "run", reply |-> "none"]
        \/ SetPhase("residual") /\ rm' = IdleRm
    BY <1>3, Zenon DEF EndRevoke
  <2>3. \/ SetPhase("revoked") /\ rm'.pc = "run"
        \/ SetPhase("residual") /\ rm'.pc = "idle"
    BY <2>2, RmRows
  <2> QED BY <1>a, <2>1, <2>3
<1>4. CASE SkipRevoke
  <2>1. /\ removal.phase \in {"pending", "revoking", "residual"} /\ agent' = agent
        /\ SetPhase("revoked") /\ rm'.pc = "run"
    BY <1>4, Zenon DEF SkipRevoke, RmRuns
  <2>2. Unfinished
    BY <2>1 DEF Unfinished
  <2> QED BY <1>a, <2>1, <2>2
<1>5. CASE DeleteRegistryRow
  <2>1. /\ removal.phase = "revoked" /\ rm.pc = "run"
        /\ \/ agent' = agent /\ SetPhase("residual") /\ rm' = IdleRm
           \/ agent' = [agent EXCEPT !.present = FALSE] /\ SetPhase("registry_deleted") /\ rm' = rm
    BY <1>5, Zenon DEF DeleteRegistryRow, RmRuns
  <2>2. \/ agent' = agent /\ SetPhase("residual") /\ rm'.pc = "idle"
        \/ agent' = [agent EXCEPT !.present = FALSE] /\ SetPhase("registry_deleted") /\ rm'.pc = "run"
    BY <2>1, RmRows, Zenon
  <2>3. Unfinished
    BY <2>1 DEF Unfinished
  <2> QED BY <1>a, <2>1, <2>2, <2>3
<1>6. CASE DeleteRefused
  BY <1>6, RmRows, Zenon DEF DeleteRefused
<1>7. CASE DeleteToken
  <2>1. /\ removal.phase = "registry_deleted" /\ rm.pc = "run" /\ agent' = agent
        /\ \/ SetPhase("credential_deleted") /\ rm' = rm
           \/ SetPhase("residual") /\ rm' = IdleRm
    BY <1>7, Zenon DEF DeleteToken, RmRuns
  <2>2. \/ SetPhase("credential_deleted") /\ rm'.pc = "run"
        \/ SetPhase("residual") /\ rm'.pc = "idle"
    BY <2>1, RmRows, Zenon
  <2>3. Unfinished
    BY <2>1 DEF Unfinished
  <2> QED BY <1>a, <2>1, <2>2, <2>3
<1>8. CASE Complete
  <2>1. /\ removal.phase = "credential_deleted" /\ agent' = agent
        /\ SetPhase("completed") /\ rm'.pc = "idle"
    BY <1>8, RmRows, Zenon DEF Complete
  <2> QED BY <1>a, <2>1
<1>9. CASE CrashInDelete
  BY <1>9, DieTyped, Zenon DEF CrashInDelete
<1>10. CASE CrashInToken
  BY <1>10, DieTyped, Zenon DEF CrashInToken
<1> QED BY <1>1, <1>2, <1>3, <1>4, <1>5, <1>6, <1>7, <1>8, <1>9, <1>10, Zenon DEF RmStep

LEMMA RmNext ==
  ASSUME TypeOK, RmInv, [Next]_vars
  PROVE  RmInv'
<1>0. agent \in AgentRow /\ removal \in RemovalRow /\ rm \in RmRow
      /\ \A u \in Upds : upd'[u].old.present
  BY TypedParts, UpdPresent, Zenon
<1>a. ~[agent EXCEPT !.present = FALSE].present
  BY <1>0, GoneTyped, Zenon
<1>1. CASE RmStep
  <2>1. \/ agent' = agent
        \/ agent' = [agent EXCEPT !.present = FALSE]
    BY <1>1, RmMoves, Zenon
  <2>2. agent' = agent => (agent'.present <=> agent.present)
    BY Zenon
  <2>3. agent' = [agent EXCEPT !.present = FALSE] => ~agent'.present
    BY <1>a, Zenon
  <2>4. \/ /\ removal.phase = "none" /\ agent'.present
           /\ removal'.phase = "pending" /\ rm'.pc = "run"
        \/ /\ Unfinished
           /\ removal'.phase \in {"revoking", "revoked", "residual"}
           /\ rm'.pc \in {"idle", "run"} \/ (rm'.pc = "revoke" /\ removal'.phase = "revoking")
        \/ removal'.phase \in {"revoked", "registry_deleted"} /\ ~agent'.present /\ rm'.pc \in {"idle", "run"}
        \/ /\ removal'.phase = "credential_deleted" /\ ~agent'.present /\ rm'.pc = "run"
        \/ /\ removal'.phase = "completed" /\ ~agent'.present /\ rm'.pc = "idle"
        \/ removal' = removal /\ agent' = agent /\ rm'.pc = "idle"
    BY <1>1, <2>2, <2>3, RmMoves DEF RmInv
  <2>5. \/ removal'.phase = "pending" /\ rm'.pc = "run"
        \/ /\ removal'.phase \in {"revoking", "revoked", "residual"}
           /\ rm'.pc \in {"idle", "run"} \/ (rm'.pc = "revoke" /\ removal'.phase = "revoking")
        \/ removal'.phase \in {"registry_deleted", "credential_deleted"} /\ ~agent'.present /\ rm'.pc = "run"
        \/ /\ removal'.phase \in {"revoked", "registry_deleted"} /\ ~agent'.present
           /\ rm'.pc \in {"idle", "run"}
        \/ removal'.phase = "completed" /\ ~agent'.present /\ rm'.pc = "idle"
        \/ removal' = removal /\ agent' = agent /\ rm'.pc = "idle"
    BY <2>4
  <2>6. CASE removal' = removal /\ agent' = agent /\ rm'.pc = "idle"
    BY <1>0, <2>6 DEF RmInv, Unfinished
  <2>7. CASE ~(removal' = removal /\ agent' = agent /\ rm'.pc = "idle")
    BY <1>0, <2>5, <2>7 DEF RmInv, Unfinished
  <2> QED BY <2>6, <2>7
<1>2. CASE ~RmStep
  <2>1. (agent.present <=> agent'.present)
    <3>1. ~DeleteRegistryRow /\ ~CrashInDelete
      BY <1>2, Zenon DEF RmStep
    <3> QED BY <3>1, PresentStays, Zenon
  <2>2. CASE Restart
    <3>1. removal' = removal /\ (rm'.pc = "run" => Unfinished) /\ rm'.pc \in {"run", "idle"}
      BY <2>2, RmRows DEF Restart
    <3> QED BY <1>0, <2>1, <3>1 DEF RmInv, Unfinished
  <2>3. CASE removal' = removal /\ (rm'.pc = rm.pc \/ rm'.pc = "idle")
    BY <1>0, <2>1, <2>3 DEF RmInv, Unfinished
  <2> QED BY <1>2, <2>2, <2>3, RmQuiet, Zenon
<1> QED BY <1>1, <1>2
\* The fence and what it refuses.
SagaInv == SnapInv /\ ClaimInv /\ RmInv /\ OneSaved /\ OneSaga

\* A write of the registry row that is not the removal's passed the fence.
LEMMA WritesFenced ==
  ASSUME TypeOK, [Next]_vars
  PROVE  \/ agent' = agent
         \/ /\ MutationAllowed(NoOwner) /\ agent.present
            /\ \/ Pin
               \/ \E u \in Upds : EndUpdate(u) /\ UpdateAccepted(upd[u].old)
         \/ \E r \in Recs, j \in Rots : /\ SwapRegistry(r) /\ j = rec[r].job
                                        /\ MaySwap(j) /\ agent' = SwappedAgent(j)
         \/ DeleteRegistryRow \/ CrashInDelete
<1>1. CASE UNCHANGED <<agent, updates>>
  BY <1>1
<1>2. ASSUME NEW r \in Recs, SwapRegistry(r)
      PROVE  \/ agent' = agent
             \/ \E j \in Rots : j = rec[r].job /\ MaySwap(j) /\ agent' = SwappedAgent(j)
  BY <1>2, SwapDoes, Zenon
<1>3. ASSUME NEW u \in Upds, EndUpdate(u)
      PROVE  \/ agent' = agent
             \/ MutationAllowed(NoOwner) /\ agent.present /\ UpdateAccepted(upd[u].old)
  BY <1>3, EndUpdateDoes, Zenon DEF UpdateAccepted
<1>4. CASE Pin
  BY <1>4, Zenon DEF Pin
<1> QED BY <1>1, <1>2, <1>3, <1>4, AgentQuiet, Zenon DEF AgentWrites

\* A removal leaves the rotations alone.
LEMMA RmLeavesRot ==
  ASSUME RmStep
  PROVE  rot' = rot
  BY Zenon DEF RmStep, RemoveAgent, BeginRevoke, EndRevoke, SkipRevoke, DeleteRegistryRow,
    DeleteRefused, DeleteToken, Complete, CrashInDelete, CrashInToken

LEMMA OneSavedNext ==
  ASSUME TypeOK, ClaimInv, OneSaved, [Next]_vars
  PROVE  OneSaved'
<1> SUFFICES ASSUME NEW j \in Rots, NEW k \in Rots, Saved(j)', Saved(k)', j # k PROVE FALSE
  BY Zenon DEF OneSaved
<1>1. ASSUME NEW a \in Rots, NEW b \in Rots, NEW r \in Recs, ConsumeRotation(r, a),
             Saved(b)', a # b
      PROVE  FALSE
  <2>1. rot'[b] = rot[b]
    BY <1>1, ConsumeMoves, Zenon DEF RowMoves
  <2>2. Saved(b)
    BY <1>1, <2>1, Zenon DEF Saved
  <2> QED BY <1>1, <2>2, Zenon DEF ConsumeRotation, MutationAllowed
<1>2. SavedByConsume
  BY ClaimNext, Zenon
<1>3. (Saved(j) \/ \E r \in Recs : ConsumeRotation(r, j))
      /\ (Saved(k) \/ \E r \in Recs : ConsumeRotation(r, k))
  BY <1>2, Zenon DEF SavedByConsume
<1> QED BY <1>1, <1>3, Zenon DEF OneSaved

\* The Agent as its owner captured it.
LEMMA CapturedStays ==
  ASSUME agent' = agent, NEW a, NEW b, b = a, Unchanged(a)
  PROVE  agent'.present /\ agent'.rev = b.rev /\ agent'.ref = b.ref
  BY Zenon DEF Unchanged

LEMMA SagaOfRemoval ==
  ASSUME TypeOK, RmInv, ClaimInv, OneSaga, [Next]_vars, Unfinished'
  PROVE  /\ \A j \in Rots : ~Saved(j)'
         /\ agent'.present => Unchanged(removal.old)'
<1>0. agent \in AgentRow
  BY TypedParts, Zenon
<1>1. CASE RmStep
  <2>0. rot' = rot
    BY <1>1, RmLeavesRot
  <2>1. CASE removal.phase = "none" /\ MutationAllowed(NoOwner) /\ agent.present
             /\ removal'.old = agent /\ agent' = agent
    <3>1. \A j \in Rots : ~Saved(j)
      BY <2>1, NamesApart, Zenon DEF MutationAllowed
    <3>2. \A j \in Rots : ~Saved(j)'
      BY <2>0, <3>1, Zenon DEF Saved
    <3>3. agent'.present /\ agent'.rev = removal'.old.rev /\ agent'.ref = removal'.old.ref
      BY <2>1, Zenon
    <3> QED BY <3>2, <3>3, Zenon DEF Unchanged
  <2>2. CASE Unfinished /\ removal'.old = removal.old
             /\ (agent' = agent \/ agent' = [agent EXCEPT !.present = FALSE])
    <3>1. (\A j \in Rots : ~Saved(j)) /\ (agent.present => Unchanged(removal.old))
      BY <2>2, Zenon DEF OneSaga
    <3>2. \A j \in Rots : ~Saved(j)'
      BY <2>0, <3>1, Zenon DEF Saved
    <3>3. CASE agent' = agent
      BY <2>2, <3>1, <3>2, <3>3, CapturedStays, Zenon DEF Unchanged
    <3>4. CASE agent' = [agent EXCEPT !.present = FALSE]
      BY <1>0, <3>2, <3>4, GoneTyped, Zenon
    <3> QED BY <2>2, <3>3, <3>4
  <2>3. removal' = removal => Unfinished
    BY Zenon DEF Unfinished
  <2>4. removal.phase \in {"revoked", "registry_deleted", "credential_deleted"} => Unfinished
    BY DEF Unfinished
  <2>5. \/ /\ removal.phase = "none" /\ MutationAllowed(NoOwner) /\ agent.present
           /\ removal'.old = agent /\ agent' = agent
        \/ /\ Unfinished /\ removal'.old = removal.old
           /\ (agent' = agent \/ agent' = [agent EXCEPT !.present = FALSE])
    BY <1>1, <2>3, <2>4, RmMoves, Zenon
  <2> QED BY <2>1, <2>2, <2>5, Zenon
<1>2. CASE ~RmStep
  <2>1. removal' = removal
    BY <1>2, RmQuiet, Zenon DEF Restart
  <2>2. Unfinished
    BY <2>1, Zenon DEF Unfinished
  <2>3. (\A j \in Rots : ~Saved(j)) /\ (agent.present => Unchanged(removal.old))
    BY <2>2, Zenon DEF OneSaga
  <2>4. ASSUME NEW j \in Rots, Saved(j)' PROVE FALSE
    <3>1. PICK r \in Recs : ConsumeRotation(r, j)
      BY <2>3, <2>4, ClaimNext, Zenon DEF SavedByConsume
    <3> QED BY <2>2, <3>1, NamesApart, Zenon DEF ConsumeRotation, MutationAllowed
  <2>5. Removal # NoOwner /\ \A j \in Rots : j # Removal
    BY LifecycleAssumption, NamesApart, Zenon
  <2>6. agent' = agent
    <3>1. ~DeleteRegistryRow /\ ~CrashInDelete
      BY <1>2, Zenon DEF RmStep
    <3>2. ~MutationAllowed(NoOwner)
      BY <2>2, <2>5, Zenon DEF MutationAllowed
    <3>3. \A j \in Rots : ~MaySwap(j)
      BY <2>2, <2>5, Zenon DEF MaySwap, MutationAllowed
    <3> QED BY <3>1, <3>2, <3>3, WritesFenced, Zenon
  <2>7. agent'.present => Unchanged(removal.old)'
    BY <2>1, <2>3, <2>6, CapturedStays, Zenon DEF Unchanged
  <2> QED BY <2>4, <2>7, Zenon
<1> QED BY <1>1, <1>2

LEMMA SagaOfRotation ==
  ASSUME TypeOK, RmInv, ClaimInv, OneSaga, [Next]_vars, NEW j \in Rots, Saved(j)'
  PROVE  agent'.present /\ (agent'.ref = j \/ Unchanged(rot[j].old)')
<1>0. agent \in AgentRow /\ rot[j] \in RotRow
  BY TypedParts, Zenon
<1>1. rot'[j].old = rot[j].old /\ (Saved(j) \/ \E r \in Recs : ConsumeRotation(r, j))
  BY ClaimNext, Zenon DEF SavedByConsume
<1>2. ASSUME NEW r \in Recs, ConsumeRotation(r, j)
      PROVE  agent'.present /\ Unchanged(rot[j].old)'
  <2>1. agent' = agent /\ Unchanged(rot[j].old)
    BY <1>2, Zenon DEF ConsumeRotation
  <2> QED BY <1>1, <2>1, CapturedStays, Zenon DEF Unchanged
<1>3. CASE Saved(j)
  <2>1. agent.present /\ (agent.ref = j \/ Unchanged(rot[j].old)) /\ ~Unfinished
    BY <1>3, Zenon DEF OneSaga
  <2>2. ~MutationAllowed(NoOwner)
    BY <1>3, NamesApart, Zenon DEF MutationAllowed
  <2>3. ~DeleteRegistryRow /\ ~CrashInDelete
    <3>1. removal.phase = "revoked" => Unfinished
      BY DEF Unfinished
    <3> QED BY <2>1, <3>1, Zenon DEF DeleteRegistryRow, CrashInDelete
  <2>4. CASE agent' = agent
    <3>1. CASE agent.ref = j
      BY <2>1, <2>4, <3>1, Zenon
    <3>2. CASE Unchanged(rot[j].old)
      BY <1>1, <2>4, <3>2, CapturedStays, Zenon DEF Unchanged
    <3> QED BY <2>1, <3>1, <3>2
  <2>5. ASSUME NEW k \in Rots, MaySwap(k), agent' = SwappedAgent(k)
        PROVE  agent'.present /\ agent'.ref = j
    <3>1. k = j
      BY <1>3, <2>5, Zenon DEF MaySwap, MutationAllowed
    <3>2. SwappedAgent(j).present = agent.present /\ SwappedAgent(j).ref = j
      BY <1>0, SwappedTyped, Zenon
    <3> QED BY <2>1, <2>5, <3>1, <3>2, Zenon
  <2> QED BY <2>2, <2>3, <2>4, <2>5, WritesFenced, Zenon
<1> QED BY <1>1, <1>2, <1>3, Zenon

LEMMA OneSagaNext ==
  ASSUME TypeOK, RmInv, ClaimInv, OneSaga, [Next]_vars
  PROVE  OneSaga'
  BY SagaOfRemoval, SagaOfRotation, Zenon DEF OneSaga

LEMMA SagaInductive ==
  /\ Init => SagaInv
  /\ TypeOK /\ SagaInv /\ [Next]_vars => SagaInv'
<1>1. ASSUME Init PROVE SagaInv
  <2>1. \A j \in Rots : rot[j].state = "none"
    BY <1>1 DEF Init
  <2>2. \A j \in Rots : ~Saved(j)
    BY <2>1 DEF Saved
  <2>3. ~Unfinished
    BY <1>1 DEF Init, Unfinished
  <2>4. OneSaved /\ OneSaga
    BY <2>2, <2>3, Zenon DEF OneSaved, OneSaga
  <2> QED BY <1>1, <2>4, SnapInductive, ClaimInit, RmInit, Zenon DEF SagaInv
<1>2. ASSUME TypeOK, SagaInv, [Next]_vars PROVE SagaInv'
  BY <1>2, SnapInductive, ClaimNext, RmNext, OneSavedNext, OneSagaNext, Zenon DEF SagaInv
<1> QED BY <1>1, <1>2

LEMMA SagaHolds == Spec => []SagaInv
<1>1. Init => SagaInv
  BY SagaInductive
<1>2. TypeOK /\ SagaInv /\ [Next]_vars => SagaInv'
  BY SagaInductive
<1> QED BY <1>1, <1>2, LifecycleTyped, PTL DEF Spec

\* An unfinished removal and a saved rotation never own the Agent together,
\* no other writer gets past the fence, and the row is as its owner captured
\* it until the owner changes it: consume_rotation, create_for_agent and every
\* registry write read the two journals in the transaction that writes.
THEOREM OneSagaAlways == Spec => []OneSaga
<1>1. SagaInv => OneSaga
  BY DEF SagaInv
<1> QED BY <1>1, SagaHolds, PTL
-----------------------------------------------------------------------------
(* The steps of one job, one credential, one file, one request and one     *)
(* recoverer: what [Next]_vars can do to each, and under which conditions. *)

JobStays(k) ==
  /\ rot'[k].state = rot[k].state /\ rot'[k].old = rot[k].old /\ rot'[k].kept = rot[k].kept
  /\ rot[k].state \notin {"failed", "closed"} => rot'[k].temp = rot[k].temp
JobOpens(k) ==
  /\ rot[k].state = "none" /\ rot'[k].state = "open" /\ rot'[k].old = agent /\ rot'[k].kept
  /\ UNCHANGED <<agent, removal, remote>> /\ \A i \in Rots : ~Live(i)
JobPublished(k) ==
  /\ rot[k].state = "open" /\ rot'[k].state = "verified" /\ rot'[k].old = rot[k].old
  /\ rot'[k].temp /\ rot'[k].kept = rot[k].kept
  /\ files' = files \cup {k} /\ remote' = [remote EXCEPT ![k] = "pending"]
JobClosed(k) ==
  /\ rot[k].state \in {"open", "verified"} /\ rot'[k].state = "closed"
  /\ rot'[k].old = rot[k].old /\ remote' = remote
JobSaved(k) ==
  /\ rot[k].state = "verified" /\ rot'[k].state = "activation_requested"
  /\ rot'[k].old = rot[k].old /\ rot'[k].temp = rot[k].temp /\ rot'[k].kept = rot[k].kept
  /\ remote' = remote
JobDropped(k) ==
  /\ rot[k].state = "verified" /\ rot'[k].state = "failed" /\ rot'[k].old = rot[k].old
  /\ remote' = remote
JobInvalid(k) ==
  /\ \E r \in Recs : rec[r].pc = "validate" /\ rec[r].job = k /\ rot[k].claim = r
  /\ rot[k].state \in {"verified", "activation_requested"} /\ rot'[k].state = "failed"
  /\ rot'[k].old = rot[k].old /\ remote' = remote
JobActivated(k) ==
  /\ \E r \in Recs : /\ rec[r].pc = "activate" /\ rec[r].job = k /\ rot[k].claim = r
                     /\ rec[r].reply = "ok"
  /\ rot[k].state = "activation_requested" /\ rot'[k].state = "activated"
  /\ rot'[k].old = rot[k].old /\ rot'[k].temp = rot[k].temp /\ rot'[k].kept = rot[k].kept
  /\ remote' = remote
JobRetired(k) ==
  /\ \E r \in Recs : /\ rec[r].pc = "revoke" /\ rec[r].job = k /\ rot[k].claim = r
                     /\ rec[r].reply = "ok"
  /\ rot[k].state = "activated" /\ rot'[k].state = "consumed"
  /\ rot'[k].old = rot[k].old /\ UNCHANGED <<agent, remote>>
  /\ files' = files \ {rot[k].old.ref}
JobCompensated(k) ==
  /\ \E r \in Recs : /\ rec[r].pc = "compensate" /\ rec[r].job = k /\ rot[k].claim = r
                     /\ rec[r].reply = "ok"
  /\ rot[k].state = "activated" /\ rot'[k].state = "failed"
  /\ rot'[k].old = rot[k].old /\ UNCHANGED <<agent, remote>>

JobStep(k) ==
  \/ JobStays(k) \/ JobOpens(k) \/ JobPublished(k) \/ JobClosed(k) \/ JobSaved(k)
  \/ JobDropped(k) \/ JobInvalid(k) \/ JobActivated(k) \/ JobRetired(k) \/ JobCompensated(k)

LEMMA RowsStayJobs ==
  ASSUME RowsStay, NEW k \in Rots
  PROVE  JobStays(k)
  BY Zenon DEF RowsStay, JobStays

\* Only the job that moves is touched.
LEMMA OtherJobs ==
  ASSUME NEW j \in Rots, NEW k \in Rots, k # j, rot'[k] = rot[k]
  PROVE  JobStays(k)
  BY Zenon DEF JobStays

LEMMA JobRotStep ==
  ASSUME TypeOK, NEW j \in Rots, RotStep(j), NEW k \in Rots
  PROVE  JobStep(k)
<1>1. CASE StartRotation(j)
  <2>1. /\ k # j => rot'[k] = rot[k]
        /\ rot'[j].state = "open" /\ rot'[j].old = agent /\ rot'[j].kept
    BY <1>1, StartMoves, Zenon
  <2>2. /\ rot[j].state = "none" /\ UNCHANGED <<agent, removal, remote>>
        /\ \A i \in Rots : ~Live(i)
    BY <1>1, Zenon DEF StartRotation
  <2>3. JobOpens(j)
    BY <2>1, <2>2, Zenon DEF JobOpens
  <2> QED BY <2>1, <2>3, OtherJobs, Zenon DEF JobStep
<1>2. CASE Publish(j)
  <2>1. RowMoves(j, "verified", rot[j].claim)
    BY <1>2, PublishMoves
  <2>2. /\ rot[j].state = "open" /\ files' = files \cup {j}
        /\ remote' = [remote EXCEPT ![j] = "pending"]
    BY <1>2, Zenon DEF Publish
  <2>3. JobPublished(j)
    BY <2>1, <2>2, Zenon DEF JobPublished, RowMoves
  <2> QED BY <2>1, <2>3, OtherJobs, Zenon DEF JobStep, RowMoves
<1>3. CASE Close(j)
  <2>1. RowMoves(j, "closed", NoOwner)
    BY <1>3, CloseMoves
  <2>2. rot[j].state \in {"open", "verified"} /\ remote' = remote
    BY <1>3, Zenon DEF Close
  <2>3. JobClosed(j)
    BY <2>1, <2>2, Zenon DEF JobClosed, RowMoves
  <2> QED BY <2>1, <2>3, OtherJobs, Zenon DEF JobStep, RowMoves
<1>4. CASE PendingLapses(j)
  BY <1>4, RowsSame, RowsStayJobs, Zenon DEF PendingLapses, JobStep
<1>5. CASE LeaseLapses(j)
  BY <1>5, LapseMoves, RowsStayJobs, Zenon DEF JobStep
<1> QED BY <1>1, <1>2, <1>3, <1>4, <1>5 DEF RotStep

LEMMA JobRecStep ==
  ASSUME TypeOK, ClaimInv, NEW r \in Recs, RecStep(r), NEW k \in Rots
  PROVE  JobStep(k)
<1>0. RecTyped
  BY TypedParts, Zenon
<1>a. RowsStay => JobStep(k)
  BY RowsStayJobs, Zenon DEF JobStep
<1>b. ASSUME NEW j \in Rots, NEW s, NEW c, RowMoves(j, s, c), j = k => JobStep(k)
      PROVE  JobStep(k)
  <2>1. CASE k # j
    BY <1>b, <2>1, OtherJobs, Zenon DEF RowMoves, JobStep
  <2> QED BY <1>b, <2>1
<1>1. ASSUME NEW j \in Rots, ConsumeRotation(r, j) PROVE JobStep(k)
  <2>1. RowMoves(j, "activation_requested", rot[j].claim)
    BY <1>1, ConsumeMoves
  <2>2. rot[j].state = "verified" /\ remote' = remote
    BY <1>1, Zenon DEF ConsumeRotation
  <2>3. /\ rot'[j].state = "activation_requested" /\ rot'[j].old = rot[j].old
        /\ rot'[j].temp = rot[j].temp /\ rot'[j].kept = rot[j].kept
    BY <2>1, Zenon DEF RowMoves
  <2>4. JobSaved(j)
    BY <2>2, <2>3, Zenon DEF JobSaved
  <2> QED BY <1>b, <2>1, <2>4, Zenon DEF JobStep
<1>2. ASSUME NEW j \in Rots, Claim(r, j) PROVE JobStep(k)
  <2>1. CASE RowMoves(j, "failed", NoOwner) /\ rot[j].state = "verified"
    <3>1. remote' = remote
      BY <1>2, Zenon DEF Claim
    <3>2. JobDropped(j)
      BY <2>1, <3>1, Zenon DEF JobDropped, RowMoves
    <3> QED BY <1>b, <2>1, <3>2, Zenon DEF JobStep
  <2> QED BY <1>a, <1>2, <2>1, ClaimMoves, Zenon
<1>3. CASE NothingToClaim(r) \/ Abandon(r) \/ RestartRecovers(r) \/ CrashInRetire(r)
  <2>1. rot' = rot
    BY <1>3, Zenon DEF NothingToClaim, Abandon, RestartRecovers, CrashInRetire
  <2> QED BY <1>a, <2>1, RowsSame, Zenon
<1>4. CASE EndValidation(r)
  <2>1. rec[r].job \in Rots /\ rot[rec[r].job].claim = r /\ rec[r].pc = "validate"
        /\ remote' = remote
    BY <1>4, ValidationMoves, Zenon DEF EndValidation
  <2>2. rot[rec[r].job].state \in {"verified", "activation_requested"}
    BY <2>1, Zenon DEF ClaimInv
  <2>3. CASE RowMoves(rec[r].job, "failed", NoOwner)
    <3>1. JobInvalid(rec[r].job)
      BY <2>1, <2>2, <2>3, Zenon DEF JobInvalid, RowMoves
    <3> QED BY <1>b, <2>1, <2>3, <3>1, Zenon DEF JobStep
  <2> QED BY <1>a, <1>4, <2>3, ValidationMoves, Zenon
<1>5. CASE EndActivation(r)
  <2>1. rec[r].job \in Rots /\ rot[rec[r].job].claim = r /\ rec[r].pc = "activate"
        /\ remote' = remote
    BY <1>5, ActivationMoves, Zenon DEF EndActivation
  <2>2. rot[rec[r].job].state = "activation_requested"
    BY <2>1, Zenon DEF ClaimInv
  <2>3. CASE RowMoves(rec[r].job, "activated", r) /\ rec[r].reply = "ok"
    <3>1. /\ rot'[rec[r].job].state = "activated" /\ rot'[rec[r].job].old = rot[rec[r].job].old
          /\ rot'[rec[r].job].temp = rot[rec[r].job].temp
          /\ rot'[rec[r].job].kept = rot[rec[r].job].kept
      BY <2>3, Zenon DEF RowMoves
    <3>2. JobActivated(rec[r].job)
      BY <2>1, <2>2, <2>3, <3>1, Zenon DEF JobActivated
    <3> QED BY <1>b, <2>1, <2>3, <3>2, Zenon DEF JobStep
  <2> QED BY <1>a, <1>5, <2>3, ActivationMoves, Zenon
<1>6. CASE SwapRegistry(r)
  <2>1. rec[r].job \in Rots /\ (rot' = rot \/ Residual(r))
    BY <1>6, SwapDoes, Zenon
  <2> QED BY <1>a, <2>1, RowsSame, ResidualMoves, Zenon
<1>7. CASE RetireOld(r)
  <2>1. rec[r].job \in Rots /\ rot[rec[r].job].claim = r /\ rec[r].pc = "revoke"
        /\ UNCHANGED <<agent, remote>>
    BY <1>7, RetireMoves, Zenon DEF RetireOld
  <2>2. rot[rec[r].job].state = "activated"
    BY <2>1, Zenon DEF ClaimInv
  <2>3. CASE RowMoves(rec[r].job, "consumed", NoOwner) /\ rec[r].reply = "ok"
             /\ files' = files \ {rot[rec[r].job].old.ref}
    <3>1. JobRetired(rec[r].job)
      BY <2>1, <2>2, <2>3, Zenon DEF JobRetired, RowMoves
    <3> QED BY <1>b, <2>1, <2>3, <3>1, Zenon DEF JobStep
  <2> QED BY <1>a, <1>7, <2>3, RetireMoves, Zenon
<1>8. CASE EndCompensation(r)
  <2>1. rec[r].job \in Rots /\ rot[rec[r].job].claim = r /\ rec[r].pc = "compensate"
        /\ UNCHANGED <<agent, remote>>
    BY <1>8, CompensationMoves, Zenon DEF EndCompensation
  <2>2. rot[rec[r].job].state = "activated"
    BY <2>1, Zenon DEF ClaimInv
  <2>3. CASE RowMoves(rec[r].job, "failed", NoOwner) /\ rec[r].reply = "ok"
    <3>1. JobCompensated(rec[r].job)
      BY <2>1, <2>2, <2>3, Zenon DEF JobCompensated, RowMoves
    <3> QED BY <1>b, <2>1, <2>3, <3>1, Zenon DEF JobStep
  <2> QED BY <1>a, <1>8, <2>3, CompensationMoves, Zenon
<1>9. CASE RecoverCleanup(r)
  BY <1>a, <1>9, CleanupMoves, Zenon
<1> QED BY <1>1, <1>2, <1>3, <1>4, <1>5, <1>6, <1>7, <1>8, <1>9 DEF RecStep

LEMMA JobSteps ==
  ASSUME TypeOK, ClaimInv, [Next]_vars
  PROVE  \A k \in Rots : JobStep(k)
<1> SUFFICES ASSUME NEW k \in Rots PROVE JobStep(k)
  OBVIOUS
<1>a. rot' = rot => JobStep(k)
  BY RowsSame, RowsStayJobs, Zenon DEF JobStep
<1>1. ASSUME NEW u \in Upds, UpdStep(u) PROVE rot' = rot
  BY <1>1, Zenon DEF UpdStep, BeginUpdate, EndUpdate, UpdateFails, CrashInUpdate
<1>2. ASSUME NEW m \in wire, AgentHandles(m) \/ Lose(m) PROVE rot' = rot
  BY <1>2, Zenon DEF AgentHandles, Lose
<1>3. CASE Pin \/ Restart \/ SweepOrphans \/ Crash \/ UNCHANGED vars
  BY <1>a, <1>3, Zenon DEF Pin, Restart, SweepOrphans, Crash, vars
<1> QED BY <1>a, <1>1, <1>2, <1>3, RmLeavesRot, JobRotStep, JobRecStep DEF Next
-----------------------------------------------------------------------------
(* The inductive invariant about credentials.                              *)

\* A row is legacy exactly if it names an admin token; only a legacy row may
\* be unpinned.  Updates bring admin tokens, rotations never do, and no
\* request is about one.
RowKind(a) == (~a.pinned => a.legacy) /\ (a.legacy <=> remote[a.ref] = "admin")
KindInv ==
  /\ RowKind(agent) /\ RowKind(removal.old)
  /\ \A j \in Rots : RowKind(rot[j].old) /\ remote[j] # "admin"
  /\ \A u \in Upds : RowKind(upd[u].old) /\ remote[u] = "admin"
  /\ \A m \in wire : remote[m.cred] # "admin"

\* Nobody names the token of an update that has not ended.
FreshInv ==
  \A u \in Upds : upd[u].pc # "done" =>
    /\ agent.ref # u /\ removal.old.ref # u
    /\ \A j \in Rots : rot[j].old.ref # u
    /\ \A v \in Upds : upd[v].old.ref # u

\* A job whose credential is in the registry went through activation against
\* a pinned row; one whose credential another saga replaces is consumed.
RefInv ==
  /\ \A j \in Rots : agent.ref = j =>
       rot[j].state \in {"activated", "consumed"} /\ rot[j].old.pinned
  /\ \A j, k \in Rots : rot[k].state # "none" /\ rot[k].old.ref = j =>
       j # k /\ rot[j].state = "consumed"
  /\ \A j \in Rots : removal.phase # "none" /\ removal.old.ref = j => rot[j].state = "consumed"

\* The registry does not name c and never will.
Past == {"activated", "consumed", "failed"}
Dead(c) ==
  /\ c # agent.ref /\ c \notin Upds
  /\ c \in Rots => /\ rot[c].state \in Past
                   /\ ~(rot[c].old.pinned /\ rot[c].old.rev = agent.rev)

\* A request on the wire, however old, cannot hit the registered credential:
\* recover() revokes dead ones only, the remover its own.
WireInv ==
  \A m \in wire :
    /\ m.by = Removal => /\ m.kind = "revoke" /\ m.cred = removal.old.ref
                         /\ removal.phase # "none"
    /\ m.kind = "activate" =>
         /\ m.cred \in Rots /\ m.token = m.cred
         /\ rot[m.cred].state \in {"activation_requested", "activated", "consumed", "failed"}
         /\ rot[m.cred].state = "failed" => remote[m.cred] # "pending"
    /\ m.kind = "revoke" /\ m.by # Removal => Dead(m.cred)

\* What the Agent may think of a job's credential.
JobRemote(s, x) ==
  /\ s \in {"none", "open"} => x = "none"
  /\ s = "verified" => x \in {"pending", "lapsed"}
  /\ s = "closed" => x \in {"none", "pending", "lapsed"}
  /\ s = "activation_requested" => x \in {"pending", "active", "lapsed"}
  /\ s \in {"activated", "consumed"} => x \in {"active", "revoked"}
  /\ s = "failed" => x \in {"pending", "lapsed", "revoked"}

\* Job by job: the credential, its token file, what the row still names.
JobInv ==
  \A j \in Rots :
    /\ JobRemote(rot[j].state, remote[j])
    /\ rot[j].state \in {"verified", "activation_requested", "activated"} =>
         rot[j].temp /\ j \in files
    /\ rot[j].state \in {"open", "verified", "activation_requested", "activated"} => rot[j].kept
    /\ rot[j].state = "activated" /\ rot[j].old.pinned => remote[j] = "active"
    /\ rot[j].state = "consumed" => rot[j].old.rev < agent.rev

\* What a recoverer knows, with its claim or even without it.
RecInv ==
  \A r \in Recs :
    /\ rec[r].pc = "validate" /\ rot[rec[r].job].claim = r =>
         /\ \A m \in wire : m.kind = "activate" => m.cred # rec[r].job
         /\ remote[rec[r].job] # "active"
    /\ rec[r].pc = "activate" /\ rot[rec[r].job].claim = r /\ rec[r].reply = "ok" =>
         remote[rec[r].job] = "active"
    /\ rec[r].pc = "swap" =>
         /\ rot[rec[r].job].state \in Past
         /\ rot[rec[r].job].state = "failed" => ~rot[rec[r].job].old.pinned
    /\ rec[r].pc = "revoke" =>
         /\ rot[rec[r].job].state \in Past /\ rot[rec[r].job].old.rev < agent.rev
         /\ rec[r].reply = "ok" => remote[rot[rec[r].job].old.ref] \in {"revoked", "admin"}
    /\ rec[r].pc = "compensate" =>
         /\ rot[rec[r].job].state \in Past /\ ~rot[rec[r].job].old.pinned
         /\ rec[r].reply = "ok" => remote[rec[r].job] = "revoked"

\* Until a removal starts the registered credential works.
WorksInv ==
  removal.phase = "none" =>
    agent.ref \in files /\ remote[agent.ref] \in {"active", "admin"}

\* Somebody still names an active credential.
Named(c) ==
  \/ agent.present /\ c = agent.ref
  \/ c \in Rots /\ rot[c].state \in {"activation_requested", "activated"}
  \/ \E j \in Rots : rot[j].state = "activated" /\ c = rot[j].old.ref
  \/ removal.local /\ c = removal.old.ref
ActiveInv == \A c \in Creds : remote[c] = "active" => Named(c)

\* What the removal has withdrawn, and what a finished saga left.
Withdrawn == removal.local \/ remote[removal.old.ref] \in {"revoked", "admin"}
EndInv ==
  /\ removal.phase = "none" => ~removal.local
  /\ removal.phase \in {"revoked", "registry_deleted", "credential_deleted", "completed"} =>
       Withdrawn
  /\ ~agent.present => Withdrawn
  /\ removal.phase \in {"credential_deleted", "completed"} => removal.old.ref \notin files
  /\ rm.pc = "revoke" /\ rm.reply = "ok" => remote[removal.old.ref] = "revoked"
  /\ \A j \in Rots : rot[j].state = "consumed" =>
       rot[j].old.ref \notin files /\ remote[rot[j].old.ref] \in {"revoked", "admin"}

CredInv ==
  /\ KindInv /\ FreshInv /\ RefInv /\ WireInv /\ JobInv /\ RecInv /\ WorksInv /\ ActiveInv
  /\ TokenKept /\ EndInv

-----------------------------------------------------------------------------
\* The registry row, column by column.
AgentSwapped(j) ==
  /\ \E r \in Recs : rec[r].pc = "swap" /\ rec[r].job = j
  /\ MutationAllowed(j) /\ agent.present /\ agent'.present
  /\ rot[j].old.pinned /\ rot[j].old.rev = agent.rev /\ rot[j].old.ref = agent.ref
  /\ agent'.rev = agent.rev + 1 /\ agent'.ref = j /\ agent'.pinned /\ ~agent'.legacy
  /\ RowsStay /\ UNCHANGED <<removal, upd, files, remote>>
AgentUpdated(u) ==
  /\ upd[u].pc = "validating" /\ upd'[u].pc = "done"
  /\ MutationAllowed(NoOwner) /\ agent.present /\ agent'.present
  /\ agent'.rev = agent.rev + 1
  /\ agent'.pinned <=> agent.pinned
  /\ agent'.legacy <=> agent.legacy
  /\ \/ agent'.ref = agent.ref /\ files' = files
     \/ /\ agent'.ref = u /\ ~agent.pinned
        /\ files' \in {files \cup {u}, (files \cup {u}) \ {agent.ref}}
  /\ UNCHANGED <<rot, rec, removal, remote, wire>>
AgentPinned ==
  /\ MutationAllowed(NoOwner) /\ agent.present /\ agent'.present
  /\ agent'.rev = agent.rev + 1 /\ agent'.ref = agent.ref
  /\ agent'.pinned
  /\ agent'.legacy <=> agent.legacy
  /\ UNCHANGED <<rot, rec, removal, upd, files, remote, wire>>
AgentGone ==
  /\ removal.phase = "revoked" /\ ~agent'.present
  /\ agent'.rev = agent.rev /\ agent'.ref = agent.ref
  /\ agent'.pinned <=> agent.pinned
  /\ agent'.legacy <=> agent.legacy
  /\ agent.present => agent.ref = removal.old.ref
  /\ UNCHANGED <<rot, files, remote, wire>>

AgentStep ==
  \/ agent' = agent
  \/ \E j \in Rots : AgentSwapped(j)
  \/ \E u \in Upds : AgentUpdated(u)
  \/ AgentPinned \/ AgentGone

\* An update that is accepted read the row as it is.
LEMMA AcceptedDoes ==
  ASSUME TypeOK, SnapInv, RmInv, FreshInv, NEW u \in Upds, EndUpdate(u),
         UpdateAccepted(upd[u].old)
  PROVE  AgentUpdated(u)
<1> DEFINE old == upd[u].old
<1>1. /\ old \in AgentRow /\ upd[u].pc = "validating" /\ u \in Creds
      /\ \/ agent' = UpdatedAgent(old, old.ref) /\ files' = files
         \/ /\ agent' = UpdatedAgent(old, u) /\ (~old.pinned \/ old.ref = u)
            /\ files' \in {files \cup {u}, (files \cup {u}) \ {old.ref}}
  BY EndUpdateDoes, NamesApart, Zenon
<1>2. /\ UNCHANGED <<rot, rec, removal, remote, wire>>
      /\ upd' = [upd EXCEPT ![u].pc = "done"]
  BY Zenon DEF EndUpdate
<1>3. upd'[u].pc = "done"
  BY <1>2, TypedParts, UpdAt, Zenon
<1>4. agent.present /\ agent.rev = old.rev /\ MutationAllowed(NoOwner)
  BY Zenon DEF UpdateAccepted
<1>5. /\ old.ref = agent.ref
      /\ old.pinned <=> agent.pinned
      /\ old.legacy <=> agent.legacy
  BY <1>4, Zenon DEF SnapInv, Older
<1>6. old.ref # u
  <2>1. upd[u].pc # "done"
    BY <1>1
  <2> QED BY <2>1, Zenon DEF FreshInv
<1>7. old.present /\ old.ref \in Creds
  BY <1>1, AgentFields, Zenon DEF RmInv
<1> HIDE DEF old
<1>8. ASSUME NEW ref \in Creds, agent' = UpdatedAgent(old, ref)
      PROVE  /\ agent'.present /\ agent'.rev = agent.rev + 1 /\ agent'.ref = ref
             /\ agent'.pinned <=> agent.pinned
             /\ agent'.legacy <=> agent.legacy
  <2>1. /\ UpdatedAgent(old, ref).present = old.present
        /\ UpdatedAgent(old, ref).rev = old.rev + 1 /\ UpdatedAgent(old, ref).ref = ref
        /\ UpdatedAgent(old, ref).pinned = old.pinned
        /\ UpdatedAgent(old, ref).legacy = old.legacy
    BY <1>1, UpdatedFields, Zenon
  <2> QED BY <1>4, <1>5, <1>7, <1>8, <2>1, Zenon
<1>9. CASE agent' = UpdatedAgent(old, old.ref) /\ files' = files
  BY <1>1, <1>2, <1>3, <1>4, <1>5, <1>7, <1>8, <1>9, Zenon DEF AgentUpdated, old
<1>10. CASE /\ agent' = UpdatedAgent(old, u) /\ (~old.pinned \/ old.ref = u)
            /\ files' \in {files \cup {u}, (files \cup {u}) \ {old.ref}}
  <2>1. files' \in {files \cup {u}, (files \cup {u}) \ {agent.ref}}
    BY <1>5, <1>10, Zenon
  <2>2. ~agent.pinned
    BY <1>5, <1>6, <1>10, Zenon
  <2> QED BY <1>1, <1>2, <1>3, <1>4, <1>8, <1>10, <2>1, <2>2, Zenon DEF AgentUpdated
<1> QED BY <1>1, <1>9, <1>10, Zenon

LEMMA AgentSteps ==
  ASSUME TypeOK, SnapInv, RmInv, FreshInv, [Next]_vars
  PROVE  AgentStep
<1>0. agent \in AgentRow /\ \A j \in Rots : rot[j] \in RotRow
  BY TypedParts, Zenon
<1>1. CASE Pin
  <2>1. /\ agent.present /\ MutationAllowed(NoOwner)
        /\ UNCHANGED <<rot, rec, removal, upd, files, remote, wire>>
    BY <1>1, Zenon DEF Pin
  <2>2. /\ agent'.present = agent.present /\ agent'.pinned
        /\ agent'.rev = agent.rev + 1 /\ agent'.ref = agent.ref
        /\ agent'.legacy = agent.legacy
    BY <1>0, <1>1, PinDoes, Zenon
  <2> QED BY <2>1, <2>2, Zenon DEF AgentStep, AgentPinned
<1>2. ASSUME NEW u \in Upds, EndUpdate(u), UpdateAccepted(upd[u].old) PROVE AgentUpdated(u)
  BY <1>2, AcceptedDoes
<1>3. ASSUME NEW r \in Recs, NEW j \in Rots, SwapRegistry(r), j = rec[r].job, MaySwap(j),
             agent' = SwappedAgent(j)
      PROVE  AgentSwapped(j)
  <2>1. /\ SwappedAgent(j).present = agent.present
        /\ SwappedAgent(j).rev = rot[j].old.rev + 1 /\ SwappedAgent(j).ref = j
        /\ SwappedAgent(j).pinned /\ ~SwappedAgent(j).legacy
    BY <1>0, SwappedTyped, Zenon
  <2>2. /\ agent.present /\ agent.rev = rot[j].old.rev /\ agent.ref = rot[j].old.ref
        /\ MutationAllowed(j) /\ rot[j].old.pinned
    BY <1>3, Zenon DEF MaySwap, Unchanged
  <2>3. rec[r].pc = "swap" /\ UNCHANGED <<removal, upd, files, remote>>
    BY <1>3, Zenon DEF SwapRegistry
  <2>4. RowsStay
    <3>1. rot' = rot \/ Residual(r)
      BY <1>3, SwapDoes, Zenon
    <3> QED BY <1>3, <3>1, RowsSame, ResidualMoves, Zenon
  <2> QED BY <1>3, <2>1, <2>2, <2>3, <2>4, Zenon DEF AgentSwapped
<1>4. CASE (DeleteRegistryRow \/ CrashInDelete) /\ agent' # agent
  <2>1. /\ removal.phase = "revoked" /\ agent' = [agent EXCEPT !.present = FALSE]
        /\ UNCHANGED <<rot, files, remote, wire>>
        /\ agent.present => Unchanged(removal.old)
    BY <1>4, Zenon DEF DeleteRegistryRow, CrashInDelete, Die
  <2>2. agent.present => agent.ref = removal.old.ref
    BY <2>1, Zenon DEF Unchanged
  <2>3. /\ ~agent'.present
        /\ agent'.rev = agent.rev /\ agent'.ref = agent.ref
        /\ agent'.pinned = agent.pinned /\ agent'.legacy = agent.legacy
    BY <1>0, <2>1, GoneTyped, Zenon
  <2> QED BY <2>1, <2>2, <2>3, Zenon DEF AgentStep, AgentGone
<1> QED BY <1>1, <1>2, <1>3, <1>4, WritesFenced, Zenon DEF AgentStep

\* The removal's row.
RemovalStarts ==
  /\ removal.phase = "none" /\ removal'.phase = "pending" /\ removal'.old = agent
  /\ agent.present /\ MutationAllowed(NoOwner)
  /\ UNCHANGED <<agent, rot, rec, upd, files, remote, wire>>
RemovalMoves ==
  /\ removal.phase # "none" /\ removal'.phase # "none"
  /\ removal'.old = removal.old /\ removal'.local = removal.local

LEMMA RemovalSteps ==
  ASSUME TypeOK, RmInv, [Next]_vars
  PROVE  removal' = removal \/ RemovalStarts \/ RemovalMoves
<1>1. CASE RmStep
  <2>1. ASSUME NEW local \in BOOLEAN, RemoveAgent(local) PROVE RemovalStarts
    BY <2>1 DEF RemoveAgent, RemovalStarts
  <2>2. CASE removal.phase = "none"
    <3>1. ~Unfinished
      BY <2>2 DEF Unfinished
    <3>2. rm.pc = "idle"
      BY <3>1 DEF RmInv
    <3>3. \E local \in BOOLEAN : RemoveAgent(local)
      BY <1>1, <2>2, <3>2 DEF RmStep, BeginRevoke, EndRevoke, SkipRevoke, DeleteRegistryRow,
        DeleteRefused, DeleteToken, Complete, CrashInDelete, CrashInToken, RmRuns
    <3> QED BY <2>1, <3>3, Zenon
  <2>3. CASE removal.phase # "none"
    <3>1. \/ removal' = removal
          \/ /\ removal'.old = removal.old /\ removal'.local = removal.local
             /\ removal'.phase \in {"revoking", "revoked", "residual", "registry_deleted",
                                    "credential_deleted", "completed"}
      BY <1>1, <2>3, RmMoves
    <3> QED BY <2>3, <3>1 DEF RemovalMoves
  <2> QED BY <2>2, <2>3
<1>2. CASE ~RmStep
  BY <1>2, RmQuiet, Zenon DEF Restart
<1> QED BY <1>1, <1>2
\* The Agent's view of one credential.
RemoteQuiet ==
  \/ remote' = remote
  \/ \E j \in Rots : Publish(j) \/ PendingLapses(j)
  \/ \E m \in wire : AgentHandles(m)

LEMMA RemoteWrites ==
  ASSUME TypeOK, [Next]_vars
  PROVE  RemoteQuiet
<1>1. ASSUME NEW j \in Rots, RotStep(j) PROVE RemoteQuiet
  BY <1>1, Zenon DEF RotStep, StartRotation, Close, LeaseLapses, RemoteQuiet
<1>2. ASSUME NEW r \in Recs, RecStep(r) PROVE remote' = remote
  <2>1. ASSUME NEW j \in Rots, ConsumeRotation(r, j) \/ Claim(r, j) PROVE remote' = remote
    BY <2>1, Zenon DEF ConsumeRotation, Claim
  <2>2. CASE NothingToClaim(r) \/ Abandon(r) \/ EndValidation(r) \/ EndActivation(r)
    BY <2>2, Zenon DEF NothingToClaim, Abandon, EndValidation, EndActivation
  <2>3. CASE RetireOld(r) \/ EndCompensation(r) \/ RecoverCleanup(r) \/ SwapRegistry(r)
    BY <2>3, Zenon DEF RetireOld, EndCompensation, RecoverCleanup, SwapRegistry
  <2>4. CASE CrashInRetire(r) \/ RestartRecovers(r)
    BY <2>4, Zenon DEF CrashInRetire, RestartRecovers, Die
  <2> QED BY <1>2, <2>1, <2>2, <2>3, <2>4, Zenon DEF RecStep
<1>3. ASSUME NEW u \in Upds, UpdStep(u) PROVE remote' = remote
  BY <1>3, Zenon DEF UpdStep, BeginUpdate, EndUpdate, UpdateFails, CrashInUpdate, Die
<1>4. ASSUME RmStep PROVE remote' = remote
  BY <1>4, Zenon DEF RmStep, RemoveAgent, BeginRevoke, EndRevoke, SkipRevoke, DeleteRegistryRow,
    DeleteRefused, DeleteToken, Complete, CrashInDelete, CrashInToken, Die
<1>5. ASSUME NEW m \in wire, AgentHandles(m) \/ Lose(m) PROVE RemoteQuiet
  BY <1>5, Zenon DEF Lose, RemoteQuiet
<1>6. CASE Pin \/ Restart \/ SweepOrphans \/ Crash \/ UNCHANGED vars
  BY <1>6, Zenon DEF Pin, Restart, SweepOrphans, Crash, Die, vars, RemoteQuiet
<1> QED BY <1>1, <1>2, <1>3, <1>4, <1>5, <1>6, Zenon DEF Next, RemoteQuiet

RemotePending(c) ==
  /\ c \in Rots /\ rot[c].state = "open" /\ rot'[c].state = "verified"
  /\ remote'[c] = "pending"
RemoteLapses(c) == remote[c] = "pending" /\ remote'[c] = "lapsed"
RemoteActivated(c) ==
  /\ c \in Rots /\ remote'[c] = "active"
  /\ remote[c] = "active" \/ rot[c].state = "activation_requested"
  /\ \E m \in wire : m.kind = "activate" /\ m.cred = c
RemoteRevoked(c) ==
  /\ remote'[c] = "revoked" /\ remote[c] # "admin"
  /\ Dead(c) \/ (removal.phase # "none" /\ c = removal.old.ref)
RemoteStep(c) ==
  \/ remote'[c] = remote[c]
  \/ RemotePending(c) \/ RemoteLapses(c) \/ RemoteActivated(c) \/ RemoteRevoked(c)

LEMMA RemoteSteps ==
  ASSUME TypeOK, KindInv, WireInv, JobInv, [Next]_vars
  PROVE  \A c \in Creds : RemoteStep(c)
<1> SUFFICES ASSUME NEW c \in Creds PROVE RemoteStep(c)
  OBVIOUS
<1>0. remote \in [Creds -> RemoteStates] /\ Rots \subseteq Creds
  BY TypedParts, NamesApart, Zenon
<1>1. CASE remote' = remote
  BY <1>1, Zenon DEF RemoteStep
<1>2. ASSUME NEW j \in Rots, Publish(j) PROVE RemoteStep(c)
  <2>1. rot[j].state = "open" /\ remote' = [remote EXCEPT ![j] = "pending"]
    BY <1>2, Zenon DEF Publish
  <2>2. rot'[j].state = "verified"
    BY <1>2, PublishMoves, Zenon DEF RowMoves
  <2> QED BY <1>0, <2>1, <2>2, Zenon DEF RemoteStep, RemotePending
<1>3. ASSUME NEW j \in Rots, PendingLapses(j) PROVE RemoteStep(c)
  <2>1. remote[j] = "pending" /\ remote' = [remote EXCEPT ![j] = "lapsed"]
    BY <1>3, Zenon DEF PendingLapses
  <2> QED BY <1>0, <2>1, Zenon DEF RemoteStep, RemoteLapses
<1>4. ASSUME NEW m \in wire, AgentHandles(m) PROVE RemoteStep(c)
  <2>0. /\ m.kind \in {"activate", "revoke"} /\ m.token \in Creds /\ m.cred \in Creds
        /\ \/ remote' = remote
           \/ Authorised(m) /\ remote' = [remote EXCEPT ![m.cred] =
                   IF m.kind = "activate" THEN "active" ELSE "revoked"]
    BY <1>4, HandlesDoes, Zenon
  <2>1. CASE remote'[c] # remote[c]
    <3>1. /\ c = m.cred /\ Authorised(m)
          /\ remote'[c] = IF m.kind = "activate" THEN "active" ELSE "revoked"
      BY <1>0, <2>0, <2>1, Zenon
    <3>2. CASE m.kind = "activate"
      <4>1. /\ c \in Rots /\ m.token = c
            /\ rot[c].state \in {"activation_requested", "activated", "consumed", "failed"}
            /\ rot[c].state = "failed" => remote[c] # "pending"
        BY <3>1, <3>2, Zenon DEF WireInv
      <4>2. remote[c] \in {"pending", "active"}
        BY <3>1, <3>2, <4>1 DEF Authorised
      <4>3. JobRemote(rot[c].state, remote[c])
        BY <4>1, Zenon DEF JobInv
      <4>4. remote[c] = "active" \/ rot[c].state = "activation_requested"
        BY <4>1, <4>2, <4>3 DEF JobRemote
      <4>5. remote'[c] = "active"
        BY <3>1, <3>2
      <4> QED BY <3>1, <3>2, <4>1, <4>4, <4>5, Zenon DEF RemoteStep, RemoteActivated
    <3>3. CASE m.kind = "revoke"
      <4>1. remote'[c] = "revoked"
        BY <3>1, <3>3
      <4>2. remote[c] # "admin"
        BY <3>1, Zenon DEF KindInv
      <4>3. Dead(c) \/ (removal.phase # "none" /\ c = removal.old.ref)
        BY <3>1, <3>3, Zenon DEF WireInv
      <4> QED BY <4>1, <4>2, <4>3, Zenon DEF RemoteStep, RemoteRevoked
    <3> QED BY <2>0, <3>2, <3>3
  <2> QED BY <2>1, Zenon DEF RemoteStep
<1> QED BY <1>1, <1>2, <1>3, <1>4, RemoteWrites, Zenon DEF RemoteQuiet

\* Admin tokens stay what they are, and a revoked credential stays revoked.
LEMMA AdminFixed ==
  ASSUME TypeOK, KindInv, WireInv, JobInv, [Next]_vars, NEW c \in Creds
  PROVE  remote'[c] = "admin" <=> remote[c] = "admin"
<1>1. RemoteStep(c)
  BY RemoteSteps
<1>2. c \in Rots => remote[c] # "admin"
  BY Zenon DEF KindInv
<1> QED BY <1>1, <1>2 DEF RemoteStep, RemotePending, RemoteLapses, RemoteActivated, RemoteRevoked

LEMMA RevokedFinal ==
  ASSUME TypeOK, KindInv, WireInv, JobInv, [Next]_vars, NEW c \in Creds
  PROVE  remote[c] = "revoked" => remote'[c] = "revoked"
<1>1. RemoteStep(c)
  BY RemoteSteps
<1>2. c \in Rots => JobRemote(rot[c].state, remote[c])
  BY Zenon DEF JobInv
<1> QED BY <1>1, <1>2 DEF RemoteStep, RemotePending, RemoteLapses, RemoteActivated, RemoteRevoked,
  JobRemote

\* What is on the wire, and who put it there.
SentActivate(m) ==
  \E r \in Recs, j \in Rots :
    /\ m.kind = "activate" /\ m.token = j /\ m.cred = j /\ m.by = r
    /\ rot[j].state = "activation_requested" /\ rot'[j].state = "activation_requested"
    /\ rot'[j].claim = r /\ rec'[r].pc = "activate" /\ remote' = remote
SentRetire(m) ==
  \E r \in Recs, j \in Rots :
    /\ m.kind = "revoke" /\ m.cred = rot[j].old.ref /\ m.by = r /\ ~rot[j].old.legacy
    /\ rec[r].pc = "swap" /\ rec[r].job = j /\ rot[j].claim = r
    /\ agent'.ref = j /\ UNCHANGED <<rot, remote>>
SentCompensate(m) ==
  \E r \in Recs, j \in Rots :
    /\ m.kind = "revoke" /\ m.cred = j /\ m.by = r
    /\ rec[r].pc = "swap" /\ rec[r].job = j /\ rot[j].claim = r
    /\ ~MaySwap(j) /\ agent.ref # j /\ UNCHANGED <<agent, rot, remote>>
SentRemoval(m) ==
  /\ m.kind = "revoke" /\ m.cred = removal.old.ref /\ m.by = Removal
  /\ ~removal.old.legacy /\ removal.phase # "none" /\ removal'.phase # "none"
  /\ removal'.old = removal.old /\ UNCHANGED <<rot, remote>>
WireStep(m) ==
  m \in wire \/ SentActivate(m) \/ SentRetire(m) \/ SentCompensate(m) \/ SentRemoval(m)

LEMMA ClaimSends ==
  ASSUME TypeOK, NEW r \in Recs, NEW j \in Rots, Claim(r, j), NEW m \in wire'
  PROVE  m \in wire \/ SentActivate(m)
<1>0. RecTyped /\ wire \subseteq Request /\ "none" \in Replies /\ j \in Creds /\ Removal \notin Rots
      /\ remote' = remote
  BY TypedParts, NamesApart, Zenon DEF Replies, Claim
<1>1. CASE /\ RowsStay /\ rot'[j].claim = r
           /\ rot[j].state = "activation_requested"
           /\ Enter(r, j, "activate", "none") /\ Send("activate", j, j, r)
  <2>1. m \in wire \/ (m.kind = "activate" /\ m.token = j /\ m.cred = j /\ m.by = r)
    <3>1. "activate" \in {"activate", "revoke"} /\ r \in Recs \cup {Removal}
      OBVIOUS
    <3> QED BY <1>0, <1>1, <3>1, SendDoes
  <2>2. rec'[r].pc = "activate"
    <3>1. "activate" \in {"validate", "activate", "swap", "revoke", "compensate"}
      OBVIOUS
    <3> QED BY <1>0, <1>1, <3>1, EnterDoes, Zenon
  <2>3. rot'[j].state = "activation_requested"
    BY <1>1, Zenon DEF RowsStay
  <2> QED BY <1>0, <1>1, <2>1, <2>2, <2>3, Zenon DEF SentActivate
<1>2. CASE wire' = wire
  BY <1>2
<1> QED BY <1>1, <1>2, ClaimMoves, Zenon

LEMMA SwapSends ==
  ASSUME TypeOK, NEW r \in Recs, SwapRegistry(r), NEW m \in wire'
  PROVE  m \in wire \/ SentRetire(m) \/ SentCompensate(m)
<1> DEFINE j == rec[r].job
<1>0. RecTyped /\ wire \subseteq Request /\ j \in Rots /\ j \in Creds /\ r \in Recs \cup {Removal}
      /\ rot[j] \in RotRow /\ agent \in AgentRow
  BY SwapDoes, TypedParts, NamesApart, Zenon
<1>1. "revoke" \in {"activate", "revoke"} /\ rot[j].old.ref \in Creds
  BY <1>0, RotFields, AgentFields, Zenon
<1>2. rec[r].pc = "swap" /\ remote' = remote
  BY Zenon DEF SwapRegistry
<1>3. agent' = IF MaySwap(j) THEN SwappedAgent(j) ELSE agent
  BY SwapDoes, Zenon
<1>4. MaySwap(j) => agent'.ref = j
  BY <1>0, <1>3, SwappedTyped, Zenon
<1>5. CASE wire' = wire
  BY <1>5
<1>6. CASE /\ rot' = rot /\ Fenced(r) /\ (MaySwap(j) \/ agent.ref = j)
           /\ ~rot[j].old.legacy /\ Send("revoke", j, rot[j].old.ref, r)
  <2>1. rot[j].claim = r
    BY <1>0, <1>6, FencedJob, Zenon
  <2>2. agent'.ref = j
    BY <1>3, <1>4, <1>6, Zenon
  <2>3. m \in wire \/ (m.kind = "revoke" /\ m.cred = rot[j].old.ref /\ m.by = r)
    BY <1>0, <1>1, <1>6, SendDoes
  <2> QED BY <1>0, <1>2, <1>6, <2>1, <2>2, <2>3, Zenon DEF SentRetire
<1>7. CASE /\ rot' = rot /\ Fenced(r) /\ ~MaySwap(j) /\ agent.ref # j /\ agent.present
           /\ Send("revoke", j, j, r)
  <2>1. rot[j].claim = r /\ agent' = agent
    BY <1>0, <1>3, <1>7, FencedJob, Zenon
  <2>3. m \in wire \/ (m.kind = "revoke" /\ m.cred = j /\ m.by = r)
    BY <1>0, <1>1, <1>7, SendDoes
  <2> QED BY <1>0, <1>2, <1>7, <2>1, <2>3, Zenon DEF SentCompensate
<1> QED BY <1>5, <1>6, <1>7, SwapDoes, Zenon

LEMMA WireSteps ==
  ASSUME TypeOK, [Next]_vars
  PROVE  \A m \in wire' : WireStep(m)
<1> SUFFICES ASSUME NEW m \in wire' PROVE WireStep(m)
  OBVIOUS
<1>a. wire' \subseteq wire => WireStep(m)
  BY Zenon DEF WireStep
<1>1. ASSUME NEW j \in Rots, RotStep(j) PROVE wire' = wire
  BY <1>1, Zenon DEF RotStep, StartRotation, Publish, Close, PendingLapses, LeaseLapses
<1>2. ASSUME NEW r \in Recs, RecStep(r) PROVE WireStep(m)
  <2>1. ASSUME NEW j \in Rots, ConsumeRotation(r, j) PROVE wire' = wire
    BY <2>1, Zenon DEF ConsumeRotation
  <2>2. CASE NothingToClaim(r) \/ Abandon(r) \/ EndValidation(r) \/ EndActivation(r)
    BY <1>a, <2>2, Zenon DEF NothingToClaim, Abandon, EndValidation, EndActivation
  <2>3. CASE RetireOld(r) \/ EndCompensation(r) \/ RecoverCleanup(r)
    BY <1>a, <2>3, Zenon DEF RetireOld, EndCompensation, RecoverCleanup
  <2>4. CASE CrashInRetire(r) \/ RestartRecovers(r)
    BY <1>a, <2>4, Zenon DEF CrashInRetire, RestartRecovers, Die
  <2> QED BY <1>2, <1>a, <2>1, <2>2, <2>3, <2>4, ClaimSends, SwapSends, Zenon DEF RecStep, WireStep
<1>3. ASSUME NEW u \in Upds, UpdStep(u) PROVE wire' = wire
  BY <1>3, Zenon DEF UpdStep, BeginUpdate, EndUpdate, UpdateFails, CrashInUpdate, Die
<1>4. CASE RmStep
  <2>1. CASE BeginRevoke
    <3>1. CASE /\ SetPhase("revoking")
               /\ Send("revoke", removal.old.ref, removal.old.ref, Removal)
      <4>1. removal \in RemovalRow /\ wire \subseteq Request
        BY TypedParts, Zenon
      <4>2. removal.old.ref \in Creds /\ "revoke" \in {"activate", "revoke"}
            /\ Removal \in Recs \cup {Removal}
        BY <4>1, AgentFields DEF RemovalRow
      <4>3. m \in wire \/ (m.kind = "revoke" /\ m.cred = removal.old.ref /\ m.by = Removal)
        BY <3>1, <4>1, <4>2, SendDoes
      <4>4. removal'.phase = "revoking" /\ removal'.old = removal.old
        BY <3>1, <4>1, RmRows, PhaseSet, Zenon
      <4>5. /\ removal.phase \in {"pending", "revoking", "residual"} /\ ~removal.old.legacy
            /\ UNCHANGED <<rot, remote>>
        BY <2>1, Zenon DEF BeginRevoke, NeedsRevoke
      <4>6. removal.phase # "none" /\ removal'.phase # "none"
        BY <4>4, <4>5
      <4> QED BY <4>3, <4>4, <4>5, <4>6, Zenon DEF SentRemoval, WireStep
    <3>2. CASE wire' = wire
      BY <1>a, <3>2
    <3> QED BY <2>1, <3>1, <3>2, Zenon DEF BeginRevoke
  <2>2. CASE wire' = wire
    BY <1>a, <2>2
  <2> QED BY <1>4, <2>1, <2>2, Zenon DEF RmStep, RemoveAgent, EndRevoke, SkipRevoke,
    DeleteRegistryRow, DeleteRefused, DeleteToken, Complete, CrashInDelete, CrashInToken, Die
<1>5. ASSUME NEW n \in wire, AgentHandles(n) \/ Lose(n) PROVE wire' \subseteq wire
  BY <1>5, Zenon DEF AgentHandles, Lose
<1>6. CASE Pin \/ Restart \/ SweepOrphans \/ Crash \/ UNCHANGED vars
  BY <1>a, <1>6, Zenon DEF Pin, Restart, SweepOrphans, Crash, Die, vars
<1> QED BY <1>a, <1>1, <1>2, <1>3, <1>4, <1>5, <1>6, Zenon DEF Next
\* A recoverer that was answered, or that starts on a job.
RecAnswered(r) ==
  /\ rec'[r].pc = rec[r].pc /\ rec'[r].job = rec[r].job
  /\ rec'[r].reply = "ok" =>
       /\ rec[r].pc = "activate" => remote'[rec[r].job] = "active"
       /\ rec[r].pc = "revoke" => remote'[rot[rec[r].job].old.ref] = "revoked"
       /\ rec[r].pc = "compensate" => remote'[rec[r].job] = "revoked"
  /\ UNCHANGED <<agent, rot>>
RecValidates(r) ==
  \E j \in Rots : /\ rec'[r].pc = "validate" /\ rec'[r].job = j /\ rot[j].state = "verified"
                  /\ RowsStay /\ UNCHANGED <<wire, remote>>
RecActivates(r) == rec'[r].pc = "activate" /\ rec'[r].reply = "none"
RecSwaps(r) ==
  \E j \in Rots : rec'[r].pc = "swap" /\ rec'[r].job = j /\ rot'[j].state = "activated"
RecRetires(r) ==
  \E j \in Rots :
    /\ rec[r].pc = "swap" /\ rec[r].job = j /\ rot[j].claim = r
    /\ rec'[r].pc = "revoke" /\ rec'[r].job = j /\ UNCHANGED <<rot, remote>>
    /\ \/ MaySwap(j) /\ agent'.rev = rot[j].old.rev + 1
       \/ agent.ref = j /\ agent' = agent
    /\ rec'[r].reply = "ok" => rot[j].old.legacy
RecCompensates(r) ==
  \E j \in Rots :
    /\ rec[r].pc = "swap" /\ rec[r].job = j /\ rot[j].claim = r
    /\ rec'[r].pc = "compensate" /\ rec'[r].job = j /\ rec'[r].reply = "none"
    /\ ~MaySwap(j) /\ agent.ref # j /\ UNCHANGED <<agent, rot>>
RecMoves(r) ==
  \/ rec'[r].pc \in Jobless
  \/ rec'[r] = rec[r]
  \/ RecAnswered(r) \/ RecValidates(r) \/ RecActivates(r) \/ RecSwaps(r) \/ RecRetires(r)
  \/ RecCompensates(r)

\* A claim is newly held only by a recoverer that was looking for work.
ClaimTaken(k, r) == rot'[k].claim = r => rot[k].claim = r \/ rec[r].pc \in Jobless

LEMMA AnswersDo ==
  ASSUME TypeOK, NEW m \in wire, AgentHandles(m), NEW r \in Recs
  PROVE  RecMoves(r)
<1>0. RecTyped /\ remote \in [Creds -> RemoteStates]
  BY TypedParts, Zenon
<1>1. CASE rec' = rec
  BY <1>1, Zenon DEF RecMoves
<1>2. CASE /\ m.by \in Recs
           /\ rec' = [rec EXCEPT ![m.by].reply = IF Authorised(m) THEN "ok" ELSE "rejected"]
           /\ \/ /\ rec[m.by].pc = m.kind
                 /\ m.cred = IF m.kind = "revoke" THEN rot[rec[m.by].job].old.ref
                                                  ELSE rec[m.by].job
              \/ /\ rec[m.by].pc = "compensate" /\ m.kind = "revoke"
                 /\ m.cred = rec[m.by].job
  <2> DEFINE reply == IF Authorised(m) THEN "ok" ELSE "rejected"
  <2>1. reply \in Replies /\ (reply = "ok" => Authorised(m))
    BY DEF Replies
  <2>2. rec' = [rec EXCEPT ![m.by].reply = reply]
    BY <1>2
  <2> HIDE DEF reply
  <2>3. /\ OthersStay(m.by) /\ rec'[m.by].pc = rec[m.by].pc
        /\ rec'[m.by].job = rec[m.by].job /\ rec'[m.by].reply = reply
    BY <1>0, <1>2, <2>1, <2>2, RecReply, Zenon
  <2>4. CASE r # m.by
    BY <2>3, <2>4, Zenon DEF OthersStay, RecMoves
  <2>5. CASE r = m.by
    <3>1. m.kind \in {"activate", "revoke"} /\ m.cred \in Creds
          /\ (Authorised(m) => remote' = [remote EXCEPT ![m.cred] =
                   IF m.kind = "activate" THEN "active" ELSE "revoked"])
      BY HandlesDoes, Zenon
    <3>2. Authorised(m) => remote'[m.cred] = IF m.kind = "activate" THEN "active" ELSE "revoked"
      BY <1>0, <3>1, Zenon
    <3>3. rec'[r].reply = "ok" =>
            /\ rec[r].pc = "activate" => remote'[rec[r].job] = "active"
            /\ rec[r].pc = "revoke" => remote'[rot[rec[r].job].old.ref] = "revoked"
            /\ rec[r].pc = "compensate" => remote'[rec[r].job] = "revoked"
      BY <1>2, <2>1, <2>3, <2>5, <3>1, <3>2
    <3>4. UNCHANGED <<agent, rot>>
      BY Zenon DEF AgentHandles
    <3> QED BY <2>3, <2>5, <3>3, <3>4, Zenon DEF RecMoves, RecAnswered
  <2> QED BY <2>4, <2>5
<1> QED BY <1>1, <1>2, HandlesDoes, Zenon

\* Where the others stay and r is at a known point.
LEMMA EntersAt ==
  ASSUME RecTyped, NEW r \in Recs, NEW j \in Rots, NEW reply \in Replies,
         NEW pc \in {"validate", "activate", "swap", "revoke", "compensate"},
         Enter(r, j, pc, reply)
  PROVE  /\ rec'[r].pc = pc /\ rec'[r].job = j /\ rec'[r].reply = reply
         /\ \A s \in Recs : s # r => rec'[s] = rec[s]
<1>1. rec'[r].pc = pc /\ rec'[r].job = j /\ rec'[r].reply = reply /\ OthersStay(r)
  BY EnterDoes
<1> QED BY <1>1, Zenon DEF OthersStay

LEMMA LeavesAt ==
  ASSUME RecTyped, NEW r \in Recs, Leave(r), NEW s \in Recs
  PROVE  RecMoves(s)
  BY LeaveDoes, Zenon DEF RecMoves, OthersStay, Jobless

LEMMA RecMovesRec ==
  ASSUME TypeOK, ClaimInv, NEW r \in Recs, RecStep(r), NEW s \in Recs
  PROVE  RecMoves(s)
<1>0. RecTyped /\ "none" \in Replies /\ "ok" \in Replies
      /\ "validate" \in {"validate", "activate", "swap", "revoke", "compensate"}
      /\ "activate" \in {"validate", "activate", "swap", "revoke", "compensate"}
      /\ "swap" \in {"validate", "activate", "swap", "revoke", "compensate"}
      /\ "revoke" \in {"validate", "activate", "swap", "revoke", "compensate"}
      /\ "compensate" \in {"validate", "activate", "swap", "revoke", "compensate"}
  BY TypedParts, Zenon DEF Replies
<1>1. ASSUME NEW j \in Rots, ConsumeRotation(r, j) PROVE RecMoves(s)
  BY <1>0, <1>1, RecAt, Zenon DEF ConsumeRotation, RecMoves, OthersStay
<1>2. ASSUME NEW j \in Rots, Claim(r, j) PROVE RecMoves(s)
  <2>1. CASE Leave(r)
    BY <1>0, <2>1, LeavesAt, Zenon
  <2>2. CASE RowsStay /\ rot[j].state = "verified" /\ Enter(r, j, "validate", "none") /\ wire' = wire
    <3>1. /\ rec'[r].pc = "validate" /\ rec'[r].job = j
          /\ s # r => rec'[s] = rec[s]
      BY <1>0, <2>2, EntersAt, Zenon
    <3>2. remote' = remote
      BY <1>2, Zenon DEF Claim
    <3> QED BY <2>2, <3>1, <3>2, Zenon DEF RecMoves, RecValidates
  <2>3. CASE Enter(r, j, "activate", "none")
    <3>1. /\ rec'[r].pc = "activate" /\ rec'[r].reply = "none"
          /\ s # r => rec'[s] = rec[s]
      BY <1>0, <2>3, EntersAt, Zenon
    <3> QED BY <3>1, Zenon DEF RecMoves, RecActivates
  <2>4. CASE RowsStay /\ rot[j].state = "activated" /\ Enter(r, j, "swap", "none")
    <3>1. /\ rec'[r].pc = "swap" /\ rec'[r].job = j
          /\ s # r => rec'[s] = rec[s]
      BY <1>0, <2>4, EntersAt, Zenon
    <3>2. rot'[j].state = "activated"
      BY <2>4, Zenon DEF RowsStay
    <3> QED BY <3>1, <3>2, Zenon DEF RecMoves, RecSwaps
  <2> QED BY <1>2, <2>1, <2>2, <2>3, <2>4, ClaimMoves, Zenon
<1>3. CASE NothingToClaim(r) \/ Abandon(r) \/ EndValidation(r) \/ RetireOld(r) \/ EndCompensation(r)
  BY <1>0, <1>3, LeavesAt, Zenon DEF NothingToClaim, Abandon, EndValidation, RetireOld, EndCompensation
<1>4. CASE RecoverCleanup(r) \/ RestartRecovers(r)
  BY <1>0, <1>4, RecAt, Zenon DEF RecoverCleanup, RestartRecovers, RecMoves, OthersStay
<1>5. CASE EndActivation(r)
  <2>0. rec[r].job \in Rots
    BY <1>5, ActivationMoves, Zenon
  <2>1. CASE RowMoves(rec[r].job, "activated", r) /\ Enter(r, rec[r].job, "swap", "none")
    <3>1. /\ rec'[r].pc = "swap" /\ rec'[r].job = rec[r].job
          /\ s # r => rec'[s] = rec[s]
      BY <1>0, <2>0, <2>1, EntersAt, Zenon
    <3>2. rot'[rec[r].job].state = "activated"
      BY <2>1, Zenon DEF RowMoves
    <3> QED BY <2>0, <3>1, <3>2, Zenon DEF RecMoves, RecSwaps
  <2>2. CASE Leave(r)
    BY <1>0, <2>2, LeavesAt, Zenon
  <2> QED BY <1>5, <2>1, <2>2, ActivationMoves, Zenon
<1>6. CASE SwapRegistry(r)
  <2> DEFINE j == rec[r].job
  <2>0. j \in Rots /\ rot[j] \in RotRow /\ agent \in AgentRow
        /\ agent' = IF MaySwap(j) THEN SwappedAgent(j) ELSE agent
    BY <1>6, SwapDoes, TypedParts, Zenon
  <2>1. rec[r].pc = "swap" /\ remote' = remote
    BY <1>6, Zenon DEF SwapRegistry
  <2>2. MaySwap(j) => agent'.rev = rot[j].old.rev + 1
    BY <2>0, SwappedTyped, Zenon
  <2>3. CASE Leave(r)
    BY <1>0, <2>3, LeavesAt, Zenon
  <2>4. CASE rot' = rot /\ Fenced(r) /\ (MaySwap(j) \/ agent.ref = j)
             /\ (Enter(r, j, "revoke", "none") \/ (rot[j].old.legacy /\ Enter(r, j, "revoke", "ok")))
    <3>1. PICK reply \in Replies : Enter(r, j, "revoke", reply) /\ (reply = "ok" => rot[j].old.legacy)
      BY <1>0, <2>4
    <3>2. /\ rec'[r].pc = "revoke" /\ rec'[r].job = j /\ rec'[r].reply = reply
          /\ s # r => rec'[s] = rec[s]
      BY <1>0, <2>0, <3>1, EntersAt, Zenon
    <3>3. rot[j].claim = r
      BY <1>0, <2>4, FencedJob, Zenon
    <3>4. \/ MaySwap(j) /\ agent'.rev = rot[j].old.rev + 1
          \/ agent.ref = j /\ agent' = agent
      BY <2>0, <2>2, <2>4, Zenon
    <3> QED BY <2>0, <2>1, <2>4, <3>1, <3>2, <3>3, <3>4, Zenon DEF RecMoves, RecRetires
  <2>5. CASE /\ rot' = rot /\ Fenced(r) /\ ~MaySwap(j) /\ agent.ref # j
             /\ Enter(r, j, "compensate", "none")
    <3>1. /\ rec'[r].pc = "compensate" /\ rec'[r].job = j /\ rec'[r].reply = "none"
          /\ s # r => rec'[s] = rec[s]
      BY <1>0, <2>0, <2>5, EntersAt, Zenon
    <3>2. rot[j].claim = r /\ agent' = agent
      BY <1>0, <2>0, <2>5, FencedJob, Zenon
    <3> QED BY <2>0, <2>1, <2>5, <3>1, <3>2, Zenon DEF RecMoves, RecCompensates
  <2> QED BY <1>6, <2>3, <2>4, <2>5, SwapDoes, Zenon
<1>7. CASE CrashInRetire(r)
  BY <1>7, DieTyped, Zenon DEF CrashInRetire, RecMoves
<1> QED BY <1>1, <1>2, <1>3, <1>4, <1>5, <1>6, <1>7, Zenon DEF RecStep

LEMMA RecSteps ==
  ASSUME TypeOK, ClaimInv, [Next]_vars
  PROVE  \A r \in Recs : RecMoves(r)
<1> SUFFICES ASSUME NEW r \in Recs PROVE RecMoves(r)
  OBVIOUS
<1>a. rec' = rec => RecMoves(r)
  BY Zenon DEF RecMoves
<1>b. Die => RecMoves(r)
  BY DieTyped, Zenon DEF RecMoves
<1>1. ASSUME NEW j \in Rots, RotStep(j) PROVE rec' = rec
  BY <1>1, Zenon DEF RotStep, StartRotation, Publish, Close, PendingLapses, LeaseLapses
<1>2. ASSUME NEW u \in Upds, UpdStep(u) PROVE rec' = rec \/ Die
  BY <1>2, Zenon DEF UpdStep, BeginUpdate, EndUpdate, UpdateFails, CrashInUpdate
<1>3. ASSUME RmStep PROVE rec' = rec \/ Die
  BY <1>3, Zenon DEF RmStep, RemoveAgent, BeginRevoke, EndRevoke, SkipRevoke, DeleteRegistryRow,
    DeleteRefused, DeleteToken, Complete, CrashInDelete, CrashInToken
<1>4. ASSUME NEW m \in wire, Lose(m) PROVE rec' = rec
  BY <1>4, Zenon DEF Lose
<1>5. CASE Pin \/ Restart \/ SweepOrphans \/ Crash \/ UNCHANGED vars
  BY <1>a, <1>b, <1>5, Zenon DEF Pin, Restart, SweepOrphans, Crash, vars
<1> QED BY <1>a, <1>b, <1>1, <1>2, <1>3, <1>4, <1>5, AnswersDo, RecMovesRec, Zenon DEF Next
\* Claims.
LEMMA ClaimSteps ==
  ASSUME TypeOK, [Next]_vars
  PROVE  \A k \in Rots, r \in Recs : ClaimTaken(k, r)
<1>0. RecTyped /\ \A s \in Recs : s # NoOwner
  BY TypedParts, NamesApart, Zenon
<1>a. ClaimsFall => \A k \in Rots, r \in Recs : ClaimTaken(k, r)
  BY <1>0, Zenon DEF ClaimsFall, ClaimTaken
<1>b. rot' = rot => \A k \in Rots, r \in Recs : ClaimTaken(k, r)
  BY <1>a, RowsSame, Zenon
<1>c. ASSUME NEW j \in Rots, NEW s, NEW c, RowMoves(j, s, c), c = rot[j].claim \/ c = NoOwner
      PROVE  \A k \in Rots, r \in Recs : ClaimTaken(k, r)
  <2>1. ClaimsFall
    BY <1>c, Zenon DEF RowMoves, ClaimsFall
  <2> QED BY <1>a, <2>1
<1>1. ASSUME NEW j \in Rots, RotStep(j) PROVE \A k \in Rots, r \in Recs : ClaimTaken(k, r)
  <2>1. CASE StartRotation(j)
    <3>1. ClaimsFall
      BY <2>1, StartMoves, Zenon DEF ClaimsFall
    <3> QED BY <1>a, <3>1
  <2>2. CASE PendingLapses(j)
    BY <1>b, <2>2, Zenon DEF PendingLapses
  <2> QED BY <1>a, <1>c, <1>1, <2>1, <2>2, PublishMoves, CloseMoves, LapseMoves, Zenon DEF RotStep
<1>2. ASSUME NEW r \in Recs, RecStep(r) PROVE \A k \in Rots, s \in Recs : ClaimTaken(k, s)
  <2>1. ASSUME NEW j \in Rots, Claim(r, j) PROVE \A k \in Rots, s \in Recs : ClaimTaken(k, s)
    <3>1. rec[r].pc \in Jobless
      BY <2>1 DEF Claim, Looks, Jobless
    <3>2. CASE rot'[j].claim = r /\ \A k \in Rots : k # j => rot'[k].claim = rot[k].claim
      BY <3>1, <3>2, Zenon DEF ClaimTaken
    <3> QED BY <1>a, <1>c, <2>1, <3>2, ClaimMoves, Zenon
  <2>2. ASSUME NEW j \in Rots, ConsumeRotation(r, j)
        PROVE  \A k \in Rots, s \in Recs : ClaimTaken(k, s)
    BY <1>c, <2>2, ConsumeMoves, Zenon
  <2>3. CASE NothingToClaim(r) \/ Abandon(r) \/ RestartRecovers(r) \/ CrashInRetire(r)
    BY <1>b, <2>3, Zenon DEF NothingToClaim, Abandon, RestartRecovers, CrashInRetire
  <2>4. CASE EndValidation(r) \/ RetireOld(r) \/ EndCompensation(r) \/ RecoverCleanup(r)
    BY <1>a, <1>c, <2>4, ValidationMoves, RetireMoves, CompensationMoves, CleanupMoves, Zenon
  <2>5. CASE EndActivation(r)
    BY <1>a, <1>c, <2>5, ActivationMoves, Zenon
  <2>6. CASE SwapRegistry(r)
    BY <1>a, <1>b, <2>6, SwapDoes, ResidualMoves, Zenon
  <2> QED BY <1>2, <2>1, <2>2, <2>3, <2>4, <2>5, <2>6, Zenon DEF RecStep
<1>3. ASSUME NEW u \in Upds, UpdStep(u) PROVE rot' = rot
  BY <1>3, Zenon DEF UpdStep, BeginUpdate, EndUpdate, UpdateFails, CrashInUpdate
<1>4. ASSUME NEW m \in wire, AgentHandles(m) \/ Lose(m) PROVE rot' = rot
  BY <1>4, Zenon DEF AgentHandles, Lose
<1>5. CASE Pin \/ Restart \/ SweepOrphans \/ Crash \/ UNCHANGED vars
  BY <1>b, <1>5, Zenon DEF Pin, Restart, SweepOrphans, Crash, vars
<1> QED BY <1>b, <1>1, <1>2, <1>3, <1>4, <1>5, RmLeavesRot, Zenon DEF Next

\* An update request does not become open again.
LEMMA UpdSteps ==
  ASSUME TypeOK, [Next]_vars
  PROVE  \A u \in Upds : upd'[u].pc # "done" => upd[u].pc # "done"
<1>0. upd \in [Upds -> UpdRow]
  BY TypedParts, Zenon
<1>a. upd' = upd => \A u \in Upds : upd'[u].pc # "done" => upd[u].pc # "done"
  BY Zenon
<1>b. ASSUME Die PROVE \A u \in Upds : upd'[u].pc # "done" => upd[u].pc # "done"
  <2>1. \A u \in Upds : (upd'[u].pc = "none" => upd[u].pc = "none") /\ upd'[u].pc # "validating"
    BY <1>b, DieTyped, Zenon
  <2>2. upd' \in [Upds -> UpdRow]
    BY <1>b, DieTyped, Zenon
  <2>3. \A u \in Upds : upd'[u].pc \in {"none", "validating", "done"}
    BY <2>2 DEF UpdRow
  <2> QED BY <2>1, <2>3
<1>1. ASSUME NEW v \in Upds, UpdStep(v) PROVE \A u \in Upds : upd'[u].pc # "done" => upd[u].pc # "done"
  <2>1. CASE BeginUpdate(v)
    <3>1. upd[v].pc = "none" /\ \A u \in Upds : u # v => upd'[u] = upd[u]
      BY <1>0, <2>1, Zenon DEF BeginUpdate
    <3> QED BY <3>1
  <2>2. CASE upd' = [upd EXCEPT ![v].pc = "done"]
    BY <1>0, <2>2, UpdAt, Zenon
  <2> QED BY <1>b, <1>1, <2>1, <2>2, Zenon DEF UpdStep, EndUpdate, UpdateFails, CrashInUpdate
<1>2. ASSUME NEW j \in Rots, RotStep(j) PROVE upd' = upd
  BY <1>2, Zenon DEF RotStep, StartRotation, Publish, Close, PendingLapses, LeaseLapses
<1>3. ASSUME NEW r \in Recs, RecStep(r) PROVE upd' = upd \/ Die
  <2>1. ASSUME NEW j \in Rots, ConsumeRotation(r, j) \/ Claim(r, j) PROVE upd' = upd
    BY <2>1, Zenon DEF ConsumeRotation, Claim
  <2>2. CASE NothingToClaim(r) \/ Abandon(r) \/ EndValidation(r) \/ EndActivation(r)
    BY <2>2, Zenon DEF NothingToClaim, Abandon, EndValidation, EndActivation
  <2>3. CASE RetireOld(r) \/ EndCompensation(r) \/ RecoverCleanup(r) \/ SwapRegistry(r)
    BY <2>3, Zenon DEF RetireOld, EndCompensation, RecoverCleanup, SwapRegistry
  <2>4. CASE CrashInRetire(r) \/ RestartRecovers(r)
    BY <2>4, Zenon DEF CrashInRetire, RestartRecovers
  <2> QED BY <1>3, <2>1, <2>2, <2>3, <2>4, Zenon DEF RecStep
<1>4. ASSUME RmStep PROVE upd' = upd \/ Die
  BY <1>4, Zenon DEF RmStep, RemoveAgent, BeginRevoke, EndRevoke, SkipRevoke, DeleteRegistryRow,
    DeleteRefused, DeleteToken, Complete, CrashInDelete, CrashInToken
<1>5. ASSUME NEW m \in wire, AgentHandles(m) \/ Lose(m) PROVE upd' = upd
  BY <1>5, Zenon DEF AgentHandles, Lose
<1>6. CASE Pin \/ Restart \/ SweepOrphans \/ Crash \/ UNCHANGED vars
  BY <1>a, <1>b, <1>6, Zenon DEF Pin, Restart, SweepOrphans, Crash, vars
<1> QED BY <1>a, <1>b, <1>1, <1>2, <1>3, <1>4, <1>5, <1>6, Zenon DEF Next

\* One token file appears, or goes.
FileAppears(f) ==
  \/ f \in Rots /\ rot[f].state = "open"
  \/ f \in Upds /\ upd[f].pc = "validating"
FileEnded(f) == f \in Rots /\ rot'[f].state \in {"failed", "closed"}
FileRetired(f) ==
  \E r \in Recs : /\ rec[r].pc = "revoke" /\ rec[r].reply = "ok" /\ rec[r].job \in Rots
                  /\ rot[rec[r].job].claim = r /\ f = rot[rec[r].job].old.ref
                  /\ UNCHANGED <<agent, remote>>
FileReplaced(f) ==
  /\ f = agent.ref /\ ~agent.pinned /\ UNCHANGED <<remote, rot>>
  /\ \E u \in Upds : agent'.ref = u /\ upd[u].pc = "validating"
FileRefused(f) == f \in Upds /\ upd[f].pc = "validating" /\ UNCHANGED <<agent, remote>>
FileRemoved(f) == f = removal.old.ref /\ removal.phase = "registry_deleted"
FileSwept(f) ==
  /\ ~(agent.present /\ f = agent.ref)
  /\ \A j \in Rots : ~(rot[j].temp /\ f = j) /\ ~(rot[j].kept /\ f = rot[j].old.ref)
  /\ UNCHANGED <<agent, rot, removal, remote>>
FileGoes(f) ==
  \/ FileEnded(f) \/ FileRetired(f) \/ FileReplaced(f) \/ FileRefused(f) \/ FileRemoved(f)
  \/ FileSwept(f)

FileStep(f) ==
  /\ f \in files' /\ f \notin files => FileAppears(f)
  /\ f \in files /\ f \notin files' => FileGoes(f)

LEMMA FileRecStep ==
  ASSUME TypeOK, NEW r \in Recs, RecStep(r)
  PROVE  \A f \in Creds : FileStep(f)
<1>0. RecTyped
  BY TypedParts, Zenon
<1>a. files' = files => \A f \in Creds : FileStep(f)
  BY Zenon DEF FileStep
<1>1. ASSUME NEW j \in Rots, ConsumeRotation(r, j) \/ Claim(r, j) PROVE files' = files
  BY <1>1, Zenon DEF ConsumeRotation, Claim
<1>2. CASE NothingToClaim(r) \/ Abandon(r) \/ EndValidation(r) \/ EndActivation(r)
  BY <1>a, <1>2, Zenon DEF NothingToClaim, Abandon, EndValidation, EndActivation
<1>3. CASE SwapRegistry(r) \/ RestartRecovers(r)
  BY <1>a, <1>3, Zenon DEF SwapRegistry, RestartRecovers
<1>4. CASE /\ (RetireOld(r) \/ CrashInRetire(r)) /\ rec[r].reply = "ok"
           /\ files' = files \ {rot[rec[r].job].old.ref}
  <2>1. rec[r].pc = "revoke" /\ Fenced(r) /\ UNCHANGED <<agent, remote>>
    BY <1>4, Zenon DEF RetireOld, CrashInRetire, Die
  <2>2. rec[r].job \in Rots /\ rot[rec[r].job].claim = r
    BY <1>0, <2>1, FencedJob, Zenon
  <2> QED BY <1>4, <2>1, <2>2, Zenon DEF FileStep, FileGoes, FileRetired
<1>5. CASE RetireOld(r) \/ CrashInRetire(r)
  <2>1. \/ files' = files
        \/ rec[r].reply = "ok" /\ files' = files \ {rot[rec[r].job].old.ref}
    BY <1>5, RetireMoves, Zenon DEF CrashInRetire
  <2> QED BY <1>a, <1>4, <1>5, <2>1, Zenon
<1>6. CASE EndCompensation(r)
  <2>1. CASE RowMoves(rec[r].job, "failed", NoOwner) /\ files' \in {files, files \ {rec[r].job}}
    <3>1. rec[r].job \in Rots
      BY <1>6, CompensationMoves, Zenon
    <3>2. rot'[rec[r].job].state = "failed"
      BY <2>1, Zenon DEF RowMoves
    <3>3. rot'[rec[r].job].state \in {"failed", "closed"}
      BY <3>2
    <3> QED BY <2>1, <3>1, <3>3, Zenon DEF FileStep, FileGoes, FileEnded
  <2> QED BY <1>a, <1>6, <2>1, CompensationMoves, Zenon
<1>7. CASE RecoverCleanup(r)
  <2>1. /\ RowsStay
        /\ \E D \in SUBSET {j \in Rots : rot[j].state \in {"failed", "closed"}} :
             files' = files \ D
    BY <1>7, CleanupMoves, Zenon
  <2>2. PICK D \in SUBSET {j \in Rots : rot[j].state \in {"failed", "closed"}} :
             files' = files \ D
    BY <2>1, Zenon
  <2>3. \A f \in D : f \in Rots /\ rot'[f].state \in {"failed", "closed"}
    BY <2>1, <2>2, Zenon DEF RowsStay
  <2> QED BY <2>2, <2>3, Zenon DEF FileStep, FileGoes, FileEnded
<1> QED BY <1>a, <1>1, <1>2, <1>3, <1>5, <1>6, <1>7, Zenon DEF RecStep

LEMMA FileSteps ==
  ASSUME TypeOK, SnapInv, RmInv, FreshInv, [Next]_vars
  PROVE  \A f \in Creds : FileStep(f)
<1>a. files' = files => \A f \in Creds : FileStep(f)
  BY Zenon DEF FileStep
<1>1. ASSUME NEW j \in Rots, RotStep(j) PROVE \A f \in Creds : FileStep(f)
  <2>1. CASE Publish(j)
    BY <2>1, Zenon DEF Publish, FileStep, FileAppears
  <2>2. CASE Close(j)
    <3>1. files' \in {files, files \ {j}}
      BY <2>2, TypedParts, CloseDoes, Zenon
    <3>2. rot'[j].state = "closed"
      BY <2>2, CloseMoves, Zenon DEF RowMoves
    <3>3. rot'[j].state \in {"failed", "closed"}
      BY <3>2
    <3> QED BY <3>1, <3>3, Zenon DEF FileStep, FileGoes, FileEnded
  <2> QED BY <1>a, <1>1, <2>1, <2>2, Zenon DEF RotStep, StartRotation, PendingLapses, LeaseLapses
<1>2. ASSUME NEW u \in Upds, UpdStep(u) PROVE \A f \in Creds : FileStep(f)
  <2>1. CASE EndUpdate(u)
    <3>0. upd[u].pc = "validating"
      BY <2>1, Zenon DEF EndUpdate
    <3>1. CASE UpdateAccepted(upd[u].old)
      <4>1. AgentUpdated(u)
        BY <2>1, <3>1, AcceptedDoes
      <4>2. CASE files' = files
        BY <1>a, <4>2
      <4>3. CASE agent'.ref = u /\ ~agent.pinned
                 /\ files' \in {files \cup {u}, (files \cup {u}) \ {agent.ref}}
        <5>1. UNCHANGED <<remote, rot>>
          BY <4>1, Zenon DEF AgentUpdated
        <5> QED BY <3>0, <4>3, <5>1, Zenon DEF FileStep, FileGoes, FileReplaced, FileAppears
      <4> QED BY <4>1, <4>2, <4>3, Zenon DEF AgentUpdated
    <3>2. CASE ~UpdateAccepted(upd[u].old)
      <4>1. /\ files' \in {files, files \cup {u}, (files \cup {u}) \ {u}}
            /\ UNCHANGED <<agent, remote>>
        BY <2>1, <3>2, EndUpdateDoes, Zenon DEF EndUpdate
      <4> QED BY <3>0, <4>1, Zenon DEF FileStep, FileGoes, FileRefused, FileAppears
    <3> QED BY <3>1, <3>2
  <2>2. CASE CrashInUpdate(u)
    BY <2>2, Zenon DEF CrashInUpdate, FileStep, FileAppears
  <2> QED BY <1>a, <1>2, <2>1, <2>2, Zenon DEF UpdStep, BeginUpdate, UpdateFails
<1>3. CASE RmStep
  <2>1. CASE /\ removal.phase = "registry_deleted"
             /\ files' \in {files, files \ {removal.old.ref}}
    BY <2>1, Zenon DEF FileStep, FileGoes, FileRemoved
  <2>2. CASE files' = files
    BY <1>a, <2>2
  <2>3. CASE DeleteToken \/ CrashInToken
    BY <2>1, <2>3, Zenon DEF DeleteToken, CrashInToken
  <2> QED BY <1>3, <2>2, <2>3, Zenon DEF RmStep, RemoveAgent, BeginRevoke, EndRevoke, SkipRevoke,
    DeleteRegistryRow, DeleteRefused, Complete, CrashInDelete
<1>4. ASSUME NEW m \in wire, AgentHandles(m) \/ Lose(m) PROVE files' = files
  BY <1>4, Zenon DEF AgentHandles, Lose
<1>5. CASE SweepOrphans
  <2>1. files' = {f \in files : \/ agent.present /\ f = agent.ref
                                \/ \E j \in Rots : \/ rot[j].temp /\ f = j
                                                   \/ rot[j].kept /\ f = rot[j].old.ref}
        /\ UNCHANGED <<agent, rot, removal, remote>>
    BY <1>5, Zenon DEF SweepOrphans
  <2> QED BY <2>1, Zenon DEF FileStep, FileGoes, FileSwept
<1>6. CASE Pin \/ Restart \/ Crash \/ UNCHANGED vars
  BY <1>a, <1>6, Zenon DEF Pin, Restart, Crash, vars
<1> QED BY <1>a, <1>1, <1>2, <1>3, <1>4, <1>5, <1>6, FileRecStep, Zenon DEF Next
-----------------------------------------------------------------------------
(* The invariant is inductive, conjunct by conjunct.                       *)

LEMMA OldRows ==
  ASSUME TypeOK
  PROVE  /\ agent \in AgentRow /\ agent.ref \in Creds
         /\ removal.old \in AgentRow /\ removal.old.ref \in Creds
         /\ \A j \in Rots : rot[j].old \in AgentRow /\ rot[j].old.ref \in Creds
         /\ \A u \in Upds : upd[u].old \in AgentRow /\ upd[u].old.ref \in Creds
         /\ \A m \in wire : m.cred \in Creds /\ m.kind \in {"activate", "revoke"}
                            /\ m.by \in Recs \cup {Removal}
<1>1. agent \in AgentRow /\ removal \in RemovalRow /\ rot \in [Rots -> RotRow]
      /\ upd \in [Upds -> UpdRow] /\ wire \subseteq Request
  BY TypedParts, Zenon
<1>2. removal.old \in AgentRow /\ \A j \in Rots : rot[j].old \in AgentRow
  BY <1>1, Zenon DEF RemovalRow, RotRow
<1>3. \A u \in Upds : upd[u].old \in AgentRow
  BY <1>1, Zenon DEF UpdRow
<1>4. \A m \in wire : m.cred \in Creds /\ m.kind \in {"activate", "revoke"}
                      /\ m.by \in Recs \cup {Removal}
  BY <1>1, Zenon DEF Request
<1> QED BY <1>1, <1>2, <1>3, <1>4, AgentFields, Zenon

\* A row is of the kind its token has, in the next state.
KindThen(a) == (~a.pinned => a.legacy) /\ (a.legacy <=> remote'[a.ref] = "admin")

LEMMA KindNext ==
  ASSUME TypeOK, SagaInv, CredInv, [Next]_vars
  PROVE  KindInv'
<1>0. SnapInv /\ RmInv /\ KindInv /\ FreshInv /\ WireInv /\ JobInv
  BY DEF SagaInv, CredInv
<1>1. \A c \in Creds : remote'[c] = "admin" <=> remote[c] = "admin"
  BY <1>0, AdminFixed
<1>2. ASSUME NEW a, a.ref \in Creds, RowKind(a) PROVE KindThen(a)
  BY <1>1, <1>2, Zenon DEF RowKind, KindThen
<1>3. KindThen(agent)
  BY <1>0, <1>2, OldRows, Zenon DEF KindInv
<1>4. ASSUME NEW a, NEW b, CapturedAgain(a, b), a.ref \in Creds, RowKind(a) PROVE KindThen(b)
  BY <1>2, <1>3, <1>4, Zenon DEF CapturedAgain
<1>5. KindThen(removal'.old)
  BY <1>0, <1>4, OldRows, SnapshotMoves, Zenon DEF KindInv
<1>6. \A j \in Rots : KindThen(rot'[j].old) /\ remote'[j] # "admin"
  BY <1>0, <1>1, <1>4, OldRows, NamesApart, SnapshotMoves, Zenon DEF KindInv
<1>7. \A u \in Upds : KindThen(upd'[u].old) /\ remote'[u] = "admin"
  BY <1>0, <1>1, <1>4, OldRows, NamesApart, SnapshotMoves, Zenon DEF KindInv
<1>8. KindThen(agent')
  <2>1. CASE agent' = agent
    BY <1>3, <2>1, Zenon DEF KindThen
  <2>2. ASSUME NEW j \in Rots, AgentSwapped(j) PROVE KindThen(agent')
    BY <1>6, <2>2, Zenon DEF AgentSwapped, KindThen
  <2>3. ASSUME NEW u \in Upds, AgentUpdated(u) PROVE KindThen(agent')
    <3>1. /\ agent'.pinned <=> agent.pinned
          /\ agent'.legacy <=> agent.legacy
          /\ agent'.ref = agent.ref \/ (agent'.ref = u /\ ~agent.pinned)
      BY <2>3, Zenon DEF AgentUpdated
    <3> QED BY <1>3, <1>7, <3>1, Zenon DEF KindThen
  <2>4. CASE AgentPinned
    BY <1>3, <2>4, Zenon DEF AgentPinned, KindThen
  <2>5. CASE AgentGone
    BY <1>3, <2>5, Zenon DEF AgentGone, KindThen
  <2> QED BY <1>0, <2>1, <2>2, <2>3, <2>4, <2>5, AgentSteps, Zenon DEF AgentStep
<1>9. ASSUME NEW m \in wire' PROVE remote'[m.cred] # "admin"
  <2>1. CASE m \in wire
    BY <1>0, <1>1, <2>1, OldRows, Zenon DEF KindInv
  <2>2. CASE SentActivate(m)
    BY <1>6, <2>2, Zenon DEF SentActivate
  <2>3. CASE SentRetire(m)
    BY <1>0, <2>3, Zenon DEF SentRetire, KindInv, RowKind
  <2>4. CASE SentCompensate(m)
    BY <1>6, <2>4, Zenon DEF SentCompensate
  <2>5. CASE SentRemoval(m)
    BY <1>0, <2>5, Zenon DEF SentRemoval, KindInv, RowKind
  <2> QED BY <2>1, <2>2, <2>3, <2>4, <2>5, WireSteps, Zenon DEF WireStep
<1> QED BY <1>5, <1>6, <1>7, <1>8, <1>9, Zenon DEF KindInv, RowKind, KindThen

LEMMA FreshNext ==
  ASSUME TypeOK, SagaInv, CredInv, [Next]_vars
  PROVE  FreshInv'
<1>0. SnapInv /\ RmInv /\ FreshInv
  BY DEF SagaInv, CredInv
<1> SUFFICES ASSUME NEW u \in Upds, upd'[u].pc # "done"
             PROVE  /\ agent'.ref # u /\ removal'.old.ref # u
                    /\ \A j \in Rots : rot'[j].old.ref # u
                    /\ \A v \in Upds : upd'[v].old.ref # u
  BY Zenon DEF FreshInv
<1>1. /\ agent.ref # u /\ removal.old.ref # u
      /\ \A j \in Rots : rot[j].old.ref # u
      /\ \A v \in Upds : upd[v].old.ref # u
  BY <1>0, UpdSteps, Zenon DEF FreshInv
<1>2. ASSUME NEW a, NEW b, CapturedAgain(a, b), a.ref # u PROVE b.ref # u
  BY <1>1, <1>2, Zenon DEF CapturedAgain
<1>3. /\ removal'.old.ref # u
      /\ \A j \in Rots : rot'[j].old.ref # u
      /\ \A v \in Upds : upd'[v].old.ref # u
  BY <1>1, <1>2, SnapshotMoves, Zenon
<1>4. agent'.ref # u
  <2>1. CASE agent' = agent
    BY <1>1, <2>1, Zenon
  <2>2. ASSUME NEW j \in Rots, AgentSwapped(j) PROVE agent'.ref # u
    BY <2>2, NamesApart, Zenon DEF AgentSwapped
  <2>3. ASSUME NEW v \in Upds, AgentUpdated(v) PROVE agent'.ref # u
    <3>1. upd'[v].pc = "done" /\ (agent'.ref = agent.ref \/ agent'.ref = v)
      BY <2>3, Zenon DEF AgentUpdated
    <3> QED BY <1>1, <3>1, Zenon
  <2>4. CASE AgentPinned \/ AgentGone
    BY <1>1, <2>4, Zenon DEF AgentPinned, AgentGone
  <2> QED BY <1>0, <2>1, <2>2, <2>3, <2>4, AgentSteps, Zenon DEF AgentStep
<1> QED BY <1>3, <1>4, Zenon

\* Past jobs stay past, a consumed job stays consumed; what they replaced
\* stays what it was.
LEMMA PastStays ==
  ASSUME TypeOK, SagaInv, [Next]_vars, NEW k \in Rots
  PROVE  /\ rot[k].state \in Past => rot'[k].state \in Past
         /\ rot[k].state = "consumed" => rot'[k].state = "consumed"
         /\ rot[k].state = "failed" => rot'[k].state = "failed"
         /\ rot[k].state # "none" => rot'[k].state # "none" /\ rot'[k].old = rot[k].old
<1>1. JobStep(k)
  BY JobSteps, Zenon DEF SagaInv
<1>2. rot[k].state # "none" =>
        \/ rot'[k].state = rot[k].state /\ rot'[k].old = rot[k].old
        \/ /\ rot'[k].old = rot[k].old
           /\ \/ rot[k].state \notin Past /\ rot'[k].state # "none"
              \/ rot[k].state = "activated" /\ rot'[k].state \in {"consumed", "failed"}
  BY <1>1 DEF JobStep, JobStays, JobOpens, JobPublished, JobClosed, JobSaved, JobDropped,
    JobInvalid, JobActivated, JobRetired, JobCompensated, Past
<1> QED BY <1>2 DEF Past
\* A registered, or once registered, credential's job does not fail.
LEMMA KeepsActivated ==
  ASSUME TypeOK, SagaInv, CredInv, [Next]_vars, NEW k \in Rots,
         rot[k].state \in {"activated", "consumed"}, rot[k].old.pinned
  PROVE  rot'[k].state \in {"activated", "consumed"} /\ rot'[k].old = rot[k].old
<1>1. JobStep(k)
  BY JobSteps, Zenon DEF SagaInv
<1>2. ~JobCompensated(k)
  <2>1. RecInv
    BY DEF CredInv
  <2> QED BY <2>1, Zenon DEF JobCompensated, RecInv
<1> QED BY <1>1, <1>2 DEF JobStep, JobStays, JobOpens, JobPublished, JobClosed, JobSaved,
  JobDropped, JobInvalid, JobActivated, JobRetired

LEMMA RefNext ==
  ASSUME TypeOK, SagaInv, CredInv, [Next]_vars
  PROVE  RefInv'
<1>0. /\ SnapInv /\ RmInv /\ ClaimInv /\ FreshInv /\ RefInv /\ RecInv
  BY DEF SagaInv, CredInv
<1>1. ASSUME NEW j \in Rots, agent'.ref = j
      PROVE  rot'[j].state \in {"activated", "consumed"} /\ rot'[j].old.pinned
  <2>1. CASE agent.ref = j
    <3>1. rot[j].state \in {"activated", "consumed"} /\ rot[j].old.pinned
      BY <1>0, <2>1, Zenon DEF RefInv
    <3>2. rot'[j].state \in {"activated", "consumed"} /\ rot'[j].old = rot[j].old
      BY <3>1, KeepsActivated
    <3> QED BY <3>1, <3>2, Zenon
  <2>2. CASE AgentSwapped(j)
    <3>1. /\ \E r \in Recs : rec[r].pc = "swap" /\ rec[r].job = j
          /\ rot[j].old.pinned /\ RowsStay
      BY <2>2, Zenon DEF AgentSwapped
    <3>2. rot[j].state \in Past /\ rot[j].state # "failed"
      BY <1>0, <3>1, Zenon DEF RecInv
    <3>3. rot[j].state \in {"activated", "consumed"}
      BY <3>2 DEF Past
    <3> QED BY <3>1, <3>3, Zenon DEF RowsStay
  <2>3. ASSUME NEW i \in Rots, AgentSwapped(i) PROVE i = j
    BY <1>1, <2>3, Zenon DEF AgentSwapped
  <2>4. ASSUME NEW u \in Upds, AgentUpdated(u) PROVE agent.ref = j
    BY <1>1, <2>4, NamesApart, Zenon DEF AgentUpdated
  <2>5. agent' = agent \/ AgentPinned \/ AgentGone => agent.ref = j
    BY <1>1, Zenon DEF AgentPinned, AgentGone
  <2> QED BY <1>0, <2>1, <2>2, <2>3, <2>4, <2>5, AgentSteps, Zenon DEF AgentStep
<1>2. ASSUME NEW j \in Rots, NEW k \in Rots, rot'[k].state # "none", rot'[k].old.ref = j
      PROVE  j # k /\ rot'[j].state = "consumed"
  <2>1. rot[j].state = "consumed" => rot'[j].state = "consumed"
    BY PastStays
  <2>2. CASE rot[k].state # "none"
    <3>1. rot'[k].old = rot[k].old
      BY <2>2, PastStays
    <3> QED BY <1>0, <1>2, <2>1, <2>2, <3>1, Zenon DEF RefInv
  <2>3. CASE rot[k].state = "none"
    <3>1. JobOpens(k)
      <4>1. JobStep(k)
        BY <1>0, JobSteps
      <4> QED BY <1>2, <2>3, <4>1 DEF JobStep, JobStays, JobPublished, JobClosed,
        JobSaved, JobDropped, JobInvalid, JobActivated, JobRetired, JobCompensated
    <3>2. agent.ref = j /\ ~Live(j)
      BY <1>2, <3>1, Zenon DEF JobOpens
    <3>3. rot[j].state \in {"activated", "consumed"}
      BY <1>0, <3>2, Zenon DEF RefInv
    <3>4. rot[j].state = "consumed"
      BY <3>2, <3>3 DEF Live, Saved
    <3> QED BY <2>1, <2>3, <3>4
  <2> QED BY <2>2, <2>3
<1>3. ASSUME NEW j \in Rots, removal'.phase # "none", removal'.old.ref = j
      PROVE  rot'[j].state = "consumed"
  <2>1. CASE RemovalStarts
    <3>1. agent.ref = j /\ rot' = rot /\ ~Saved(j)
      BY <1>3, <2>1, NamesApart, Zenon DEF RemovalStarts, MutationAllowed
    <3>2. rot[j].state \in {"activated", "consumed"}
      BY <1>0, <3>1, Zenon DEF RefInv
    <3> QED BY <3>1, <3>2 DEF Saved
  <2>2. CASE removal' = removal \/ RemovalMoves
    <3>1. removal.phase # "none" /\ removal.old.ref = j
      BY <1>3, <2>2 DEF RemovalMoves
    <3>2. rot[j].state = "consumed"
      BY <1>0, <3>1, Zenon DEF RefInv
    <3> QED BY <3>2, PastStays
  <2> QED BY <1>0, <2>1, <2>2, RemovalSteps
<1> QED BY <1>1, <1>2, <1>3, Zenon DEF RefInv

\* The revision only grows.
LEMMA RevGrows ==
  ASSUME TypeOK, [Next]_vars
  PROVE  agent.rev \in Nat /\ (agent'.rev = agent.rev \/ agent'.rev = agent.rev + 1)
  BY OldRows, AgentFields, AgentMoves, Zenon DEF Bumped, Kept

LEMMA DeadStays ==
  ASSUME TypeOK, SagaInv, CredInv, [Next]_vars, NEW c, Dead(c)
  PROVE  Dead(c)'
<1>0. SnapInv /\ RmInv /\ FreshInv
  BY DEF SagaInv, CredInv
<1>1. /\ c # agent.ref /\ c \notin Upds
      /\ c \in Rots => /\ rot[c].state \in Past
                       /\ ~(rot[c].old.pinned /\ rot[c].old.rev = agent.rev)
  BY DEF Dead
<1>2. c # agent'.ref
  <2>1. ASSUME NEW j \in Rots, AgentSwapped(j) PROVE c # agent'.ref
    BY <1>1, <2>1, Zenon DEF AgentSwapped
  <2>2. ASSUME NEW u \in Upds, AgentUpdated(u) PROVE c # agent'.ref
    BY <1>1, <2>2, Zenon DEF AgentUpdated
  <2>3. CASE agent' = agent \/ AgentPinned \/ AgentGone
    BY <1>1, <2>3, Zenon DEF AgentPinned, AgentGone
  <2> QED BY <1>0, <2>1, <2>2, <2>3, AgentSteps, Zenon DEF AgentStep
<1>3. ASSUME c \in Rots
      PROVE  rot'[c].state \in Past /\ ~(rot'[c].old.pinned /\ rot'[c].old.rev = agent'.rev)
  <2>1. rot[c].state \in Past /\ rot[c].state # "none"
    BY <1>1, <1>3 DEF Past
  <2>2. rot'[c].state \in Past /\ rot'[c].old = rot[c].old
    BY <1>3, <2>1, PastStays
  <2>3. rot[c].old.rev \in Nat /\ rot[c].old.rev <= agent.rev
    BY <1>0, <1>3, OldRows, AgentFields, Zenon DEF SnapInv, Older
  <2>4. rot[c].old.rev = agent'.rev => rot[c].old.rev = agent.rev
    BY <2>3, RevGrows
  <2> QED BY <1>1, <1>3, <2>2, <2>4, Zenon
<1> QED BY <1>1, <1>2, <1>3, Zenon DEF Dead

\* A saved rotation that cannot be swapped in was captured unpinned.
LEMMA NoSwapUnpinned ==
  ASSUME TypeOK, SagaInv, NEW j \in Rots, rot[j].state = "activated", ~MaySwap(j), agent.ref # j
  PROVE  ~rot[j].old.pinned
<1>1. Saved(j)
  BY DEF Saved
<1>2. agent.present /\ Unchanged(rot[j].old) /\ ~Unfinished
  BY <1>1, Zenon DEF SagaInv, OneSaga
<1>3. MutationAllowed(j)
  BY <1>1, <1>2, Zenon DEF MutationAllowed, SagaInv, OneSaved
<1>4. rot[j].old.pinned <=> agent.pinned
  BY <1>2, Zenon DEF SagaInv, SnapInv, Older, Unchanged
<1> QED BY <1>2, <1>3, <1>4, Zenon DEF MaySwap

LEMMA WireKept ==
  ASSUME TypeOK, SagaInv, CredInv, [Next]_vars, NEW m \in wire
  PROVE  /\ m.by = Removal => /\ m.kind = "revoke" /\ m.cred = removal'.old.ref
                              /\ removal'.phase # "none"
         /\ m.kind = "activate" =>
              /\ m.cred \in Rots /\ m.token = m.cred
              /\ rot'[m.cred].state \in {"activation_requested", "activated", "consumed", "failed"}
              /\ rot'[m.cred].state = "failed" => remote'[m.cred] # "pending"
         /\ m.kind = "revoke" /\ m.by # Removal => Dead(m.cred)'
<1>0. /\ RmInv /\ ClaimInv /\ WireInv /\ KindInv /\ JobInv /\ RecInv
  BY DEF SagaInv, CredInv
<1>1. m.by = Removal => /\ m.kind = "revoke" /\ m.cred = removal'.old.ref
                        /\ removal'.phase # "none"
  BY <1>0, RemovalSteps, Zenon DEF WireInv, RemovalStarts, RemovalMoves
<1>2. ASSUME m.kind = "activate"
      PROVE  /\ m.cred \in Rots /\ m.token = m.cred
             /\ rot'[m.cred].state \in {"activation_requested", "activated", "consumed", "failed"}
             /\ rot'[m.cred].state = "failed" => remote'[m.cred] # "pending"
  <2> DEFINE c == m.cred
  <2>1. /\ c \in Rots /\ m.token = c
        /\ rot[c].state \in {"activation_requested", "activated", "consumed", "failed"}
        /\ rot[c].state = "failed" => remote[c] # "pending"
    BY <1>0, <1>2, Zenon DEF WireInv
  <2>2. JobStep(c) /\ c \in Creds
    BY <1>0, <2>1, JobSteps, NamesApart, Zenon
  <2>3. RemoteStep(c)
    BY <1>0, <2>2, RemoteSteps
  <2>4. ~JobInvalid(c)
    BY <1>0, <1>2, Zenon DEF JobInvalid, RecInv
  <2>5. JobRemote(rot[c].state, remote[c])
    BY <1>0, <2>1, Zenon DEF JobInv
  <2> HIDE DEF c
  <2>6. rot[c].state # "open" /\ rot[c].state # "verified" /\ rot[c].state # "none"
    BY <2>1
  <2>7. \/ rot'[c].state = rot[c].state
        \/ rot'[c].state \in {"activated", "consumed"}
        \/ rot[c].state = "activated" /\ rot'[c].state = "failed" /\ remote' = remote
    BY <2>2, <2>4, <2>6 DEF JobStep, JobStays, JobOpens, JobPublished, JobClosed, JobSaved,
      JobDropped, JobActivated, JobRetired, JobCompensated
  <2>8. rot'[c].state = "failed" => remote'[c] # "pending"
    <3>1. CASE rot[c].state = "failed"
      BY <2>1, <2>3, <3>1 DEF RemoteStep, RemotePending, RemoteLapses, RemoteActivated, RemoteRevoked
    <3>2. CASE rot[c].state = "activated" /\ remote' = remote
      BY <2>5, <3>2 DEF JobRemote
    <3>3. rot'[c].state = "failed" =>
            rot[c].state = "failed" \/ (rot[c].state = "activated" /\ remote' = remote)
      BY <2>7
    <3> QED BY <3>1, <3>2, <3>3
  <2>9. rot'[c].state \in {"activation_requested", "activated", "consumed", "failed"}
    BY <2>1, <2>7
  <2> QED BY <2>1, <2>8, <2>9 DEF c
<1>3. m.kind = "revoke" /\ m.by # Removal => Dead(m.cred)'
  <2>1. m.kind = "revoke" /\ m.by # Removal => Dead(m.cred)
    BY <1>0, Zenon DEF WireInv
  <2> DEFINE c == m.cred
  <2>2. Dead(c) => Dead(c)'
    BY DeadStays
  <2> QED BY <2>1, <2>2
<1> QED BY <1>1, <1>2, <1>3
LEMMA WireNext ==
  ASSUME TypeOK, SagaInv, CredInv, [Next]_vars
  PROVE  WireInv'
<1>0. /\ SnapInv /\ ClaimInv /\ KindInv /\ RefInv /\ JobInv
  BY DEF SagaInv, CredInv
<1>a. \A r \in Recs : r # Removal
  BY NamesApart, Zenon
<1>b. ASSUME NEW r \in Recs, NEW j \in Rots, rec[r].pc = "swap", rec[r].job = j, rot[j].claim = r
      PROVE  rot[j].state = "activated"
  BY <1>0, <1>b DEF ClaimInv
<1> SUFFICES ASSUME NEW m \in wire'
    PROVE  /\ m.by = Removal => /\ m.kind = "revoke" /\ m.cred = removal'.old.ref
                                /\ removal'.phase # "none"
           /\ m.kind = "activate" =>
                /\ m.cred \in Rots /\ m.token = m.cred
                /\ rot'[m.cred].state \in {"activation_requested", "activated", "consumed", "failed"}
                /\ rot'[m.cred].state = "failed" => remote'[m.cred] # "pending"
           /\ m.kind = "revoke" /\ m.by # Removal => Dead(m.cred)'
  BY Zenon DEF WireInv
<1>1. CASE m \in wire
  BY <1>1, WireKept
<1>2. CASE SentActivate(m)
  <2>1. PICK r \in Recs, j \in Rots :
          /\ m.kind = "activate" /\ m.token = j /\ m.cred = j /\ m.by = r
          /\ rot'[j].state = "activation_requested"
    BY <1>2, Zenon DEF SentActivate
  <2> QED BY <1>a, <2>1
<1>3. CASE SentRetire(m)
  <2>1. PICK r \in Recs, j \in Rots :
          /\ m.kind = "revoke" /\ m.cred = rot[j].old.ref /\ m.by = r /\ ~rot[j].old.legacy
          /\ rec[r].pc = "swap" /\ rec[r].job = j /\ rot[j].claim = r
          /\ agent'.ref = j /\ UNCHANGED <<rot, remote>>
    BY <1>3, Zenon DEF SentRetire
  <2>2. PICK c : c = rot[j].old.ref
    OBVIOUS
  <2>3. rot[j].state # "none"
    BY <1>b, <2>1
  <2>4. c \in Rots => c # j /\ rot[c].state = "consumed"
    BY <1>0, <2>2, <2>3, Zenon DEF RefInv
  <2>5. c \notin Upds
    BY <1>0, <2>1, <2>2, Zenon DEF KindInv, RowKind
  <2>6. c \in Rots => rot[c].old.rev \in Nat /\ rot[c].old.rev < agent.rev
    BY <1>0, <2>4, OldRows, AgentFields, Zenon DEF JobInv
  <2>7. c \in Rots => rot[c].old.rev # agent'.rev
    BY <2>6, RevGrows
  <2>8. c \in Rots => rot[c].state \in Past
    BY <2>4 DEF Past
  <2>9. c # agent'.ref
    BY <2>1, <2>4
  <2>10. c \in Rots => rot'[c] = rot[c]
    BY <2>1, Zenon
  <2>11. Dead(c)'
    BY <2>5, <2>7, <2>8, <2>9, <2>10, Zenon DEF Dead
  <2> QED BY <1>a, <2>1, <2>2, <2>11
<1>4. CASE SentCompensate(m)
  <2>1. PICK r \in Recs, j \in Rots :
          /\ m.kind = "revoke" /\ m.cred = j /\ m.by = r
          /\ rec[r].pc = "swap" /\ rec[r].job = j /\ rot[j].claim = r
          /\ ~MaySwap(j) /\ agent.ref # j /\ UNCHANGED <<agent, rot, remote>>
    BY <1>4, Zenon DEF SentCompensate
  <2>2. rot[j].state = "activated"
    BY <1>b, <2>1
  <2>3. ~rot[j].old.pinned
    BY <2>1, <2>2, NoSwapUnpinned
  <2>4. rot[j].state \in Past /\ j \notin Upds
    BY <2>2, NamesApart DEF Past
  <2>5. Dead(j)'
    BY <2>1, <2>3, <2>4, Zenon DEF Dead
  <2> QED BY <1>a, <2>1, <2>5
<1>5. CASE SentRemoval(m)
  BY <1>5 DEF SentRemoval
<1> QED BY <1>1, <1>2, <1>3, <1>4, <1>5, WireSteps DEF WireStep

\* Where recover() stands, the job's old credential is not a live job's.
LEMMA RevokesConsumed ==
  ASSUME TypeOK, SagaInv, CredInv, NEW r \in Recs, rec[r].pc = "revoke", NEW k \in Rots,
         rec[r].job = k
  PROVE  /\ rot[k].state \in Past /\ rot[k].state # "none" /\ rot[k].old.rev < agent.rev
         /\ rot[k].old.ref \in Rots =>
              rot[k].old.ref # k /\ rot[rot[k].old.ref].state = "consumed"
<1>1. rot[k].state \in Past /\ rot[k].old.rev < agent.rev
  BY Zenon DEF CredInv, RecInv
<1>2. rot[k].state # "none"
  BY <1>1 DEF Past
<1> QED BY <1>1, <1>2, Zenon DEF CredInv, RefInv

\* The token file of a job that was not ended stays.
LEMMA FileKept ==
  ASSUME TypeOK, SagaInv, CredInv, [Next]_vars, NEW j \in Rots, j \in files, rot[j].temp,
         rot[j].state \in {"verified", "activation_requested", "activated"},
         rot'[j].state \notin {"failed", "closed"}
  PROVE  j \in files'
<1>0. /\ SnapInv /\ RmInv /\ KindInv /\ FreshInv /\ RefInv
  BY DEF SagaInv, CredInv
<1>1. j \in Creds /\ j \notin Upds /\ rot[j].state # "consumed"
  BY NamesApart
<1>2. FileStep(j)
  BY <1>0, <1>1, FileSteps
<1>3. ~FileEnded(j)
  BY DEF FileEnded
<1>4. ~FileRetired(j)
  BY <1>1, RevokesConsumed, Zenon DEF FileRetired
<1>5. ~FileReplaced(j)
  BY <1>0, Zenon DEF FileReplaced, KindInv, RowKind
<1>6. ~FileRefused(j)
  BY <1>1, Zenon DEF FileRefused
<1>7. ~FileRemoved(j)
  <2>1. removal.phase = "registry_deleted" => removal.phase # "none"
    OBVIOUS
  <2> QED BY <1>0, <1>1, <2>1, Zenon DEF FileRemoved, RefInv
<1>8. ~FileSwept(j)
  BY Zenon DEF FileSwept
<1> QED BY <1>2, <1>3, <1>4, <1>5, <1>6, <1>7, <1>8, Zenon DEF FileStep, FileGoes
\* A revoke that reaches a job's credential finds the job ended, or activated
\* against an unpinned row.
LEMMA RevokedJob ==
  ASSUME TypeOK, SagaInv, CredInv, NEW j \in Rots, RemoteRevoked(j)
  PROVE  /\ rot[j].state \in Past
         /\ rot[j].state = "activated" => ~rot[j].old.pinned
<1>0. RefInv /\ OneSaga
  BY DEF SagaInv, CredInv
<1>1. CASE Dead(j)
  <2>1. /\ j # agent.ref /\ rot[j].state \in Past
        /\ ~(rot[j].old.pinned /\ rot[j].old.rev = agent.rev)
    BY <1>1, Zenon DEF Dead
  <2>2. ASSUME rot[j].state = "activated" PROVE rot[j].old.rev = agent.rev
    <3>1. Saved(j)
      BY <2>2 DEF Saved
    <3> QED BY <1>0, <2>1, <3>1, Zenon DEF OneSaga, Unchanged
  <2> QED BY <2>1, <2>2, Zenon
<1>2. CASE removal.phase # "none" /\ j = removal.old.ref
  <2>1. rot[j].state = "consumed"
    BY <1>0, <1>2, Zenon DEF RefInv
  <2> QED BY <2>1 DEF Past
<1> QED BY <1>1, <1>2 DEF RemoteRevoked

LEMMA JobRemoteNext ==
  ASSUME TypeOK, SagaInv, CredInv, [Next]_vars, NEW j \in Rots
  PROVE  /\ JobRemote(rot'[j].state, remote'[j])
         /\ rot'[j].state = "activated" /\ rot'[j].old.pinned => remote'[j] = "active"
<1>0. /\ ClaimInv /\ KindInv /\ WireInv /\ JobInv /\ RecInv
  BY DEF SagaInv, CredInv
<1>1. JobStep(j) /\ RemoteStep(j) /\ j \in Creds /\ remote \in [Creds -> RemoteStates]
  <2>1. j \in Creds /\ remote \in [Creds -> RemoteStates]
    BY NamesApart, TypedParts, Zenon
  <2>2. JobStep(j)
    BY <1>0, JobSteps
  <2>3. RemoteStep(j)
    BY <1>0, <2>1, RemoteSteps
  <2> QED BY <2>1, <2>2, <2>3
<1>2. /\ JobRemote(rot[j].state, remote[j])
      /\ rot[j].state = "activated" /\ rot[j].old.pinned => remote[j] = "active"
  BY <1>0, Zenon DEF JobInv
<1>3. CASE JobStays(j)
  <2>1. rot'[j].state = rot[j].state /\ rot'[j].old = rot[j].old
    BY <1>3, Zenon DEF JobStays
  <2>2. CASE remote'[j] = remote[j]
    BY <1>2, <2>1, <2>2, Zenon
  <2>3. CASE RemotePending(j)
    BY <2>1, <2>3 DEF RemotePending
  <2>4. CASE RemoteLapses(j)
    BY <1>2, <2>1, <2>4 DEF RemoteLapses, JobRemote
  <2>5. CASE RemoteActivated(j)
    BY <1>2, <2>1, <2>5 DEF RemoteActivated, JobRemote
  <2>6. CASE RemoteRevoked(j)
    <3>1. /\ rot[j].state \in Past
          /\ rot[j].state = "activated" => ~rot[j].old.pinned
      BY <2>6, RevokedJob
    <3>2. remote'[j] = "revoked"
      BY <2>6, Zenon DEF RemoteRevoked
    <3>3. JobRemote(rot'[j].state, remote'[j])
      BY <2>1, <3>1, <3>2 DEF JobRemote, Past
    <3> QED BY <2>1, <3>1, <3>3, Zenon
  <2> QED BY <1>1, <2>2, <2>3, <2>4, <2>5, <2>6, Zenon DEF RemoteStep
<1>4. CASE JobOpens(j) \/ JobClosed(j) \/ JobSaved(j) \/ JobDropped(j)
  BY <1>2, <1>4 DEF JobOpens, JobClosed, JobSaved, JobDropped, JobRemote
<1>5. CASE JobPublished(j)
  <2>1. remote'[j] = "pending" /\ rot'[j].state = "verified"
    BY <1>1, <1>5, Zenon DEF JobPublished
  <2> QED BY <2>1 DEF JobRemote
<1>6. CASE JobInvalid(j)
  <2>1. remote[j] # "active"
    BY <1>0, <1>6, Zenon DEF JobInvalid, RecInv
  <2> QED BY <1>2, <1>6, <2>1 DEF JobInvalid, JobRemote
<1>7. CASE JobActivated(j)
  <2>1. remote[j] = "active"
    BY <1>0, <1>7, Zenon DEF JobActivated, RecInv
  <2> QED BY <1>7, <2>1 DEF JobActivated, JobRemote
<1>8. CASE JobRetired(j)
  BY <1>2, <1>8 DEF JobRetired, JobRemote
<1>9. CASE JobCompensated(j)
  <2>1. remote[j] = "revoked"
    BY <1>0, <1>9, Zenon DEF JobCompensated, RecInv
  <2> QED BY <1>9, <2>1 DEF JobCompensated, JobRemote
<1> QED BY <1>1, <1>3, <1>4, <1>5, <1>6, <1>7, <1>8, <1>9 DEF JobStep

LEMMA JobNext ==
  ASSUME TypeOK, SagaInv, CredInv, [Next]_vars
  PROVE  JobInv'
<1>0. /\ ClaimInv /\ JobInv /\ RecInv
  BY DEF SagaInv, CredInv
<1>1. ASSUME NEW j \in Rots, rot'[j].state \in {"verified", "activation_requested", "activated"}
      PROVE  rot'[j].temp /\ j \in files'
  <2>1. JobStep(j)
    BY <1>0, JobSteps
  <2>2. CASE JobPublished(j)
    BY <2>2, Zenon DEF JobPublished
  <2>3. CASE JobStays(j) \/ JobSaved(j) \/ JobActivated(j)
    <3>1. rot[j].state \in {"verified", "activation_requested", "activated"}
      BY <1>1, <2>3 DEF JobStays, JobSaved, JobActivated
    <3>2. rot[j].temp /\ j \in files
      BY <1>0, <3>1, Zenon DEF JobInv
    <3>3. rot[j].state \notin {"failed", "closed"} /\ rot'[j].state \notin {"failed", "closed"}
      BY <1>1, <3>1
    <3>4. rot'[j].temp = rot[j].temp
      BY <2>3, <3>3, Zenon DEF JobStays, JobSaved, JobActivated
    <3>5. j \in files'
      BY <3>1, <3>2, <3>3, FileKept
    <3> QED BY <3>2, <3>4, <3>5, Zenon
  <2>4. CASE JobOpens(j) \/ JobClosed(j) \/ JobDropped(j) \/ JobInvalid(j) \/ JobRetired(j)
             \/ JobCompensated(j)
    BY <1>1, <2>4 DEF JobOpens, JobClosed, JobDropped, JobInvalid, JobRetired, JobCompensated
  <2> QED BY <2>1, <2>2, <2>3, <2>4, Zenon DEF JobStep
<1>2. ASSUME NEW j \in Rots,
             rot'[j].state \in {"open", "verified", "activation_requested", "activated"}
      PROVE  rot'[j].kept
  <2>1. JobStep(j)
    BY <1>0, JobSteps
  <2>2. CASE JobOpens(j)
    BY <2>2, Zenon DEF JobOpens
  <2>3. CASE JobStays(j) \/ JobPublished(j) \/ JobSaved(j) \/ JobActivated(j)
    <3>1. rot[j].state \in {"open", "verified", "activation_requested", "activated"}
      BY <1>2, <2>3 DEF JobStays, JobPublished, JobSaved, JobActivated
    <3>2. rot[j].kept
      BY <1>0, <3>1, Zenon DEF JobInv
    <3>3. rot'[j].kept = rot[j].kept
      BY <2>3, Zenon DEF JobStays, JobPublished, JobSaved, JobActivated
    <3> QED BY <3>2, <3>3, Zenon
  <2>4. CASE JobClosed(j) \/ JobDropped(j) \/ JobInvalid(j) \/ JobRetired(j) \/ JobCompensated(j)
    BY <1>2, <2>4 DEF JobClosed, JobDropped, JobInvalid, JobRetired, JobCompensated
  <2> QED BY <2>1, <2>2, <2>3, <2>4, Zenon DEF JobStep
<1>3. ASSUME NEW j \in Rots, rot'[j].state = "consumed" PROVE rot'[j].old.rev < agent'.rev
  <2>1. JobStep(j)
    BY <1>0, JobSteps
  <2>2. rot[j].old.rev \in Nat
    BY OldRows, AgentFields, Zenon
  <2>3. CASE JobStays(j)
    <3>1. rot'[j].old = rot[j].old /\ rot[j].old.rev < agent.rev
      BY <1>0, <1>3, <2>3, Zenon DEF JobStays, JobInv
    <3> QED BY <2>2, <3>1, RevGrows
  <2>4. CASE JobRetired(j)
    BY <1>0, <2>4, Zenon DEF JobRetired, RecInv
  <2> QED BY <1>3, <2>1, <2>3, <2>4 DEF JobStep, JobOpens, JobPublished, JobClosed, JobSaved,
    JobDropped, JobInvalid, JobActivated, JobCompensated
<1> QED BY <1>1, <1>2, <1>3, JobRemoteNext, Zenon DEF JobInv
\* A recoverer that goes on with its job.
Continues(r) ==
  /\ rec'[r].pc = rec[r].pc /\ rec'[r].job = rec[r].job
  /\ rec'[r].reply = "ok" => rec[r].reply = "ok" \/ RecAnswered(r)

LEMMA RecPcs ==
  ASSUME TypeOK, ClaimInv, [Next]_vars, NEW r \in Recs
  PROVE  /\ rec'[r].pc = "validate" => Continues(r) \/ RecValidates(r)
         /\ rec'[r].pc = "activate" => Continues(r) \/ rec'[r].reply # "ok"
         /\ rec'[r].pc = "swap" => Continues(r) \/ RecSwaps(r)
         /\ rec'[r].pc = "revoke" => Continues(r) \/ RecRetires(r)
         /\ rec'[r].pc = "compensate" => Continues(r) \/ RecCompensates(r)
         /\ rec[r].pc \notin Jobless => rec[r].job \in Rots
<1>1. RecMoves(r) /\ RecTyped
  BY RecSteps, TypedParts, Zenon
<1>2. rec'[r] = rec[r] \/ RecAnswered(r) => Continues(r)
  BY Zenon DEF RecAnswered, Continues
<1>3. rec[r].pc \notin Jobless => rec[r].job \in Rots
  BY <1>1, JobOf
<1> QED BY <1>1, <1>2, <1>3 DEF RecMoves, RecValidates, RecActivates, RecSwaps, RecRetires,
  RecCompensates, Jobless

LEMMA RecNextValidate ==
  ASSUME TypeOK, SagaInv, CredInv, [Next]_vars, NEW r \in Recs, rec'[r].pc = "validate",
         rot'[rec'[r].job].claim = r
  PROVE  /\ \A m \in wire' : m.kind = "activate" => m.cred # rec'[r].job
         /\ remote'[rec'[r].job] # "active"
<1>0. /\ ClaimInv /\ KindInv /\ WireInv /\ JobInv /\ RecInv
  BY DEF SagaInv, CredInv
<1>1. Continues(r) \/ RecValidates(r)
  BY <1>0, RecPcs
<1>2. CASE Continues(r)
  <2>0. PICK j : j = rec[r].job
    OBVIOUS
  <2>1. rec[r].pc = "validate" /\ rec'[r].job = j /\ rec[r].pc \notin Jobless
    BY <1>2, <2>0 DEF Continues, Jobless
  <2>2. j \in Rots
    BY <1>0, <2>0, <2>1, RecPcs
  <2>3. rot[j].claim = r
    BY <2>1, <2>2, ClaimSteps, Zenon DEF ClaimTaken
  <2>4. (\A m \in wire : m.kind = "activate" => m.cred # j) /\ remote[j] # "active"
    BY <1>0, <2>0, <2>1, <2>3, Zenon DEF RecInv
  <2>5. ASSUME NEW m \in wire', m.kind = "activate", m.cred = j PROVE FALSE
    <3>1. WireStep(m)
      BY WireSteps
    <3>2. ~SentActivate(m)
      BY <2>1, <2>5 DEF SentActivate
    <3> QED BY <2>4, <2>5, <3>1, <3>2 DEF WireStep, SentRetire, SentCompensate, SentRemoval
  <2>6. remote'[j] # "active"
    <3>1. RemoteStep(j)
      BY <1>0, <2>2, RemoteSteps, NamesApart, Zenon
    <3>2. ~RemoteActivated(j)
      BY <2>4, Zenon DEF RemoteActivated
    <3> QED BY <2>4, <3>1, <3>2 DEF RemoteStep, RemotePending, RemoteLapses, RemoteRevoked
  <2> QED BY <2>1, <2>5, <2>6
<1>3. CASE RecValidates(r)
  <2>1. PICK j \in Rots : /\ rec'[r].job = j /\ rot[j].state = "verified"
                          /\ UNCHANGED <<wire, remote>>
    BY <1>3, Zenon DEF RecValidates
  <2>2. JobRemote(rot[j].state, remote[j])
    BY <1>0, Zenon DEF JobInv
  <2>3. remote[j] # "active"
    BY <2>1, <2>2 DEF JobRemote
  <2>4. \A m \in wire : m.kind = "activate" => m.cred # j
    BY <1>0, <2>1 DEF WireInv
  <2> QED BY <2>1, <2>3, <2>4, Zenon
<1> QED BY <1>1, <1>2, <1>3

LEMMA RecNextActivate ==
  ASSUME TypeOK, SagaInv, CredInv, [Next]_vars, NEW r \in Recs, rec'[r].pc = "activate",
         rot'[rec'[r].job].claim = r, rec'[r].reply = "ok"
  PROVE  remote'[rec'[r].job] = "active"
<1>0. /\ ClaimInv /\ KindInv /\ WireInv /\ JobInv /\ RecInv
  BY DEF SagaInv, CredInv
<1>1. Continues(r)
  BY <1>0, RecPcs
<1>2. PICK j : j = rec[r].job
  OBVIOUS
<1>3. rec[r].pc = "activate" /\ rec'[r].job = j /\ rec[r].pc \notin Jobless
  BY <1>1, <1>2 DEF Continues, Jobless
<1>4. j \in Rots
  BY <1>0, <1>2, <1>3, RecPcs
<1>5. CASE RecAnswered(r)
  BY <1>2, <1>3, <1>5, Zenon DEF RecAnswered
<1>6. CASE rec[r].reply = "ok"
  <2>1. rot[j].claim = r
    BY <1>3, <1>4, ClaimSteps, Zenon DEF ClaimTaken
  <2>2. remote[j] = "active" /\ rot[j].state = "activation_requested"
    BY <1>0, <1>2, <1>3, <1>6, <2>1, Zenon DEF RecInv, ClaimInv
  <2>3. RemoteStep(j)
    BY <1>0, <1>4, RemoteSteps, NamesApart, Zenon
  <2>4. ~RemoteRevoked(j)
    <3>1. rot[j].state \notin Past
      BY <2>2 DEF Past
    <3> QED BY <1>4, <3>1, RevokedJob
  <2>5. remote'[j] = "active"
    BY <2>2, <2>3, <2>4 DEF RemoteStep, RemotePending, RemoteLapses, RemoteActivated
  <2> QED BY <1>3, <2>5
<1> QED BY <1>1, <1>5, <1>6 DEF Continues

LEMMA RecNextSwap ==
  ASSUME TypeOK, SagaInv, CredInv, [Next]_vars, NEW r \in Recs, rec'[r].pc = "swap"
  PROVE  /\ rot'[rec'[r].job].state \in Past
         /\ rot'[rec'[r].job].state = "failed" => ~rot'[rec'[r].job].old.pinned
<1>0. ClaimInv /\ RecInv
  BY DEF SagaInv, CredInv
<1>1. CASE Continues(r)
  <2>0. PICK j : j = rec[r].job
    OBVIOUS
  <2>1. rec[r].pc = "swap" /\ rec'[r].job = j /\ rec[r].pc \notin Jobless
    BY <1>1, <2>0 DEF Continues, Jobless
  <2>2. j \in Rots
    BY <1>0, <2>0, <2>1, RecPcs
  <2>3. rot[j].state \in Past /\ (rot[j].state = "failed" => ~rot[j].old.pinned)
    BY <1>0, <2>0, <2>1, Zenon DEF RecInv
  <2>4. rot[j].state # "none"
    BY <2>3 DEF Past
  <2>5. rot'[j].state \in Past /\ rot'[j].old = rot[j].old
    BY <2>2, <2>3, <2>4, PastStays
  <2>6. rot[j].old.pinned => rot'[j].state # "failed"
    <3>1. rot[j].old.pinned => rot[j].state \in {"activated", "consumed"}
      BY <2>3 DEF Past
    <3>2. rot[j].old.pinned => rot'[j].state \in {"activated", "consumed"}
      BY <2>2, <3>1, KeepsActivated
    <3> QED BY <3>2
  <2> QED BY <2>1, <2>5, <2>6, Zenon
<1>2. CASE RecSwaps(r)
  BY <1>2 DEF RecSwaps, Past
<1> QED BY <1>0, <1>1, <1>2, RecPcs

LEMMA RecNextRevoke ==
  ASSUME TypeOK, SagaInv, CredInv, [Next]_vars, NEW r \in Recs, rec'[r].pc = "revoke"
  PROVE  /\ rot'[rec'[r].job].state \in Past /\ rot'[rec'[r].job].old.rev < agent'.rev
         /\ rec'[r].reply = "ok" => remote'[rot'[rec'[r].job].old.ref] \in {"revoked", "admin"}
<1>0. /\ ClaimInv /\ SnapInv /\ KindInv /\ WireInv /\ JobInv /\ RefInv /\ RecInv
  BY DEF SagaInv, CredInv
<1>1. CASE Continues(r)
  <2>0. PICK j : j = rec[r].job
    OBVIOUS
  <2>1. rec[r].pc = "revoke" /\ rec'[r].job = j /\ rec[r].pc \notin Jobless
    BY <1>1, <2>0 DEF Continues, Jobless
  <2>2. j \in Rots
    BY <1>0, <2>0, <2>1, RecPcs
  <2>3. /\ rot[j].state \in Past /\ rot[j].old.rev < agent.rev
        /\ rec[r].reply = "ok" => remote[rot[j].old.ref] \in {"revoked", "admin"}
    BY <1>0, <2>0, <2>1, Zenon DEF RecInv
  <2>4. rot[j].state # "none"
    BY <2>3 DEF Past
  <2>5. rot'[j].state \in Past /\ rot'[j].old = rot[j].old
    BY <2>2, <2>3, <2>4, PastStays
  <2>6. rot[j].old.ref \in Creds /\ rot[j].old.rev \in Nat
    BY <2>2, OldRows, AgentFields, Zenon
  <2>7. rot[j].old.rev < agent'.rev
    BY <2>3, <2>6, RevGrows
  <2>8. rec'[r].reply = "ok" => remote'[rot[j].old.ref] \in {"revoked", "admin"}
    <3>1. PICK c \in Creds : c = rot[j].old.ref
      BY <2>6
    <3>2. remote[c] \in {"revoked", "admin"} => remote'[c] \in {"revoked", "admin"}
      BY <1>0, RevokedFinal, AdminFixed
    <3>3. RecAnswered(r) => (rec'[r].reply = "ok" => remote'[c] = "revoked")
      BY <2>0, <2>1, <3>1, Zenon DEF RecAnswered
    <3> QED BY <1>1, <2>3, <3>1, <3>2, <3>3 DEF Continues
  <2> QED BY <2>1, <2>5, <2>7, <2>8, Zenon
<1>2. CASE RecRetires(r)
  <2>1. PICK j \in Rots :
          /\ rec[r].pc = "swap" /\ rec[r].job = j /\ rot[j].claim = r
          /\ rec'[r].pc = "revoke" /\ rec'[r].job = j /\ UNCHANGED <<rot, remote>>
          /\ \/ MaySwap(j) /\ agent'.rev = rot[j].old.rev + 1
             \/ agent.ref = j /\ agent' = agent
          /\ rec'[r].reply = "ok" => rot[j].old.legacy
    BY <1>2, Zenon DEF RecRetires
  <2>2. rot[j].state = "activated"
    BY <1>0, <2>1 DEF ClaimInv
  <2>3. rot[j].state # "none" /\ rot[j].state \in Past
    BY <2>2 DEF Past
  <2>4. rot[j].old.rev \in Nat /\ rot[j].old.rev <= agent.rev /\ agent.rev \in Nat
        /\ (rot[j].old.rev = agent.rev => rot[j].old.ref = agent.ref)
    BY <1>0, OldRows, AgentFields, Zenon DEF SnapInv, Older
  <2>5. rot[j].old.ref # j
    BY <1>0, <2>3, Zenon DEF RefInv
  <2>6. rot[j].old.rev < agent'.rev
    BY <2>1, <2>4, <2>5
  <2>7. rot[j].old.legacy => remote[rot[j].old.ref] = "admin"
    BY <1>0, Zenon DEF KindInv, RowKind
  <2>8. rot' = rot /\ remote' = remote
    BY <2>1
  <2> QED BY <2>1, <2>3, <2>6, <2>7, <2>8, Zenon
<1> QED BY <1>0, <1>1, <1>2, RecPcs

LEMMA RecNextCompensate ==
  ASSUME TypeOK, SagaInv, CredInv, [Next]_vars, NEW r \in Recs, rec'[r].pc = "compensate"
  PROVE  /\ rot'[rec'[r].job].state \in Past /\ ~rot'[rec'[r].job].old.pinned
         /\ rec'[r].reply = "ok" => remote'[rec'[r].job] = "revoked"
<1>0. /\ ClaimInv /\ KindInv /\ WireInv /\ JobInv /\ RecInv
  BY DEF SagaInv, CredInv
<1>1. CASE Continues(r)
  <2>0. PICK j : j = rec[r].job
    OBVIOUS
  <2>1. rec[r].pc = "compensate" /\ rec'[r].job = j /\ rec[r].pc \notin Jobless
    BY <1>1, <2>0 DEF Continues, Jobless
  <2>2. j \in Rots /\ j \in Creds
    BY <1>0, <2>0, <2>1, RecPcs, NamesApart
  <2>3. /\ rot[j].state \in Past /\ ~rot[j].old.pinned
        /\ rec[r].reply = "ok" => remote[j] = "revoked"
    BY <1>0, <2>0, <2>1, Zenon DEF RecInv
  <2>4. rot[j].state # "none"
    BY <2>3 DEF Past
  <2>5. rot'[j].state \in Past /\ rot'[j].old = rot[j].old
    BY <2>2, <2>3, <2>4, PastStays
  <2>6. rec'[r].reply = "ok" => remote'[j] = "revoked"
    <3>1. remote[j] = "revoked" => remote'[j] = "revoked"
      BY <1>0, <2>2, RevokedFinal
    <3>2. RecAnswered(r) => (rec'[r].reply = "ok" => remote'[j] = "revoked")
      BY <2>0, <2>1, Zenon DEF RecAnswered
    <3> QED BY <1>1, <2>3, <3>1, <3>2 DEF Continues
  <2> QED BY <2>1, <2>3, <2>5, <2>6, Zenon
<1>2. CASE RecCompensates(r)
  <2>1. PICK j \in Rots :
          /\ rec[r].pc = "swap" /\ rec[r].job = j /\ rot[j].claim = r
          /\ rec'[r].job = j /\ rec'[r].reply = "none"
          /\ ~MaySwap(j) /\ agent.ref # j /\ UNCHANGED <<agent, rot>>
    BY <1>2, Zenon DEF RecCompensates
  <2>2. rot[j].state = "activated"
    BY <1>0, <2>1 DEF ClaimInv
  <2>3. ~rot[j].old.pinned /\ rot[j].state \in Past
    BY <2>1, <2>2, NoSwapUnpinned DEF Past
  <2>4. rec'[r].reply # "ok"
    BY <2>1
  <2> QED BY <2>1, <2>3, <2>4, Zenon
<1> QED BY <1>0, <1>1, <1>2, RecPcs

LEMMA RecNext ==
  ASSUME TypeOK, SagaInv, CredInv, [Next]_vars
  PROVE  RecInv'
  BY RecNextValidate, RecNextActivate, RecNextSwap, RecNextRevoke, RecNextCompensate, Zenon
  DEF RecInv

\* Where the old token goes the new credential is in the registry.
LEMMA RetiredRef ==
  ASSUME TypeOK, SagaInv, CredInv, NEW f, FileRetired(f)
  PROVE  /\ f # agent.ref
         /\ remote[f] \in {"revoked", "admin"}
         /\ \E r \in Recs : /\ rec[r].job \in Rots /\ rot[rec[r].job].state = "activated"
                            /\ f = rot[rec[r].job].old.ref
<1>0. ClaimInv /\ OneSaga /\ RecInv
  BY DEF SagaInv, CredInv
<1>1. PICK r \in Recs : /\ rec[r].pc = "revoke" /\ rec[r].reply = "ok" /\ rec[r].job \in Rots
                        /\ rot[rec[r].job].claim = r /\ f = rot[rec[r].job].old.ref
  BY Zenon DEF FileRetired
<1>2. PICK k \in Rots : k = rec[r].job
  BY <1>1
<1>3. rot[k].state = "activated"
  BY <1>0, <1>1, <1>2 DEF ClaimInv
<1>4. Saved(k)
  BY <1>3 DEF Saved
<1>5. /\ rot[k].old.rev < agent.rev
      /\ rot[k].old.ref \in Rots => rot[k].old.ref # k
  BY <1>1, <1>2, RevokesConsumed
<1>6. rot[k].old.rev \in Nat /\ agent.rev \in Nat
  BY OldRows, AgentFields, Zenon
<1>7. rot[k].old.rev # agent.rev
  BY <1>5, <1>6
<1>8. agent.ref = k
  BY <1>0, <1>4, <1>7, Zenon DEF OneSaga, Unchanged
<1>9. remote[f] \in {"revoked", "admin"}
  BY <1>0, <1>1, Zenon DEF RecInv
<1> QED BY <1>1, <1>2, <1>3, <1>5, <1>8, <1>9, Zenon

\* The registered credential keeps its token file.
LEMMA RefKept ==
  ASSUME TypeOK, SagaInv, CredInv, [Next]_vars, removal.phase = "none",
         agent'.ref = agent.ref, agent.ref \in files
  PROVE  agent.ref \in files'
<1>0. SnapInv /\ RmInv /\ FreshInv /\ RefInv'
  BY RefNext DEF SagaInv, CredInv
<1>1. PICK a \in Creds : a = agent.ref
  BY OldRows
<1>2. FileStep(a)
  BY <1>0, FileSteps
<1>3. \A u \in Upds : upd[u].pc = "validating" => a # u
  <2>1. \A u \in Upds : upd[u].pc = "validating" => upd[u].pc # "done"
    OBVIOUS
  <2> QED BY <1>0, <1>1, <2>1, Zenon DEF FreshInv
<1>4. ~FileEnded(a)
  <2>1. a \in Rots => rot'[a].state \in {"activated", "consumed"}
    BY <1>0, <1>1, Zenon DEF RefInv
  <2> QED BY <2>1 DEF FileEnded
<1>5. ~FileRetired(a)
  BY <1>1, RetiredRef
<1>6. ~FileReplaced(a) /\ ~FileRefused(a)
  BY <1>1, <1>3, Zenon DEF FileReplaced, FileRefused
<1>7. ~FileRemoved(a)
  BY DEF FileRemoved
<1>8. ~FileSwept(a)
  BY <1>0, <1>1, Zenon DEF FileSwept, RmInv
<1> QED BY <1>1, <1>2, <1>4, <1>5, <1>6, <1>7, <1>8, Zenon DEF FileStep, FileGoes

LEMMA WorksNext ==
  ASSUME TypeOK, SagaInv, CredInv, [Next]_vars
  PROVE  WorksInv'
<1>0. /\ SnapInv /\ RmInv /\ KindInv /\ FreshInv /\ RefInv /\ WireInv /\ JobInv /\ RecInv /\ WorksInv
  BY DEF SagaInv, CredInv
<1> SUFFICES ASSUME removal'.phase = "none"
             PROVE  agent'.ref \in files' /\ remote'[agent'.ref] \in {"active", "admin"}
  BY Zenon DEF WorksInv
<1>1. removal.phase = "none"
  BY <1>0, RemovalSteps DEF RemovalStarts, RemovalMoves
<1>2. agent.ref \in files /\ remote[agent.ref] \in {"active", "admin"}
  BY <1>0, <1>1, Zenon DEF WorksInv
<1>3. CASE agent'.ref = agent.ref
  <2>1. PICK a \in Creds : a = agent.ref
    BY OldRows
  <2>2. a \in files'
    BY <1>1, <1>2, <1>3, <2>1, RefKept
  <2>3. RemoteStep(a)
    BY <1>0, RemoteSteps
  <2>4. ~RemoteRevoked(a)
    BY <1>1, <2>1, Zenon DEF RemoteRevoked, Dead
  <2>5. ~RemotePending(a)
    <3>1. a \in Rots => rot[a].state \in {"activated", "consumed"}
      BY <1>0, <2>1, Zenon DEF RefInv
    <3> QED BY <3>1 DEF RemotePending
  <2>6. remote'[a] \in {"active", "admin"}
    BY <1>2, <2>1, <2>3, <2>4, <2>5 DEF RemoteStep, RemoteLapses, RemoteActivated
  <2> QED BY <1>3, <2>1, <2>2, <2>6
<1>4. ASSUME NEW j \in Rots, AgentSwapped(j)
      PROVE  agent'.ref \in files' /\ remote'[agent'.ref] \in {"active", "admin"}
  <2>1. /\ \E r \in Recs : rec[r].pc = "swap" /\ rec[r].job = j
        /\ rot[j].old.pinned /\ rot[j].old.rev = agent.rev /\ agent'.ref = j
        /\ UNCHANGED <<files, remote>>
    BY <1>4, Zenon DEF AgentSwapped
  <2>2. rot[j].state \in Past /\ rot[j].state # "failed"
    BY <1>0, <2>1, Zenon DEF RecInv
  <2>3. rot[j].state = "consumed" => rot[j].old.rev < agent.rev
    BY <1>0, Zenon DEF JobInv
  <2>4. agent.rev \in Nat
    BY RevGrows
  <2>5. rot[j].state = "activated"
    BY <2>1, <2>2, <2>3, <2>4 DEF Past
  <2>6. rot[j].state \in {"verified", "activation_requested", "activated"}
    BY <2>5
  <2>7. j \in files /\ remote[j] = "active"
    BY <1>0, <2>1, <2>5, <2>6, Zenon DEF JobInv
  <2> QED BY <2>1, <2>7
<1>5. ASSUME NEW u \in Upds, AgentUpdated(u), agent'.ref # agent.ref
      PROVE  agent'.ref \in files' /\ remote'[agent'.ref] \in {"active", "admin"}
  <2>1. /\ agent'.ref = u /\ remote' = remote
        /\ files' \in {files \cup {u}, (files \cup {u}) \ {agent.ref}}
    BY <1>5, Zenon DEF AgentUpdated
  <2>2. remote[u] = "admin"
    BY <1>0, Zenon DEF KindInv
  <2> QED BY <1>5, <2>1, <2>2
<1> QED BY <1>0, <1>3, <1>4, <1>5, AgentSteps, Zenon DEF AgentStep, AgentPinned, AgentGone

\* A swap is the swap of an activated job.
LEMMA SwapsActivated ==
  ASSUME TypeOK, SagaInv, CredInv, NEW j \in Rots, AgentSwapped(j)
  PROVE  rot[j].state = "activated" /\ rot'[j].state = "activated" /\ rot'[j].old = rot[j].old
<1>0. JobInv /\ RecInv
  BY DEF CredInv
<1>1. /\ \E r \in Recs : rec[r].pc = "swap" /\ rec[r].job = j
      /\ rot[j].old.pinned /\ rot[j].old.rev = agent.rev /\ RowsStay
  BY Zenon DEF AgentSwapped
<1>2. rot[j].state \in Past /\ rot[j].state # "failed"
  BY <1>0, <1>1, Zenon DEF RecInv
<1>3. rot[j].state = "consumed" => rot[j].old.rev < agent.rev
  BY <1>0, Zenon DEF JobInv
<1>4. agent.rev \in Nat
  BY OldRows, AgentFields, Zenon
<1>5. rot[j].state = "activated"
  BY <1>1, <1>2, <1>3, <1>4 DEF Past
<1> QED BY <1>1, <1>5, Zenon DEF RowsStay

\* An active credential that the registry names stays named: by the registry,
\* by the rotation that replaces it, or by a local-only removal.
LEMMA NamedByRow ==
  ASSUME TypeOK, SagaInv, CredInv, [Next]_vars, agent.present, remote[agent.ref] = "active"
  PROVE  \/ agent'.present /\ agent.ref = agent'.ref
         \/ \E j \in Rots : rot'[j].state = "activated" /\ agent.ref = rot'[j].old.ref
         \/ removal'.local /\ agent.ref = removal'.old.ref
<1>0. SnapInv /\ RmInv /\ KindInv /\ FreshInv /\ EndInv
  BY DEF SagaInv, CredInv
<1>1. CASE agent' = agent \/ AgentPinned
  BY <1>1, Zenon DEF AgentPinned
<1>2. ASSUME NEW j \in Rots, AgentSwapped(j)
      PROVE  rot'[j].state = "activated" /\ agent.ref = rot'[j].old.ref
  BY <1>2, SwapsActivated, Zenon DEF AgentSwapped
<1>3. ASSUME NEW u \in Upds, AgentUpdated(u) PROVE agent'.present /\ agent.ref = agent'.ref
  <2>1. ~agent.pinned => remote[agent.ref] = "admin"
    BY <1>0, Zenon DEF KindInv, RowKind
  <2>2. agent.pinned
    BY <2>1
  <2> QED BY <1>3, <2>2, Zenon DEF AgentUpdated
<1>4. CASE AgentGone
  <2>1. removal.phase = "revoked" /\ agent.ref = removal.old.ref
    BY <1>4, Zenon DEF AgentGone
  <2>2. Withdrawn
    BY <1>0, <2>1 DEF EndInv
  <2>3. removal.local
    BY <2>1, <2>2 DEF Withdrawn
  <2>4. removal'.local /\ removal'.old = removal.old
    BY <1>0, <2>1, <2>3, RemovalSteps DEF RemovalStarts, RemovalMoves
  <2> QED BY <2>1, <2>4
<1> QED BY <1>0, <1>1, <1>2, <1>3, <1>4, AgentSteps, Zenon DEF AgentStep

\* A job that was saved goes on, fails without an active credential, or leaves
\* its credential in the registry.
LEMMA NamedByJob ==
  ASSUME TypeOK, SagaInv, CredInv, [Next]_vars, NEW j \in Rots,
         rot[j].state \in {"activation_requested", "activated"}, remote'[j] = "active"
  PROVE  \/ rot'[j].state \in {"activation_requested", "activated"}
         \/ agent'.present /\ j = agent'.ref
<1>0. ClaimInv /\ OneSaga /\ RecInv /\ JobInv'
  BY JobNext DEF SagaInv, CredInv
<1>1. JobStep(j)
  BY <1>0, JobSteps
<1>2. JobRemote(rot'[j].state, remote'[j])
  BY <1>0, Zenon DEF JobInv
<1>3. rot'[j].state # "failed"
  BY <1>2 DEF JobRemote
<1>4. CASE JobRetired(j)
  <2>1. agent' = agent
    BY <1>4, Zenon DEF JobRetired
  <2>2. rot[j].old.rev < agent.rev
    BY <1>0, <1>4, Zenon DEF JobRetired, RecInv
  <2>3. rot[j].old.rev \in Nat /\ agent.rev \in Nat
    BY OldRows, AgentFields, Zenon
  <2>4. rot[j].old.rev # agent.rev
    BY <2>2, <2>3
  <2>5. Saved(j)
    BY DEF Saved
  <2>6. agent.present /\ agent.ref = j
    BY <1>0, <2>4, <2>5, Zenon DEF OneSaga, Unchanged
  <2> QED BY <2>1, <2>6
<1> QED BY <1>1, <1>3, <1>4 DEF JobStep, JobStays, JobOpens, JobPublished, JobClosed, JobSaved,
  JobDropped, JobInvalid, JobActivated, JobCompensated

\* What an activated job replaces is named by it until it is withdrawn.
LEMMA NamedByOld ==
  ASSUME TypeOK, SagaInv, CredInv, [Next]_vars, NEW j \in Rots, rot[j].state = "activated",
         remote[rot[j].old.ref] = "active"
  PROVE  rot'[j].state = "activated" /\ rot'[j].old = rot[j].old
<1>0. ClaimInv /\ KindInv /\ RecInv
  BY DEF SagaInv, CredInv
<1>1. JobStep(j)
  BY <1>0, JobSteps
<1>2. ~JobRetired(j)
  <2>1. ASSUME JobRetired(j) PROVE remote[rot[j].old.ref] \in {"revoked", "admin"}
    BY <1>0, <2>1, Zenon DEF JobRetired, RecInv
  <2> QED BY <2>1
<1>3. ~JobCompensated(j)
  <2>1. JobCompensated(j) => ~rot[j].old.pinned
    BY <1>0, Zenon DEF JobCompensated, RecInv
  <2>2. ~rot[j].old.pinned => remote[rot[j].old.ref] = "admin"
    BY <1>0, Zenon DEF KindInv, RowKind
  <2> QED BY <2>1, <2>2
<1> QED BY <1>1, <1>2, <1>3 DEF JobStep, JobStays, JobOpens, JobPublished, JobClosed, JobSaved,
  JobDropped, JobInvalid, JobActivated

\* What became active just now, or was.
LEMMA ActiveBefore ==
  ASSUME TypeOK, SagaInv, CredInv, [Next]_vars, NEW c \in Creds, remote'[c] = "active"
  PROVE  remote[c] = "active" \/ (c \in Rots /\ rot[c].state = "activation_requested")
<1>1. RemoteStep(c)
  BY RemoteSteps DEF CredInv
<1> QED BY <1>1 DEF RemoteStep, RemotePending, RemoteLapses, RemoteActivated, RemoteRevoked

LEMMA ActiveNext ==
  ASSUME TypeOK, SagaInv, CredInv, [Next]_vars
  PROVE  ActiveInv'
<1>0. RmInv /\ ActiveInv /\ EndInv
  BY DEF SagaInv, CredInv
<1> SUFFICES ASSUME NEW c \in Creds, remote'[c] = "active"
             PROVE  \/ agent'.present /\ c = agent'.ref
                    \/ c \in Rots /\ rot'[c].state \in {"activation_requested", "activated"}
                    \/ \E j \in Rots : rot'[j].state = "activated" /\ c = rot'[j].old.ref
                    \/ removal'.local /\ c = removal'.old.ref
  BY Zenon DEF ActiveInv, Named
<1>1. CASE c \in Rots /\ rot[c].state \in {"activation_requested", "activated"}
  BY <1>1, NamedByJob
<1>2. CASE remote[c] = "active"
  <2>1. Named(c)
    BY <1>0, <1>2, Zenon DEF ActiveInv
  <2>2. CASE agent.present /\ c = agent.ref
    BY <1>2, <2>2, NamedByRow
  <2>3. CASE \E j \in Rots : rot[j].state = "activated" /\ c = rot[j].old.ref
    BY <1>2, <2>3, NamedByOld, Zenon
  <2>4. CASE removal.local /\ c = removal.old.ref
    <3>1. removal.phase # "none"
      BY <1>0, <2>4 DEF EndInv
    <3> QED BY <1>0, <2>4, <3>1, RemovalSteps DEF RemovalStarts, RemovalMoves
  <2> QED BY <1>1, <2>1, <2>2, <2>3, <2>4, Zenon DEF Named
<1>3. remote[c] = "active" \/ (c \in Rots /\ rot[c].state = "activation_requested")
  BY ActiveBefore
<1> QED BY <1>1, <1>2, <1>3

LEMMA TokenNext ==
  ASSUME TypeOK, SagaInv, CredInv, [Next]_vars
  PROVE  TokenKept'
<1>0. /\ SnapInv /\ RmInv /\ ClaimInv /\ KindInv /\ FreshInv /\ JobInv /\ ActiveInv /\ TokenKept
      /\ EndInv /\ JobInv'
  BY JobNext DEF SagaInv, CredInv
<1> SUFFICES ASSUME NEW c \in Creds, remote'[c] = "active"
             PROVE  c \in files' \/ (removal'.local /\ c = removal'.old.ref)
  BY Zenon DEF TokenKept
<1>1. CASE removal.local /\ c = removal.old.ref
  <2>1. removal.phase # "none"
    BY <1>0, <1>1 DEF EndInv
  <2> QED BY <1>0, <1>1, <2>1, RemovalSteps DEF RemovalStarts, RemovalMoves
<1>2. c \in Rots => JobRemote(rot'[c].state, remote'[c])
  BY <1>0, Zenon DEF JobInv
<1>3. CASE c \in Rots /\ rot[c].state = "activation_requested"
  <2>1. JobStep(c)
    BY <1>0, <1>3, JobSteps
  <2>2. rot'[c].state \in {"verified", "activation_requested", "activated"}
    BY <1>2, <1>3, <2>1 DEF JobRemote, JobStep, JobStays, JobOpens, JobPublished, JobClosed,
      JobSaved, JobDropped, JobInvalid, JobActivated, JobRetired, JobCompensated
  <2> QED BY <1>0, <1>3, <2>2, Zenon DEF JobInv
<1>4. CASE remote[c] = "active" /\ c \in files
  <2>1. FileStep(c)
    BY <1>0, FileSteps
  <2>2. ~FileEnded(c)
    BY <1>2 DEF FileEnded, JobRemote
  <2>3. ~FileRetired(c)
    <3>1. FileRetired(c) => remote[c] \in {"revoked", "admin"}
      BY RetiredRef
    <3> QED BY <1>4, <3>1
  <2>4. ~FileReplaced(c) /\ ~FileRefused(c)
    <3>1. FileReplaced(c) \/ FileRefused(c) => remote[c] = "admin"
      BY <1>0, Zenon DEF FileReplaced, FileRefused, KindInv, RowKind
    <3> QED BY <1>4, <3>1
  <2>5. FileRemoved(c) => removal.local /\ c = removal.old.ref
    <3>1. removal.phase = "registry_deleted" => Withdrawn
      BY <1>0 DEF EndInv
    <3> QED BY <1>4, <3>1 DEF FileRemoved, Withdrawn
  <2>6. FileSwept(c) => removal.local /\ c = removal.old.ref
    <3>1. ASSUME NEW j \in Rots, rot[j].state \in {"activation_requested", "activated"}
          PROVE  rot[j].temp /\ rot[j].kept
      <4>1. /\ rot[j].state \in {"verified", "activation_requested", "activated"}
            /\ rot[j].state \in {"open", "verified", "activation_requested", "activated"}
        BY <3>1
      <4> QED BY <1>0, <4>1, Zenon DEF JobInv
    <3>2. \A j \in Rots : rot[j].state = "activated" =>
                            rot[j].state \in {"activation_requested", "activated"}
      OBVIOUS
    <3>3. Named(c)
      BY <1>0, <1>4, Zenon DEF ActiveInv
    <3> QED BY <3>1, <3>2, <3>3, Zenon DEF FileSwept, Named
  <2> QED BY <1>1, <1>4, <2>1, <2>2, <2>3, <2>4, <2>5, <2>6, Zenon DEF FileStep, FileGoes
<1>5. remote[c] = "active" \/ (c \in Rots /\ rot[c].state = "activation_requested")
  BY ActiveBefore
<1> QED BY <1>0, <1>1, <1>3, <1>4, <1>5, Zenon DEF TokenKept

\* The removal's phase after a step, and its answer.
Ending == {"revoked", "registry_deleted", "credential_deleted", "completed"}
RmEnds ==
  /\ removal'.phase \in Ending =>
       removal.phase \in Ending \/ ~NeedsRevoke \/ (rm.pc = "revoke" /\ rm.reply = "ok")
  /\ removal'.phase \in {"credential_deleted", "completed"} =>
       \/ removal.phase \in {"credential_deleted", "completed"}
       \/ removal.old.ref \notin files'
RmAnswers ==
  rm'.pc = "revoke" /\ rm'.reply = "ok" =>
    /\ rm.pc = "revoke"
    /\ rm.reply = "ok" \/ remote'[removal.old.ref] = "revoked"

LEMMA RmStepEnds ==
  ASSUME TypeOK, RmInv, RmStep
  PROVE  RmEnds
<1>0. removal \in RemovalRow
  BY TypedParts, Zenon
<1>a. \A p \in RemovalPhases : SetPhase(p) => removal'.phase = p
  BY <1>0, PhaseSet, Zenon
<1>1. ASSUME NEW local \in BOOLEAN, RemoveAgent(local) PROVE removal'.phase = "pending"
  BY <1>1 DEF RemoveAgent
<1>2. CASE BeginRevoke
  <2>1. SetPhase("revoking") \/ SetPhase("residual")
    BY <1>2, Zenon DEF BeginRevoke
  <2>2. removal'.phase = "revoking" \/ removal'.phase = "residual"
    BY <1>a, <2>1, RmRows, Zenon
  <2> QED BY <2>2 DEF RmEnds, Ending
<1>3. CASE EndRevoke
  <2>1. rm.pc = "revoke" /\ ((rm.reply = "ok" /\ SetPhase("revoked")) \/ SetPhase("residual"))
    BY <1>3, Zenon DEF EndRevoke
  <2>2. rm.pc = "revoke" /\ ((rm.reply = "ok" /\ removal'.phase = "revoked")
                             \/ removal'.phase = "residual")
    BY <1>a, <2>1, RmRows, Zenon
  <2> QED BY <2>2 DEF RmEnds, Ending
<1>4. CASE SkipRevoke
  <2>1. ~NeedsRevoke /\ SetPhase("revoked")
    BY <1>4, Zenon DEF SkipRevoke
  <2>2. removal'.phase = "revoked"
    BY <1>a, <2>1, RmRows, Zenon
  <2> QED BY <2>1, <2>2 DEF RmEnds
<1>5. CASE DeleteRegistryRow
  <2>1. removal.phase = "revoked" /\ (SetPhase("residual") \/ SetPhase("registry_deleted"))
    BY <1>5, Zenon DEF DeleteRegistryRow
  <2>2. removal'.phase = "residual" \/ removal'.phase = "registry_deleted"
    BY <1>a, <2>1, RmRows, Zenon
  <2> QED BY <2>1, <2>2 DEF RmEnds, Ending
<1>6. CASE DeleteToken
  <2>1. /\ removal.phase = "registry_deleted"
        /\ \/ SetPhase("credential_deleted") /\ files' = files \ {removal.old.ref}
           \/ SetPhase("residual")
    BY <1>6, Zenon DEF DeleteToken
  <2>2. \/ removal'.phase = "credential_deleted" /\ files' = files \ {removal.old.ref}
        \/ removal'.phase = "residual"
    BY <1>a, <2>1, RmRows, Zenon
  <2> QED BY <2>1, <2>2 DEF RmEnds, Ending
<1>7. CASE Complete
  <2>1. removal.phase = "credential_deleted"
    BY <1>7, Zenon DEF Complete
  <2> QED BY <2>1 DEF RmEnds, Ending
<1>8. CASE removal' = removal
  BY <1>8, Zenon DEF RmEnds
<1>9. CASE \E local \in BOOLEAN : RemoveAgent(local)
  <2>1. removal'.phase = "pending"
    BY <1>1, <1>9, Zenon
  <2> QED BY <2>1 DEF RmEnds, Ending
<1>10. CASE DeleteRefused \/ CrashInDelete \/ CrashInToken
  BY <1>8, <1>10, Zenon DEF DeleteRefused, CrashInDelete, CrashInToken
<1> QED BY <1>2, <1>3, <1>4, <1>5, <1>6, <1>7, <1>9, <1>10, Zenon DEF RmStep

LEMMA RmStepAnswers ==
  ASSUME RmStep
  PROVE  RmAnswers
<1>1. CASE rm' = rm
  BY <1>1, Zenon DEF RmAnswers
<1>2. CASE rm' = IdleRm \/ rm' = [pc |-> "run", reply |-> "none"]
           \/ rm' = [pc |-> "revoke", reply |-> "none"]
  BY <1>2 DEF IdleRm, RmAnswers
<1> QED BY <1>1, <1>2, Zenon DEF RmStep, RemoveAgent, BeginRevoke, EndRevoke, SkipRevoke,
  DeleteRegistryRow, DeleteRefused, DeleteToken, Complete, CrashInDelete, CrashInToken, Die

LEMMA RmOutcome ==
  ASSUME TypeOK, RmInv, [Next]_vars
  PROVE  RmEnds /\ RmAnswers
<1>0. rm \in RmRow /\ remote \in [Creds -> RemoteStates]
  BY TypedParts, Zenon
<1>a. removal' = removal => RmEnds
  BY Zenon DEF RmEnds
<1>b. rm' = rm => RmAnswers
  BY Zenon DEF RmAnswers
<1>c. Die => RmAnswers
  BY DieTyped DEF RmAnswers
<1>1. ASSUME NEW j \in Rots, RotStep(j) PROVE removal' = removal /\ rm' = rm
  BY <1>1, Zenon DEF RotStep, StartRotation, Publish, Close, PendingLapses, LeaseLapses
<1>2. ASSUME NEW r \in Recs, RecStep(r) PROVE removal' = removal /\ (rm' = rm \/ Die)
  <2>1. ASSUME NEW j \in Rots, ConsumeRotation(r, j) \/ Claim(r, j)
        PROVE  removal' = removal /\ rm' = rm
    BY <2>1, Zenon DEF ConsumeRotation, Claim
  <2>2. CASE NothingToClaim(r) \/ Abandon(r) \/ EndValidation(r) \/ EndActivation(r)
    BY <2>2, Zenon DEF NothingToClaim, Abandon, EndValidation, EndActivation
  <2>3. CASE RetireOld(r) \/ EndCompensation(r) \/ RecoverCleanup(r) \/ SwapRegistry(r)
    BY <2>3, Zenon DEF RetireOld, EndCompensation, RecoverCleanup, SwapRegistry
  <2>4. CASE CrashInRetire(r) \/ RestartRecovers(r)
    BY <2>4, Zenon DEF CrashInRetire, RestartRecovers
  <2> QED BY <1>2, <2>1, <2>2, <2>3, <2>4, Zenon DEF RecStep
<1>3. ASSUME NEW u \in Upds, UpdStep(u) PROVE removal' = removal /\ (rm' = rm \/ Die)
  BY <1>3, Zenon DEF UpdStep, BeginUpdate, EndUpdate, UpdateFails, CrashInUpdate
<1>4. ASSUME NEW m \in wire, AgentHandles(m) PROVE RmEnds /\ RmAnswers
  <2>1. removal' = removal
    BY <1>4, Zenon DEF AgentHandles
  <2>2. CASE /\ rm.pc = m.kind /\ m.cred = removal.old.ref
             /\ rm' = [rm EXCEPT !.reply = IF Authorised(m) THEN "ok" ELSE "rejected"]
    <3>1. (IF Authorised(m) THEN "ok" ELSE "rejected") \in Replies
      BY DEF Replies
    <3>2. rm'.pc = rm.pc /\ rm'.reply = IF Authorised(m) THEN "ok" ELSE "rejected"
      BY <1>0, <2>2, <3>1, RmReply, Zenon
    <3>3. m.cred \in Creds /\ (Authorised(m) => remote' = [remote EXCEPT ![m.cred] =
                   IF m.kind = "activate" THEN "active" ELSE "revoked"])
      BY <1>4, HandlesDoes, Zenon
    <3>4. rm.pc = "revoke" /\ Authorised(m) => remote'[removal.old.ref] = "revoked"
      BY <1>0, <2>2, <3>3
    <3> QED BY <1>a, <2>1, <3>2, <3>4 DEF RmAnswers
  <2> QED BY <1>a, <1>b, <1>4, <2>1, <2>2, HandlesDoes, Zenon
<1>5. ASSUME NEW m \in wire, Lose(m) PROVE removal' = removal /\ rm' = rm
  BY <1>5, Zenon DEF Lose
<1>6. CASE Pin \/ SweepOrphans \/ Crash \/ UNCHANGED vars
  BY <1>a, <1>b, <1>c, <1>6, Zenon DEF Pin, SweepOrphans, Crash, vars
<1>7. CASE Restart
  <2>1. removal' = removal /\ (rm' = IdleRm \/ rm' = [pc |-> "run", reply |-> "none"])
    BY <1>7, Zenon DEF Restart
  <2> QED BY <1>a, <2>1 DEF IdleRm, RmAnswers
<1> QED BY <1>a, <1>b, <1>c, <1>1, <1>2, <1>3, <1>4, <1>5, <1>6, <1>7, RmStepEnds, RmStepAnswers,
  Zenon DEF Next

\* What the removal, or a consumed job, put away does not come back.
LEMMA StaysAway ==
  ASSUME TypeOK, SagaInv, CredInv, [Next]_vars, NEW c \in Creds, c \notin files,
         \/ removal.phase # "none" /\ c = removal.old.ref
         \/ \E j \in Rots : rot[j].state # "none" /\ c = rot[j].old.ref
  PROVE  c \notin files'
<1>0. SnapInv /\ RmInv /\ FreshInv /\ RefInv
  BY DEF SagaInv, CredInv
<1>1. FileStep(c)
  BY <1>0, FileSteps
<1>2. c \in Rots => rot[c].state = "consumed"
  BY <1>0, Zenon DEF RefInv
<1>3. c \in Upds => upd[c].pc = "done"
  BY <1>0, Zenon DEF FreshInv
<1>4. ~FileAppears(c)
  BY <1>2, <1>3 DEF FileAppears
<1> QED BY <1>1, <1>4, Zenon DEF FileStep

LEMMA WithdrawnStays ==
  ASSUME TypeOK, SagaInv, CredInv, [Next]_vars, removal.phase # "none", Withdrawn
  PROVE  Withdrawn'
<1>0. RmInv /\ KindInv /\ WireInv /\ JobInv
  BY DEF SagaInv, CredInv
<1>1. removal'.old = removal.old /\ removal'.local = removal.local
  BY <1>0, RemovalSteps DEF RemovalStarts, RemovalMoves
<1>2. PICK c \in Creds : c = removal.old.ref
  BY OldRows
<1>3. remote[c] \in {"revoked", "admin"} => remote'[c] \in {"revoked", "admin"}
  BY <1>0, RevokedFinal, AdminFixed
<1>4. removal.local \/ remote[c] \in {"revoked", "admin"}
  BY <1>2, Zenon DEF Withdrawn
<1> QED BY <1>1, <1>2, <1>3, <1>4, Zenon DEF Withdrawn

LEMMA RemovalEndNext ==
  ASSUME TypeOK, SagaInv, CredInv, [Next]_vars
  PROVE  /\ removal'.phase = "none" => ~removal'.local
         /\ removal'.phase \in Ending => Withdrawn'
         /\ ~agent'.present => Withdrawn'
         /\ removal'.phase \in {"credential_deleted", "completed"} => removal'.old.ref \notin files'
         /\ rm'.pc = "revoke" /\ rm'.reply = "ok" => remote'[removal'.old.ref] = "revoked"
<1>0. /\ SnapInv /\ RmInv /\ KindInv /\ FreshInv /\ WireInv /\ JobInv /\ EndInv
  BY DEF SagaInv, CredInv
<1>1. removal' = removal \/ RemovalStarts \/ RemovalMoves
  BY <1>0, RemovalSteps
<1>2. RmEnds /\ RmAnswers
  BY <1>0, RmOutcome
<1>3. removal.phase # "none" => removal'.old = removal.old
  BY <1>1 DEF RemovalStarts, RemovalMoves
<1>4. removal'.phase = "none" => ~removal'.local
  BY <1>0, <1>1 DEF EndInv, RemovalStarts, RemovalMoves
<1>5. removal'.phase \in Ending => removal.phase # "none"
  BY <1>1 DEF RemovalStarts, RemovalMoves, Ending
<1>6. ASSUME removal'.phase \in Ending PROVE Withdrawn'
  <2>1. removal.phase \in Ending => Withdrawn
    BY <1>0 DEF EndInv, Ending
  <2>2. ~NeedsRevoke => Withdrawn
    <3>1. removal.old.legacy => remote[removal.old.ref] = "admin"
      BY <1>0, Zenon DEF KindInv, RowKind
    <3>2. ~NeedsRevoke => removal.local \/ removal.old.legacy
      BY Zenon DEF NeedsRevoke
    <3>3. remote[removal.old.ref] = "admin" => Withdrawn
      BY DEF Withdrawn
    <3>4. removal.local => Withdrawn
      BY Zenon DEF Withdrawn
    <3> QED BY <3>1, <3>2, <3>3, <3>4, Zenon
  <2>3. rm.pc = "revoke" /\ rm.reply = "ok" => Withdrawn
    BY <1>0 DEF EndInv, Withdrawn
  <2>4. Withdrawn
    BY <1>2, <1>6, <2>1, <2>2, <2>3, Zenon DEF RmEnds
  <2> QED BY <1>5, <1>6, <2>4, WithdrawnStays
<1>7. ASSUME ~agent'.present PROVE Withdrawn'
  <2>1. CASE ~agent.present
    <3>1. Withdrawn
      BY <1>0, <2>1, Zenon DEF EndInv
    <3>2. removal.phase # "none"
      BY <1>0, <2>1, Zenon DEF RmInv
    <3> QED BY <3>1, <3>2, WithdrawnStays
  <2>2. CASE AgentGone
    <3>1. removal.phase = "revoked"
      BY <2>2, Zenon DEF AgentGone
    <3>2. Withdrawn /\ removal.phase # "none"
      BY <1>0, <3>1 DEF EndInv
    <3> QED BY <3>2, WithdrawnStays
  <2> QED BY <1>0, <1>7, <2>1, <2>2, AgentSteps, Zenon DEF AgentStep, AgentSwapped, AgentUpdated,
    AgentPinned
<1>8. ASSUME removal'.phase \in {"credential_deleted", "completed"}
      PROVE  removal'.old.ref \notin files'
  <2>1. removal'.phase \in Ending
    BY <1>8 DEF Ending
  <2>2. PICK c \in Creds : c = removal.old.ref
    BY OldRows
  <2>3. CASE removal.phase \in {"credential_deleted", "completed"}
    <3>1. c \notin files
      BY <1>0, <2>2, <2>3, Zenon DEF EndInv
    <3>2. c \notin files'
      BY <1>5, <2>1, <2>2, <3>1, StaysAway
    <3> QED BY <1>3, <1>5, <2>1, <2>2, <3>2, Zenon
  <2> QED BY <1>2, <1>3, <1>5, <1>8, <2>1, <2>3, Zenon DEF RmEnds
<1>9. ASSUME rm'.pc = "revoke", rm'.reply = "ok" PROVE remote'[removal'.old.ref] = "revoked"
  <2>1. rm.pc = "revoke" /\ (rm.reply = "ok" \/ remote'[removal.old.ref] = "revoked")
    BY <1>2, <1>9, Zenon DEF RmAnswers
  <2>2. removal.phase # "none"
    BY <1>0, <2>1 DEF RmInv
  <2>3. PICK c \in Creds : c = removal.old.ref
    BY OldRows
  <2>4. rm.reply = "ok" => remote[c] = "revoked"
    BY <1>0, <2>1, <2>3, Zenon DEF EndInv
  <2>5. remote[c] = "revoked" => remote'[c] = "revoked"
    BY <1>0, RevokedFinal
  <2> QED BY <1>3, <2>1, <2>2, <2>3, <2>4, <2>5, Zenon
<1> QED BY <1>4, <1>6, <1>7, <1>8, <1>9, Zenon

LEMMA EndNext ==
  ASSUME TypeOK, SagaInv, CredInv, [Next]_vars
  PROVE  EndInv'
<1>0. /\ SnapInv /\ RmInv /\ ClaimInv /\ KindInv /\ WireInv /\ JobInv /\ RecInv /\ EndInv
  BY DEF SagaInv, CredInv
<1>1. ASSUME NEW j \in Rots, rot'[j].state = "consumed"
      PROVE  rot'[j].old.ref \notin files' /\ remote'[rot'[j].old.ref] \in {"revoked", "admin"}
  <2>1. JobStep(j)
    BY <1>0, JobSteps
  <2>2. PICK c \in Creds : c = rot[j].old.ref
    BY OldRows
  <2>3. CASE JobStays(j)
    <3>1. rot[j].state = "consumed" /\ rot'[j].old = rot[j].old
      BY <1>1, <2>3, Zenon DEF JobStays
    <3>2. c \notin files /\ remote[c] \in {"revoked", "admin"}
      BY <1>0, <2>2, <3>1, Zenon DEF EndInv
    <3>3. rot[j].state # "none"
      BY <3>1
    <3>4. c \notin files'
      BY <2>2, <3>2, <3>3, StaysAway
    <3>5. remote'[c] \in {"revoked", "admin"}
      BY <1>0, <3>2, RevokedFinal, AdminFixed
    <3> QED BY <2>2, <3>1, <3>4, <3>5
  <2>4. CASE JobRetired(j)
    <3>1. remote[c] \in {"revoked", "admin"}
      BY <1>0, <2>2, <2>4, Zenon DEF JobRetired, RecInv
    <3>2. /\ rot'[j].old = rot[j].old /\ remote' = remote
          /\ files' = files \ {rot[j].old.ref}
      BY <2>4, Zenon DEF JobRetired
    <3> QED BY <2>2, <3>1, <3>2, Zenon
  <2> QED BY <1>1, <2>1, <2>3, <2>4 DEF JobStep, JobOpens, JobPublished, JobClosed, JobSaved,
    JobDropped, JobInvalid, JobActivated, JobCompensated
<1>2. /\ removal'.phase = "none" => ~removal'.local
      /\ removal'.phase \in Ending => Withdrawn'
      /\ ~agent'.present => Withdrawn'
      /\ removal'.phase \in {"credential_deleted", "completed"} => removal'.old.ref \notin files'
      /\ rm'.pc = "revoke" /\ rm'.reply = "ok" => remote'[removal'.old.ref] = "revoked"
  BY RemovalEndNext
<1> QED BY <1>1, <1>2, Zenon DEF EndInv, Ending

LEMMA CredInductive ==
  ASSUME TypeOK, SagaInv, CredInv, [Next]_vars
  PROVE  CredInv'
  BY KindNext, FreshNext, RefNext, WireNext, JobNext, RecNext, WorksNext, ActiveNext, TokenNext,
     EndNext DEF CredInv

LEMMA CredInit == Init => CredInv
<1> SUFFICES ASSUME Init PROVE CredInv
  OBVIOUS
<1>1. PICK legacy \in BOOLEAN :
        /\ agent = [present |-> TRUE, rev |-> 1, ref |-> First,
                    pinned |-> ~legacy, legacy |-> legacy, cfg |-> 0]
        /\ remote = [c \in Creds |-> IF c \in Upds \/ (c = First /\ legacy) THEN "admin"
                                     ELSE IF c = First THEN "active" ELSE "none"]
  BY Zenon DEF Init
<1>2. /\ agent.present /\ agent.ref = First
      /\ agent.pinned <=> ~legacy
      /\ agent.legacy <=> legacy
  BY <1>1, Zenon
<1>3. /\ remote[First] = IF legacy THEN "admin" ELSE "active"
      /\ \A u \in Upds : remote[u] = "admin"
      /\ \A j \in Rots : remote[j] = "none"
  BY <1>1, NamesApart
<1>4. \A j \in Rots : rot[j].state = "none" /\ rot[j].old = agent /\ rot[j].claim = NoOwner
  BY Zenon DEF Init
<1>5. \A u \in Upds : upd[u].old = agent
  BY Zenon DEF Init
<1>6. \A r \in Recs : rec[r].pc = "idle"
  BY Zenon DEF Init, IdleRec
<1>7. removal.phase = "none" /\ removal.old = agent /\ ~removal.local
  BY Zenon DEF Init
<1>8. rm.pc = "idle" /\ files = {First} /\ wire = {}
  BY Zenon DEF Init, IdleRm
<1>9. RowKind(agent)
  <2>1. remote[First] = "admin" <=> legacy
    BY <1>3
  <2> QED BY <1>2, <2>1, Zenon DEF RowKind
<1>10. KindInv
  <2>1. \A j \in Rots : remote[j] # "admin"
    BY <1>3
  <2> QED BY <1>3, <1>4, <1>5, <1>7, <1>8, <1>9, <2>1, Zenon DEF KindInv
<1>11. FreshInv
  BY <1>2, <1>4, <1>5, <1>7, NamesApart, Zenon DEF FreshInv
<1>12. RefInv
  BY <1>2, <1>4, <1>7, NamesApart, Zenon DEF RefInv
<1>13. WireInv
  BY <1>8, Zenon DEF WireInv
<1>14. JobInv
  BY <1>3, <1>4 DEF JobInv, JobRemote
<1>15. RecInv
  BY <1>6 DEF RecInv
<1>16. remote[First] \in {"active", "admin"}
  BY <1>3
<1>17. WorksInv
  BY <1>2, <1>8, <1>16, Zenon DEF WorksInv
<1>18. \A c \in Creds : remote[c] = "active" => c = First
  BY <1>3 DEF Creds
<1>19. ActiveInv /\ TokenKept
  BY <1>2, <1>8, <1>18, Zenon DEF ActiveInv, Named, TokenKept
<1>20. EndInv
  BY <1>2, <1>4, <1>7, <1>8 DEF EndInv
<1> QED BY <1>10, <1>11, <1>12, <1>13, <1>14, <1>15, <1>17, <1>19, <1>20 DEF CredInv

LEMMA CredHolds == Spec => []CredInv
<1>1. TypeOK /\ SagaInv /\ CredInv /\ [Next]_vars => CredInv'
  BY CredInductive
<1> QED BY <1>1, CredInit, LifecycleTyped, SagaHolds, PTL DEF Spec

\* A registered Agent that is not being removed always has its token file and
\* a credential the Agent accepts: for any number of rotations, updates,
\* recover() calls and crashes, whether or not the event loop stalls past a
\* lease, and however late the Agent handles an activate or a revoke.
THEOREM RegisteredAlwaysWorks == Spec => []RegisteredWorks
<1>1. SagaInv /\ CredInv => RegisteredWorks
  <2> SUFFICES ASSUME SagaInv, CredInv, agent.present, ~Unfinished
               PROVE  agent.ref \in files /\ remote[agent.ref] \in {"active", "admin"}
    BY Zenon DEF RegisteredWorks
  <2>1. RmInv /\ WorksInv
    BY DEF SagaInv, CredInv
  <2>2. removal.phase = "none"
    BY <2>1 DEF RmInv, Unfinished
  <2> QED BY <2>1, <2>2, Zenon DEF WorksInv
<1> QED BY <1>1, SagaHolds, CredHolds, PTL

\* A credential the Agent holds active always has its token file at the
\* Manager, which can therefore still revoke it, unless the user chose a
\* local-only removal: no cleanup, sweep, compensation or retirement deletes
\* the file of an active credential, at any crash point.
THEOREM TokensAlwaysKept == Spec => []TokenKept
<1>1. CredInv => TokenKept
  BY DEF CredInv
<1> QED BY <1>1, CredHolds, PTL

\* A completed removal left neither row nor token file and a withdrawn
\* credential, and a consumed rotation left its old credential withdrawn and
\* without a file, now and ever after.
THEOREM EndsAlwaysClean == Spec => []CleanEnd
<1>1. SagaInv /\ CredInv => CleanEnd
  <2> SUFFICES ASSUME SagaInv, CredInv PROVE CleanEnd
    OBVIOUS
  <2>1. RmInv /\ EndInv
    BY DEF SagaInv, CredInv
  <2>2. removal.phase = "completed" =>
          /\ ~agent.present /\ removal.old.ref \notin files
          /\ removal.local \/ remote[removal.old.ref] \in {"revoked", "admin"}
    BY <2>1 DEF RmInv, EndInv, Withdrawn
  <2> QED BY <2>1, <2>2, Zenon DEF EndInv, CleanEnd
<1> QED BY <1>1, SagaHolds, CredHolds, PTL
==============================================================================
