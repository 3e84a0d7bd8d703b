------------------------ MODULE EnrollmentTokenProofs ------------------------
(***************************************************************************)
(* Enrollment keeps its rows valid, its capacity and the tokens it needs:  *)
(* every stored row passes _validate_job, the live jobs never exceed       *)
(* max_active, a live job keeps the only copy of its token and a           *)
(* registered Agent stays usable, for every number of jobs and recoverers  *)
(* and every bound.                                                        *)
(***************************************************************************)
EXTENDS EnrollmentPromiseProofs, FiniteSetTheorems

-----------------------------------------------------------------------------
(* The inductive invariant.                                                *)

\* A stored row: what the table checks, and a job nobody dispatched yet is
\* still the background task's.
Sound(row) == ValidRow(row) /\ (row.state = "pending" => row.method = "ssh_auto")

RowsSound == \A j \in Jobs : Sound(rows[j])

\* Since the snapshot s was read the row a either ended or kept its token.
After(a, s) == a.state \in Terminal \/ (a.state \in CredentialStates /\ a.ref = s.ref)

\* A publisher before its publication and the running row agree on who enrolls;
\* one that validates holds a valid snapshot of a row that kept its token.
PubFit(row, p) ==
  /\ p.pc = "scheduled" => p.row.method = "ssh_auto"
  /\ p.pc \in {"scheduled", "issuing", "issued"} /\ row.state = "running" =>
       p.row.method = row.method
  /\ p.pc = "validating" => /\ p.row.state = "verifying" /\ ValidRow(p.row)
                            /\ After(row, p.row)

PubsFit == \A j \in Jobs : PubFit(rows[j], pub[j])

\* A recoverer's snapshot is valid, and its job kept the token or ended.
SnapsFit ==
  \A r \in Recs : rec[r].job \in Jobs =>
    ValidRow(rec[r].row) /\ After(rows[rec[r].job], rec[r].row)

JournalInv == RowsSound /\ PubsFit /\ SnapsFit

\* Another job was registered for the target: this one never will be.
Lost(j) == Duplicate(j) /\ ~Registered(j)

\* What a recoverer knows of the Agent: an accepted activation took effect, only
\* a job that lost its target is compensated, and an accepted revoke is final.
CallsFit ==
  \A r \in Recs :
    /\ rec[r].pc = "activate" /\ rec[r].reply = "ok" =>
         remote[rec[r].job] \in {"active", "revoked"}
    /\ rec[r].pc \in {"compensate", "revoke"} => Lost(rec[r].job)
    /\ rec[r].pc = "revoke" /\ rec[r].reply = "ok" => remote[rec[r].job] = "revoked"

\* Only jobs that lost their target are revoked, and an activated one was
\* activated by the Agent.
RevokesFit ==
  /\ \A m \in wire : m.kind = "revoke" => Lost(m.job)
  /\ \A j \in Jobs : remote[j] = "revoked" => Lost(j)
  /\ \A j \in Jobs : rows[j].state = "activated" => remote[j] \in {"active", "revoked"}

AgentInv == CallsFit /\ RevokesFit

-----------------------------------------------------------------------------
(* One row.                                                                *)

\* A row only ever goes forward: it stays valid, an ended job stays ended, and a
\* job that has a token keeps its reference until it ends.
Forward(a, b) ==
  /\ Sound(b)
  /\ a.state \in Terminal => b.state \in Terminal
  /\ a.state \in CredentialStates => After(b, a)

\* Nor is it opened, started or issued a token.
Steady(a, b) ==
  /\ Forward(a, b)
  /\ Live(b) => Live(a)
  /\ b.state = "running" => a.state = "running" /\ b.method = a.method
  /\ Live(b) /\ b.ref # NoRef => b.ref = a.ref

\* Nor activated.
Calm(a, b) == Steady(a, b) /\ (b.state = "activated" => a.state = "activated")

AllForward == \A k \in Jobs : Forward(rows[k], rows'[k])
AllSteady == \A k \in Jobs : Steady(rows[k], rows'[k])
AllCalm == \A k \in Jobs : Calm(rows[k], rows'[k])

\* Time does not end what a snapshot may rely on.
LEMMA AfterForward ==
  ASSUME NEW a, NEW b, NEW s, After(a, s), Forward(a, b)
  PROVE  After(b, s)
  BY DEF After, Forward

\* A row that ended and is claimed consistently is calm.
LEMMA CalmEnds ==
  ASSUME NEW a, NEW b, b.state \in Terminal, ~b.cli,
         (b.owner = NoOwner) = (b.lease = "none")
  PROVE  Calm(a, b)
  BY DEF Calm, Steady, Forward, Sound, ValidRow, After, Live, Terminal, CredentialStates

\* So is one whose claim alone changed.
LEMMA CalmClaims ==
  ASSUME NEW a, NEW b, Sound(a), b.state = a.state, b.method = a.method,
         b.ref = a.ref, b.save = a.save, b.cli = a.cli,
         (b.owner = NoOwner) = (b.lease = "none")
  PROVE  Calm(a, b)
  BY DEF Calm, Steady, Forward, Sound, ValidRow, After, Live, Terminal, CredentialStates

\* And one that goes on with its token.
LEMMA CalmGoes ==
  ASSUME NEW a, NEW b, a.state \in CredentialStates, b.state \in CredentialStates,
         b.state = "activated" => a.state = "activated",
         b.ref = a.ref, a.ref # NoRef,
         b.state \in {"activation_requested", "activated"} => b.save,
         b.cli => b.method = "ssh_cli",
         (b.owner = NoOwner) = (b.lease = "none")
  PROVE  Calm(a, b)
  BY DEF Calm, Steady, Forward, Sound, ValidRow, After, Live, Terminal, CredentialStates, Absent

\* The fields that the row updates write.
LEMMA ClaimFields ==
  ASSUME NEW row \in Row, NEW me
  PROVE  /\ ClearClaim(row).state = row.state /\ ClearClaim(row).method = row.method
         /\ ClearClaim(row).ref = row.ref /\ ClearClaim(row).save = row.save
         /\ ClearClaim(row).cli = row.cli
         /\ RenewRow(row).state = row.state /\ RenewRow(row).method = row.method
         /\ RenewRow(row).ref = row.ref /\ RenewRow(row).save = row.save
         /\ RenewRow(row).cli = row.cli
         /\ ClaimRow(row, me).state = row.state /\ ClaimRow(row, me).method = row.method
         /\ ClaimRow(row, me).ref = row.ref /\ ClaimRow(row, me).save = row.save
         /\ ClaimRow(row, me).cli = row.cli
         /\ ClearClaim(row).owner = NoOwner /\ ClearClaim(row).lease = "none"
         /\ RenewRow(row).owner = row.owner /\ RenewRow(row).lease = "live"
         /\ ClaimRow(row, me).owner = me /\ ClaimRow(row, me).lease = "live"
<1>1. /\ ClearClaim(row).state = row.state /\ ClearClaim(row).method = row.method
      /\ ClearClaim(row).ref = row.ref /\ ClearClaim(row).save = row.save
      /\ ClearClaim(row).cli = row.cli
      /\ ClearClaim(row).owner = NoOwner /\ ClearClaim(row).lease = "none"
  BY Zenon DEF Row, ClearClaim
<1>2. /\ RenewRow(row).state = row.state /\ RenewRow(row).method = row.method
      /\ RenewRow(row).ref = row.ref /\ RenewRow(row).save = row.save
      /\ RenewRow(row).cli = row.cli
      /\ RenewRow(row).owner = row.owner /\ RenewRow(row).lease = "live"
  BY Zenon DEF Row, RenewRow
<1>3. /\ ClaimRow(row, me).state = row.state /\ ClaimRow(row, me).method = row.method
      /\ ClaimRow(row, me).ref = row.ref /\ ClaimRow(row, me).save = row.save
      /\ ClaimRow(row, me).cli = row.cli
      /\ ClaimRow(row, me).owner = me /\ ClaimRow(row, me).lease = "live"
  BY Zenon DEF Row, ClaimRow
<1> QED
  BY <1>1, <1>2, <1>3, Zenon

\* And the ones of a row that ends.
LEMMA EndFields ==
  ASSUME NEW row \in Row
  PROVE  /\ \A b \in {ExpireRow(row), FailRow(row), CancelledRow(row), ConsumeRow(row)} :
              ~b.cli /\ b.owner = NoOwner /\ b.lease = "none" /\ b.state \in Terminal
         /\ ExpireRow(row).ref = row.ref /\ FailRow(row).ref = row.ref
         /\ CancelledRow(row).ref = row.ref
         /\ ExpireRow(row).state = "expired" /\ FailRow(row).state = "failed"
         /\ CancelledRow(row).state = "cancelled" /\ ConsumeRow(row).state = "consumed"
<1>1. /\ ~ExpireRow(row).cli /\ ExpireRow(row).owner = NoOwner
      /\ ExpireRow(row).lease = "none" /\ ExpireRow(row).state = "expired"
      /\ ExpireRow(row).ref = row.ref
  BY Zenon DEF Row, ClearClaim, ExpireRow
<1>2. /\ ~FailRow(row).cli /\ FailRow(row).owner = NoOwner
      /\ FailRow(row).lease = "none" /\ FailRow(row).state = "failed"
      /\ FailRow(row).ref = row.ref
  BY Zenon DEF Row, ClearClaim, FailRow
<1>3. /\ ~CancelledRow(row).cli /\ CancelledRow(row).owner = NoOwner
      /\ CancelledRow(row).lease = "none" /\ CancelledRow(row).state = "cancelled"
      /\ CancelledRow(row).ref = row.ref
  BY Zenon DEF Row, ClearClaim, CancelledRow
<1>4. /\ ~ConsumeRow(row).cli /\ ConsumeRow(row).owner = NoOwner
      /\ ConsumeRow(row).lease = "none" /\ ConsumeRow(row).state = "consumed"
  BY Zenon DEF Row, ClearClaim, ConsumeRow
<1>5. /\ "expired" \in Terminal /\ "failed" \in Terminal /\ "cancelled" \in Terminal
      /\ "consumed" \in Terminal
  BY Zenon DEF Terminal
<1> QED
  BY <1>1, <1>2, <1>3, <1>4, <1>5, Zenon

\* The updates of the journal that keep a row calm.
LEMMA UpdatesCalm ==
  ASSUME NEW a \in Row, Sound(a), NEW me, me # NoOwner
  PROVE  /\ Calm(a, a)
         /\ Calm(a, ExpireRow(a)) /\ Calm(a, FailRow(a)) /\ Calm(a, CancelledRow(a))
         /\ Calm(a, ConsumeRow(a)) /\ Calm(a, FinishCleanupRow(CancelledRow(a)))
         /\ Calm(a, ClearClaim(a)) /\ Calm(a, ClaimRow(a, me))
         /\ a.owner # NoOwner => Calm(a, RenewRow(a))
         /\ a.state \in Terminal => Calm(a, FinishCleanupRow(a))
         /\ ~a.cli => Calm(a, RawExpireRow(a)) /\ Calm(a, [a EXCEPT !.state = "failed"])
<1>0. (a.owner = NoOwner) = (a.lease = "none")
  BY Zenon DEF Sound, ValidRow
<1>1. Calm(a, a)
  BY <1>0, CalmClaims, Zenon
<1>2. /\ Calm(a, ExpireRow(a)) /\ Calm(a, FailRow(a)) /\ Calm(a, CancelledRow(a))
      /\ Calm(a, ConsumeRow(a))
  BY EndFields, CalmEnds, Zenon
<1>3. Calm(a, FinishCleanupRow(CancelledRow(a)))
  <2> DEFINE c == CancelledRow(a)
  <2>1. c \in Row /\ ~c.cli /\ c.owner = NoOwner /\ c.lease = "none" /\ c.state \in Terminal
    BY RowOps, 0 \in Int, EndFields, Zenon
  <2> HIDE DEF c
  <2>2. LET b == FinishCleanupRow(c)
        IN ~b.cli /\ b.owner = NoOwner /\ b.lease = "none" /\ b.state \in Terminal
    BY <2>1, Zenon DEF Row, FinishCleanupRow
  <2> QED
    BY <2>2, CalmEnds, Zenon DEF c
<1>4. Calm(a, ClearClaim(a))
  BY ClaimFields, CalmClaims, Zenon
<1>5. Calm(a, ClaimRow(a, me)) /\ (a.owner # NoOwner => Calm(a, RenewRow(a)))
  <2>1. /\ ClaimRow(a, me).owner = me /\ ClaimRow(a, me).lease = "live"
        /\ RenewRow(a).owner = a.owner /\ RenewRow(a).lease = "live"
    BY ClaimFields, Zenon
  <2>2. (ClaimRow(a, me).owner = NoOwner) = (ClaimRow(a, me).lease = "none")
    BY <2>1
  <2>3. a.owner # NoOwner => (RenewRow(a).owner = NoOwner) = (RenewRow(a).lease = "none")
    BY <2>1
  <2>4. Calm(a, ClaimRow(a, me))
    <3> DEFINE b == ClaimRow(a, me)
    <3>1. /\ b.state = a.state /\ b.method = a.method /\ b.ref = a.ref
          /\ b.save = a.save /\ b.cli = a.cli
      BY ClaimFields
    <3> HIDE DEF b
    <3>2. (b.owner = NoOwner) = (b.lease = "none")
      BY <2>2 DEF b
    <3>3. Calm(a, b)
      BY <3>1, <3>2, CalmClaims
    <3> QED
      BY <3>3 DEF b
  <2>5. a.owner # NoOwner => Calm(a, RenewRow(a))
    BY <2>3, ClaimFields, CalmClaims, Zenon
  <2> QED
    BY <2>4, <2>5
<1>6. a.state \in Terminal => Calm(a, FinishCleanupRow(a))
  <2>1. LET b == FinishCleanupRow(a)
        IN b.cli = a.cli /\ b.owner = a.owner /\ b.lease = a.lease /\ b.state = a.state
    BY Zenon DEF Row, FinishCleanupRow
  <2>2. a.state \in Terminal => ~a.cli
    BY DEF Sound, ValidRow, Terminal, CredentialStates
  <2> QED
    BY <1>0, <2>1, <2>2, CalmEnds, Zenon
<1>7. ~a.cli => Calm(a, RawExpireRow(a)) /\ Calm(a, [a EXCEPT !.state = "failed"])
  <2>1. ASSUME NEW s \in Terminal, ~a.cli PROVE Calm(a, [a EXCEPT !.state = s])
    <3> DEFINE b == [a EXCEPT !.state = s]
    <3>1. b.cli = a.cli /\ b.owner = a.owner /\ b.lease = a.lease /\ b.state = s
      BY Zenon DEF Row
    <3> HIDE DEF b
    <3>2. Calm(a, b)
      BY <1>0, <2>1, <3>1, CalmEnds, Zenon
    <3> QED
      BY <3>2 DEF b
  <2>2. "expired" \in Terminal /\ "failed" \in Terminal
    BY Zenon DEF Terminal
  <2> QED
    BY <2>1, <2>2, Zenon DEF RawExpireRow
<1> QED
  BY <1>1, <1>2, <1>3, <1>4, <1>5, <1>6, <1>7

\* One row moves calmly, the others stay.
LEMMA OneCalm ==
  ASSUME TypeOK, RowsSound, NEW j \in Jobs, NEW b, rows' = [rows EXCEPT ![j] = b],
         Calm(rows[j], b)
  PROVE  AllCalm
<1>1. rows'[j] = b /\ \A k \in Jobs \ {j} : rows'[k] = rows[k]
  BY TypeParts, Zenon
<1>2. 1 # NoOwner
  BY DEF NoOwner
<1>3. \A k \in Jobs : Calm(rows[k], rows[k])
  BY <1>2, TypeParts, UpdatesCalm, Zenon DEF RowsSound
<1> QED
  BY <1>1, <1>3, Zenon DEF AllCalm

\* All rows stay.
LEMMA NoneMoves ==
  ASSUME TypeOK, RowsSound, rows' = rows
  PROVE  AllCalm
<1>2. 1 # NoOwner
  BY DEF NoOwner
<1> QED
  BY <1>2, TypeParts, UpdatesCalm, Zenon DEF RowsSound, AllCalm

-----------------------------------------------------------------------------
(* What every action does to the rows.                                     *)

\* The calm updates of a stored row.
LEMMA StoredCalm ==
  ASSUME TypeOK, RowsSound, NEW j \in Jobs
  PROVE  /\ rows[j] \in Row /\ Sound(rows[j])
         /\ Calm(rows[j], rows[j])
         /\ Calm(rows[j], ExpireRow(rows[j])) /\ Calm(rows[j], FailRow(rows[j]))
         /\ Calm(rows[j], CancelledRow(rows[j]))
         /\ Calm(rows[j], FinishCleanupRow(CancelledRow(rows[j])))
         /\ Calm(rows[j], ClearClaim(rows[j])) /\ Calm(rows[j], ClaimRow(rows[j], epoch))
         /\ rows[j].owner # NoOwner => Calm(rows[j], RenewRow(rows[j]))
         /\ rows[j].state \in Terminal => Calm(rows[j], FinishCleanupRow(rows[j]))
         /\ ~rows[j].cli => /\ Calm(rows[j], RawExpireRow(rows[j]))
                            /\ Calm(rows[j], [rows[j] EXCEPT !.state = "failed"])
<1>1. rows[j] \in Row /\ Sound(rows[j])
  BY TypeParts, Zenon DEF RowsSound
<1>2. epoch # NoOwner
  <2>1. epoch \in Nat \ {0}
    BY TypeParts, Zenon DEF Rest
  <2> QED
    BY <2>1 DEF NoOwner
<1> QED
  BY <1>1, <1>2, UpdatesCalm

\* The API, when it does not create a job.
LEMMA ApiCalm ==
  ASSUME TypeOK, RowsSound, NEW j \in Jobs,
         \/ GetExpires(j) \/ Cancel(j) \/ CrashInCancel(j)
         \/ \E r \in Recs : Consume(r, j)
  PROVE  AllCalm
<1>1. CASE GetExpires(j)
  BY <1>1, StoredCalm, OneCalm, Zenon DEF GetExpires
<1>2. CASE Cancel(j)
  BY <1>2, StoredCalm, OneCalm, Zenon DEF Cancel
<1>3. CASE CrashInCancel(j)
  BY <1>3, StoredCalm, OneCalm, Zenon DEF CrashInCancel
<1>4. ASSUME NEW r \in Recs, Consume(r, j) PROVE AllCalm
  <2> DEFINE a == rows[j]
             b == [a EXCEPT !.state = "activation_requested", !.save = TRUE]
  <2>1. a \in Row /\ Sound(a) /\ a.state = "verified" /\ rows' = [rows EXCEPT ![j] = b]
    BY <1>4, StoredCalm, Zenon DEF Consume
  <2>2. /\ b.state = "activation_requested" /\ b.save = TRUE /\ b.ref = a.ref
        /\ b.cli = a.cli /\ b.method = a.method /\ b.owner = a.owner /\ b.lease = a.lease
    BY <2>1, Zenon DEF Row
  <2> HIDE DEF b
  <2>3. Calm(a, b)
    <3>1. /\ a.state \in CredentialStates /\ b.state \in CredentialStates
          /\ a.ref # NoRef /\ b.state # "activated"
          /\ a.cli => a.method = "ssh_cli"
          /\ (a.owner = NoOwner) = (a.lease = "none")
      BY <2>1, <2>2 DEF Sound, ValidRow, CredentialStates
    <3>2. (b.owner = NoOwner) = (b.lease = "none")
      BY <2>2, <3>1
    <3> QED
      BY <2>2, <3>1, <3>2, CalmGoes, Zenon
  <2> QED
    BY <2>1, <2>3, OneCalm
<1> QED
  BY <1>1, <1>2, <1>3, <1>4

\* A running row whose publisher is the background task has no CLI claim.
LEMMA AutoRow ==
  ASSUME TypeOK, RowsSound, PubsFit, NEW j \in Jobs, rows[j].state = "running",
         \/ pub[j].pc = "scheduled"
         \/ pub[j].pc \in {"issuing", "issued"} /\ pub[j].row.method = "ssh_auto"
  PROVE  ~rows[j].cli
<1>1. PubFit(rows[j], pub[j]) /\ ValidRow(rows[j])
  BY Zenon DEF PubsFit, RowsSound, Sound
<1> QED
  BY <1>1 DEF PubFit, ValidRow

\* The publishers, when they start or issue nothing.
LEMMA PublisherCalm ==
  ASSUME TypeOK, Inv, JournalInv, NEW j \in Jobs,
         \/ DispatchAuto(j) \/ AgentIssues(j) \/ IssueFails(j)
         \/ CliAbandons(j) \/ PublishVerified(j)
  PROVE  AllCalm
<1>0. RowsSound /\ PubsFit
  BY Zenon DEF JournalInv
<1>1. CASE DispatchAuto(j)
  <2>1. \/ rows' = rows
        \/ rows[j].state = "running" /\ rows' = [rows EXCEPT ![j] = RawExpireRow(@)]
        \/ rows[j].state = "running" /\ rows' = [rows EXCEPT ![j].state = "failed"]
    BY <1>1, Zenon DEF DispatchAuto
  <2>2. rows[j].state = "running" => ~rows[j].cli
    BY <1>0, <1>1, AutoRow, Zenon DEF DispatchAuto
  <2> QED
    BY <1>0, <2>1, <2>2, NoneMoves, OneCalm, StoredCalm, StateWrite, Zenon
<1>2. CASE AgentIssues(j) \/ CliAbandons(j)
  BY <1>0, <1>2, NoneMoves, Zenon DEF AgentIssues, CliAbandons
<1>3. CASE IssueFails(j)
  <2>1. \/ rows' = rows
        \/ rows[j].state = "running" /\ rows' = [rows EXCEPT ![j].state = "awaiting_cli"]
        \/ rows[j].state = "running" /\ rows' = [rows EXCEPT ![j].state = "failed"]
    BY <1>3, Zenon DEF IssueFails
  <2>2. rows[j].state = "running" => ~rows[j].cli
    BY <1>0, <1>3, AutoRow, Zenon DEF IssueFails
  <2>3. ASSUME rows[j].state = "running"
        PROVE  Calm(rows[j], [rows[j] EXCEPT !.state = "awaiting_cli"])
    <3> DEFINE a == rows[j]
               b == [a EXCEPT !.state = "awaiting_cli"]
    <3>1. a \in Row /\ Sound(a)
      BY <1>0, StoredCalm, Zenon
    <3>2. /\ b.state = "awaiting_cli" /\ b.ref = a.ref /\ b.cli = a.cli /\ b.save = a.save
          /\ b.method = a.method /\ b.owner = a.owner /\ b.lease = a.lease
      BY <3>1, Zenon DEF Row
    <3> HIDE DEF b
    <3>3. Calm(a, b)
      BY <2>2, <2>3, <3>1, <3>2 DEF Calm, Steady, Forward, Sound, ValidRow, After, Live, Terminal,
        CredentialStates, Absent
    <3> QED
      BY <3>3 DEF b
  <2> QED
    BY <1>0, <2>1, <2>2, <2>3, NoneMoves, OneCalm, StoredCalm, StateWrite, Zenon
<1>4. CASE PublishVerified(j)
  <2> DEFINE a == rows[j]
             s == pub[j].row
             b == [s EXCEPT !.state = "verified"]
  <2>1. \/ rows' = rows
        \/ /\ pub[j].pc = "validating" /\ a.state = "verifying"
           /\ rows' = [rows EXCEPT ![j] = b]
    BY <1>4, Zenon DEF PublishVerified
  <2>2. ASSUME pub[j].pc = "validating", a.state = "verifying" PROVE Calm(a, b)
    <3>1. s \in Row /\ PubFit(a, pub[j]) /\ ValidRow(a)
      BY <1>0, TypeParts, Zenon DEF PubsFit, PubRecord, RowsSound, Sound
    <3>2. /\ b.state = "verified" /\ b.ref = s.ref /\ b.cli = s.cli /\ b.save = s.save
          /\ b.method = s.method /\ b.owner = s.owner /\ b.lease = s.lease
      BY <3>1, Zenon DEF Row
    <3>3. ValidRow(s) /\ s.state = "verifying" /\ After(a, s)
      BY <2>2, <3>1, Zenon DEF PubFit
    <3> HIDE DEF b, s
    <3>4. /\ a.state \in CredentialStates /\ b.state \in CredentialStates
          /\ b.state # "activated" /\ b.ref = a.ref /\ a.ref # NoRef
          /\ b.state \notin {"activation_requested", "activated"}
          /\ b.cli => b.method = "ssh_cli"
          /\ (b.owner = NoOwner) = (b.lease = "none")
      BY <2>2, <3>1, <3>2, <3>3 DEF After, ValidRow, Terminal, CredentialStates
    <3> QED
      BY <3>4, CalmGoes, Zenon
  <2> HIDE DEF b
  <2> QED
    BY <1>0, <2>1, <2>2, NoneMoves, OneCalm, Zenon
<1> QED
  BY <1>1, <1>2, <1>3, <1>4

\* Calm updates compose.
LEMMA CalmTrans ==
  ASSUME NEW a, NEW b, NEW c, Calm(a, b), Calm(b, c)
  PROVE  Calm(a, c)
  BY DEF Calm, Steady, Forward, After

\* What follows the renewal of a claim, by a recoverer that holds it.
LEMMA RenewedCalm ==
  ASSUME TypeOK, RowsSound, NEW r \in Recs, rec[r].pc \notin {"idle", "prepare", "next"},
         Fenced(r)
  PROVE  LET a == rows[rec[r].job]
             fresh == Renewed(r)
         IN /\ rec[r].job \in Jobs /\ fresh \in Row /\ Calm(a, fresh)
            /\ Calm(a, FailRow(fresh)) /\ Calm(a, ClearClaim(fresh))
            /\ Calm(a, ConsumeRow(fresh)) /\ a.owner # NoOwner
<1> DEFINE a == rows[rec[r].job]
           fresh == Renewed(r)
<1>1. rec[r].job \in Jobs /\ a \in Row /\ fresh \in Row
  BY AtWork
<1>2. a.owner # NoOwner
  BY HeldOwner, Zenon DEF Fenced
<1>3. Calm(a, fresh)
  BY <1>1, <1>2, StoredCalm, Zenon DEF Renewed
<1>4. Sound(fresh)
  BY <1>3, Zenon DEF Calm, Steady, Forward
<1> HIDE DEF a, fresh
<1>5. Calm(fresh, FailRow(fresh)) /\ Calm(fresh, ClearClaim(fresh))
      /\ Calm(fresh, ConsumeRow(fresh))
  <2>1. fresh \in Row /\ Sound(fresh) /\ a.owner # NoOwner
    BY <1>1, <1>2, <1>4
  <2>2. Calm(fresh, FailRow(fresh))
    BY <2>1, UpdatesCalm
  <2>3. Calm(fresh, ClearClaim(fresh))
    BY <2>1, UpdatesCalm
  <2>4. Calm(fresh, ConsumeRow(fresh))
    BY <2>1, UpdatesCalm
  <2> QED
    BY <2>2, <2>3, <2>4
<1> QED
  BY <1>1, <1>2, <1>3, <1>5, CalmTrans DEF a, fresh

\* Recovery's sweep, claim and cleanup.
LEMMA SweepCalm ==
  ASSUME TypeOK, RowsSound, NEW r \in Recs,
         RecoverPrepare(r) \/ RecoverCleanup(r) \/ \E j \in Jobs : RecoverClaim(r, j)
  PROVE  AllCalm
<1>1. CASE RecoverPrepare(r)
  <2>1. rows' = [j \in Jobs |-> IF Due(rows[j], past[j]) THEN ExpireRow(rows[j])
                                                         ELSE rows[j]]
    BY <1>1, Zenon DEF RecoverPrepare
  <2> QED
    BY <2>1, StoredCalm, Zenon DEF AllCalm
<1>2. CASE RecoverCleanup(r)
  <2>1. PICK D \in SUBSET Uncleaned :
          rows' = [j \in Jobs |-> IF j \in D THEN FinishCleanupRow(rows[j]) ELSE rows[j]]
    BY <1>2, Zenon DEF RecoverCleanup
  <2> QED
    BY <2>1, StoredCalm, Zenon DEF AllCalm, Uncleaned
<1>3. ASSUME NEW j \in Jobs, RecoverClaim(r, j) PROVE AllCalm
  <2> DEFINE row == IF Due(rows[j], past[j]) THEN ExpireRow(rows[j]) ELSE rows[j]
  <2>1. \/ Claimable(row) /\ rows' = [rows EXCEPT ![j] = ClaimRow(row, epoch)]
        \/ rows' = [rows EXCEPT ![j] = row]
    BY <1>3, Zenon DEF RecoverClaim, Write
  <2>2. Calm(rows[j], row)
    BY StoredCalm, Zenon
  <2>3. Calm(rows[j], ClaimRow(row, epoch))
    <3>1. row \in Row /\ Sound(row)
      BY <2>2, StoredCalm, RowOps, 0 \in Int, Zenon DEF Calm, Steady, Forward
    <3>2. epoch # NoOwner
      <4>1. epoch \in Nat \ {0}
        BY TypeParts, Zenon DEF Rest
      <4> QED
        BY <4>1 DEF NoOwner
    <3> HIDE DEF row
    <3>3. Calm(row, ClaimRow(row, epoch))
      BY <3>1, <3>2, UpdatesCalm
    <3> QED
      BY <2>2, <3>3, CalmTrans
  <2> HIDE DEF row
  <2> QED
    BY <2>1, <2>2, <2>3, OneCalm, Zenon
<1> QED
  BY <1>1, <1>2, <1>3

\* The row a recoverer takes from credential_issued to verifying.
LEMMA VerifyingCalm ==
  ASSUME TypeOK, RowsSound, SnapsFit, NEW r \in Recs, rec[r].pc = "validation",
         rec[r].row.state = "credential_issued",
         rows[rec[r].job].state = "credential_issued"
  PROVE  LET b == Transitioned(rec[r].row, "verifying")
         IN b \in Row /\ b.state = "verifying" /\ Calm(rows[rec[r].job], b)
<1> DEFINE a == rows[rec[r].job]
           s == rec[r].row
           b == Transitioned(s, "verifying")
<1>1. rec[r].job \in Jobs /\ s \in Row
  BY AtWork
<1>2. ValidRow(s) /\ After(a, s) /\ ValidRow(a)
  BY <1>1, Zenon DEF SnapsFit, RowsSound, Sound
<1>3. b \in Row
  BY <1>1, RowOps, StateNames, 0 \in Int, Zenon
<1> HIDE DEF s
<1>4. /\ b.state = "verifying" /\ b.ref = s.ref /\ b.cli = s.cli /\ b.save = s.save
      /\ b.method = s.method /\ b.owner = s.owner /\ b.lease = s.lease
  BY <1>1, Zenon DEF Transitioned, Row
<1> HIDE DEF a, b
<1>5. /\ a.state \in CredentialStates /\ b.state \in CredentialStates
      /\ b.state # "activated" /\ b.ref = a.ref /\ a.ref # NoRef
      /\ b.state \notin {"activation_requested", "activated"}
      /\ b.cli => b.method = "ssh_cli"
      /\ (b.owner = NoOwner) = (b.lease = "none")
  <2>1. a.state = "credential_issued" /\ s.state = "credential_issued"
    BY DEF a, s
  <2> QED
    BY <1>2, <1>4, <2>1 DEF After, ValidRow, Terminal, CredentialStates
<1>6. Calm(a, b)
  BY <1>5, CalmGoes, Zenon
<1> QED
  BY <1>3, <1>4, <1>6 DEF a, b, s

\* Validation by a recoverer.
LEMMA ValidationCalm ==
  ASSUME TypeOK, JournalInv, NEW r \in Recs,
         \/ BeginValidation(r) \/ RenewLease(r) \/ AbandonCall(r) \/ EndValidation(r)
  PROVE  AllCalm
<1> DEFINE j == rec[r].job
           row == rec[r].row
           fresh == Renewed(r)
<1>0. RowsSound /\ SnapsFit /\ rec[r].pc \notin {"idle", "prepare", "next"}
  BY Zenon DEF JournalInv, BeginValidation, RenewLease, AbandonCall, EndValidation, Waiting
<1>1. j \in Jobs /\ rows[j] \in Row /\ fresh \in Row /\ row \in Row
  BY <1>0, AtWork
<1>2. Fenced(r) => /\ Calm(rows[j], fresh) /\ Calm(rows[j], FailRow(fresh))
                   /\ Calm(rows[j], ClearClaim(fresh))
  BY <1>0, RenewedCalm
<1>3. CASE RenewLease(r)
  <2>1. rows' = [rows EXCEPT ![j] = fresh] /\ Fenced(r)
    BY <1>3, Zenon DEF RenewLease, Write
  <2> HIDE DEF j, fresh
  <2> QED
    BY <1>0, <1>1, <1>2, <2>1, OneCalm, Zenon
<1>4. CASE AbandonCall(r)
  BY <1>0, <1>4, NoneMoves, Zenon DEF AbandonCall
<1>5. CASE EndValidation(r)
  <2> DEFINE verified == [Transitioned(fresh, "verified") EXCEPT !.owner = NoOwner,
                                                                 !.lease = "none"]
  <2>1. /\ Fenced(r)
        /\ \/ rows' = [rows EXCEPT ![j] = FailRow(fresh)]
           \/ rows' = [rows EXCEPT ![j] = ClearClaim(fresh)]
           \/ /\ Allowed(fresh.state, "verified")
              /\ rows' = [rows EXCEPT ![j] = verified]
           \/ rows' = [rows EXCEPT ![j] = fresh]
    BY <1>5, Zenon DEF EndValidation, Write
  <2>2. Transitioned(fresh, "verified") \in Row
    BY <1>1, RowOps, StateNames, 0 \in Int, Zenon
  <2> HIDE DEF fresh
  <2>3. /\ verified.state = "verified" /\ verified.ref = fresh.ref
        /\ verified.cli = fresh.cli /\ verified.method = fresh.method
        /\ verified.owner = NoOwner /\ verified.lease = "none"
    BY <1>1, <2>2, Zenon DEF Transitioned, Row
  <2>4. Allowed(fresh.state, "verified") => fresh.state = "verifying"
    BY <1>1, RowFields DEF Allowed, AllowedTransitions, States, Absent
  <2> HIDE DEF verified
  <2>5. ASSUME Allowed(fresh.state, "verified") PROVE Calm(fresh, verified)
    <3>1. ValidRow(fresh)
      BY <1>2, <2>1, Zenon DEF Calm, Steady, Forward, Sound
    <3>2. /\ fresh.state \in CredentialStates /\ verified.state \in CredentialStates
          /\ verified.state # "activated" /\ fresh.ref # NoRef
          /\ verified.state \notin {"activation_requested", "activated"}
          /\ verified.cli => verified.method = "ssh_cli"
          /\ (verified.owner = NoOwner) = (verified.lease = "none")
      BY <2>3, <2>4, <2>5, <3>1 DEF ValidRow, CredentialStates
    <3> QED
      BY <2>3, <3>2, CalmGoes, Zenon
  <2>6. Allowed(fresh.state, "verified") => Calm(rows[j], verified)
    BY <1>2, <2>1, <2>5, CalmTrans
  <2> HIDE DEF j
  <2> QED
    BY <1>0, <1>1, <1>2, <2>1, <2>6, OneCalm, Zenon
<1>6. CASE BeginValidation(r)
  <2> DEFINE next == IF row.state = "credential_issued"
                     THEN Transitioned(row, "verifying") ELSE row
             now == IF row.state = "credential_issued" THEN next ELSE rows[j]
  <2>1. \/ rows' = rows
        \/ /\ row.state = "credential_issued" => rows[j].state = "credential_issued"
           /\ \/ rows' = [rows EXCEPT ![j] = now]
              \/ rows' = [rows EXCEPT ![j] = FailRow(now)]
    BY <1>6, Zenon DEF BeginValidation, MayTransition, Write
  <2>2. ASSUME row.state = "credential_issued" => rows[j].state = "credential_issued"
        PROVE  now \in Row /\ Calm(rows[j], now)
    <3>1. CASE row.state = "credential_issued"
      BY <1>0, <1>6, <2>2, <3>1, VerifyingCalm, Zenon DEF BeginValidation
    <3>2. CASE row.state # "credential_issued"
      BY <1>0, <1>1, <3>2, StoredCalm, Zenon
    <3> QED
      BY <3>1, <3>2
  <2> HIDE DEF now, j
  <2>3. ASSUME now \in Row, Calm(rows[j], now) PROVE Calm(rows[j], FailRow(now))
    <3>1. 1 # NoOwner /\ Sound(now)
      BY <2>3 DEF NoOwner, Calm, Steady, Forward
    <3>2. Calm(now, FailRow(now))
      BY <2>3, <3>1, UpdatesCalm
    <3> QED
      BY <2>3, <3>2, CalmTrans
  <2> QED
    BY <1>0, <1>1, <2>1, <2>2, <2>3, NoneMoves, OneCalm, Zenon
<1> QED
  BY <1>3, <1>4, <1>5, <1>6

\* Commit and compensation by a recoverer, and a call that is not answered yet.
LEMMA CommitCalm ==
  ASSUME TypeOK, RowsSound, NEW r \in Recs,
         \/ BeginActivation(r) \/ Commit(r) \/ BeginCompensation(r)
         \/ EndCompensation(r) \/ CrashInCompensation(r)
  PROVE  AllCalm
<1> DEFINE j == rec[r].job
           fresh == Renewed(r)
<1>0. rec[r].pc \notin {"idle", "prepare", "next"}
  BY Zenon DEF BeginActivation, Commit, BeginCompensation, EndCompensation,
    CrashInCompensation
<1>1. j \in Jobs /\ rows[j] \in Row /\ fresh \in Row
  BY <1>0, AtWork
<1>2. Fenced(r) => /\ Calm(rows[j], fresh) /\ Calm(rows[j], FailRow(fresh))
                   /\ Calm(rows[j], ClearClaim(fresh)) /\ Calm(rows[j], ConsumeRow(fresh))
  BY <1>0, RenewedCalm
<1>3. /\ Calm(rows[j], rows[j]) /\ Calm(rows[j], FailRow(rows[j]))
      /\ Calm(rows[j], ClearClaim(rows[j]))
  BY <1>1, StoredCalm, Zenon
<1>4. CASE BeginActivation(r)
  <2>1. \/ rows' = rows
        \/ rows' = [rows EXCEPT ![j] = FailRow(rows[j])]
        \/ rows' = [rows EXCEPT ![j] = rows[j]]
    BY <1>4, Zenon DEF BeginActivation, Write
  <2> HIDE DEF j
  <2> QED
    BY <1>1, <1>3, <2>1, NoneMoves, OneCalm, Zenon
<1>5. CASE Commit(r)
  <2>1. \/ rows' = rows
        \/ Fenced(r) /\ rows' = [rows EXCEPT ![j] = fresh]
        \/ Fenced(r) /\ rows' = [rows EXCEPT ![j] = ConsumeRow(fresh)]
    BY <1>5, Zenon DEF Commit, Write
  <2> HIDE DEF j, fresh
  <2> QED
    BY <1>1, <1>2, <2>1, NoneMoves, OneCalm, Zenon
<1>6. CASE BeginCompensation(r)
  <2>1. rows' = rows \/ rows' = [rows EXCEPT ![j] = ClearClaim(rows[j])]
    BY <1>6, Zenon DEF BeginCompensation, Residual, Write
  <2> HIDE DEF j
  <2> QED
    BY <1>1, <1>3, <2>1, NoneMoves, OneCalm, Zenon
<1>7. CASE EndCompensation(r)
  <2> DEFINE failed == [FailRow(fresh) EXCEPT !.ref = NoRef]
  <2>1. /\ Fenced(r)
        /\ \/ rows' = [rows EXCEPT ![j] = failed]
           \/ rows' = [rows EXCEPT ![j] = ClearClaim(fresh)]
    BY <1>7, Zenon DEF EndCompensation, Write
  <2>2. /\ failed.state = "failed" /\ ~failed.cli /\ failed.owner = NoOwner
        /\ failed.lease = "none"
    <3> HIDE DEF fresh
    <3>1. FailRow(fresh) \in Row
      BY <1>1, RowOps, 0 \in Int, Zenon
    <3>2. /\ FailRow(fresh).state = "failed" /\ ~FailRow(fresh).cli
          /\ FailRow(fresh).owner = NoOwner /\ FailRow(fresh).lease = "none"
      BY <1>1, EndFields, Zenon
    <3> QED
      BY <3>1, <3>2, Zenon DEF Row
  <2> HIDE DEF j, fresh, failed
  <2>3. Calm(rows[j], failed)
    <3>1. failed.state \in Terminal /\ (failed.owner = NoOwner) = (failed.lease = "none")
      BY <2>2 DEF Terminal
    <3> QED
      BY <2>2, <3>1, CalmEnds, Zenon
  <2> QED
    BY <1>1, <1>2, <2>1, <2>3, OneCalm, Zenon
<1>8. CASE CrashInCompensation(r)
  <2>1. Fenced(r) /\ rows' = [rows EXCEPT ![j] = fresh]
    BY <1>8, Zenon DEF CrashInCompensation
  <2> HIDE DEF j, fresh
  <2> QED
    BY <1>1, <1>2, <2>1, OneCalm, Zenon
<1> QED
  BY <1>4, <1>5, <1>6, <1>7, <1>8

\* The end of an activation: the job fails, or is activated after the Agent said so.
LEMMA EndActivationSteady ==
  ASSUME TypeOK, RowsSound, NEW r \in Recs, EndActivation(r)
  PROVE  /\ AllSteady
         /\ \/ AllCalm
            \/ /\ rec[r].reply = "ok"
               /\ \A k \in Jobs \ {rec[r].job} : Calm(rows[k], rows'[k])
<1> DEFINE j == rec[r].job
           fresh == Renewed(r)
           activated == Transitioned(fresh, "activated")
<1>0. rec[r].pc \notin {"idle", "prepare", "next"} /\ Fenced(r)
  BY Zenon DEF EndActivation
<1>1. j \in Jobs /\ rows[j] \in Row /\ fresh \in Row
  BY <1>0, AtWork
<1>2. Calm(rows[j], fresh) /\ Calm(rows[j], FailRow(fresh))
  BY <1>0, RenewedCalm
<1>3. \/ rows' = [rows EXCEPT ![j] = FailRow(fresh)]
      \/ /\ Allowed(fresh.state, "activated") /\ rec[r].reply = "ok"
         /\ rows' = [rows EXCEPT ![j] = activated]
  BY Zenon DEF EndActivation, Write
<1> HIDE DEF fresh
<1>4. /\ activated.state = "activated" /\ activated.ref = fresh.ref
      /\ activated.save = fresh.save
      /\ activated.cli = fresh.cli /\ activated.method = fresh.method
      /\ activated.owner = fresh.owner /\ activated.lease = fresh.lease
  BY <1>1, Zenon DEF Transitioned, Row
<1>5. Allowed(fresh.state, "activated") => fresh.state = "activation_requested"
  BY <1>1, RowFields DEF Allowed, AllowedTransitions, States, Absent
<1> HIDE DEF activated
<1>6. ASSUME Allowed(fresh.state, "activated") PROVE Steady(rows[j], activated)
  <2>1. Steady(rows[j], fresh) /\ ValidRow(fresh)
    BY <1>2, Zenon DEF Calm, Steady, Forward, Sound
  <2>2. fresh.state = "activation_requested"
    BY <1>5, <1>6
  <2> HIDE DEF j
  <2> QED
    BY <1>4, <2>1, <2>2 DEF Steady, Forward, Sound, ValidRow, After, Live, Terminal,
      CredentialStates, Absent
<1>7. CASE rows' = [rows EXCEPT ![j] = FailRow(fresh)]
  <2> HIDE DEF j
  <2>1. AllCalm
    BY <1>1, <1>2, <1>7, OneCalm, Zenon
  <2> QED
    BY <2>1, Zenon DEF AllCalm, AllSteady, Calm
<1>8. CASE /\ Allowed(fresh.state, "activated") /\ rec[r].reply = "ok"
           /\ rows' = [rows EXCEPT ![j] = activated]
  <2>1. rows'[j] = activated /\ \A k \in Jobs \ {j} : rows'[k] = rows[k]
    BY <1>1, <1>8, TypeParts, Zenon
  <2>2. \A k \in Jobs \ {j} : Calm(rows[k], rows'[k])
    BY <2>1, StoredCalm, Zenon
  <2>3. Steady(rows[j], rows'[j])
    BY <1>6, <1>8, <2>1, Zenon
  <2> QED
    BY <1>8, <2>2, <2>3, Zenon DEF AllSteady, Calm
<1> QED
  BY <1>3, <1>7, <1>8

\* Time, the network, crashes between sections and the orphan sweep.
LEMMA EnvironmentCalm ==
  ASSUME TypeOK, RowsSound,
         \/ \E m \in wire : AgentHandles(m) \/ Lose(m)
         \/ \E j \in Jobs : DeadlinePasses(j) \/ PendingLapses(j) \/ LeaseLapses(j)
         \/ \E r \in Recs : CrashInCleanup(r)
         \/ Crash \/ SweepOrphans
  PROVE  AllCalm
<1>1. ASSUME NEW j \in Jobs, rows' = [rows EXCEPT ![j].lease = "lapsed"],
             rows[j].owner # NoOwner
      PROVE  AllCalm
  <2> DEFINE a == rows[j]
             b == [a EXCEPT !.lease = "lapsed"]
  <2>0. a \in Row /\ Sound(a)
    BY StoredCalm
  <2>1. rows' = [rows EXCEPT ![j] = b]
    BY <1>1, Zenon
  <2>2. /\ b.state = a.state /\ b.save = a.save /\ b.ref = a.ref /\ b.cli = a.cli
        /\ b.method = a.method /\ b.owner = a.owner /\ b.lease = "lapsed"
    BY <2>0, Zenon DEF Row
  <2> HIDE DEF b
  <2>3. (b.owner = NoOwner) = (b.lease = "none")
    BY <1>1, <2>2
  <2>4. Calm(a, b)
    BY <2>0, <2>2, <2>3, CalmClaims, Zenon
  <2> QED
    BY <2>1, <2>4, OneCalm
<1>2. CASE \E m \in wire : AgentHandles(m) \/ Lose(m)
  BY <1>2, NoneMoves, Zenon DEF AgentHandles, Lose
<1>3. ASSUME NEW j \in Jobs, DeadlinePasses(j) PROVE AllCalm
  <2>1. \/ rows' = rows
        \/ rows[j].owner = CliOwner /\ rows' = [rows EXCEPT ![j].lease = "lapsed"]
    BY <1>3, Zenon DEF DeadlinePasses
  <2>2. CliOwner # NoOwner
    BY DEF CliOwner, NoOwner
  <2> QED
    BY <1>1, <2>1, <2>2, NoneMoves, Zenon
<1>4. ASSUME NEW j \in Jobs, PendingLapses(j) PROVE AllCalm
  BY <1>4, NoneMoves, Zenon DEF PendingLapses
<1>5. ASSUME NEW j \in Jobs, LeaseLapses(j) PROVE AllCalm
  <2>1. rows[j].owner >= 1 /\ rows' = [rows EXCEPT ![j].lease = "lapsed"]
    BY <1>5, Zenon DEF LeaseLapses
  <2>2. rows[j].owner # NoOwner
    BY <2>1 DEF NoOwner
  <2> QED
    BY <1>1, <2>1, <2>2
<1>6. CASE Crash \/ SweepOrphans \/ \E r \in Recs : CrashInCleanup(r)
  BY <1>6, NoneMoves, Zenon DEF Crash, SweepOrphans, CrashInCleanup
<1> QED
  BY <1>2, <1>3, <1>4, <1>5, <1>6

\* A create opens one job; the jobs it expires were accepted by the table.
LEMMA CreateRows ==
  ASSUME TypeOK, RowsSound, NEW j \in Jobs, CreateAuto(j) \/ CrashInCreate(j)
  PROVE  /\ \A k \in Jobs \ {j} : Calm(rows[k], rows'[k]) /\ rows'[k] = BulkExpired[k]
         /\ rows[j].state = Absent /\ Sound(rows'[j])
         /\ rows'[j].ref = NoRef /\ rows'[j].state \in {"pending", "running", "awaiting_cli"}
         /\ rows'[j].state = "running" => rows'[j].method = "ssh_auto"
<1> DEFINE auto(s) == [NoRow EXCEPT !.state = s]
           cli == [NoRow EXCEPT !.state = "awaiting_cli", !.method = "ssh_cli"]
<1>1. /\ rows[j].state = Absent /\ BulkExpiryAccepted
      /\ \E b \in {auto("pending"), auto("running"), cli} :
           rows' = [BulkExpired EXCEPT ![j] = b]
  BY Zenon DEF CreateAuto, CrashInCreate, CreateAccepted
<1>2. PICK b \in {auto("pending"), auto("running"), cli} :
        rows' = [BulkExpired EXCEPT ![j] = b]
  BY <1>1
<1>3. /\ Sound(b) /\ b.ref = NoRef /\ b.state \in {"pending", "running", "awaiting_cli"}
      /\ b.state = "running" => b.method = "ssh_auto"
  BY DEF NoRow, Sound, ValidRow, CredentialStates, NoRef, NoOwner
<1> HIDE DEF auto, cli
<1>4. rows'[j] = b /\ \A k \in Jobs \ {j} : rows'[k] = BulkExpired[k]
  BY <1>2, BulkType, Zenon
<1>5. ASSUME NEW k \in Jobs PROVE Calm(rows[k], BulkExpired[k])
  <2>1. /\ BulkExpired[k] = IF Due(rows[k], past[k]) THEN RawExpireRow(rows[k]) ELSE rows[k]
        /\ ValidRow(BulkExpired[k])
    BY <1>1, Zenon DEF BulkExpired, BulkExpiryAccepted
  <2>2. /\ RawExpireRow(rows[k]).cli = rows[k].cli
        /\ RawExpireRow(rows[k]).state = "expired"
    BY StoredCalm, Zenon DEF RawExpireRow, Row
  <2>3. ValidRow(RawExpireRow(rows[k])) => ~rows[k].cli
    BY <2>2 DEF ValidRow, CredentialStates
  <2> QED
    BY <2>1, <2>3, StoredCalm, Zenon
<1> QED
  BY <1>1, <1>3, <1>4, <1>5, Zenon

\* The CLI claims a job that waits for it, or resumes its claim.
LEMMA BeginCliRows ==
  ASSUME TypeOK, RowsSound, NEW j \in Jobs, BeginCli(j)
  PROVE  /\ \A k \in Jobs \ {j} : rows'[k] = rows[k]
         /\ Forward(rows[j], rows'[j]) /\ Live(rows[j])
         /\ rows'[j].state = "running" /\ rows'[j].ref = NoRef
         /\ pub' = [pub EXCEPT ![j] = [pc |-> "issuing", row |-> rows'[j]]]
<1> DEFINE a == rows[j]
           b == [a EXCEPT !.state = "running", !.method = "ssh_cli", !.owner = CliOwner,
                          !.lease = "live", !.rev = @ + 1, !.cli = TRUE]
<1>1. a \in Row /\ Sound(a) /\ Calm(a, a)
  BY StoredCalm
<1>2. \/ /\ a.state = "awaiting_cli" /\ rows' = [rows EXCEPT ![j] = b]
         /\ pub' = [pub EXCEPT ![j] = [pc |-> "issuing", row |-> b]]
      \/ /\ a.state = "running" /\ rows' = rows
         /\ pub' = [pub EXCEPT ![j] = [pc |-> "issuing", row |-> a]]
  BY Zenon DEF BeginCli
<1>3. /\ b.state = "running" /\ b.ref = a.ref /\ b.cli = TRUE /\ b.method = "ssh_cli"
      /\ b.save = a.save /\ b.owner = CliOwner /\ b.lease = "live"
  BY <1>1, Zenon DEF Row
<1> HIDE DEF b
<1>4. CASE /\ a.state = "awaiting_cli" /\ rows' = [rows EXCEPT ![j] = b]
           /\ pub' = [pub EXCEPT ![j] = [pc |-> "issuing", row |-> b]]
  <2>1. rows'[j] = b /\ \A k \in Jobs \ {j} : rows'[k] = rows[k]
    BY <1>4, TypeParts, Zenon
  <2>2. Forward(a, b) /\ Live(a) /\ b.ref = NoRef
    BY <1>1, <1>3, <1>4 DEF Forward, Sound, ValidRow, After, Live, Terminal,
      CredentialStates, Absent, NoOwner, CliOwner
  <2> QED
    BY <1>3, <1>4, <2>1, <2>2, Zenon
<1>5. CASE /\ a.state = "running" /\ rows' = rows
           /\ pub' = [pub EXCEPT ![j] = [pc |-> "issuing", row |-> a]]
  <2>1. Forward(a, a) /\ Live(a) /\ a.ref = NoRef
    BY <1>1, <1>5 DEF Calm, Steady, Sound, ValidRow, Live, Terminal, Absent
  <2> QED
    BY <1>5, <2>1, Zenon
<1> QED
  BY <1>2, <1>4, <1>5

\* The row a publication writes: valid, with the reference to the token stored.
LEMMA IssuedFields ==
  ASSUME TypeOK, RowsSound, NEW j \in Jobs, MayPublish(j),
         NEW b \in {IssuedRow(j), [IssuedRow(j) EXCEPT !.state = "verifying"]}
  PROVE  /\ b \in Row /\ ValidRow(b) /\ Forward(rows[j], b) /\ Live(rows[j])
         /\ b.ref = rows[j].method /\ b.ref # NoRef
         /\ b.state \in {"credential_issued", "verifying"}
<1> DEFINE a == rows[j]
           c == IF pub[j].row.method = "ssh_cli" THEN ClearClaim(a) ELSE a
           d == IssuedRow(j)
           v == [d EXCEPT !.state = "verifying"]
<1>1. a \in Row /\ Sound(a) /\ a.state = "running"
  BY StoredCalm, Zenon DEF MayPublish
<1>2. c \in Row /\ Calm(a, c) /\ c.state = a.state /\ c.method = a.method
  BY <1>1, StoredCalm, RowOps, ClaimFields, 0 \in Int, Zenon
<1>3. Sound(c)
  BY <1>2, Zenon DEF Calm, Steady, Forward
<1>4. d = [c EXCEPT !.state = "credential_issued", !.ref = c.method] /\ d \in Row /\ v \in Row
  BY IssuedType, Zenon DEF IssuedRow
<1> HIDE DEF c
<1>5. /\ d.state = "credential_issued" /\ d.ref = c.method /\ d.cli = c.cli
      /\ d.method = c.method /\ d.owner = c.owner /\ d.lease = c.lease
  BY <1>2, <1>4, Zenon DEF Row
<1> HIDE DEF d
<1>6. /\ v.state = "verifying" /\ v.ref = d.ref /\ v.cli = d.cli
      /\ v.method = d.method /\ v.owner = d.owner /\ v.lease = d.lease
  BY <1>4, Zenon DEF Row
<1>7. a.method # NoRef
  <2>1. a.method \in Methods
    BY <1>1, Zenon DEF Row
  <2> QED
    BY <2>1 DEF Methods, NoRef
<1> HIDE DEF v
<1>8. b \in {d, v}
  BY Zenon DEF d, v
<1>9. /\ b.ref = a.method /\ b.cli = c.cli /\ b.method = c.method
      /\ b.owner = c.owner /\ b.lease = c.lease
      /\ b.state \in {"credential_issued", "verifying"} /\ b \in Row
  BY <1>2, <1>4, <1>5, <1>6, <1>8, Zenon
<1>10. ValidRow(b) /\ Forward(a, b) /\ Live(a)
  BY <1>1, <1>2, <1>3, <1>7, <1>9 DEF Forward, Sound, ValidRow, After, Live, Terminal,
    CredentialStates, Absent
<1> QED
  BY <1>7, <1>9, <1>10

\* What a publication does to the rows and to the token files.
LEMMA PublishRows ==
  ASSUME TypeOK, RowsSound, NEW j \in Jobs, PublishIssued(j) \/ CrashInPublish(j)
  PROVE  \/ AllCalm
         \/ /\ \A k \in Jobs \ {j} : rows'[k] = rows[k]
            /\ ValidRow(rows'[j]) /\ Forward(rows[j], rows'[j]) /\ Live(rows[j])
            /\ rows'[j].ref # NoRef /\ HasToken(j, rows[j])' /\ rows[j].state = "running"
            /\ rows'[j].state \in {"credential_issued", "verifying"}
<1>1. ASSUME MayPublish(j), NEW b \in {IssuedRow(j), [IssuedRow(j) EXCEPT !.state = "verifying"]},
             rows' = [rows EXCEPT ![j] = b], files' = files \cup {<<j, rows[j].method>>}
      PROVE  /\ \A k \in Jobs \ {j} : rows'[k] = rows[k]
             /\ ValidRow(rows'[j]) /\ Forward(rows[j], rows'[j]) /\ Live(rows[j])
             /\ rows'[j].ref # NoRef /\ HasToken(j, rows[j])' /\ rows[j].state = "running"
             /\ rows'[j].state \in {"credential_issued", "verifying"}
  <2>1. rows'[j] = b /\ \A k \in Jobs \ {j} : rows'[k] = rows[k]
    BY <1>1, TypeParts, Zenon
  <2>2. /\ ValidRow(b) /\ Forward(rows[j], b) /\ Live(rows[j])
        /\ b.ref = rows[j].method /\ b.ref # NoRef
        /\ b.state \in {"credential_issued", "verifying"}
    BY <1>1, IssuedFields, Zenon
  <2>3. <<j, b.ref>> \in files'
    BY <1>1, <2>2, Zenon
  <2> QED
    BY <1>1, <2>1, <2>2, <2>3, Zenon DEF HasToken, MayPublish
<1>2. CASE PublishIssued(j)
  <2> DEFINE v == [IssuedRow(j) EXCEPT !.state = "verifying"]
  <2>1. \/ /\ MayPublish(j) /\ rows' = [rows EXCEPT ![j] = v]
           /\ files' = files \cup {<<j, rows[j].method>>}
        \/ rows' = [rows EXCEPT ![j] = ExpireRow(@)]
        \/ rows' = rows
    BY <1>2, Zenon DEF PublishIssued
  <2> HIDE DEF v
  <2>2. CASE \/ rows' = [rows EXCEPT ![j] = ExpireRow(@)]
             \/ rows' = rows
    BY <2>2, StoredCalm, OneCalm, NoneMoves, Zenon
  <2>3. CASE /\ MayPublish(j) /\ rows' = [rows EXCEPT ![j] = v]
             /\ files' = files \cup {<<j, rows[j].method>>}
    BY <1>1, <2>3, Zenon DEF v
  <2> QED
    BY <2>1, <2>2, <2>3
<1>3. CASE CrashInPublish(j)
  <2>1. /\ MayPublish(j) /\ files' = files \cup {<<j, rows[j].method>>}
        /\ rows' = rows \/ rows' = [rows EXCEPT ![j] = IssuedRow(j)]
    BY <1>3, Zenon DEF CrashInPublish
  <2>2. CASE rows' = rows
    BY <2>2, NoneMoves
  <2>3. CASE rows' = [rows EXCEPT ![j] = IssuedRow(j)]
    BY <1>1, <2>1, <2>3, Zenon
  <2> QED
    BY <2>1, <2>2, <2>3
<1> QED
  BY <1>2, <1>3

\* A restart dispatches the jobs nobody dispatched, and leaves the others calm.
LEMMA RestartRows ==
  ASSUME TypeOK, RowsSound, NEW r \in Recs, Restart(r), NEW k \in Jobs
  PROVE  \/ Calm(rows[k], rows'[k]) /\ pub'[k] = pub[k]
         \/ /\ Forward(rows[k], rows'[k]) /\ Live(rows[k])
            /\ rows'[k].state = "running" /\ rows'[k].method = "ssh_auto"
            /\ rows'[k].ref = NoRef /\ pub'[k] = [pc |-> "scheduled", row |-> NoRow]
<1> DEFINE a == rows[k]
           cli(c) == [c EXCEPT !.state = "awaiting_cli", !.method = "ssh_cli"]
           run == [a EXCEPT !.state = "running"]
<1>1. PICK healthy \in BOOLEAN :
        /\ rows'[k] = StartupRow(k, healthy)
        /\ pub'[k] = IF a.state = "pending" /\ StartupRow(k, healthy).state = "running"
                     THEN [pc |-> "scheduled", row |-> NoRow] ELSE pub[k]
  BY Zenon DEF Restart
<1>2. a \in Row /\ Sound(a)
  BY StoredCalm
<1>3. \/ a.state = "pending" /\ rows'[k] = cli(a)
      \/ a.state = "pending" /\ rows'[k] = RawExpireRow(a)
      \/ a.state = "pending" /\ rows'[k] = run
      \/ a.state = "running" /\ a.method = "ssh_auto" /\ rows'[k] = cli(ClearClaim(a))
      \/ a.state # "pending" /\ rows'[k] = a
  BY <1>1, <1>2, Zenon DEF StartupRow
<1>4. ASSUME NEW c \in Row, c.ref = a.ref, c.cli = a.cli, (c.owner = NoOwner) = (c.lease = "none"),
             a.state \in {"pending", "running"}, a.method = "ssh_auto"
      PROVE  Calm(a, cli(c)) /\ cli(c).state = "awaiting_cli"
  <2> DEFINE b == cli(c)
  <2>1. /\ b.state = "awaiting_cli" /\ b.method = "ssh_cli" /\ b.ref = c.ref
        /\ b.cli = c.cli /\ b.owner = c.owner /\ b.lease = c.lease
    BY <1>4, Zenon DEF Row
  <2> HIDE DEF b
  <2>2. Calm(a, b)
    BY <1>2, <1>4, <2>1 DEF Calm, Steady, Forward, Sound, ValidRow, After, Live, Terminal,
      CredentialStates, Absent
  <2> QED
    BY <2>1, <2>2 DEF b
<1>5. CASE a.state = "pending" /\ rows'[k] = cli(a)
  <2>1. a.method = "ssh_auto" /\ (a.owner = NoOwner) = (a.lease = "none")
    BY <1>2, <1>5, Zenon DEF Sound, ValidRow
  <2> HIDE DEF cli, a
  <2>2. Calm(a, cli(a)) /\ cli(a).state = "awaiting_cli"
    BY <1>2, <1>4, <1>5, <2>1, Zenon
  <2>3. StartupRow(k, healthy).state # "running"
    BY <1>1, <1>5, <2>2
  <2> QED
    BY <1>1, <1>5, <2>2, <2>3, Zenon DEF a
<1>6. CASE a.state = "pending" /\ rows'[k] = RawExpireRow(a)
  <2>1. ~a.cli
    BY <1>2, <1>6 DEF Sound, ValidRow, CredentialStates
  <2>2. Calm(a, RawExpireRow(a)) /\ RawExpireRow(a).state = "expired"
    BY <1>2, <2>1, StoredCalm, RowFields, Zenon
  <2>3. StartupRow(k, healthy).state # "running"
    BY <1>1, <1>6, <2>2
  <2> QED
    BY <1>1, <1>6, <2>2, <2>3, Zenon
<1>7. CASE a.state = "pending" /\ rows'[k] = run
  <2>1. /\ run.state = "running" /\ run.method = a.method /\ run.ref = a.ref
        /\ run.cli = a.cli /\ run.owner = a.owner /\ run.lease = a.lease
    BY <1>2, Zenon DEF Row
  <2> HIDE DEF run
  <2>2. Forward(a, run) /\ Live(a) /\ run.method = "ssh_auto" /\ run.ref = NoRef
    BY <1>2, <1>7, <2>1 DEF Forward, Sound, ValidRow, After, Live, Terminal,
      CredentialStates, Absent
  <2> QED
    BY <1>1, <1>7, <2>1, <2>2, Zenon
<1>8. CASE a.state = "running" /\ a.method = "ssh_auto" /\ rows'[k] = cli(ClearClaim(a))
  <2> DEFINE c == ClearClaim(a)
  <2>1. c \in Row /\ c.ref = a.ref /\ c.cli = a.cli /\ c.owner = NoOwner /\ c.lease = "none"
    BY <1>2, RowOps, ClaimFields, 0 \in Int, Zenon
  <2> HIDE DEF c, cli
  <2>2. (c.owner = NoOwner) = (c.lease = "none")
    BY <2>1
  <2>3. Calm(a, cli(c))
    BY <1>4, <1>8, <2>1, <2>2, Zenon
  <2> QED
    BY <1>1, <1>8, <2>3 DEF c
<1>9. CASE a.state # "pending" /\ rows'[k] = a
  <2>1. Calm(a, a)
    BY StoredCalm
  <2> QED
    BY <1>1, <1>9, <2>1, Zenon
<1> QED
  BY <1>3, <1>5, <1>6, <1>7, <1>8, <1>9, Zenon

\* A create of job k.
Opens(k) == CreateAuto(k) \/ CrashInCreate(k)

\* What any step does to the row of a job: it goes forward, only a create makes it
\* live, a reference it gains is to a stored token, and only the Agent's consent
\* makes it activated.
Kept(k) ==
  /\ Forward(rows[k], rows'[k])
  /\ Live(rows'[k]) => Live(rows[k]) \/ Opens(k)
  /\ Live(rows'[k]) /\ rows'[k].ref # NoRef =>
       \/ Live(rows[k]) /\ rows'[k].ref = rows[k].ref
       \/ HasToken(k, rows[k])'
  /\ rows'[k].state = "activated" =>
       \/ rows[k].state = "activated"
       \/ \E r \in Recs : EndActivation(r) /\ rec[r].job = k /\ rec[r].reply = "ok"

\* Calm rows are kept.
LEMMA CalmKept == ASSUME NEW k \in Jobs, Calm(rows[k], rows'[k]) PROVE Kept(k)
  BY Zenon DEF Calm, Steady, Kept

\* So is every row in every step.
LEMMA NextKept ==
  ASSUME TypeOK, Inv, JournalInv, Next, NEW k \in Jobs
  PROVE  Kept(k)
<1>0. RowsSound
  BY Zenon DEF JournalInv
<1>1. AllCalm => Kept(k)
  BY CalmKept, Zenon DEF AllCalm
<1>2. ASSUME NEW j \in Jobs, JobStep(j) PROVE Kept(k)
  <2>1. CASE GetExpires(j) \/ Cancel(j) \/ CrashInCancel(j)
    BY <1>0, <1>1, <2>1, ApiCalm, Zenon
  <2>2. CASE \/ DispatchAuto(j) \/ AgentIssues(j) \/ IssueFails(j)
             \/ CliAbandons(j) \/ PublishVerified(j)
    BY <1>1, <2>2, PublisherCalm, Zenon
  <2>3. CASE DeadlinePasses(j) \/ PendingLapses(j) \/ LeaseLapses(j)
    BY <1>0, <1>1, <2>3, EnvironmentCalm, Zenon
  <2>4. CASE CreateAuto(j) \/ CrashInCreate(j)
    <3>1. CASE k # j
      BY <1>0, <2>4, <3>1, CreateRows, CalmKept, Zenon
    <3>2. CASE k = j
      <4>1. /\ rows[k].state = Absent /\ Sound(rows'[k]) /\ rows'[k].ref = NoRef
            /\ rows'[k].state \in {"pending", "running", "awaiting_cli"}
        BY <1>0, <2>4, <3>2, CreateRows, Zenon
      <4>2. Forward(rows[k], rows'[k]) /\ rows'[k].state # "activated"
        BY <4>1 DEF Forward, Terminal, CredentialStates, Absent
      <4> QED
        BY <2>4, <3>2, <4>1, <4>2, Zenon DEF Kept, Opens
    <3> QED
      BY <3>1, <3>2
  <2>5. CASE BeginCli(j)
    <3>1. CASE k # j
      BY <1>0, <2>5, <3>1, BeginCliRows, CalmKept, StoredCalm, Zenon
    <3>2. CASE k = j
      <4>1. /\ Forward(rows[k], rows'[k]) /\ Live(rows[k]) /\ rows'[k].ref = NoRef
            /\ rows'[k].state = "running"
        BY <1>0, <2>5, <3>2, BeginCliRows, Zenon
      <4>2. rows'[k].state # "activated"
        BY <4>1
      <4> QED
        BY <4>1, <4>2, Zenon DEF Kept
    <3> QED
      BY <3>1, <3>2
  <2>6. CASE PublishIssued(j) \/ CrashInPublish(j)
    <3>1. \/ AllCalm
          \/ /\ \A i \in Jobs \ {j} : rows'[i] = rows[i]
             /\ Forward(rows[j], rows'[j]) /\ Live(rows[j]) /\ HasToken(j, rows[j])'
             /\ rows'[j].state \in {"credential_issued", "verifying"}
      BY <1>0, <2>6, PublishRows, Zenon
    <3>2. ASSUME \A i \in Jobs \ {j} : rows'[i] = rows[i],
                 Forward(rows[j], rows'[j]), Live(rows[j]), HasToken(j, rows[j])',
                 rows'[j].state \in {"credential_issued", "verifying"}
          PROVE  Kept(k)
      <4>1. CASE k # j
        BY <1>0, <3>2, <4>1, CalmKept, StoredCalm, Zenon
      <4>2. rows'[j].state # "activated"
        BY <3>2
      <4>3. CASE k = j
        BY <3>2, <4>2, <4>3, Zenon DEF Kept
      <4> QED
        BY <4>1, <4>3
    <3> QED
      BY <1>1, <3>1, <3>2
  <2> QED
    BY <1>2, <2>1, <2>2, <2>3, <2>4, <2>5, <2>6, Zenon DEF JobStep
<1>3. ASSUME NEW r \in Recs, RecStep(r) PROVE Kept(k)
  <2>1. CASE \E j \in Jobs : Consume(r, j)
    BY <1>0, <1>1, <2>1, ApiCalm, Zenon
  <2>2. CASE RecoverPrepare(r) \/ RecoverCleanup(r) \/ \E j \in Jobs : RecoverClaim(r, j)
    BY <1>0, <1>1, <2>2, SweepCalm
  <2>3. CASE BeginValidation(r) \/ RenewLease(r) \/ AbandonCall(r) \/ EndValidation(r)
    BY <1>1, <2>3, ValidationCalm
  <2>4. CASE \/ BeginActivation(r) \/ Commit(r) \/ BeginCompensation(r)
             \/ EndCompensation(r) \/ CrashInCompensation(r)
    BY <1>0, <1>1, <2>4, CommitCalm
  <2>5. CASE EndActivation(r)
    <3>1. CASE AllCalm
      BY <1>1, <3>1
    <3>2. CASE rec[r].reply = "ok" /\ \A i \in Jobs \ {rec[r].job} : Calm(rows[i], rows'[i])
      <4>1. CASE k # rec[r].job
        BY <3>2, <4>1, CalmKept, Zenon
      <4>2. CASE k = rec[r].job
        <5>1. Steady(rows[k], rows'[k])
          BY <1>0, <2>5, EndActivationSteady, Zenon DEF AllSteady
        <5> QED
          BY <2>5, <3>2, <4>2, <5>1, Zenon DEF Kept, Steady
      <4> QED
        BY <4>1, <4>2
    <3> QED
      BY <1>0, <2>5, <3>1, <3>2, EndActivationSteady
  <2>6. CASE CrashInCleanup(r)
    BY <1>0, <1>1, <2>6, EnvironmentCalm, Zenon
  <2>7. CASE Restart(r)
    <3>1. CASE Calm(rows[k], rows'[k])
      BY <3>1, CalmKept
    <3>2. CASE /\ Forward(rows[k], rows'[k]) /\ Live(rows[k])
               /\ rows'[k].state = "running" /\ rows'[k].ref = NoRef
      <4>1. rows'[k].state # "activated"
        BY <3>2
      <4> QED
        BY <3>2, <4>1, Zenon DEF Kept
    <3> QED
      BY <1>0, <2>7, <3>1, <3>2, RestartRows, Zenon
  <2> QED
    BY <1>3, <2>1, <2>2, <2>3, <2>4, <2>5, <2>6, <2>7, Zenon DEF RecStep
<1>4. CASE Crash \/ SweepOrphans \/ \E m \in wire : AgentHandles(m) \/ Lose(m)
  BY <1>0, <1>1, <1>4, EnvironmentCalm, Zenon
<1> QED
  BY <1>2, <1>3, <1>4, Zenon DEF Next

-----------------------------------------------------------------------------
(* The publishers.                                                         *)

\* A row that goes forward and is not started by anyone.
Unstarted(a, b) ==
  /\ Forward(a, b)
  /\ b.state = "running" => a.state = "running" /\ b.method = a.method

\* A publisher whose row nobody starts keeps its bearings, alive or dead.
LEMMA PubWaits ==
  ASSUME NEW a, NEW b, NEW p, PubFit(a, p), Unstarted(a, b)
  PROVE  PubFit(b, p) /\ PubFit(b, IdlePub)
<1>1. PubFit(b, IdlePub)
  BY DEF PubFit, IdlePub
<1>2. p.pc = "validating" => After(b, p.row)
  BY AfterForward, Zenon DEF PubFit, Unstarted
<1>3. PubFit(b, p)
  BY <1>2 DEF PubFit, Unstarted
<1> QED
  BY <1>1, <1>3

\* A calm row is not started.
LEMMA CalmUnstarted == ASSUME NEW a, NEW b, Calm(a, b) PROVE Unstarted(a, b)
  BY Zenon DEF Calm, Steady, Unstarted

\* A step that starts no row and whose publishers stay or stop.
LEMMA PubsWait ==
  ASSUME PubsFit, \A k \in Jobs : Unstarted(rows[k], rows'[k]),
         \A k \in Jobs : pub'[k] = pub[k] \/ pub'[k] = IdlePub
  PROVE  PubsFit'
  BY PubWaits, Zenon DEF PubsFit

\* A step of one publisher.
LEMMA PubMoves ==
  ASSUME TypeOK, PubsFit, NEW j \in Jobs, NEW p, pub' = [pub EXCEPT ![j] = p],
         \A k \in Jobs \ {j} : Unstarted(rows[k], rows'[k]),
         PubFit(rows'[j], p)
  PROVE  PubsFit'
<1>1. pub'[j] = p /\ \A k \in Jobs \ {j} : pub'[k] = pub[k]
  BY TypeParts, Zenon
<1>2. ASSUME NEW k \in Jobs PROVE PubFit(rows'[k], pub'[k])
  <2>1. CASE k = j
    BY <1>1, <2>1, Zenon
  <2>2. CASE k # j
    BY <1>1, <2>2, PubWaits, Zenon DEF PubsFit
  <2> QED
    BY <2>1, <2>2
<1> QED
  BY <1>2, Zenon DEF PubsFit

\* The records of a publisher that starts, dispatches and publishes.
LEMMA PubRecords ==
  ASSUME NEW b
  PROVE  /\ PubFit(b, IdlePub)
         /\ (b.state = "running" => b.method = "ssh_auto") =>
              PubFit(b, [pc |-> "scheduled", row |-> NoRow])
         /\ PubFit(b, [pc |-> "issuing", row |-> b])
         /\ b.state = "verifying" /\ ValidRow(b) =>
              PubFit(b, [pc |-> "validating", row |-> b])
<1>1. PubFit(b, IdlePub)
  BY DEF PubFit, IdlePub
<1>2. (b.state = "running" => b.method = "ssh_auto") =>
        PubFit(b, [pc |-> "scheduled", row |-> NoRow])
  BY DEF PubFit, NoRow
<1>3. PubFit(b, [pc |-> "issuing", row |-> b])
  BY DEF PubFit
<1>4. b.state = "verifying" /\ ValidRow(b) => PubFit(b, [pc |-> "validating", row |-> b])
  <2>1. b.state = "verifying" => After(b, b)
    BY DEF After, CredentialStates
  <2> QED
    BY <2>1 DEF PubFit
<1> QED
  BY <1>1, <1>2, <1>3, <1>4

\* A process that dies keeps its CLI publishers' results and stops the others.
LEMMA DiePubs ==
  ASSUME PubsFit, Die, \A k \in Jobs : Unstarted(rows[k], rows'[k])
  PROVE  PubsFit'
<1>1. \A k \in Jobs : pub'[k] = pub[k] \/ pub'[k] = IdlePub
  BY Zenon DEF Die
<1> QED
  BY <1>1, PubsWait

\* Every publisher keeps its bearings.
LEMMA PubsKeep ==
  ASSUME TypeOK, Inv, JournalInv, Next
  PROVE  PubsFit'
<1>0. RowsSound /\ PubsFit
  BY Zenon DEF JournalInv
<1>1. AllCalm => \A k \in Jobs : Unstarted(rows[k], rows'[k])
  BY CalmUnstarted, Zenon DEF AllCalm
<1>2. ASSUME AllCalm, pub' = pub PROVE PubsFit'
  BY <1>0, <1>1, <1>2, PubsWait
<1>3. ASSUME AllCalm, Die PROVE PubsFit'
  BY <1>0, <1>1, <1>3, DiePubs
<1>4. ASSUME NEW j \in Jobs, JobStep(j) PROVE PubsFit'
  <2>0. PubFit(rows[j], pub[j]) /\ pub[j] \in PubRecord
    BY <1>0, TypeParts, Zenon DEF PubsFit
  <2>1. CASE GetExpires(j) \/ CrashInCancel(j)
    <3>1. AllCalm
      BY <1>0, <2>1, ApiCalm, Zenon
    <3> QED
      BY <1>2, <1>3, <2>1, <3>1, Zenon DEF GetExpires, CrashInCancel
  <2>2. CASE DeadlinePasses(j) \/ PendingLapses(j) \/ LeaseLapses(j)
    <3>1. AllCalm
      BY <1>0, <2>2, EnvironmentCalm, Zenon
    <3> QED
      BY <1>2, <2>2, <3>1, Zenon DEF DeadlinePasses, PendingLapses, LeaseLapses
  <2>3. CASE Cancel(j) \/ IssueFails(j) \/ CliAbandons(j) \/ PublishVerified(j)
    <3>1. AllCalm
      BY <1>0, <2>3, ApiCalm, PublisherCalm, Zenon
    <3>2. pub' = [pub EXCEPT ![j] = pub[j]] \/ pub' = [pub EXCEPT ![j] = IdlePub]
      BY <2>3, Zenon DEF Cancel, IssueFails, CliAbandons, PublishVerified
    <3>3. \A k \in Jobs : pub'[k] = pub[k] \/ pub'[k] = IdlePub
      BY <3>2, TypeParts, Zenon
    <3> QED
      BY <1>0, <1>1, <3>1, <3>3, PubsWait
  <2>4. CASE DispatchAuto(j)
    <3>1. AllCalm
      BY <2>4, PublisherCalm, Zenon
    <3>2. \/ pub' = [pub EXCEPT ![j] = [pc |-> "issuing", row |-> rows'[j]]]
          \/ pub' = [pub EXCEPT ![j] = IdlePub]
      BY <2>4, Zenon DEF DispatchAuto
    <3> QED
      BY <1>0, <1>1, <3>1, <3>2, PubMoves, PubRecords, Zenon
  <2>5. CASE AgentIssues(j)
    <3> DEFINE p == [pub[j] EXCEPT !.pc = "issued"]
    <3>1. pub' = [pub EXCEPT ![j] = p] /\ pub[j].pc = "issuing" /\ rows' = rows
      BY <2>5, Zenon DEF AgentIssues
    <3>2. p.row = pub[j].row /\ p.pc = "issued"
      BY <2>0, Zenon DEF PubRecord
    <3> HIDE DEF p
    <3>3. PubFit(rows'[j], p)
      BY <2>0, <3>1, <3>2 DEF PubFit
    <3>4. AllCalm
      BY <2>5, PublisherCalm, Zenon
    <3> QED
      BY <1>0, <1>1, <3>1, <3>3, <3>4, PubMoves, Zenon
  <2>6. CASE CreateAuto(j) \/ CrashInCreate(j)
    <3>1. \A k \in Jobs \ {j} : Unstarted(rows[k], rows'[k])
      BY <1>0, <2>6, CreateRows, CalmUnstarted, Zenon
    <3>2. Forward(rows[j], rows'[j])
      BY <1>4, NextKept, Zenon DEF Kept, Next
    <3>3. rows'[j].state = "running" => rows'[j].method = "ssh_auto"
      BY <1>0, <2>6, CreateRows, Zenon
    <3>4. ASSUME rows'[j].state # "running", Die \/ pub' = pub PROVE PubsFit'
      <4>1. \A k \in Jobs : Unstarted(rows[k], rows'[k])
        BY <3>1, <3>2, <3>4, Zenon DEF Unstarted
      <4> QED
        BY <1>0, <3>4, <4>1, DiePubs, PubsWait, Zenon
    <3>5. CASE pub' = [pub EXCEPT ![j] = [pc |-> "scheduled", row |-> NoRow]]
      BY <1>0, <3>1, <3>3, <3>5, PubMoves, PubRecords, Zenon
    <3>6. \/ pub' = [pub EXCEPT ![j] = [pc |-> "scheduled", row |-> NoRow]]
          \/ rows'[j].state # "running" /\ (Die \/ pub' = pub)
      <4>1. /\ [NoRow EXCEPT !.state = "awaiting_cli", !.method = "ssh_cli"].state # "running"
            /\ [NoRow EXCEPT !.state = "pending"].state # "running"
        BY DEF NoRow
      <4>2. ASSUME NEW b, rows' = [BulkExpired EXCEPT ![j] = b] PROVE rows'[j] = b
        BY <4>2, BulkType, Zenon
      <4> QED
        BY <2>6, <4>1, <4>2, Zenon DEF CreateAuto, CrashInCreate
    <3> QED
      BY <3>4, <3>5, <3>6
  <2>7. CASE BeginCli(j)
    <3>1. /\ \A k \in Jobs \ {j} : rows'[k] = rows[k]
          /\ pub' = [pub EXCEPT ![j] = [pc |-> "issuing", row |-> rows'[j]]]
      BY <1>0, <2>7, BeginCliRows, Zenon
    <3>2. \A k \in Jobs \ {j} : Unstarted(rows[k], rows'[k])
      BY <1>0, <3>1, StoredCalm, CalmUnstarted, Zenon
    <3> QED
      BY <1>0, <3>1, <3>2, PubMoves, PubRecords, Zenon
  <2>8. CASE PublishIssued(j)
    <3> DEFINE v == [IssuedRow(j) EXCEPT !.state = "verifying"]
    <3>1. \/ /\ MayPublish(j) /\ rows' = [rows EXCEPT ![j] = v]
             /\ pub' = [pub EXCEPT ![j] = [pc |-> "validating", row |-> v]]
          \/ /\ rows' = [rows EXCEPT ![j] = ExpireRow(@)] \/ rows' = rows
             /\ pub' = [pub EXCEPT ![j] = IdlePub]
      BY <2>8, Zenon DEF PublishIssued
    <3>2. MayPublish(j) => ValidRow(v) /\ v.state = "verifying"
      <4>1. IssuedRow(j) \in Row
        BY IssuedType
      <4>2. v.state = "verifying"
        BY <4>1, Zenon DEF Row
      <4> QED
        BY <1>0, <4>2, IssuedFields, Zenon
    <3> HIDE DEF v
    <3>3. CASE /\ MayPublish(j) /\ rows' = [rows EXCEPT ![j] = v]
               /\ pub' = [pub EXCEPT ![j] = [pc |-> "validating", row |-> v]]
      <4>1. rows'[j] = v /\ \A k \in Jobs \ {j} : rows'[k] = rows[k]
        BY <3>3, TypeParts, Zenon
      <4>2. \A k \in Jobs \ {j} : Unstarted(rows[k], rows'[k])
        BY <1>0, <4>1, StoredCalm, CalmUnstarted, Zenon
      <4>3. PubFit(v, [pc |-> "validating", row |-> v])
        BY <3>2, <3>3, PubRecords
      <4> QED
        BY <1>0, <3>3, <4>1, <4>2, <4>3, PubMoves, Zenon
    <3>4. CASE /\ rows' = [rows EXCEPT ![j] = ExpireRow(@)] \/ rows' = rows
               /\ pub' = [pub EXCEPT ![j] = IdlePub]
      <4>1. AllCalm
        BY <1>0, <3>4, StoredCalm, OneCalm, NoneMoves, Zenon
      <4> QED
        BY <1>0, <1>1, <3>4, <4>1, PubMoves, PubRecords, Zenon
    <3> QED
      BY <3>1, <3>3, <3>4
  <2>9. CASE CrashInPublish(j)
    <3>1. \/ AllCalm
          \/ /\ \A k \in Jobs \ {j} : rows'[k] = rows[k]
             /\ Forward(rows[j], rows'[j])
             /\ rows'[j].state \in {"credential_issued", "verifying"}
      BY <1>0, <2>9, PublishRows, Zenon
    <3>2. CASE /\ \A k \in Jobs \ {j} : rows'[k] = rows[k]
               /\ Forward(rows[j], rows'[j])
               /\ rows'[j].state \in {"credential_issued", "verifying"}
      <4>1. rows'[j].state # "running"
        BY <3>2
      <4>2. \A k \in Jobs \ {j} : Unstarted(rows[k], rows'[k])
        BY <1>0, <3>2, StoredCalm, CalmUnstarted, Zenon
      <4>3. \A k \in Jobs : Unstarted(rows[k], rows'[k])
        BY <3>2, <4>1, <4>2, Zenon DEF Unstarted
      <4> QED
        BY <1>0, <2>9, <4>3, DiePubs, Zenon DEF CrashInPublish
    <3> QED
      BY <1>3, <2>9, <3>1, <3>2, Zenon DEF CrashInPublish
  <2> QED
    BY <1>4, <2>1, <2>2, <2>3, <2>4, <2>5, <2>6, <2>7, <2>8, <2>9, Zenon DEF JobStep
<1>5. ASSUME NEW r \in Recs, RecStep(r) PROVE PubsFit'
  <2>1. CASE \E j \in Jobs : Consume(r, j)
    <3>1. AllCalm
      BY <1>0, <2>1, ApiCalm, Zenon
    <3> QED
      BY <1>2, <2>1, <3>1, Zenon DEF Consume
  <2>2. CASE RecoverPrepare(r) \/ RecoverCleanup(r) \/ \E j \in Jobs : RecoverClaim(r, j)
    <3>1. AllCalm
      BY <1>0, <2>2, SweepCalm
    <3> QED
      BY <1>2, <2>2, <3>1, Zenon DEF RecoverPrepare, RecoverCleanup, RecoverClaim
  <2>3. CASE BeginValidation(r) \/ RenewLease(r) \/ AbandonCall(r) \/ EndValidation(r)
    <3>1. AllCalm
      BY <2>3, ValidationCalm
    <3> QED
      BY <1>2, <2>3, <3>1, Zenon DEF BeginValidation, RenewLease, AbandonCall, EndValidation
  <2>4. CASE \/ BeginActivation(r) \/ Commit(r) \/ BeginCompensation(r)
             \/ EndCompensation(r) \/ CrashInCompensation(r)
    <3>1. AllCalm
      BY <1>0, <2>4, CommitCalm
    <3> QED
      BY <1>2, <1>3, <2>4, <3>1, Zenon DEF BeginActivation, Commit, BeginCompensation,
        EndCompensation, CrashInCompensation
  <2>5. CASE EndActivation(r)
    <3>1. \A k \in Jobs : Unstarted(rows[k], rows'[k])
      BY <1>0, <2>5, EndActivationSteady, Zenon DEF AllSteady, Steady, Unstarted
    <3>2. pub' = pub
      BY <2>5, Zenon DEF EndActivation
    <3> QED
      BY <1>0, <3>1, <3>2, PubsWait
  <2>6. CASE CrashInCleanup(r)
    <3>1. AllCalm
      BY <1>0, <2>6, EnvironmentCalm, Zenon
    <3> QED
      BY <1>3, <2>6, <3>1, Zenon DEF CrashInCleanup
  <2>7. CASE Restart(r)
    <3>1. ASSUME NEW k \in Jobs PROVE PubFit(rows'[k], pub'[k])
      <4>1. CASE Calm(rows[k], rows'[k]) /\ pub'[k] = pub[k]
        BY <1>0, <4>1, CalmUnstarted, PubWaits, Zenon DEF PubsFit
      <4>2. CASE /\ rows'[k].method = "ssh_auto"
                 /\ pub'[k] = [pc |-> "scheduled", row |-> NoRow]
        BY <4>2, PubRecords, Zenon
      <4> QED
        BY <1>0, <2>7, <4>1, <4>2, RestartRows, Zenon
    <3> QED
      BY <3>1, Zenon DEF PubsFit
  <2> QED
    BY <1>5, <2>1, <2>2, <2>3, <2>4, <2>5, <2>6, <2>7, Zenon DEF RecStep
<1>6. CASE Crash \/ SweepOrphans \/ \E m \in wire : AgentHandles(m) \/ Lose(m)
  <2>1. AllCalm
    BY <1>0, <1>6, EnvironmentCalm, Zenon
  <2> QED
    BY <1>2, <1>3, <1>6, <2>1, Zenon DEF Crash, SweepOrphans, AgentHandles, Lose
<1> QED
  BY <1>4, <1>5, <1>6, Zenon DEF Next

-----------------------------------------------------------------------------
(* The recoverers.                                                         *)

\* A coroutine keeps its job, with the old snapshot or the stored row, drops it, or
\* claims one that has a token.
Snapshot(p, q) ==
  \/ q.job = p.job /\ q.row = p.row
  \/ q.job = NoJob
  \/ /\ q.job \in Jobs /\ q.row = rows'[q.job]
     /\ q.job = p.job \/ rows'[q.job].state \in CredentialStates

\* It stays in its call, makes none, starts one, or is answered; it compensates
\* only a commit that was refused, and revokes only while it compensates.
Call(t, p, q) ==
  \/ q.job = p.job /\ q.pc = p.pc /\ q.reply = p.reply
  \/ q.pc \notin {"activate", "compensate", "revoke"}
  \/ q.pc = "activate" /\ q.reply = "none"
  \/ /\ q.pc = "compensate" /\ q.job = p.job /\ q.job \in Jobs
     /\ Duplicate(q.job) /\ rows[q.job].state = "activated"
  \/ q.pc = "revoke" /\ q.reply = "none" /\ q.job = p.job /\ p.pc = "compensate"
  \/ /\ q.job = p.job /\ q.pc = p.pc
     /\ \E m \in wire : AgentHandles(m) /\ m.rec = t /\ m.job = p.job /\ m.kind = p.pc

Turns(t) == Snapshot(rec[t], rec'[t]) /\ Call(t, rec[t], rec'[t])

\* One coroutine turns, the others rest.
LEMMA OneTurns ==
  ASSUME NEW r \in Recs, \A t \in Recs \ {r} : rec'[t] = rec[t], Turns(r)
  PROVE  \A t \in Recs : Turns(t)
  BY Zenon DEF Turns, Snapshot, Call

\* All coroutines rest.
LEMMA NoneTurns == ASSUME rec' = rec PROVE \A t \in Recs : Turns(t)
  BY Zenon DEF Turns, Snapshot, Call

\* A coroutine leaves its job.
LEMMA LeaveTurns == ASSUME TypeOK, NEW r \in Recs, Leave(r) PROVE \A t \in Recs : Turns(t)
<1> DEFINE q == [IdleRec EXCEPT !.pc = "next", !.todo = rec[r].todo]
<1>1. q.job = NoJob /\ q.pc = "next"
  BY Zenon DEF IdleRec
<1>2. rec'[r] = q /\ \A t \in Recs \ {r} : rec'[t] = rec[t]
  BY TypeParts, Zenon DEF Leave
<1> HIDE DEF q
<1>3. rec'[r].job = NoJob /\ rec'[r].pc \notin {"activate", "compensate", "revoke"}
  BY <1>1, <1>2
<1> QED
  BY <1>2, <1>3, OneTurns, Zenon DEF Turns, Snapshot, Call

\* What a coroutine that goes on with its job has become.
LEMMA EnterFields ==
  ASSUME TypeOK, NEW r \in Recs, NEW pc, NEW row, Enter(r, pc, row)
  PROVE  /\ rec'[r].job = rec[r].job /\ rec'[r].pc = pc /\ rec'[r].row = row
         /\ rec'[r].reply = "none"
         /\ \A t \in Recs \ {r} : rec'[t] = rec[t]
<1> DEFINE q == [rec[r] EXCEPT !.pc = pc, !.row = row, !.reply = "none"]
<1>1. rec[r] \in RecRecord
  BY TypeParts, Zenon
<1>2. q.row = row /\ q.job = rec[r].job /\ q.pc = pc /\ q.reply = "none"
  BY <1>1, Zenon DEF RecRecord
<1>3. rec'[r] = q /\ \A t \in Recs \ {r} : rec'[t] = rec[t]
  BY TypeParts, Zenon DEF Enter
<1> HIDE DEF q
<1> QED
  BY <1>2, <1>3, Zenon

\* One field of a coroutine changes, its job and snapshot stay.
LEMMA FieldTurns ==
  ASSUME TypeOK, NEW r \in Recs, NEW v,
         \/ v \in {"prepare", "next"} /\ rec' = [rec EXCEPT ![r].pc = v]
         \/ v \in {"prepare", "next"} /\ \E w : rec' = [rec EXCEPT ![r].pc = v, ![r].todo = w]
         \/ rec' = [rec EXCEPT ![r].todo = v]
         \/ /\ rec' = [rec EXCEPT ![r].reply = v]
            /\ \E m \in wire : /\ AgentHandles(m) /\ m.rec = r /\ m.job = rec[r].job
                               /\ m.kind = rec[r].pc
  PROVE  \A t \in Recs : Turns(t)
<1>1. rec[r] \in RecRecord
  BY TypeParts, Zenon
<1>2. CASE /\ v \in {"prepare", "next"}
           /\ \/ rec' = [rec EXCEPT ![r].pc = v]
              \/ \E w : rec' = [rec EXCEPT ![r].pc = v, ![r].todo = w]
  <2>1. /\ rec'[r].job = rec[r].job /\ rec'[r].row = rec[r].row /\ rec'[r].pc = v
        /\ \A t \in Recs \ {r} : rec'[t] = rec[t]
    BY <1>1, <1>2, TypeParts, Zenon DEF RecRecord
  <2>2. rec'[r].pc \notin {"activate", "compensate", "revoke"}
    BY <1>2, <2>1
  <2> QED
    BY <2>1, <2>2, OneTurns, Zenon DEF Turns, Snapshot, Call
<1>3. CASE rec' = [rec EXCEPT ![r].todo = v]
  <2>1. /\ rec'[r].job = rec[r].job /\ rec'[r].row = rec[r].row /\ rec'[r].pc = rec[r].pc
        /\ rec'[r].reply = rec[r].reply
        /\ \A t \in Recs \ {r} : rec'[t] = rec[t]
    BY <1>1, <1>3, TypeParts, Zenon DEF RecRecord
  <2> QED
    BY <2>1, OneTurns, Zenon DEF Turns, Snapshot, Call
<1>4. CASE /\ rec' = [rec EXCEPT ![r].reply = v]
           /\ \E m \in wire : /\ AgentHandles(m) /\ m.rec = r /\ m.job = rec[r].job
                              /\ m.kind = rec[r].pc
  <2>1. /\ rec'[r].job = rec[r].job /\ rec'[r].row = rec[r].row /\ rec'[r].pc = rec[r].pc
        /\ \A t \in Recs \ {r} : rec'[t] = rec[t]
    BY <1>1, <1>4, TypeParts, Zenon DEF RecRecord
  <2> QED
    BY <1>4, <2>1, OneTurns, Zenon DEF Turns, Snapshot, Call
<1> QED
  BY <1>2, <1>3, <1>4

\* The coroutines die with the process.
LEMMA DieTurns == ASSUME Die PROVE \A t \in Recs : Turns(t)
<1>1. \A t \in Recs : rec'[t] = IdleRec
  BY Zenon DEF Die
<1>2. IdleRec.job = NoJob /\ IdleRec.pc \notin {"activate", "compensate", "revoke"}
  BY DEF IdleRec
<1> QED
  BY <1>1, <1>2, Zenon DEF Turns, Snapshot, Call

\* A claim reads a row that has a token.
LEMMA ClaimTurns ==
  ASSUME TypeOK, NEW r \in Recs, NEW j \in Jobs, RecoverClaim(r, j)
  PROVE  \A t \in Recs : Turns(t)
<1> DEFINE row == IF Due(rows[j], past[j]) THEN ExpireRow(rows[j]) ELSE rows[j]
           b == ClaimRow(row, epoch)
           pc == IF row.state \in {"activation_requested", "activated"}
                 THEN "activation" ELSE "validation"
           q == [pc |-> pc, todo |-> rec[r].todo \ {j}, job |-> j, row |-> b,
                 reply |-> "none"]
<1>1. \/ rec' = [rec EXCEPT ![r].todo = rec[r].todo \ {j}]
      \/ /\ Claimable(row) /\ rows' = [rows EXCEPT ![j] = b]
         /\ rec' = [rec EXCEPT ![r] = q]
  BY Zenon DEF RecoverClaim, Write
<1>2. row \in Row
  BY TypeParts, RowOps, 0 \in Int, Zenon
<1>3. pc \notin {"activate", "compensate", "revoke"}
  OBVIOUS
<1> HIDE DEF row, pc
<1>4. b.state = row.state
  BY <1>2, ClaimFields, Zenon
<1>5. q.pc = pc /\ q.job = j /\ q.row = b
  BY Zenon
<1> HIDE DEF q, b
<1>6. CASE rec' = [rec EXCEPT ![r].todo = rec[r].todo \ {j}]
  BY <1>6, FieldTurns, Zenon
<1>7. CASE /\ Claimable(row) /\ rows' = [rows EXCEPT ![j] = b]
           /\ rec' = [rec EXCEPT ![r] = q]
  <2>1. rec'[r] = q /\ rows'[j] = b /\ \A t \in Recs \ {r} : rec'[t] = rec[t]
    BY <1>7, TypeParts, Zenon
  <2>2. b.state \in CredentialStates
    BY <1>4, <1>7, Zenon DEF Claimable, Recoverable
  <2> QED
    BY <1>3, <1>5, <2>1, <2>2, OneTurns, Zenon DEF Turns, Snapshot, Call
<1> QED
  BY <1>1, <1>6, <1>7

\* Every coroutine turns in every step.
LEMMA NextTurns == ASSUME TypeOK, Next PROVE \A t \in Recs : Turns(t)
<1>1. ASSUME NEW j \in Jobs, JobStep(j) PROVE \A t \in Recs : Turns(t)
  <2>1. CASE CrashInCreate(j) \/ CrashInPublish(j) \/ CrashInCancel(j)
    BY <2>1, DieTurns, Zenon DEF CrashInCreate, CrashInPublish, CrashInCancel
  <2>2. CASE \/ CreateAuto(j) \/ GetExpires(j) \/ Cancel(j) \/ DispatchAuto(j)
             \/ BeginCli(j) \/ AgentIssues(j) \/ IssueFails(j)
    BY <2>2, NoneTurns, Zenon DEF CreateAuto, GetExpires, Cancel, DispatchAuto, BeginCli,
      AgentIssues, IssueFails
  <2>3. CASE \/ CliAbandons(j) \/ PublishIssued(j) \/ PublishVerified(j)
             \/ DeadlinePasses(j) \/ PendingLapses(j) \/ LeaseLapses(j)
    BY <2>3, NoneTurns, Zenon DEF CliAbandons, PublishIssued, PublishVerified,
      DeadlinePasses, PendingLapses, LeaseLapses
  <2> QED
    BY <1>1, <2>1, <2>2, <2>3, Zenon DEF JobStep
<1>2. ASSUME NEW r \in Recs, RecStep(r) PROVE \A t \in Recs : Turns(t)
  <2> DEFINE job == rec[r].job
  <2>0. ASSUME rec[r].pc \notin {"idle", "prepare", "next"}, NEW b, Write(job, b)
        PROVE  job \in Jobs /\ rows'[job] = b
    BY <2>0, AtWork, TypeParts, Zenon DEF Write
  <2>1. CASE CrashInCompensation(r) \/ CrashInCleanup(r)
    BY <2>1, DieTurns, Zenon DEF CrashInCompensation, CrashInCleanup
  <2>2. CASE Restart(r) \/ \E j \in Jobs : Consume(r, j)
    BY <2>2, FieldTurns, Zenon DEF Restart, Consume
  <2>3. CASE RecoverPrepare(r)
    BY <2>3, FieldTurns, Zenon DEF RecoverPrepare
  <2>4. CASE RecoverCleanup(r)
    <3>1. rec'[r] = IdleRec /\ \A t \in Recs \ {r} : rec'[t] = rec[t]
      BY <2>4, TypeParts, Zenon DEF RecoverCleanup
    <3>2. IdleRec.job = NoJob /\ IdleRec.pc \notin {"activate", "compensate", "revoke"}
      BY DEF IdleRec
    <3> QED
      BY <3>1, <3>2, OneTurns, Zenon DEF Turns, Snapshot, Call
  <2>5. CASE \E j \in Jobs : RecoverClaim(r, j)
    BY <2>5, ClaimTurns
  <2>6. CASE AbandonCall(r) \/ EndValidation(r) \/ EndCompensation(r)
    BY <2>6, LeaveTurns, Zenon DEF AbandonCall, EndValidation, EndCompensation
  <2>7. CASE BeginValidation(r)
    <3> DEFINE row == rec[r].row
               next == IF row.state = "credential_issued"
                       THEN Transitioned(row, "verifying") ELSE row
               now == IF row.state = "credential_issued" THEN next ELSE rows[job]
    <3>1. /\ rec[r].pc = "validation"
          /\ Leave(r) \/ (Write(job, now) /\ Enter(r, "validate", next))
      BY <2>7, Zenon DEF BeginValidation
    <3>2. next = row \/ next = now
      BY Zenon
    <3> HIDE DEF next, now
    <3>3. CASE Write(job, now) /\ Enter(r, "validate", next)
      <4>1. job \in Jobs /\ rows'[job] = now
        BY <2>0, <3>1, <3>3
      <4>2. /\ rec'[r].job = job /\ rec'[r].pc = "validate" /\ rec'[r].row = next
            /\ \A t \in Recs \ {r} : rec'[t] = rec[t]
        BY <3>3, EnterFields, Zenon
      <4>3. rec'[r].pc \notin {"activate", "compensate", "revoke"}
        BY <4>2
      <4> QED
        BY <3>2, <4>1, <4>2, <4>3, OneTurns, Zenon DEF Turns, Snapshot, Call
    <3> QED
      BY <3>1, <3>3, LeaveTurns
  <2>8. CASE RenewLease(r)
    <3> DEFINE q == [rec[r] EXCEPT !.row = Renewed(r)]
    <3>1. rec[r] \in RecRecord /\ job \in Jobs /\ rows'[job] = Renewed(r)
      <4>1. rec[r].pc \notin {"idle", "prepare", "next"} /\ Write(job, Renewed(r))
        BY <2>8, Zenon DEF RenewLease, Waiting
      <4> QED
        BY <2>0, <4>1, TypeParts, Zenon
    <3>2. rec'[r] = q /\ \A t \in Recs \ {r} : rec'[t] = rec[t]
      BY <2>8, TypeParts, Zenon DEF RenewLease
    <3>3. q.job = job /\ q.row = Renewed(r) /\ q.pc = rec[r].pc /\ q.reply = rec[r].reply
      BY <3>1, Zenon DEF RecRecord
    <3> HIDE DEF q
    <3> QED
      BY <3>1, <3>2, <3>3, OneTurns, Zenon DEF Turns, Snapshot, Call
  <2>9. CASE BeginActivation(r) \/ BeginCompensation(r)
    <3>1. \/ Leave(r)
          \/ \E pc \in {"activate", "commit"} : Enter(r, pc, rec[r].row)
          \/ rec[r].pc = "compensate" /\ Enter(r, "revoke", rec[r].row)
      BY <2>9, Zenon DEF BeginActivation, BeginCompensation
    <3>2. ASSUME NEW pc \in {"activate", "commit"}, Enter(r, pc, rec[r].row)
          PROVE  \A t \in Recs : Turns(t)
      <4>1. /\ rec'[r].job = job /\ rec'[r].pc = pc /\ rec'[r].row = rec[r].row
            /\ rec'[r].reply = "none" /\ \A t \in Recs \ {r} : rec'[t] = rec[t]
        BY <3>2, EnterFields, Zenon
      <4>2. rec'[r].pc = "activate" \/ rec'[r].pc \notin {"activate", "compensate", "revoke"}
        BY <4>1
      <4> QED
        BY <4>1, <4>2, OneTurns, Zenon DEF Turns, Snapshot, Call
    <3>3. ASSUME rec[r].pc = "compensate", Enter(r, "revoke", rec[r].row)
          PROVE  \A t \in Recs : Turns(t)
      <4>1. /\ rec'[r].job = job /\ rec'[r].pc = "revoke" /\ rec'[r].row = rec[r].row
            /\ rec'[r].reply = "none" /\ \A t \in Recs \ {r} : rec'[t] = rec[t]
        BY <3>3, EnterFields, Zenon
      <4> QED
        BY <3>3, <4>1, OneTurns, Zenon DEF Turns, Snapshot, Call
    <3> QED
      BY <3>1, <3>2, <3>3, LeaveTurns
  <2>10. CASE EndActivation(r) \/ Commit(r)
    <3>1. /\ rec[r].pc \notin {"idle", "prepare", "next"}
          /\ \/ Leave(r)
             \/ \E b : Write(job, b) /\ Enter(r, "commit", b)
             \/ /\ Renewed(r).state = "activated" /\ Duplicate(job)
                /\ \E b : Write(job, b) /\ Enter(r, "compensate", b)
      BY <2>10, Zenon DEF EndActivation, Commit
    <3>2. ASSUME NEW b, NEW pc, Write(job, b), Enter(r, pc, b)
          PROVE  /\ job \in Jobs /\ rows'[job] = b
                 /\ rec'[r].job = job /\ rec'[r].pc = pc /\ rec'[r].row = b
                 /\ \A t \in Recs \ {r} : rec'[t] = rec[t]
      BY <2>0, <3>1, <3>2, EnterFields, Zenon
    <3>3. ASSUME NEW b, Write(job, b), Enter(r, "commit", b) PROVE \A t \in Recs : Turns(t)
      <4>1. rec'[r].pc \notin {"activate", "compensate", "revoke"}
        BY <3>2, <3>3
      <4> QED
        BY <3>2, <3>3, <4>1, OneTurns, Zenon DEF Turns, Snapshot, Call
    <3>4. ASSUME Renewed(r).state = "activated", Duplicate(job),
                 NEW b, Write(job, b), Enter(r, "compensate", b)
          PROVE  \A t \in Recs : Turns(t)
      <4>1. rows[job].state = "activated"
        BY <3>1, <3>4, AtWork, RowFields, Zenon DEF Renewed
      <4> QED
        BY <3>2, <3>4, <4>1, OneTurns, Zenon DEF Turns, Snapshot, Call
    <3> QED
      BY <3>1, <3>3, <3>4, LeaveTurns
  <2> QED
    BY <1>2, <2>1, <2>2, <2>3, <2>4, <2>5, <2>6, <2>7, <2>8, <2>9, <2>10, Zenon DEF RecStep
<1>3. ASSUME NEW m \in wire, AgentHandles(m) PROVE \A t \in Recs : Turns(t)
  <2>1. m.rec \in Recs
    BY TypeParts, Zenon DEF Rest, Requests
  <2>2. \/ rec' = rec
        \/ /\ m.job = rec[m.rec].job /\ m.kind = rec[m.rec].pc
           /\ \E v : rec' = [rec EXCEPT ![m.rec].reply = v]
    BY <1>3, Zenon DEF AgentHandles
  <2> QED
    BY <1>3, <2>1, <2>2, NoneTurns, FieldTurns, Zenon
<1>4. ASSUME NEW m \in wire, Lose(m) PROVE \A t \in Recs : Turns(t)
  BY <1>4, NoneTurns, Zenon DEF Lose
<1>5. SweepOrphans => \A t \in Recs : Turns(t)
  BY NoneTurns, Zenon DEF SweepOrphans
<1>6. Crash => \A t \in Recs : Turns(t)
  BY DieTurns, Zenon DEF Crash
<1> QED
  BY <1>1, <1>2, <1>3, <1>4, <1>5, <1>6, Zenon DEF Next

\* Every snapshot stays valid, and its job keeps the token or ends.
LEMMA SnapsKeep == ASSUME TypeOK, Inv, JournalInv, Next PROVE SnapsFit'
<1> SUFFICES ASSUME NEW t \in Recs, rec'[t].job \in Jobs
             PROVE  ValidRow(rec'[t].row) /\ After(rows'[rec'[t].job], rec'[t].row)
  BY Zenon DEF SnapsFit
<1>1. Snapshot(rec[t], rec'[t])
  BY NextTurns, Zenon DEF Turns
<1>2. ASSUME NEW k \in Jobs PROVE Forward(rows[k], rows'[k]) /\ ValidRow(rows'[k])
  BY <1>2, NextKept, Zenon DEF Kept, Forward, Sound
<1>3. ASSUME rec[t].job \in Jobs
      PROVE  ValidRow(rec[t].row) /\ After(rows'[rec[t].job], rec[t].row)
  BY <1>2, <1>3, AfterForward, Zenon DEF JournalInv, SnapsFit
<1>4. CASE rec'[t].job = rec[t].job /\ rec'[t].row = rec[t].row
  BY <1>3, <1>4, Zenon
<1>5. CASE /\ rec'[t].row = rows'[rec'[t].job]
           /\ rec'[t].job = rec[t].job \/ rows'[rec'[t].job].state \in CredentialStates
  <2> DEFINE b == rows'[rec'[t].job]
  <2>1. b.state \in Terminal \cup CredentialStates
    BY <1>3, <1>5, Zenon DEF After
  <2>2. After(b, b)
    BY <2>1, Zenon DEF After
  <2> QED
    BY <1>2, <1>5, <2>2, Zenon
<1>6. rec'[t].job # NoJob
  BY EnrollmentAssumption
<1> QED
  BY <1>1, <1>4, <1>5, <1>6, Zenon DEF Snapshot

-----------------------------------------------------------------------------
(* The journal.                                                            *)

\* The journal's invariant holds at first.
LEMMA JournalInit == Init => JournalInv
<1> SUFFICES ASSUME Init PROVE JournalInv
  OBVIOUS
<1>1. Sound(NoRow)
  BY DEF Sound, ValidRow, NoRow, CredentialStates, Absent, NoOwner
<1>2. PubFit(NoRow, IdlePub)
  BY PubRecords
<1>3. IdleRec.job = NoJob /\ NoJob \notin Jobs
  BY EnrollmentAssumption DEF IdleRec
<1>4. /\ \A j \in Jobs : rows[j] = NoRow /\ pub[j] = IdlePub
      /\ \A r \in Recs : rec[r] = IdleRec
  BY Zenon DEF Init
<1> QED
  BY <1>1, <1>2, <1>3, <1>4, Zenon DEF JournalInv, RowsSound, PubsFit, SnapsFit

\* And every step keeps it.
LEMMA JournalNext == TypeOK /\ Inv /\ JournalInv /\ [Next]_vars => JournalInv'
<1> SUFFICES ASSUME TypeOK, Inv, JournalInv, [Next]_vars PROVE JournalInv'
  OBVIOUS
<1>1. CASE Next
  <2>1. RowsSound'
    BY <1>1, NextKept, Zenon DEF RowsSound, Kept, Forward
  <2> QED
    BY <1>1, <2>1, PubsKeep, SnapsKeep, Zenon DEF JournalInv
<1>2. CASE UNCHANGED vars
  BY <1>2, Zenon DEF vars, JournalInv, RowsSound, PubsFit, SnapsFit
<1> QED
  BY <1>1, <1>2

\* Rows, publishers' snapshots and recoverers' snapshots agree: a stored row is
\* valid and goes forward only, and whoever waits holds the token its row still
\* names, or the row has ended.
THEOREM JournalCorrect == Spec => []JournalInv
  BY JournalInit, JournalNext, TypeCorrect, InvCorrect, PTL DEF Spec

\* Every row satisfies _validate_job and the table's CHECKs, also the ones that
\* recheck_auto_dispatch, _converge_auto and the bulk expiry write by raw UPDATE
\* and the ones _publish_managed_helper writes from its snapshot.
THEOREM RowsStayValid == Spec => []RowsValid
<1>1. JournalInv => RowsValid
  BY Zenon DEF JournalInv, RowsSound, Sound, RowsValid
<1> QED
  BY <1>1, JournalCorrect, PTL

-----------------------------------------------------------------------------
(* Capacity.                                                               *)

LiveJobs == {j \in Jobs : Live(rows[j])}

\* The live jobs are finitely many, whatever the set of job IDs.
CapacityInv == IsFiniteSet(LiveJobs) /\ Cardinality(LiveJobs) <= MaxActive

\* The bulk expiry of a create leaves live jobs only where there were some.
LEMMA BulkLive ==
  ASSUME TypeOK, NEW k \in Jobs, Live(BulkExpired[k])
  PROVE  Live(rows[k])
<1>1. rows[k] \in Row
  BY TypeParts, Zenon
<1>2. RawExpireRow(rows[k]).state = "expired"
  BY <1>1, RowFields, Zenon
<1>3. ~Live(RawExpireRow(rows[k]))
  BY <1>2 DEF Live, Terminal
<1> QED
  BY <1>3, Zenon DEF BulkExpired

\* A step makes no more jobs live than fit.
LEMMA CapacityNext ==
  ASSUME TypeOK, Inv, JournalInv, CapacityInv, Next
  PROVE  CapacityInv'
<1>0. MaxActive \in Nat
  BY EnrollmentAssumption
<1>1. CASE \E j \in Jobs : Opens(j)
  <2>1. PICK j \in Jobs : Opens(j)
    BY <1>1
  <2> DEFINE B == {k \in Jobs : Live(BulkExpired[k])}
  <2>2. Cardinality(B) < MaxActive
    BY <2>1, Zenon DEF Opens, CreateAuto, CrashInCreate, CreateAccepted
  <2>3. B \subseteq LiveJobs
    BY BulkLive, Zenon DEF LiveJobs
  <2>4. \A k \in Jobs \ {j} : rows'[k] = BulkExpired[k]
    BY <2>1, CreateRows, Zenon DEF Opens, JournalInv
  <2>5. LiveJobs' \subseteq B \cup {j}
    BY <2>4, Zenon DEF LiveJobs
  <2> HIDE DEF B
  <2>6. IsFiniteSet(B)
    BY <2>3, FS_Subset, Zenon DEF CapacityInv
  <2>7. IsFiniteSet(B \cup {j})
    BY <2>6, FS_AddElement, Zenon
  <2>8. Cardinality(B \cup {j}) <= Cardinality(B) + 1
    <3>1. Cardinality(B) \in Nat
      BY <2>6, FS_CardinalityType
    <3>2. \/ Cardinality(B \cup {j}) = Cardinality(B)
          \/ Cardinality(B \cup {j}) = Cardinality(B) + 1
      BY <2>6, FS_AddElement
    <3> QED
      BY <3>1, <3>2
  <2>9. IsFiniteSet(LiveJobs') /\ Cardinality(LiveJobs') <= Cardinality(B \cup {j})
    BY <2>5, <2>7, FS_Subset
  <2>10. Cardinality(B) \in Nat /\ Cardinality(B \cup {j}) \in Nat /\ Cardinality(LiveJobs') \in Nat
    BY <2>6, <2>7, <2>9, FS_CardinalityType
  <2>11. Cardinality(LiveJobs') <= MaxActive
    BY <1>0, <2>2, <2>8, <2>9, <2>10
  <2> QED
    BY <2>9, <2>11 DEF CapacityInv
<1>2. CASE ~\E j \in Jobs : Opens(j)
  <2>1. LiveJobs' \subseteq LiveJobs
    BY <1>2, NextKept, Zenon DEF LiveJobs, Kept
  <2>2. IsFiniteSet(LiveJobs) /\ Cardinality(LiveJobs) <= MaxActive
    BY Zenon DEF CapacityInv
  <2>3. IsFiniteSet(LiveJobs') /\ Cardinality(LiveJobs') <= Cardinality(LiveJobs)
    BY <2>1, <2>2, FS_Subset
  <2>4. Cardinality(LiveJobs) \in Nat /\ Cardinality(LiveJobs') \in Nat
    BY <2>2, <2>3, FS_CardinalityType
  <2>5. Cardinality(LiveJobs') <= MaxActive
    BY <1>0, <2>2, <2>3, <2>4
  <2> QED
    BY <2>3, <2>5 DEF CapacityInv
<1> QED
  BY <1>1, <1>2

\* The table never holds more live jobs than max_active: create_auto counts under
\* the transaction that inserts, and no restart, expiry, claim or stale publisher
\* makes an ended job live again.
THEOREM CapacityHolds == Spec => []CapacityBound
<1>1. Init => CapacityInv
  <2> SUFFICES ASSUME Init PROVE CapacityInv
    OBVIOUS
  <2>1. ~Live(NoRow)
    BY DEF Live, NoRow
  <2>2. LiveJobs = {}
    BY <2>1, Zenon DEF Init, LiveJobs
  <2>3. IsFiniteSet(LiveJobs) /\ Cardinality(LiveJobs) = 0
    BY <2>2, FS_EmptySet
  <2> QED
    BY <2>3, EnrollmentAssumption DEF CapacityInv
<1>2. TypeOK /\ Inv /\ JournalInv /\ CapacityInv /\ [Next]_vars => CapacityInv'
  <2> SUFFICES ASSUME TypeOK, Inv, JournalInv, CapacityInv, [Next]_vars PROVE CapacityInv'
    OBVIOUS
  <2>1. CASE UNCHANGED vars
    BY <2>1, Zenon DEF vars, CapacityInv, LiveJobs
  <2> QED
    BY <2>1, CapacityNext
<1>3. CapacityInv => CapacityBound
  BY Zenon DEF CapacityInv, CapacityBound, LiveJobs
<1> QED
  BY <1>1, <1>2, <1>3, TypeCorrect, InvCorrect, JournalCorrect, PTL DEF Spec

-----------------------------------------------------------------------------
(* The registry, the Agent and the network.                                *)

\* Only a commit that finds no duplicate registers, and nothing unregisters.
RegMoves ==
  \/ reg' = reg
  \/ \E r \in Recs :
       /\ Commit(r) /\ rec[r].job \in Jobs /\ ~Duplicate(rec[r].job)
       /\ rows[rec[r].job].state = "activated"
       /\ reg' = [reg EXCEPT ![rec[r].job] = rows[rec[r].job].ref]

LEMMA NextReg == ASSUME TypeOK, Next PROVE RegMoves
<1>1. ASSUME reg' = reg PROVE RegMoves
  BY <1>1, Zenon DEF RegMoves
<1>2. ASSUME NEW j \in Jobs, JobStep(j) PROVE RegMoves
  <2>1. CASE \/ CreateAuto(j) \/ GetExpires(j) \/ Cancel(j) \/ DispatchAuto(j)
             \/ BeginCli(j) \/ AgentIssues(j) \/ IssueFails(j) \/ CliAbandons(j)
    BY <1>1, <2>1, Zenon DEF CreateAuto, GetExpires, Cancel, DispatchAuto, BeginCli,
      AgentIssues, IssueFails, CliAbandons
  <2>2. CASE \/ PublishIssued(j) \/ PublishVerified(j) \/ DeadlinePasses(j)
             \/ PendingLapses(j) \/ LeaseLapses(j)
             \/ CrashInCreate(j) \/ CrashInPublish(j) \/ CrashInCancel(j)
    BY <1>1, <2>2, Zenon DEF PublishIssued, PublishVerified, DeadlinePasses, PendingLapses,
      LeaseLapses, CrashInCreate, CrashInPublish, CrashInCancel, Die
  <2> QED
    BY <1>2, <2>1, <2>2, Zenon DEF JobStep
<1>3. ASSUME NEW r \in Recs, RecStep(r) PROVE RegMoves
  <2>1. CASE \/ RecoverPrepare(r) \/ \E j \in Jobs : Consume(r, j) \/ RecoverClaim(r, j)
    BY <1>1, <2>1, Zenon DEF RecoverPrepare, Consume, RecoverClaim
  <2>2. CASE \/ BeginValidation(r) \/ RenewLease(r) \/ AbandonCall(r) \/ EndValidation(r)
    BY <1>1, <2>2, Zenon DEF BeginValidation, RenewLease, AbandonCall, EndValidation
  <2>3. CASE \/ BeginActivation(r) \/ EndActivation(r) \/ BeginCompensation(r)
             \/ EndCompensation(r) \/ RecoverCleanup(r)
    BY <1>1, <2>3, Zenon DEF BeginActivation, EndActivation, BeginCompensation,
      EndCompensation, RecoverCleanup
  <2>4. CASE \/ CrashInCompensation(r) \/ CrashInCleanup(r) \/ Restart(r)
    BY <1>1, <2>4, Zenon DEF CrashInCompensation, CrashInCleanup, Restart, Die
  <2>5. CASE Commit(r)
    <3>1. \/ reg' = reg
          \/ /\ rec[r].pc = "commit" /\ Renewed(r).state = "activated" /\ ~Duplicate(rec[r].job)
             /\ reg' = [reg EXCEPT ![rec[r].job] = Renewed(r).ref]
      BY <2>5, Zenon DEF Commit
    <3>2. rec[r].pc = "commit" => /\ rec[r].job \in Jobs
                                  /\ Renewed(r).state = rows[rec[r].job].state
                                  /\ Renewed(r).ref = rows[rec[r].job].ref
      BY AtWork, RowFields, Zenon DEF Renewed
    <3> QED
      BY <2>5, <3>1, <3>2, Zenon DEF RegMoves
  <2> QED
    BY <1>3, <2>1, <2>2, <2>3, <2>4, <2>5, Zenon DEF RecStep
<1>4. CASE Crash \/ SweepOrphans \/ \E m \in wire : AgentHandles(m) \/ Lose(m)
  BY <1>1, <1>4, Zenon DEF Crash, SweepOrphans, AgentHandles, Lose, Die
<1> QED
  BY <1>2, <1>3, <1>4, Zenon DEF Next

\* A registered job stays registered, and one that lost its target stays lost.
LEMMA RegStays ==
  ASSUME TypeOK, RegMoves, NEW k \in Jobs
  PROVE  /\ Registered(k) => reg'[k] = reg[k]
         /\ Duplicate(k) => Duplicate(k)'
         /\ Lost(k) => Lost(k)'
<1>1. ASSUME NEW i \in Jobs, Registered(i) PROVE reg'[i] = reg[i]
  <2>1. CASE reg' = reg
    BY <2>1
  <2>2. ASSUME NEW r \in Recs, rec[r].job \in Jobs, ~Duplicate(rec[r].job),
               reg' = [reg EXCEPT ![rec[r].job] = rows[rec[r].job].ref]
        PROVE  reg'[i] = reg[i]
    <3>1. rec[r].job # i
      BY <1>1, <2>2, Zenon DEF Duplicate
    <3> QED
      BY <2>2, <3>1, TypeParts, Zenon DEF Rest
  <2> QED
    BY <2>1, <2>2, Zenon DEF RegMoves
<1>2. Duplicate(k) => Duplicate(k)'
  BY <1>1, Zenon DEF Duplicate, Registered
<1>3. ASSUME Lost(k) PROVE ~Registered(k)'
  <2>1. CASE reg' = reg
    BY <1>3, <2>1, Zenon DEF Lost, Registered
  <2>2. ASSUME NEW r \in Recs, rec[r].job \in Jobs, ~Duplicate(rec[r].job),
               reg' = [reg EXCEPT ![rec[r].job] = rows[rec[r].job].ref]
        PROVE  ~Registered(k)'
    <3>1. rec[r].job # k
      BY <1>3, <2>2, Zenon DEF Lost
    <3> QED
      BY <1>3, <2>2, <3>1, TypeParts, Zenon DEF Rest, Lost, Registered
  <2> QED
    BY <2>1, <2>2, Zenon DEF RegMoves
<1> QED
  BY <1>1, <1>2, <1>3, Zenon DEF Lost

\* What the Agent holds after it activated or revoked, and what is on the wire.
RemoteMoves ==
  \A k \in Jobs :
    /\ remote[k] = "revoked" => remote'[k] = "revoked"
    /\ remote[k] = "active" => remote'[k] \in {"active", "revoked"}
    /\ remote'[k] = "revoked" =>
         remote[k] = "revoked" \/ \E m \in wire : m.kind = "revoke" /\ m.job = k

WireMoves ==
  \A m \in wire' : m.kind = "revoke" =>
    \/ m \in wire
    \/ \E r \in Recs : rec[r].pc = "compensate" /\ m.job = rec[r].job

\* The Agent handles one request.
LEMMA HandlesRemote ==
  ASSUME TypeOK, NEW m \in wire, AgentHandles(m)
  PROVE  /\ RemoteMoves /\ m.job \in Jobs /\ m.rec \in Recs
         /\ m.kind = "revoke" => remote'[m.job] = "revoked"
         /\ m.kind = "activate" /\ remote[m.job] \in {"pending", "active"} =>
              remote'[m.job] = "active"
<1> DEFINE j == m.job
           ok == m.kind = "revoke" \/ remote[j] \in {"pending", "active"}
           v == IF ~ok THEN remote[j]
                ELSE IF m.kind = "activate" THEN "active" ELSE "revoked"
<1>1. /\ m.job \in Jobs /\ m.rec \in Recs /\ m.kind \in {"activate", "revoke"}
      /\ remote \in [Jobs -> RemoteStates]
  BY TypeParts, Zenon DEF Rest, Requests
<1>2. remote' = [remote EXCEPT ![j] = v]
  BY Zenon DEF AgentHandles
<1>3. /\ m.kind = "revoke" => v = "revoked"
      /\ m.kind = "activate" /\ remote[j] \in {"pending", "active"} => v = "active"
      /\ m.kind = "activate" /\ remote[j] \notin {"pending", "active"} => v = remote[j]
  BY <1>1
<1> HIDE DEF v
<1>4. remote'[j] = v /\ \A k \in Jobs \ {j} : remote'[k] = remote[k]
  BY <1>1, <1>2, Zenon
<1>5. /\ remote[j] = "revoked" => v = "revoked"
      /\ remote[j] = "active" => v \in {"active", "revoked"}
      /\ v = "revoked" => remote[j] = "revoked" \/ m.kind = "revoke"
  BY <1>1, <1>3
<1>6. RemoteMoves
  <2>1. ASSUME NEW k \in Jobs
        PROVE  /\ remote[k] = "revoked" => remote'[k] = "revoked"
               /\ remote[k] = "active" => remote'[k] \in {"active", "revoked"}
               /\ remote'[k] = "revoked" =>
                    remote[k] = "revoked" \/ \E n \in wire : n.kind = "revoke" /\ n.job = k
    <3>1. CASE k = j
      BY <1>4, <1>5, <3>1, Zenon
    <3>2. CASE k # j
      BY <1>4, <3>2, Zenon
    <3> QED
      BY <3>1, <3>2
  <2> QED
    BY <2>1, Zenon DEF RemoteMoves
<1> QED
  BY <1>1, <1>3, <1>4, <1>6, Zenon

\* So does every step.
LEMMA NextAgent == ASSUME TypeOK, Next PROVE RemoteMoves /\ WireMoves
<1>0. remote \in [Jobs -> RemoteStates] /\ wire \subseteq Requests
  BY TypeParts, Zenon DEF Rest
<1>1. remote' = remote => RemoteMoves
  BY Zenon DEF RemoteMoves
<1>2. wire' \subseteq wire => WireMoves
  BY Zenon DEF WireMoves
<1>3. ASSUME wire' = wire, remote' = remote PROVE RemoteMoves /\ WireMoves
  BY <1>1, <1>2, <1>3
<1>4. ASSUME NEW j \in Jobs, JobStep(j) PROVE RemoteMoves /\ WireMoves
  <2>1. CASE AgentIssues(j) \/ PendingLapses(j)
    <3>1. /\ wire' = wire
          /\ \/ remote[j] = "none" /\ remote' = [remote EXCEPT ![j] = "pending"]
             \/ remote[j] = "pending" /\ remote' = [remote EXCEPT ![j] = "lapsed"]
      BY <2>1, Zenon DEF AgentIssues, PendingLapses
    <3>2. /\ \A k \in Jobs \ {j} : remote'[k] = remote[k]
          /\ \/ remote[j] = "none" /\ remote'[j] = "pending"
             \/ remote[j] = "pending" /\ remote'[j] = "lapsed"
      BY <1>0, <3>1, Zenon
    <3>3. remote[j] \notin {"active", "revoked"} /\ remote'[j] # "revoked"
      BY <3>2
    <3>4. RemoteMoves
      BY <3>2, <3>3, Zenon DEF RemoteMoves
    <3> QED
      BY <1>2, <3>1, <3>4
  <2>2. CASE \/ CreateAuto(j) \/ GetExpires(j) \/ Cancel(j) \/ DispatchAuto(j)
             \/ BeginCli(j) \/ IssueFails(j) \/ CliAbandons(j)
    BY <1>3, <2>2, Zenon DEF CreateAuto, GetExpires, Cancel, DispatchAuto, BeginCli,
      IssueFails, CliAbandons
  <2>3. CASE \/ PublishIssued(j) \/ PublishVerified(j) \/ DeadlinePasses(j) \/ LeaseLapses(j)
             \/ CrashInCreate(j) \/ CrashInPublish(j) \/ CrashInCancel(j)
    BY <1>3, <2>3, Zenon DEF PublishIssued, PublishVerified, DeadlinePasses, LeaseLapses,
      CrashInCreate, CrashInPublish, CrashInCancel, Die
  <2> QED
    BY <1>4, <2>1, <2>2, <2>3, Zenon DEF JobStep
<1>5. ASSUME NEW r \in Recs, RecStep(r) PROVE RemoteMoves /\ WireMoves
  <2>1. ASSUME NEW kind, Send(kind, r), kind = "revoke" => rec[r].pc = "compensate"
        PROVE  WireMoves
    <3> DEFINE n == [kind |-> kind, job |-> rec[r].job, rec |-> r]
    <3>1. n.kind = kind /\ n.job = rec[r].job
      BY Zenon
    <3>2. wire' = wire \cup {n}
      BY <2>1, Zenon DEF Send
    <3> HIDE DEF n
    <3> QED
      BY <2>1, <3>1, <3>2, Zenon DEF WireMoves
  <2>2. CASE BeginActivation(r)
    <3>1. remote' = remote /\ (wire' = wire \/ Send("activate", r))
      BY <2>2, Zenon DEF BeginActivation
    <3>2. "activate" # "revoke"
      OBVIOUS
    <3> QED
      BY <1>1, <1>2, <2>1, <3>1, <3>2, Zenon
  <2>3. CASE BeginCompensation(r)
    <3>1. remote' = remote /\ rec[r].pc = "compensate" /\ (wire' = wire \/ Send("revoke", r))
      BY <2>3, Zenon DEF BeginCompensation
    <3> QED
      BY <1>1, <1>2, <2>1, <3>1, Zenon
  <2>4. CASE \/ RecoverPrepare(r) \/ \E j \in Jobs : Consume(r, j) \/ RecoverClaim(r, j)
    BY <1>3, <2>4, Zenon DEF RecoverPrepare, Consume, RecoverClaim
  <2>5. CASE \/ BeginValidation(r) \/ RenewLease(r) \/ AbandonCall(r) \/ EndValidation(r)
    BY <1>3, <2>5, Zenon DEF BeginValidation, RenewLease, AbandonCall, EndValidation
  <2>6. CASE \/ EndActivation(r) \/ Commit(r) \/ EndCompensation(r) \/ RecoverCleanup(r)
    BY <1>3, <2>6, Zenon DEF EndActivation, Commit, EndCompensation, RecoverCleanup
  <2>7. CASE \/ CrashInCompensation(r) \/ CrashInCleanup(r) \/ Restart(r)
    BY <1>3, <2>7, Zenon DEF CrashInCompensation, CrashInCleanup, Restart, Die
  <2> QED
    BY <1>5, <2>2, <2>3, <2>4, <2>5, <2>6, <2>7, Zenon DEF RecStep
<1>6. ASSUME NEW m \in wire, AgentHandles(m) PROVE RemoteMoves /\ WireMoves
  <2>1. wire' \subseteq wire
    BY <1>6, Zenon DEF AgentHandles
  <2> QED
    BY <1>2, <1>6, <2>1, HandlesRemote
<1>7. ASSUME NEW m \in wire, Lose(m) PROVE RemoteMoves /\ WireMoves
  <2>1. wire' \subseteq wire /\ remote' = remote
    BY <1>7, Zenon DEF Lose
  <2> QED
    BY <1>1, <1>2, <2>1
<1>8. SweepOrphans \/ Crash => RemoteMoves /\ WireMoves
  BY <1>3, Zenon DEF SweepOrphans, Crash, Die
<1> QED
  BY <1>4, <1>5, <1>6, <1>7, <1>8, Zenon DEF Next

\* Job k has lost its target after the step.
LostNext(k) ==
  (\E i \in Jobs : reg'[i] # NoRef /\ Target[i] = Target[k]) /\ reg'[k] = NoRef

\* What a recoverer knows of the Agent, and whom anyone revokes, stays true.
LEMMA AgentNext ==
  ASSUME TypeOK, Inv, JournalInv, AgentInv, Next
  PROVE  AgentInv'
<1>0. CallsFit /\ RevokesFit /\ RegOK /\ wire \subseteq Requests
  BY TypeParts, Zenon DEF AgentInv, Inv, Rest
<1>1. RemoteMoves /\ WireMoves
  BY NextAgent
<1>2. \A k \in Jobs : Lost(k) => Lost(k)'
  BY NextReg, RegStays, Zenon
<1>a. \A k \in Jobs : Lost(k) => LostNext(k)
  BY <1>2, Zenon DEF Lost, Duplicate, Registered, LostNext
<1>3. \A k \in Jobs : remote[k] \in {"active", "revoked"} => remote'[k] \in {"active", "revoked"}
  BY <1>1 DEF RemoteMoves
<1>4. ASSUME NEW t \in Recs, rec[t].pc \in {"activate", "compensate", "revoke"}
      PROVE  rec[t].job \in Jobs
  <2>1. rec[t].pc \notin {"idle", "prepare", "next"}
    BY <1>4
  <2> QED
    BY <2>1, AtWork
<1>5. RevokesFit'
  <2>1. ASSUME NEW m \in wire', m.kind = "revoke" PROVE Lost(m.job)'
    <3>1. CASE m \in wire
      BY <1>0, <1>2, <2>1, <3>1, Zenon DEF RevokesFit, Requests
    <3>2. ASSUME NEW r \in Recs, rec[r].pc = "compensate", m.job = rec[r].job
          PROVE  Lost(m.job)'
      BY <1>0, <1>2, <1>4, <3>2, Zenon DEF CallsFit
    <3> QED
      BY <1>1, <2>1, <3>1, <3>2, Zenon DEF WireMoves
  <2>2. ASSUME NEW j \in Jobs, remote'[j] = "revoked" PROVE Lost(j)'
    BY <1>0, <1>1, <1>2, <2>2, Zenon DEF RevokesFit, RemoteMoves
  <2>3. ASSUME NEW j \in Jobs, rows'[j].state = "activated"
        PROVE  remote'[j] \in {"active", "revoked"}
    <3>1. CASE rows[j].state = "activated"
      BY <1>0, <1>3, <3>1, Zenon DEF RevokesFit
    <3>2. ASSUME NEW r \in Recs, EndActivation(r), rec[r].job = j, rec[r].reply = "ok"
          PROVE  remote'[j] \in {"active", "revoked"}
      BY <1>0, <1>3, <3>2, Zenon DEF CallsFit, EndActivation
    <3> QED
      BY <2>3, <3>1, <3>2, NextKept, Zenon DEF Kept
  <2> QED
    BY <2>1, <2>2, <2>3, Zenon DEF RevokesFit
<1>6. ASSUME NEW t \in Recs
      PROVE  /\ rec'[t].pc = "activate" /\ rec'[t].reply = "ok" =>
                  remote'[rec'[t].job] \in {"active", "revoked"}
             /\ rec'[t].pc \in {"compensate", "revoke"} => LostNext(rec'[t].job)
             /\ rec'[t].pc = "revoke" /\ rec'[t].reply = "ok" =>
                  remote'[rec'[t].job] = "revoked"
  <2> DEFINE p == rec[t]
             q == rec'[t]
             Goal == /\ q.pc = "activate" /\ q.reply = "ok" =>
                          remote'[q.job] \in {"active", "revoked"}
                     /\ q.pc \in {"compensate", "revoke"} => LostNext(q.job)
                     /\ q.pc = "revoke" /\ q.reply = "ok" => remote'[q.job] = "revoked"
  <2>0. Call(t, p, q)
    BY NextTurns, Zenon DEF Turns
  <2>a. /\ p.pc = "activate" /\ p.reply = "ok" => remote[p.job] \in {"active", "revoked"}
        /\ p.pc \in {"compensate", "revoke"} => Lost(p.job)
        /\ p.pc = "revoke" /\ p.reply = "ok" => remote[p.job] = "revoked"
    BY <1>0, Zenon DEF CallsFit
  <2>b. p.pc \in {"activate", "compensate", "revoke"} => p.job \in Jobs
    BY <1>4
  <2>c. p.pc \in {"compensate", "revoke"} => LostNext(p.job)
    BY <1>a, <2>a, <2>b, Zenon
  <2>1. CASE q.job = p.job /\ q.pc = p.pc /\ q.reply = p.reply
    <3>1. q.pc = "activate" /\ q.reply = "ok" => remote'[q.job] \in {"active", "revoked"}
      BY <1>3, <2>1, <2>a, <2>b
    <3>2. q.pc \in {"compensate", "revoke"} => LostNext(q.job)
      BY <2>1, <2>c
    <3>3. q.pc = "revoke" /\ q.reply = "ok" => remote'[q.job] = "revoked"
      BY <1>1, <2>1, <2>a, <2>b DEF RemoteMoves
    <3> QED
      BY <3>1, <3>2, <3>3
  <2>2. CASE q.pc \notin {"activate", "compensate", "revoke"}
    BY <2>2, Zenon
  <2>3. CASE q.pc = "activate" /\ q.reply = "none"
    BY <2>3
  <2>4. CASE /\ q.pc = "compensate" /\ q.job = p.job /\ q.job \in Jobs
             /\ Duplicate(q.job) /\ rows[q.job].state = "activated"
    <3>1. rows[q.job].state # "consumed"
      BY <2>4
    <3>2. Lost(q.job)
      BY <1>0, <2>4, <3>1, Zenon DEF Lost, RegOK
    <3>3. LostNext(q.job)
      BY <1>a, <2>4, <3>2
    <3>4. q.pc # "activate" /\ q.pc # "revoke"
      BY <2>4
    <3> QED
      BY <3>3, <3>4
  <2>5. CASE q.pc = "revoke" /\ q.reply = "none" /\ q.job = p.job /\ p.pc = "compensate"
    <3>1. q.pc # "activate" /\ q.reply # "ok"
      BY <2>5
    <3> QED
      BY <2>5, <2>c, <3>1, Zenon
  <2>6. ASSUME q.job = p.job, q.pc = p.pc, NEW m \in wire, AgentHandles(m), m.rec = t,
               m.job = p.job, m.kind = p.pc
        PROVE  Goal
    <3>1. /\ m.job \in Jobs /\ m.rec \in Recs
          /\ m.kind = "revoke" => remote'[m.job] = "revoked"
          /\ m.kind = "activate" /\ remote[m.job] \in {"pending", "active"} =>
               remote'[m.job] = "active"
      BY <2>6, HandlesRemote
    <3>2. m.kind = "activate" /\ q.reply = "ok" => remote[m.job] \in {"pending", "active"}
      <4> DEFINE ok == m.kind = "revoke" \/ remote[m.job] \in {"pending", "active"}
                 v == IF ok THEN "ok" ELSE "rejected"
      <4>1. rec' = [rec EXCEPT ![t].reply = v] /\ rec[t] \in RecRecord
        BY <2>6, TypeParts, Zenon DEF AgentHandles
      <4>2. q.reply = v
        BY <4>1, TypeParts, Zenon DEF RecRecord
      <4> HIDE DEF q
      <4> QED
        BY <4>2
    <3> QED
      BY <2>6, <2>c, <3>1, <3>2
  <2> HIDE DEF p, q
  <2> QED
    BY <2>0, <2>1, <2>2, <2>3, <2>4, <2>5, <2>6, Zenon DEF Call, p, q
<1>7. CallsFit'
  BY <1>6, Zenon DEF CallsFit, Lost, Duplicate, Registered, LostNext
<1> QED
  BY <1>5, <1>7, Zenon DEF AgentInv

-----------------------------------------------------------------------------
(* The token files.                                                        *)

\* A step keeps the file of a job that stays live, unless its credential is
\* revoked, and the file of a registered Agent.
FileKept(k) ==
  /\ Live(rows[k]) /\ Live(rows'[k]) /\ <<k, rows[k].ref>> \in files =>
       <<k, rows[k].ref>> \in files' \/ remote[k] = "revoked"
  /\ Registered(k) /\ <<k, reg[k]>> \in files => <<k, reg[k]>> \in files'

\* Files are removed of jobs that end or are revoked, and are not registered.
LEMMA DropKeeps ==
  ASSUME NEW S,
         \A j \in S : /\ ~Registered(j)
                      /\ ~Live(rows[j]) \/ ~Live(rows'[j]) \/ remote[j] = "revoked",
         \A f \in files : f[1] \in S \/ f \in files',
         NEW k \in Jobs
  PROVE  FileKept(k)
<1>1. <<k, rows[k].ref>>[1] = k /\ <<k, reg[k]>>[1] = k
  OBVIOUS
<1> QED
  BY <1>1, Zenon DEF FileKept

\* No step removes a file that is needed.
LEMMA NextFiles ==
  ASSUME TypeOK, Inv, JournalInv, AgentInv, Next, NEW k \in Jobs
  PROVE  FileKept(k)
<1>0. RegOK /\ CallsFit /\ files \subseteq Jobs \X Methods
  BY TypeParts, Zenon DEF Inv, AgentInv, Rest
<1>1. files \subseteq files' => FileKept(k)
  BY Zenon DEF FileKept
<1>a. ASSUME NEW j \in Jobs, rows[j].state # "consumed" PROVE ~Registered(j)
  BY <1>0, <1>a, Zenon DEF RegOK
<1>2. ASSUME NEW j \in Jobs, JobStep(j) PROVE FileKept(k)
  <2>1. CASE Cancel(j) \/ CrashInCancel(j)
    <3>1. /\ rows[j].state \in Expirable
          /\ files' = files \/ files' = files \ {<<j, rows[j].ref>>}
          /\ \/ rows' = [rows EXCEPT ![j] = FinishCleanupRow(CancelledRow(rows[j]))]
             \/ rows' = [rows EXCEPT ![j] = CancelledRow(rows[j])]
      BY <2>1, Zenon DEF Cancel, CrashInCancel
    <3>2. rows'[j].state = "cancelled"
      <4>1. rows[j] \in Row
        BY TypeParts, Zenon
      <4>2. CancelledRow(rows[j]) \in Row /\ CancelledRow(rows[j]).state = "cancelled"
        BY <4>1, RowOps, RowFields, 0 \in Int, Zenon
      <4>3. FinishCleanupRow(CancelledRow(rows[j])).state = "cancelled"
        BY <4>2, RowFields, Zenon
      <4> QED
        BY <3>1, <4>2, <4>3, TypeParts, Zenon
    <3>3. ~Live(rows'[j]) /\ rows[j].state # "consumed"
      BY <3>1, <3>2 DEF Live, Terminal, Expirable
    <3>4. <<j, rows[j].ref>>[1] = j
      OBVIOUS
    <3>5. \A f \in files : f[1] \in {j} \/ f \in files'
      BY <3>1, <3>4, Zenon
    <3> QED
      BY <1>a, <3>3, <3>5, DropKeeps, Zenon
  <2>2. CASE PublishIssued(j) \/ CrashInPublish(j)
    BY <1>1, <2>2, Zenon DEF PublishIssued, CrashInPublish
  <2>3. CASE \/ CreateAuto(j) \/ GetExpires(j) \/ DispatchAuto(j) \/ BeginCli(j)
             \/ AgentIssues(j) \/ IssueFails(j) \/ CliAbandons(j)
    BY <1>1, <2>3, Zenon DEF CreateAuto, GetExpires, DispatchAuto, BeginCli, AgentIssues,
      IssueFails, CliAbandons
  <2>4. CASE \/ PublishVerified(j) \/ DeadlinePasses(j) \/ PendingLapses(j)
             \/ LeaseLapses(j) \/ CrashInCreate(j)
    BY <1>1, <2>4, Zenon DEF PublishVerified, DeadlinePasses, PendingLapses, LeaseLapses,
      CrashInCreate
  <2> QED
    BY <1>2, <2>1, <2>2, <2>3, <2>4, Zenon DEF JobStep
<1>3. ASSUME NEW r \in Recs, RecStep(r) PROVE FileKept(k)
  <2>1. CASE EndCompensation(r) \/ CrashInCompensation(r)
    <3> DEFINE j == rec[r].job
    <3>1. \/ files' = files
          \/ /\ rec[r].pc = "revoke" /\ rec[r].reply = "ok"
             /\ \E x : files' = files \ {<<j, x>>}
      BY <2>1, Zenon DEF EndCompensation, CrashInCompensation
    <3>2. ASSUME rec[r].pc = "revoke", rec[r].reply = "ok", NEW x, files' = files \ {<<j, x>>}
          PROVE  FileKept(k)
      <4>1. Lost(j) /\ remote[j] = "revoked"
        BY <1>0, <3>2, Zenon DEF CallsFit
      <4>2. <<j, x>>[1] = j
        OBVIOUS
      <4>3. \A f \in files : f[1] \in {j} \/ f \in files'
        BY <3>2, <4>2, Zenon
      <4> QED
        BY <4>1, <4>3, DropKeeps, Zenon DEF Lost
    <3> QED
      BY <1>1, <3>1, <3>2
  <2>2. CASE RecoverCleanup(r) \/ CrashInCleanup(r)
    <3>1. \/ \E D \in SUBSET Uncleaned : files' = files \ {<<j, rows[j].ref>> : j \in D}
          \/ \E j \in Uncleaned : files' = files \ {<<j, rows[j].ref>>}
      BY <2>2, Zenon DEF RecoverCleanup, CrashInCleanup
    <3>2. \A j \in Uncleaned : <<j, rows[j].ref>>[1] = j
      OBVIOUS
    <3>3. \A f \in files : f[1] \in Uncleaned \/ f \in files'
      BY <3>1, <3>2, Zenon
    <3>4. \A j \in Uncleaned : ~Registered(j) /\ ~Live(rows[j])
      BY <1>a, Zenon DEF Uncleaned, Live
    <3> QED
      BY <3>3, <3>4, DropKeeps, Zenon
  <2>3. CASE \/ RecoverPrepare(r) \/ \E j \in Jobs : Consume(r, j) \/ RecoverClaim(r, j)
    BY <1>1, <2>3, Zenon DEF RecoverPrepare, Consume, RecoverClaim
  <2>4. CASE \/ BeginValidation(r) \/ RenewLease(r) \/ AbandonCall(r) \/ EndValidation(r)
    BY <1>1, <2>4, Zenon DEF BeginValidation, RenewLease, AbandonCall, EndValidation
  <2>5. CASE BeginActivation(r) \/ EndActivation(r) \/ Commit(r) \/ BeginCompensation(r)
             \/ Restart(r)
    BY <1>1, <2>5, Zenon DEF BeginActivation, EndActivation, Commit, BeginCompensation,
      Restart
  <2> QED
    BY <1>3, <2>1, <2>2, <2>3, <2>4, <2>5, Zenon DEF RecStep
<1>4. CASE SweepOrphans
  <2>1. files' = {f \in files : f[2] \in {rows[f[1]].ref, reg[f[1]]}}
    BY <1>4, Zenon DEF SweepOrphans
  <2>2. /\ <<k, rows[k].ref>>[1] = k /\ <<k, rows[k].ref>>[2] = rows[k].ref
        /\ <<k, reg[k]>>[1] = k /\ <<k, reg[k]>>[2] = reg[k]
    OBVIOUS
  <2> QED
    BY <2>1, <2>2, Zenon DEF FileKept
<1>5. CASE Crash \/ \E m \in wire : AgentHandles(m) \/ Lose(m)
  BY <1>1, <1>5, Zenon DEF Crash, AgentHandles, Lose
<1> QED
  BY <1>2, <1>3, <1>4, <1>5, Zenon DEF Next

-----------------------------------------------------------------------------
(* The tokens.                                                             *)

TokenInv == AgentInv /\ LiveCredential /\ RegisteredUsable

\* A live job keeps its token, by any step.
LEMMA LiveNext ==
  ASSUME TypeOK, Inv, JournalInv, TokenInv, Next
  PROVE  LiveCredential'
<1> SUFFICES ASSUME NEW k \in Jobs, Live(rows'[k]), rows'[k].ref # NoRef
             PROVE  <<k, rows'[k].ref>> \in files' \/ remote'[k] = "revoked"
  BY Zenon DEF LiveCredential, HasToken
<1>1. \/ Live(rows[k]) /\ rows'[k].ref = rows[k].ref
      \/ <<k, rows'[k].ref>> \in files'
  BY NextKept, Zenon DEF Kept, HasToken
<1>2. FileKept(k)
  BY NextFiles, Zenon DEF TokenInv
<1>3. remote[k] = "revoked" => remote'[k] = "revoked"
  BY NextAgent, Zenon DEF RemoteMoves
<1>4. Live(rows[k]) /\ rows[k].ref # NoRef =>
        <<k, rows[k].ref>> \in files \/ remote[k] = "revoked"
  BY Zenon DEF TokenInv, LiveCredential, HasToken
<1> QED
  BY <1>1, <1>2, <1>3, <1>4, Zenon DEF FileKept

\* A registered Agent stays usable, and one is registered when it is.
LEMMA UsableNext ==
  ASSUME TypeOK, Inv, Inv', JournalInv, TokenInv, Next
  PROVE  RegisteredUsable'
<1> SUFFICES ASSUME NEW k \in Jobs, reg'[k] # NoRef
             PROVE  /\ <<k, reg'[k]>> \in files'
                    /\ remote'[k] = "active"
                    /\ rows'[k].state = "consumed"
  BY Zenon DEF RegisteredUsable, Registered
<1>0. RevokesFit /\ LiveCredential /\ RegisteredUsable
  BY Zenon DEF TokenInv, AgentInv
<1>1. rows'[k].state = "consumed"
  BY Zenon DEF Inv, RegOK, Registered
<1>2. CASE Registered(k)
  <2>1. reg'[k] = reg[k]
    BY <1>2, NextReg, RegStays
  <2>2. <<k, reg[k]>> \in files' /\ remote[k] = "active"
    BY <1>0, <1>2, NextFiles, Zenon DEF FileKept, RegisteredUsable, TokenInv
  <2>3. ~Lost(k)
    BY <1>2, Zenon DEF Lost
  <2>4. remote'[k] \in {"active", "revoked"} /\ remote[k] # "revoked"
    BY <2>2, NextAgent DEF RemoteMoves
  <2>5. remote'[k] # "revoked"
    BY <1>0, <2>3, <2>4, NextAgent, Zenon DEF RemoteMoves, RevokesFit
  <2>6. remote'[k] = "active"
    BY <2>4, <2>5
  <2> QED
    BY <1>1, <2>1, <2>2, <2>6, Zenon
<1>3. CASE ~Registered(k)
  <2>1. PICK r \in Recs : /\ Commit(r) /\ rec[r].job \in Jobs /\ ~Duplicate(rec[r].job)
                          /\ rows[rec[r].job].state = "activated"
                          /\ reg' = [reg EXCEPT ![rec[r].job] = rows[rec[r].job].ref]
    BY <1>3, NextReg, Zenon DEF RegMoves, Registered
  <2>2. rec[r].job = k /\ reg'[k] = rows[k].ref
    BY <1>3, <2>1, TypeParts, Zenon DEF Registered, Rest
  <2>3. files' = files /\ remote' = remote
    BY <2>1, Zenon DEF Commit
  <2>4. ~Lost(k)
    BY <2>1, <2>2, Zenon DEF Lost
  <2>5. remote[k] # "revoked" /\ remote[k] \in {"active", "revoked"}
    BY <1>0, <2>1, <2>2, <2>4, Zenon DEF RevokesFit
  <2>6. Live(rows[k])
    BY <2>1, <2>2 DEF Live, Terminal, Absent
  <2>7. <<k, rows[k].ref>> \in files
    BY <1>0, <2>2, <2>5, <2>6, Zenon DEF LiveCredential, HasToken
  <2>8. remote[k] = "active"
    BY <2>5
  <2> QED
    BY <1>1, <2>2, <2>3, <2>7, <2>8, Zenon
<1> QED
  BY <1>2, <1>3

\* The tokens' invariant holds at first.
LEMMA TokenInit == Init => TokenInv
<1> SUFFICES ASSUME Init PROVE TokenInv
  OBVIOUS
<1>1. ~Live(NoRow) /\ NoRow.state # "activated"
  BY DEF Live, NoRow, Absent
<1>2. IdleRec.pc = "idle"
  BY Zenon DEF IdleRec
<1>3. /\ \A j \in Jobs : rows[j] = NoRow /\ reg[j] = NoRef /\ remote[j] = "none"
      /\ \A r \in Recs : rec[r].pc = "idle"
      /\ wire = {}
  BY <1>2, Zenon DEF Init
<1>4. CallsFit
  BY <1>3 DEF CallsFit
<1>5. RevokesFit
  <2>1. \A j \in Jobs : remote[j] # "revoked"
    BY <1>3
  <2> QED
    BY <1>1, <1>3, <2>1, Zenon DEF RevokesFit
<1> QED
  BY <1>1, <1>3, <1>4, <1>5, Zenon DEF TokenInv, AgentInv, LiveCredential,
    RegisteredUsable, Registered

\* And every step keeps it.
LEMMA TokenNext ==
  TypeOK /\ Inv /\ Inv' /\ JournalInv /\ TokenInv /\ [Next]_vars => TokenInv'
<1> SUFFICES ASSUME TypeOK, Inv, Inv', JournalInv, TokenInv, [Next]_vars PROVE TokenInv'
  OBVIOUS
<1>1. CASE Next
  BY <1>1, AgentNext, LiveNext, UsableNext, Zenon DEF TokenInv
<1>2. CASE UNCHANGED vars
  <2>1. /\ rows' = rows /\ files' = files /\ reg' = reg /\ remote' = remote
        /\ wire' = wire /\ rec' = rec
    BY <1>2, Zenon DEF vars
  <2>2. CallsFit' /\ RevokesFit'
    BY <2>1, Zenon DEF TokenInv, AgentInv, CallsFit, RevokesFit, Lost, Duplicate, Registered
  <2>3. LiveCredential' /\ RegisteredUsable'
    BY <2>1, Zenon DEF TokenInv, LiveCredential, RegisteredUsable, HasToken, Registered
  <2> QED
    BY <2>2, <2>3, Zenon DEF TokenInv, AgentInv
<1> QED
  BY <1>1, <1>2

\* What recoverers know of the Agent is true, whoever took over their claim or
\* answered late, and the tokens are where they are needed.
THEOREM TokenCorrect == Spec => []TokenInv
  BY TokenInit, TokenNext, TypeCorrect, InvCorrect, JournalCorrect, PTL DEF Spec

\* A live job never loses the only copy of its token, through cancel, the terminal
\* cleanup, the orphan sweep and a crash in any of them, unless the Agent has
\* revoked that credential.
THEOREM LiveKeepsToken == Spec => []LiveCredential
<1>1. TokenInv => LiveCredential
  BY Zenon DEF TokenInv
<1> QED
  BY <1>1, TokenCorrect, PTL

\* An Agent that commit_activated_enrollment put in the registry can be used: its
\* token file is there, the Agent holds it active, and no compensation of another
\* job, late request, cleanup or crash takes that away.
THEOREM RegisteredStaysUsable == Spec => []RegisteredUsable
<1>1. TokenInv => RegisteredUsable
  BY Zenon DEF TokenInv
<1> QED
  BY <1>1, TokenCorrect, PTL
=============================================================================
