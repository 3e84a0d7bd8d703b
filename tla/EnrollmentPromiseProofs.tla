----------------------- MODULE EnrollmentPromiseProofs -----------------------
(***************************************************************************)
(* Enrollment keeps its promise: the invariant that a saved job is never   *)
(* taken back, and the refinement of EnrollmentPromise, for every number   *)
(* of jobs and recoverers and every bound.                                 *)
(***************************************************************************)
EXTENDS EnrollmentProofs

-----------------------------------------------------------------------------
(* One row.                                                                *)

\* What a client can tell about a job from its row alone.
Class(row) ==
  CASE row.state = Absent -> "absent"
    [] row.state = "consumed" -> "enrolled"
    [] row.state \in Terminal \ {"consumed"} -> "closed"
    [] row.state \notin Terminal \cup {Absent} ->
         IF row.save THEN "saved" ELSE "open"

\* save_requested is set exactly when the job is past the point of no return,
\* a row that is absent or consumed is claimed by nobody, and one past the
\* issue of its credential references it.
RowOK(row) ==
  /\ row.save => row.state \in {"activation_requested", "activated", "consumed", "failed"}
  /\ row.state \in {"activation_requested", "activated", "consumed"} => row.save
  /\ row.state \in {Absent, "consumed"} => row.owner = NoOwner
  /\ row.state \in CredentialStates => row.ref # NoRef

\* A row's move that the promise does not see, or sees as a closed open job.
Good(a, b) ==
  /\ RowOK(b)
  /\ a.save => b.save
  /\ Class(b) = Class(a) \/ (Class(a) = "open" /\ Class(b) = "closed")

\* The move of a saved job that fails.
Fails(a, b) == RowOK(b) /\ b.save /\ Class(a) = "saved" /\ Class(b) = "closed"

\* What each row update does to the fields above.
LEMMA RowFields ==
  ASSUME NEW row \in Row
  PROVE  /\ ClearClaim(row).state = row.state /\ ClearClaim(row).save = row.save
         /\ ClearClaim(row).owner = NoOwner /\ ClearClaim(row).ref = row.ref
         /\ ExpireRow(row).state = "expired" /\ ExpireRow(row).save = row.save
         /\ RawExpireRow(row).state = "expired" /\ RawExpireRow(row).save = row.save
         /\ RenewRow(row).state = row.state /\ RenewRow(row).save = row.save
         /\ RenewRow(row).owner = row.owner /\ RenewRow(row).ref = row.ref
         /\ FailRow(row).state = "failed" /\ FailRow(row).save = row.save
         /\ FinishCleanupRow(row).state = row.state
         /\ FinishCleanupRow(row).save = row.save
         /\ FinishCleanupRow(row).owner = row.owner
         /\ CancelledRow(row).state = "cancelled" /\ CancelledRow(row).save = row.save
         /\ ConsumeRow(row).state = "consumed" /\ ConsumeRow(row).save = row.save
         /\ ConsumeRow(row).owner = NoOwner
         /\ row.save \in BOOLEAN /\ row.state \in States \cup {Absent}
         /\ row.ref \in Methods \cup {NoRef}
  BY Zenon DEF Row, ClearClaim, ExpireRow, RawExpireRow, RenewRow, FailRow,
    FinishCleanupRow, CancelledRow, ConsumeRow

\* And what a claimed transition does.
LEMMA TransitionedFields ==
  ASSUME NEW row \in Row, NEW to
  PROVE  /\ Transitioned(row, to).state = to
         /\ Transitioned(row, to).save = row.save
         /\ Transitioned(row, to).ref = row.ref
  BY Zenon DEF Row, Transitioned

\* Expiry, cancellation and failure close an open job.
LEMMA CloseMoves ==
  ASSUME NEW a, NEW b, RowOK(a), a.state \in Expirable,
         b.state \in {"expired", "cancelled", "failed"}, b.save = a.save,
         a.save \in BOOLEAN
  PROVE  Good(a, b)
  BY DEF Good, RowOK, Class, Expirable, Terminal, Absent, CredentialStates

\* The client does not see a move that keeps the state, the save flag and the
\* reference and claims the row only where recovery may.
LEMMA ClaimMoves ==
  ASSUME NEW a, NEW b, RowOK(a), b.save = a.save, a.save \in BOOLEAN,
         b.state = a.state, b.ref = a.ref,
         b.owner = NoOwner \/ b.owner = a.owner \/ a.state \in Recoverable
  PROVE  Good(a, b)
  BY DEF Good, RowOK, Class, Expirable, Terminal, Absent, Recoverable, CredentialStates

\* Nor a move between unsaved live states, nor the activation of a saved job.
LEMMA LiveMoves ==
  ASSUME NEW a, NEW b, RowOK(a), b.save = a.save, a.save \in BOOLEAN,
         \/ b.state \in Expirable /\ a.state \in Expirable
         \/ b.state = "activated" /\ a.state = "activation_requested",
         b.state \in CredentialStates => b.ref # NoRef
  PROVE  Good(a, b)
  BY DEF Good, RowOK, Class, Expirable, Terminal, Absent, CredentialStates

\* Nor the removal of the reference of a job that ended.
LEMMA CleanupMoves ==
  ASSUME NEW a, NEW b, RowOK(a), b.save = a.save, a.save \in BOOLEAN,
         b.state = a.state, b.owner = a.owner, a.state \in Terminal
  PROVE  Good(a, b)
  BY DEF Good, RowOK, Class, Terminal, Absent, CredentialStates

\* Failing a claimed row closes it.
LEMMA FailMoves ==
  ASSUME NEW a, NEW b, RowOK(a), a.owner # NoOwner, a.state \in States \cup {Absent},
         b.state = "failed", b.save = a.save, a.save \in BOOLEAN
  PROVE  Good(a, b) \/ Fails(a, b)
  BY DEF Good, Fails, RowOK, Class, Terminal, Absent, States, CredentialStates

-----------------------------------------------------------------------------
(* The invariant.                                                          *)

RowsOK == \A j \in Jobs : RowOK(rows[j])

\* The registry has exactly the consumed jobs.
RegOK == \A j \in Jobs : Registered(j) <=> rows[j].state = "consumed"

\* A publisher's snapshot was read before the job was saved.
PubOK == \A j \in Jobs :
  ~pub[j].row.save /\ (pub[j].pc = "validating" => pub[j].row.ref # NoRef)

\* A recoverer that read a saved job works for a saved job.
RecOK == \A r \in Recs :
  /\ RowOK(rec[r].row)
  /\ rec[r].job \in Jobs /\ rec[r].row.save => rows[rec[r].job].save

\* Activation is asked for, and done, for saved jobs only.
AskedOK ==
  /\ \A m \in wire : m.kind = "activate" => rows[m.job].save
  /\ \A j \in Jobs : remote[j] = "active" => rows[j].save

Inv == RowsOK /\ RegOK /\ PubOK /\ RecOK /\ AskedOK

-----------------------------------------------------------------------------
(* What a step does to the rows, as the promise sees it.                   *)

Others(j) == \A k \in Jobs \ {j} : rows'[k] = rows[k]

StepQuiet == reg' = reg /\ \A k \in Jobs : Good(rows[k], rows'[k])

StepFail(j) == reg' = reg /\ Others(j) /\ Fails(rows[j], rows'[j])

StepOpen(j) ==
  /\ reg' = reg /\ rows[j].state = Absent
  /\ Class(rows'[j]) = "open" /\ RowOK(rows'[j])
  /\ \A k \in Jobs \ {j} : Good(rows[k], rows'[k])

StepSave(j) ==
  /\ reg' = reg /\ Others(j) /\ ~Duplicate(j)
  /\ Class(rows[j]) = "open" /\ Class(rows'[j]) = "saved"
  /\ RowOK(rows'[j]) /\ rows'[j].save

StepEnroll(j) ==
  /\ Others(j) /\ ~Duplicate(j)
  /\ Class(rows[j]) = "saved" /\ rows'[j].state = "consumed"
  /\ RowOK(rows'[j]) /\ rows'[j].save
  /\ \A k \in Jobs : reg'[k] # NoRef <=> k = j \/ reg[k] # NoRef

Move ==
  \/ StepQuiet
  \/ \E j \in Jobs : StepFail(j) \/ StepOpen(j) \/ StepSave(j) \/ StepEnroll(j)

\* A class tells whether the row is consumed.
LEMMA ClassOf ==
  ASSUME NEW a
  PROVE  /\ Class(a) = "enrolled" <=> a.state = "consumed"
         /\ Class(a) = "absent" <=> a.state = Absent
  BY DEF Class, Terminal, Absent

\* Every such step keeps the rows in order, never takes a save back and keeps
\* the registry in step with the journal.
LEMMA MoveKeeps ==
  ASSUME RowsOK, RegOK, Move
  PROVE  RowsOK' /\ RegOK' /\ \A k \in Jobs : rows[k].save => rows'[k].save
<1>1. CASE StepQuiet
  <2>1. ASSUME NEW k \in Jobs
        PROVE  /\ RowOK(rows'[k]) /\ (rows[k].save => rows'[k].save)
               /\ rows'[k].state = "consumed" <=> rows[k].state = "consumed"
    <3>1. Good(rows[k], rows'[k])
      BY <1>1, <2>1, Zenon DEF StepQuiet
    <3>2. Class(rows'[k]) = "enrolled" <=> Class(rows[k]) = "enrolled"
      BY <3>1 DEF Good
    <3> QED
      BY <3>1, <3>2, ClassOf, Zenon DEF Good
  <2>2. reg' = reg
    BY <1>1, Zenon DEF StepQuiet
  <2> QED
    BY <2>1, <2>2, Zenon DEF RowsOK, RegOK, Registered
<1>2. ASSUME NEW j \in Jobs, StepFail(j) PROVE RowsOK' /\ RegOK'
        /\ \A k \in Jobs : rows[k].save => rows'[k].save
  <2>1. rows[j].state # "consumed" /\ rows'[j].state # "consumed"
    <3>1. Class(rows[j]) # "enrolled" /\ Class(rows'[j]) # "enrolled"
      BY <1>2 DEF StepFail, Fails
    <3> QED
      BY <3>1, ClassOf, Zenon
  <2> QED
    BY <1>2, <2>1, Zenon DEF StepFail, Fails, Others, RowsOK, RegOK, Registered
<1>3. ASSUME NEW j \in Jobs, StepOpen(j) PROVE RowsOK' /\ RegOK'
        /\ \A k \in Jobs : rows[k].save => rows'[k].save
  <2>1. ASSUME NEW k \in Jobs \ {j}
        PROVE  /\ RowOK(rows'[k]) /\ (rows[k].save => rows'[k].save)
               /\ rows'[k].state = "consumed" <=> rows[k].state = "consumed"
    <3>1. Good(rows[k], rows'[k])
      BY <1>3, <2>1, Zenon DEF StepOpen
    <3>2. Class(rows'[k]) = "enrolled" <=> Class(rows[k]) = "enrolled"
      BY <3>1 DEF Good
    <3> QED
      BY <3>1, <3>2, ClassOf, Zenon DEF Good
  <2>2. rows[j].state # "consumed" /\ ~rows[j].save
    BY <1>3 DEF StepOpen, RowsOK, RowOK, Absent
  <2>3. rows'[j].state # "consumed"
    <3>1. Class(rows'[j]) # "enrolled"
      BY <1>3 DEF StepOpen
    <3> QED
      BY <3>1, ClassOf, Zenon
  <2>4. reg' = reg /\ RowOK(rows'[j])
    BY <1>3, Zenon DEF StepOpen
  <2> QED
    BY <2>1, <2>2, <2>3, <2>4, Zenon DEF RowsOK, RegOK, Registered
<1>4. ASSUME NEW j \in Jobs, StepSave(j) PROVE RowsOK' /\ RegOK'
        /\ \A k \in Jobs : rows[k].save => rows'[k].save
  <2>1. rows[j].state # "consumed" /\ rows'[j].state # "consumed"
    <3>1. Class(rows[j]) # "enrolled" /\ Class(rows'[j]) # "enrolled"
      BY <1>4 DEF StepSave
    <3> QED
      BY <3>1, ClassOf, Zenon
  <2> QED
    BY <1>4, <2>1, Zenon DEF StepSave, Others, RowsOK, RegOK, Registered
<1>5. ASSUME NEW j \in Jobs, StepEnroll(j) PROVE RowsOK' /\ RegOK'
        /\ \A k \in Jobs : rows[k].save => rows'[k].save
  BY <1>5, Zenon DEF StepEnroll, Others, RowsOK, RegOK, Registered
<1> QED
  BY <1>1, <1>2, <1>3, <1>4, <1>5, Zenon DEF Move

-----------------------------------------------------------------------------
(* Such a step is a step of the promise.                                   *)

\* The client's view of a job is the class of its row.
LEMMA OutcomeClass ==
  /\ RegOK => Outcome = [j \in Jobs |-> Class(rows[j])]
  /\ RegOK' => Outcome' = [j \in Jobs |-> Class(rows'[j])]
<1>1. ASSUME RegOK PROVE Outcome = [j \in Jobs |-> Class(rows[j])]
  <2>1. ASSUME NEW j \in Jobs
        PROVE  (CASE Registered(j) -> "enrolled"
                  [] ~Registered(j) /\ rows[j].state = Absent -> "absent"
                  [] ~Registered(j) /\ rows[j].state \in Terminal -> "closed"
                  [] ~Registered(j) /\ Live(rows[j]) ->
                       IF rows[j].save THEN "saved" ELSE "open")
               = Class(rows[j])
    <3>1. Registered(j) <=> rows[j].state = "consumed"
      BY <1>1, <2>1, Zenon DEF RegOK
    <3> HIDE DEF Registered
    <3> QED
      BY <3>1 DEF Class, Terminal, Absent, Live
  <2> QED
    BY <2>1, Zenon DEF Outcome
<1>2. ASSUME RegOK' PROVE Outcome' = [j \in Jobs |-> Class(rows'[j])]
  <2>1. ASSUME NEW j \in Jobs
        PROVE  (CASE Registered(j)' -> "enrolled"
                  [] ~Registered(j)' /\ rows'[j].state = Absent -> "absent"
                  [] ~Registered(j)' /\ rows'[j].state \in Terminal -> "closed"
                  [] ~Registered(j)' /\ Live(rows'[j]) ->
                       IF rows'[j].save THEN "saved" ELSE "open")
               = Class(rows'[j])
    <3>1. Registered(j)' <=> rows'[j].state = "consumed"
      BY <1>2, <2>1, Zenon DEF RegOK
    <3> HIDE DEF Registered
    <3> QED
      BY <3>1 DEF Class, Terminal, Absent, Live
  <2> QED
    BY <2>1, Zenon DEF Outcome
<1> QED
  BY <1>1, <1>2

\* The target of a job is taken exactly when the registry has a duplicate.
LEMMA TakenDuplicate == ASSUME RegOK, NEW j \in Jobs PROVE P!Taken(j) <=> Duplicate(j)
<1>1. Outcome = [k \in Jobs |-> Class(rows[k])]
  BY OutcomeClass
<1>2. \A k \in Jobs : Outcome[k] = "enrolled" <=> Registered(k)
  BY <1>1, ClassOf, Zenon DEF RegOK
<1> QED
  BY <1>2, Zenon DEF P!Taken, Duplicate

\* Every step of the rows is a step of the promise, or hidden from the client.
LEMMA MoveRefines ==
  ASSUME RegOK, RegOK', Move
  PROVE  [P!Next]_Outcome
<1> DEFINE open == {j \in Jobs : Outcome[j] = "open"}
<1>0. /\ Outcome = [j \in Jobs |-> Class(rows[j])]
      /\ Outcome' = [j \in Jobs |-> Class(rows'[j])]
  BY OutcomeClass
<1>1. ASSUME NEW S \in SUBSET Jobs,
             \A k \in Jobs \ S : Good(rows[k], rows'[k]),
             \A k \in S : Class(rows'[k]) = "open"
      PROVE  P!Sweep(S)
  <2> DEFINE C == {k \in Jobs \ S : Class(rows[k]) = "open" /\ Class(rows'[k]) = "closed"}
  <2>1. C \in SUBSET open
    BY <1>0, Zenon
  <2>2. ASSUME NEW k \in Jobs
        PROVE  Class(rows'[k]) = (CASE k \in S -> "open"
                                    [] k \in C -> "closed"
                                    [] OTHER -> Outcome[k])
    <3>1. CASE k \in S
      BY <1>1, <3>1
    <3>2. CASE k \notin S /\ k \in C
      BY <3>2
    <3>3. CASE k \notin S /\ k \notin C
      <4>1. Class(rows'[k]) = Class(rows[k])
        BY <1>1, <3>3, Zenon DEF Good
      <4>2. Outcome[k] = Class(rows[k])
        BY <1>0, Zenon
      <4> QED
        BY <3>3, <4>1, <4>2
    <3> QED
      BY <3>1, <3>2, <3>3
  <2>3. Outcome' = [k \in Jobs |-> CASE k \in S -> "open"
                                     [] k \in C -> "closed"
                                     [] OTHER -> Outcome[k]]
    BY <1>0, <2>2, Zenon
  <2> HIDE DEF C
  <2> QED
    BY <2>1, <2>3, Zenon DEF P!Sweep
<1>2. CASE StepQuiet
  BY <1>1, <1>2, Zenon DEF StepQuiet, P!Next, P!Close
<1>3. ASSUME NEW j \in Jobs, StepOpen(j) PROVE P!Next
  <2>1. Outcome[j] = "absent"
    BY <1>0, <1>3, ClassOf, Zenon DEF StepOpen
  <2>2. P!Sweep({j})
    BY <1>1, <1>3, Zenon DEF StepOpen
  <2> QED
    BY <2>1, <2>2, Zenon DEF P!Next, P!Open
<1>4. ASSUME NEW j \in Jobs, NEW v, Others(j), Class(rows'[j]) = v
      PROVE  Outcome' = [Outcome EXCEPT ![j] = v]
  BY <1>0, <1>4, Zenon DEF Others
<1>5. ASSUME NEW j \in Jobs, StepFail(j) PROVE P!Next
  <2>1. Outcome[j] = "saved"
    BY <1>0, <1>5, Zenon DEF StepFail, Fails
  <2>2. Outcome' = [Outcome EXCEPT ![j] = "closed"]
    BY <1>4, <1>5, Zenon DEF StepFail, Fails
  <2> QED
    BY <2>1, <2>2, Zenon DEF P!Next, P!Fail
<1>6. ASSUME NEW j \in Jobs, StepSave(j) PROVE P!Next
  <2>1. Outcome[j] = "open" /\ ~P!Taken(j)
    BY <1>0, <1>6, TakenDuplicate, Zenon DEF StepSave
  <2>2. Outcome' = [Outcome EXCEPT ![j] = "saved"]
    BY <1>4, <1>6, Zenon DEF StepSave
  <2> QED
    BY <2>1, <2>2, Zenon DEF P!Next, P!Save
<1>7. ASSUME NEW j \in Jobs, StepEnroll(j) PROVE P!Next
  <2>1. Outcome[j] = "saved" /\ ~P!Taken(j)
    BY <1>0, <1>7, TakenDuplicate, Zenon DEF StepEnroll
  <2>2. Class(rows'[j]) = "enrolled"
    BY <1>7, ClassOf, Zenon DEF StepEnroll
  <2>3. Outcome' = [Outcome EXCEPT ![j] = "enrolled"]
    BY <1>4, <1>7, <2>2, Zenon DEF StepEnroll
  <2> QED
    BY <2>1, <2>3, Zenon DEF P!Next, P!Enroll
<1> QED
  BY <1>2, <1>3, <1>5, <1>6, <1>7, Zenon DEF Move

-----------------------------------------------------------------------------
(* What every action does to the rows.                                     *)

\* A row that stays as it is, and rows and registry that stay as they are.
LEMMA Unmoved ==
  ASSUME TypeOK, RowsOK
  PROVE  /\ \A k \in Jobs : Good(rows[k], rows[k])
         /\ rows' = rows /\ reg' = reg => Move
<1>1. ASSUME NEW k \in Jobs PROVE Good(rows[k], rows[k])
  <2>1. rows[k] \in Row /\ RowOK(rows[k])
    BY TypeParts, Zenon DEF RowsOK
  <2>2. rows[k].save \in BOOLEAN
    BY <2>1, RowFields, Zenon
  <2> QED
    BY <2>1, <2>2, ClaimMoves, Zenon
<1> QED
  BY <1>1, Zenon DEF Move, StepQuiet

\* One row moves.
LEMMA OneRow ==
  ASSUME TypeOK, RowsOK, NEW j \in Jobs, NEW b, rows' = [rows EXCEPT ![j] = b],
         reg' = reg, Good(rows[j], b) \/ Fails(rows[j], b)
  PROVE  Move
<1>1. rows'[j] = b /\ \A k \in Jobs \ {j} : rows'[k] = rows[k]
  BY TypeParts, Zenon
<1>2. CASE Good(rows[j], b)
  BY <1>1, <1>2, Unmoved, Zenon DEF Move, StepQuiet
<1>3. CASE Fails(rows[j], b)
  BY <1>1, <1>3, Zenon DEF Move, StepFail, Others
<1> QED
  BY <1>2, <1>3

\* What a row in order allows: the moves of RowFields' updates.
LEMMA UpdateMoves ==
  ASSUME NEW a \in Row, RowOK(a), NEW me
  PROVE  /\ a.state \in Expirable => /\ Good(a, ExpireRow(a))
                                     /\ Good(a, RawExpireRow(a))
                                     /\ Good(a, CancelledRow(a))
                                     /\ Good(a, FinishCleanupRow(CancelledRow(a)))
         /\ a.state \in Recoverable => Good(a, ClaimRow(a, me))
         /\ Good(a, ClearClaim(a)) /\ Good(a, RenewRow(a))
         /\ a.owner # NoOwner => Good(a, FailRow(a)) \/ Fails(a, FailRow(a))
         /\ a.state \in Terminal => Good(a, FinishCleanupRow(a))
<1>0. a.save \in BOOLEAN /\ a.state \in States \cup {Absent}
  BY RowFields, Zenon
<1>1. CancelledRow(a) \in Row
  BY RowOps, 0 \in Int, Zenon
<1>2. ASSUME a.state \in Expirable
      PROVE  /\ Good(a, ExpireRow(a)) /\ Good(a, RawExpireRow(a))
             /\ Good(a, CancelledRow(a)) /\ Good(a, FinishCleanupRow(CancelledRow(a)))
  <2>1. /\ ExpireRow(a).save = a.save /\ ExpireRow(a).state = "expired"
        /\ RawExpireRow(a).save = a.save /\ RawExpireRow(a).state = "expired"
        /\ CancelledRow(a).save = a.save /\ CancelledRow(a).state = "cancelled"
    BY RowFields, Zenon
  <2>2. /\ FinishCleanupRow(CancelledRow(a)).save = CancelledRow(a).save
        /\ FinishCleanupRow(CancelledRow(a)).state = CancelledRow(a).state
    BY <1>1, RowFields, Zenon
  <2> QED
    BY <1>0, <1>2, <2>1, <2>2, CloseMoves, Zenon
<1>3. ASSUME a.state \in Recoverable PROVE Good(a, ClaimRow(a, me))
  <2>1. /\ ClaimRow(a, me).state = a.state /\ ClaimRow(a, me).save = a.save
        /\ ClaimRow(a, me).ref = a.ref
    BY Zenon DEF ClaimRow, Row
  <2> QED
    BY <1>0, <1>3, <2>1, ClaimMoves, Zenon
<1>4. Good(a, ClearClaim(a)) /\ Good(a, RenewRow(a))
  <2>1. /\ ClearClaim(a).state = a.state /\ ClearClaim(a).save = a.save
        /\ ClearClaim(a).owner = NoOwner /\ ClearClaim(a).ref = a.ref
        /\ RenewRow(a).state = a.state /\ RenewRow(a).save = a.save
        /\ RenewRow(a).owner = a.owner /\ RenewRow(a).ref = a.ref
    BY RowFields, Zenon
  <2> QED
    BY <1>0, <2>1, ClaimMoves, Zenon
<1>5. ASSUME a.owner # NoOwner PROVE Good(a, FailRow(a)) \/ Fails(a, FailRow(a))
  <2>1. FailRow(a).state = "failed" /\ FailRow(a).save = a.save
    BY RowFields, Zenon
  <2> QED
    BY <1>0, <1>5, <2>1, FailMoves, Zenon
<1>6. ASSUME a.state \in Terminal PROVE Good(a, FinishCleanupRow(a))
  <2>1. /\ FinishCleanupRow(a).state = a.state /\ FinishCleanupRow(a).save = a.save
        /\ FinishCleanupRow(a).owner = a.owner
    BY RowFields, Zenon
  <2> QED
    BY <1>0, <1>6, <2>1, CleanupMoves, Zenon
<1> QED
  BY <1>2, <1>3, <1>4, <1>5, <1>6

\* A new job is opened, with the expiry that precedes it.
LEMMA OpenMove ==
  ASSUME TypeOK, RowsOK, NEW j \in Jobs, NEW b, rows[j].state = Absent,
         rows' = [BulkExpired EXCEPT ![j] = b], reg' = reg,
         b.state \in {"pending", "running", "awaiting_cli"}, ~b.save
  PROVE  Move
<1>1. ASSUME NEW k \in Jobs PROVE Good(rows[k], BulkExpired[k])
  <2>1. rows[k] \in Row /\ RowOK(rows[k])
    BY TypeParts, Zenon DEF RowsOK
  <2> QED
    BY <2>1, Unmoved, UpdateMoves, Zenon DEF BulkExpired, Due
<1>2. rows'[j] = b /\ \A k \in Jobs \ {j} : rows'[k] = BulkExpired[k]
  BY BulkType, Zenon
<1>3. Class(b) = "open" /\ RowOK(b)
  BY DEF Class, RowOK, Terminal, Absent, CredentialStates
<1> QED
  BY <1>1, <1>2, <1>3, Zenon DEF Move, StepOpen

\* The API's actions.
LEMMA ApiMove ==
  ASSUME TypeOK, Inv, NEW j \in Jobs,
         \/ CreateAuto(j) \/ GetExpires(j) \/ Cancel(j)
         \/ CrashInCreate(j) \/ CrashInCancel(j)
  PROVE  Move
<1>0. rows[j] \in Row /\ RowOK(rows[j]) /\ RowsOK
  BY TypeParts, Zenon DEF Inv, RowsOK
<1>1. \A s \in {"pending", "running"} : /\ [NoRow EXCEPT !.state = s].state = s
                                        /\ ~[NoRow EXCEPT !.state = s].save
  BY Zenon DEF NoRow
<1>2. LET b == [NoRow EXCEPT !.state = "awaiting_cli", !.method = "ssh_cli"]
      IN  b.state = "awaiting_cli" /\ ~b.save
  BY Zenon DEF NoRow
<1>3. CASE CreateAuto(j)
  BY <1>0, <1>1, <1>2, <1>3, OpenMove, Zenon DEF CreateAuto
<1>4. CASE CrashInCreate(j)
  BY <1>0, <1>1, <1>4, OpenMove, Zenon DEF CrashInCreate, Die
<1>5. CASE GetExpires(j)
  BY <1>0, <1>5, OneRow, UpdateMoves, Zenon DEF GetExpires, Due
<1>6. CASE Cancel(j)
  BY <1>0, <1>6, OneRow, UpdateMoves, Zenon DEF Cancel
<1>7. CASE CrashInCancel(j)
  BY <1>0, <1>7, OneRow, UpdateMoves, Zenon DEF CrashInCancel, Die
<1> QED
  BY <1>3, <1>4, <1>5, <1>6, <1>7

\* The row a publication writes is in order.
LEMMA IssuedMove ==
  ASSUME TypeOK, RowsOK, NEW j \in Jobs, rows[j].state = "running"
  PROVE  /\ Good(rows[j], IssuedRow(j))
         /\ Good(rows[j], [IssuedRow(j) EXCEPT !.state = "verifying"])
         /\ ~[IssuedRow(j) EXCEPT !.state = "verifying"].save
         /\ [IssuedRow(j) EXCEPT !.state = "verifying"].ref # NoRef
<1> DEFINE row == IF pub[j].row.method = "ssh_cli" THEN ClearClaim(rows[j]) ELSE rows[j]
           verifying == [IssuedRow(j) EXCEPT !.state = "verifying"]
<1>0. rows[j] \in Row /\ RowOK(rows[j])
  BY TypeParts, Zenon DEF RowsOK
<1>1. ClearClaim(rows[j]) \in Row /\ ClearClaim(rows[j]).save = rows[j].save
  BY <1>0, RowOps, RowFields, 0 \in Int, Zenon
<1>2. row \in Row /\ row.save = rows[j].save
  BY <1>0, <1>1, Zenon
<1>3. row.method \in Methods /\ rows[j].save \in BOOLEAN
  <2> HIDE DEF row
  <2> QED
    BY <1>0, <1>2, Zenon DEF Row
<1>4. IssuedRow(j) = [row EXCEPT !.state = "credential_issued", !.ref = row.method]
  BY Zenon DEF IssuedRow
<1> HIDE DEF row
<1>5. /\ IssuedRow(j).state = "credential_issued" /\ IssuedRow(j).save = rows[j].save
      /\ IssuedRow(j).ref = row.method
  BY <1>2, <1>4, Zenon DEF Row
<1>6. verifying.state = "verifying" /\ verifying.save = rows[j].save
      /\ verifying.ref = row.method
  <2>1. IssuedRow(j) \in Row
    BY IssuedType
  <2> QED
    BY <1>5, <2>1, Zenon DEF Row
<1>7. row.method # NoRef
  BY <1>3 DEF Methods, NoRef
<1>8. /\ "credential_issued" \in Expirable /\ "verifying" \in Expirable
      /\ rows[j].state \in Expirable /\ ~rows[j].save
  BY <1>0 DEF Expirable, RowOK
<1> QED
  BY <1>0, <1>3, <1>5, <1>6, <1>7, <1>8, LiveMoves, Zenon

\* A move of an unsaved live row to another unsaved live state.
LEMMA StateMove ==
  ASSUME TypeOK, RowsOK, NEW j \in Jobs, rows[j].state \in {"pending", "running"},
         NEW s \in {"running", "awaiting_cli", "failed"}
  PROVE  Good(rows[j], [rows[j] EXCEPT !.state = s])
<1>0. rows[j] \in Row /\ RowOK(rows[j])
  BY TypeParts, Zenon DEF RowsOK
<1>1. /\ [rows[j] EXCEPT !.state = s].state = s
      /\ [rows[j] EXCEPT !.state = s].save = rows[j].save
      /\ rows[j].save \in BOOLEAN
  BY <1>0, Zenon DEF Row
<1>2. rows[j].state \in Expirable
  BY Zenon DEF Expirable
<1>3. CASE s = "failed"
  BY <1>0, <1>1, <1>2, <1>3, CloseMoves, Zenon
<1>4. CASE s # "failed"
  <2>1. s \in Expirable /\ s \notin CredentialStates
    BY <1>4 DEF Expirable, CredentialStates
  <2> QED
    BY <1>0, <1>1, <1>2, <2>1, LiveMoves, Zenon
<1> QED
  BY <1>3, <1>4

\* A write to the state column is a write of the row.
LEMMA StateWrite ==
  ASSUME TypeOK, NEW j \in Jobs, NEW s
  PROVE  [rows EXCEPT ![j].state = s] = [rows EXCEPT ![j] = [rows[j] EXCEPT !.state = s]]
  BY Zenon

\* The publishers' actions.
LEMMA PublisherMove ==
  ASSUME TypeOK, Inv, NEW j \in Jobs,
         \/ DispatchAuto(j) \/ BeginCli(j) \/ AgentIssues(j) \/ IssueFails(j)
         \/ CliAbandons(j) \/ PublishIssued(j) \/ PublishVerified(j)
         \/ CrashInPublish(j)
  PROVE  Move
<1>0. /\ rows[j] \in Row /\ RowOK(rows[j]) /\ RowsOK
      /\ pub[j].row \in Row /\ ~pub[j].row.save
      /\ pub[j].pc = "validating" => pub[j].row.ref # NoRef
  BY TypeParts, Zenon DEF Inv, RowsOK, PubOK, PubRecord
<1>1. "running" \in Expirable /\ "awaiting_cli" \in Expirable
  BY Zenon DEF Expirable
<1>2. CASE DispatchAuto(j)
  <2>1. \/ rows' = rows
        \/ rows[j].state = "running" /\ rows' = [rows EXCEPT ![j] = RawExpireRow(@)]
        \/ rows[j].state = "running" /\ rows' = [rows EXCEPT ![j].state = "failed"]
    BY <1>2, Zenon DEF DispatchAuto
  <2>2. reg' = reg
    BY <1>2, Zenon DEF DispatchAuto
  <2>3. CASE rows' = rows
    BY <1>0, <2>2, <2>3, Unmoved
  <2>4. CASE rows[j].state = "running" /\ rows' = [rows EXCEPT ![j] = RawExpireRow(@)]
    BY <1>0, <1>1, <2>2, <2>4, UpdateMoves, OneRow, Zenon
  <2>5. CASE rows[j].state = "running" /\ rows' = [rows EXCEPT ![j].state = "failed"]
    BY <1>0, <2>2, <2>5, StateMove, StateWrite, OneRow, Zenon
  <2> QED
    BY <2>1, <2>3, <2>4, <2>5
<1>3. CASE BeginCli(j)
  <2> DEFINE claimed == [rows[j] EXCEPT !.state = "running",
                             !.method = "ssh_cli", !.owner = CliOwner,
                             !.lease = "live", !.rev = @ + 1, !.cli = TRUE]
  <2>1. claimed.state = "running" /\ claimed.save = rows[j].save /\ rows[j].save \in BOOLEAN
    BY <1>0, Zenon DEF Row
  <2>2. \/ rows' = rows
        \/ rows[j].state = "awaiting_cli" /\ rows' = [rows EXCEPT ![j] = claimed]
    BY <1>3, Zenon DEF BeginCli
  <2>3. reg' = reg
    BY <1>3, Zenon DEF BeginCli
  <2> HIDE DEF claimed
  <2>4. "running" \notin CredentialStates
    BY DEF CredentialStates
  <2>5. rows[j].state = "awaiting_cli" => Good(rows[j], claimed)
    BY <1>0, <1>1, <2>1, <2>4, LiveMoves, Zenon
  <2> QED
    BY <1>0, <2>2, <2>3, <2>5, Unmoved, OneRow, Zenon
<1>4. CASE AgentIssues(j) \/ CliAbandons(j)
  BY <1>0, <1>4, Unmoved, Zenon DEF AgentIssues, CliAbandons
<1>5. CASE IssueFails(j)
  <2>1. \/ rows' = rows
        \/ \E s \in {"awaiting_cli", "failed"} :
             rows[j].state = "running" /\ rows' = [rows EXCEPT ![j].state = s]
    BY <1>5, Zenon DEF IssueFails
  <2>2. reg' = reg
    BY <1>5, Zenon DEF IssueFails
  <2>3. ASSUME NEW s \in {"awaiting_cli", "failed"}, rows[j].state = "running",
               rows' = [rows EXCEPT ![j].state = s]
        PROVE  Move
    BY <1>0, <2>2, <2>3, StateMove, StateWrite, OneRow, Zenon
  <2> QED
    BY <1>0, <2>1, <2>2, <2>3, Unmoved, Zenon
<1>6. CASE PublishIssued(j)
  <2>1. /\ reg' = reg
        /\ \/ rows' = rows
           \/ rows[j].state = "running" /\ rows' = [rows EXCEPT ![j] = ExpireRow(@)]
           \/ /\ rows[j].state = "running"
              /\ rows' = [rows EXCEPT ![j] = [IssuedRow(j) EXCEPT !.state = "verifying"]]
    BY <1>6, Zenon DEF PublishIssued, MayPublish
  <2>2. CASE rows[j].state = "running" /\ rows' = [rows EXCEPT ![j] = ExpireRow(@)]
    BY <1>0, <1>1, <2>1, <2>2, UpdateMoves, OneRow, Zenon
  <2>3. CASE /\ rows[j].state = "running"
             /\ rows' = [rows EXCEPT ![j] = [IssuedRow(j) EXCEPT !.state = "verifying"]]
    BY <1>0, <2>1, <2>3, IssuedMove, OneRow, Zenon
  <2> QED
    BY <1>0, <2>1, <2>2, <2>3, Unmoved
<1>7. CASE CrashInPublish(j)
  <2>1. /\ reg' = reg /\ rows[j].state = "running"
        /\ rows' = rows \/ rows' = [rows EXCEPT ![j] = IssuedRow(j)]
    BY <1>7, Zenon DEF CrashInPublish, MayPublish, Die
  <2> QED
    BY <1>0, <2>1, IssuedMove, OneRow, Unmoved, Zenon
<1>8. CASE PublishVerified(j)
  <2> DEFINE verified == [pub[j].row EXCEPT !.state = "verified"]
  <2>1. /\ verified.state = "verified" /\ verified.save = pub[j].row.save
        /\ verified.ref = pub[j].row.ref
        /\ pub[j].row.save \in BOOLEAN /\ rows[j].save \in BOOLEAN
    BY <1>0, Zenon DEF Row
  <2>2. /\ reg' = reg
        /\ \/ rows' = rows
           \/ /\ pub[j].pc = "validating" /\ rows[j].state = "verifying"
              /\ rows' = [rows EXCEPT ![j] = verified]
    BY <1>8, Zenon DEF PublishVerified
  <2> HIDE DEF verified
  <2>3. rows[j].state = "verifying" => ~rows[j].save
    BY <1>0 DEF RowOK
  <2>4. "verifying" \in Expirable /\ "verified" \in Expirable
    BY DEF Expirable
  <2>5. pub[j].pc = "validating" /\ rows[j].state = "verifying" => Good(rows[j], verified)
    BY <1>0, <2>1, <2>3, <2>4, LiveMoves, Zenon
  <2> QED
    BY <1>0, <2>2, <2>5, OneRow, Unmoved, Zenon
<1> QED
  BY <1>2, <1>3, <1>4, <1>5, <1>6, <1>7, <1>8

\* consume saves an open job whose target is free.
LEMMA ConsumeMove ==
  ASSUME TypeOK, Inv, NEW r \in Recs, NEW j \in Jobs, Consume(r, j)
  PROVE  Move
<1> DEFINE b == [rows[j] EXCEPT !.state = "activation_requested", !.save = TRUE]
<1>0. rows[j] \in Row /\ RowOK(rows[j]) /\ rows[j].state = "verified"
  BY TypeParts, Zenon DEF Inv, RowsOK, Consume
<1>1. b.state = "activation_requested" /\ b.save = TRUE /\ b.ref = rows[j].ref
  BY <1>0, Zenon DEF Row
<1> HIDE DEF b
<1>2. rows'[j] = b /\ Others(j) /\ reg' = reg /\ ~Duplicate(j)
  BY TypeParts, Zenon DEF Consume, Others, b
<1>3. Class(rows[j]) = "open" /\ Class(b) = "saved" /\ RowOK(b) /\ b.save
  BY <1>0, <1>1 DEF Class, RowOK, Terminal, Absent, CredentialStates
<1> QED
  BY <1>2, <1>3, Zenon DEF Move, StepSave

\* Recovery's sweep, claim and cleanup.
LEMMA SweepMove ==
  ASSUME TypeOK, Inv, NEW r \in Recs,
         RecoverPrepare(r) \/ RecoverCleanup(r) \/ \E j \in Jobs : RecoverClaim(r, j)
  PROVE  Move
<1>0. RowsOK /\ \A k \in Jobs : rows[k] \in Row /\ RowOK(rows[k])
  BY TypeParts, Zenon DEF Inv, RowsOK
<1>1. CASE RecoverPrepare(r)
  <2>1. /\ reg' = reg
        /\ rows' = [j \in Jobs |-> IF Due(rows[j], past[j]) THEN ExpireRow(rows[j])
                                                            ELSE rows[j]]
    BY <1>1, Zenon DEF RecoverPrepare
  <2>2. ASSUME NEW k \in Jobs PROVE Good(rows[k], rows'[k])
    BY <1>0, <2>1, Unmoved, UpdateMoves, Zenon DEF Due
  <2> QED
    BY <2>1, <2>2, Zenon DEF Move, StepQuiet
<1>2. CASE RecoverCleanup(r)
  <2>1. PICK D \in SUBSET Uncleaned :
          rows' = [j \in Jobs |-> IF j \in D THEN FinishCleanupRow(rows[j]) ELSE rows[j]]
    BY <1>2, Zenon DEF RecoverCleanup
  <2>2. reg' = reg
    BY <1>2, Zenon DEF RecoverCleanup
  <2>3. ASSUME NEW k \in Jobs PROVE Good(rows[k], rows'[k])
    BY <1>0, <2>1, Unmoved, UpdateMoves, Zenon DEF Uncleaned
  <2> QED
    BY <2>2, <2>3, Zenon DEF Move, StepQuiet
<1>3. ASSUME NEW j \in Jobs, RecoverClaim(r, j) PROVE Move
  <2> DEFINE row == IF Due(rows[j], past[j]) THEN ExpireRow(rows[j]) ELSE rows[j]
  <2>1. /\ reg' = reg
        /\ \/ Claimable(row) /\ rows' = [rows EXCEPT ![j] = ClaimRow(row, epoch)]
           \/ rows' = [rows EXCEPT ![j] = row]
    BY <1>3, Zenon DEF RecoverClaim, Write
  <2>2. Good(rows[j], row)
    BY <1>0, Unmoved, UpdateMoves, Zenon DEF Due
  <2>3. ASSUME Claimable(row) PROVE row = rows[j] /\ rows[j].state \in Recoverable
    <3>1. CASE Due(rows[j], past[j])
      <4>1. ExpireRow(rows[j]).state = "expired"
        BY <1>0, RowFields, Zenon
      <4>2. "expired" \notin Recoverable
        BY DEF Recoverable, CredentialStates
      <4> QED
        BY <2>3, <3>1, <4>1, <4>2, Zenon DEF Claimable
    <3>2. CASE ~Due(rows[j], past[j])
      BY <2>3, <3>2, Zenon DEF Claimable
    <3> QED
      BY <3>1, <3>2
  <2> HIDE DEF row
  <2>4. ASSUME Claimable(row) PROVE Good(rows[j], ClaimRow(row, epoch))
    BY <1>0, <2>3, <2>4, UpdateMoves, Zenon
  <2> QED
    BY <1>0, <2>1, <2>2, <2>4, OneRow, Zenon
<1> QED
  BY <1>1, <1>2, <1>3

\* A claim that holds is somebody's.
LEMMA HeldOwner ==
  ASSUME TypeOK, NEW row, NEW rev, Holds(row, epoch, rev)
  PROVE  row.owner # NoOwner
<1>1. epoch \in Nat \ {0} /\ row.owner = epoch
  BY TypeParts, Zenon DEF Rest, Holds
<1> QED
  BY <1>1 DEF NoOwner

\* Validation by a recoverer.
LEMMA ValidationMove ==
  ASSUME TypeOK, Inv, NEW r \in Recs,
         \/ BeginValidation(r) \/ RenewLease(r) \/ AbandonCall(r) \/ EndValidation(r)
  PROVE  Move
<1> DEFINE j == rec[r].job
           row == rec[r].row
           fresh == Renewed(r)
<1>0. rec[r].pc \notin {"idle", "prepare", "next"}
  BY Zenon DEF BeginValidation, RenewLease, AbandonCall, EndValidation, Waiting
<1>1. /\ j \in Jobs /\ rows[j] \in Row /\ fresh \in Row /\ row \in Row
      /\ RowsOK /\ RowOK(rows[j]) /\ RowOK(row)
      /\ rows[j].save \in BOOLEAN
  <2>1. j \in Jobs /\ rows[j] \in Row /\ fresh \in Row /\ row \in Row
    BY <1>0, AtWork
  <2> QED
    BY <2>1, RowFields, Zenon DEF Inv, RowsOK, RecOK
<1>2. /\ fresh.state = rows[j].state /\ fresh.save = rows[j].save
      /\ fresh.owner = rows[j].owner /\ fresh.ref = rows[j].ref
  BY <1>1, RowFields, Zenon DEF Renewed
<1>3. Good(rows[j], fresh) /\ RowOK(fresh)
  BY <1>1, UpdateMoves, Zenon DEF Renewed, Good
<1>4. /\ Fenced(r) => fresh.owner # NoOwner
      /\ Fenced(r) => Good(rows[j], FailRow(fresh)) \/ Fails(rows[j], FailRow(fresh))
      /\ Good(rows[j], ClearClaim(fresh))
  <2>1. Fenced(r) => fresh.owner # NoOwner
    BY <1>2, HeldOwner, Zenon DEF Fenced
  <2>2. /\ FailRow(fresh).state = "failed" /\ FailRow(fresh).save = rows[j].save
        /\ ClearClaim(fresh).state = rows[j].state
        /\ ClearClaim(fresh).save = rows[j].save
        /\ ClearClaim(fresh).owner = NoOwner
        /\ ClearClaim(fresh).ref = rows[j].ref
    BY <1>1, <1>2, RowFields, Zenon
  <2>3. rows[j].state \in States \cup {Absent}
    BY <1>1, RowFields, Zenon
  <2> QED
    BY <1>1, <1>2, <2>1, <2>2, <2>3, FailMoves, ClaimMoves, Zenon
<1>5. CASE RenewLease(r)
  <2>1. rows' = [rows EXCEPT ![j] = fresh] /\ reg' = reg
    BY <1>5, Zenon DEF RenewLease, Write
  <2> HIDE DEF j, fresh
  <2> QED
    BY <1>1, <1>3, <2>1, OneRow, Zenon
<1>6. CASE AbandonCall(r)
  BY <1>1, <1>6, Unmoved, Zenon DEF AbandonCall
<1>7. CASE EndValidation(r)
  <2> DEFINE verified == [Transitioned(fresh, "verified") EXCEPT !.owner = NoOwner,
                                                                 !.lease = "none"]
  <2>1. /\ reg' = reg /\ Fenced(r)
        /\ \/ rows' = [rows EXCEPT ![j] = FailRow(fresh)]
           \/ rows' = [rows EXCEPT ![j] = ClearClaim(fresh)]
           \/ /\ Allowed(fresh.state, "verified")
              /\ rows' = [rows EXCEPT ![j] = verified]
           \/ rows' = [rows EXCEPT ![j] = fresh]
    BY <1>7, Zenon DEF EndValidation, Write
  <2>2. Transitioned(fresh, "verified") \in Row
    BY <1>1, RowOps, StateNames, 0 \in Int, Zenon
  <2>3. /\ Transitioned(fresh, "verified").state = "verified"
        /\ Transitioned(fresh, "verified").save = fresh.save
        /\ Transitioned(fresh, "verified").ref = fresh.ref
    BY <1>1, TransitionedFields, Zenon
  <2>4. /\ verified.state = "verified" /\ verified.save = rows[j].save
        /\ verified.ref = rows[j].ref
    BY <1>2, <2>2, <2>3, Zenon DEF Row
  <2>5. Allowed(rows[j].state, "verified") => rows[j].state = "verifying"
    BY <1>1, RowFields DEF Allowed, AllowedTransitions, States, Absent
  <2>6. /\ "verifying" \in Expirable /\ "verified" \in Expirable
        /\ rows[j].state = "verifying" => rows[j].ref # NoRef
    BY <1>1 DEF Expirable, RowOK, CredentialStates
  <2> HIDE DEF j, fresh, verified
  <2>7. Allowed(fresh.state, "verified") => Good(rows[j], verified)
    BY <1>1, <1>2, <2>4, <2>5, <2>6, LiveMoves, Zenon
  <2> QED
    BY <1>1, <1>3, <1>4, <2>1, <2>7, OneRow, Zenon
<1>8. CASE BeginValidation(r)
  <2> DEFINE next == IF row.state = "credential_issued"
                     THEN Transitioned(row, "verifying") ELSE row
             now == IF row.state = "credential_issued" THEN next ELSE rows[j]
  <2>1. /\ reg' = reg
        /\ \/ rows' = rows
           \/ /\ row.state = "credential_issued" => rows[j].state = "credential_issued"
              /\ \/ rows' = [rows EXCEPT ![j] = now]
                 \/ /\ Holds(now, epoch, next.rev)
                    /\ rows' = [rows EXCEPT ![j] = FailRow(now)]
    BY <1>8, Zenon DEF BeginValidation, MayTransition, Write
  <2>2. CASE row.state # "credential_issued"
    <3>1. now = rows[j]
      BY <2>2, Zenon
    <3> HIDE DEF now, next, j
    <3>2. Holds(now, epoch, next.rev) =>
            Good(rows[j], FailRow(now)) \/ Fails(rows[j], FailRow(now))
      BY <1>1, <3>1, HeldOwner, UpdateMoves, Zenon
    <3> QED
      BY <1>1, <2>1, <3>1, <3>2, Unmoved, OneRow, Zenon
  <2>3. CASE row.state = "credential_issued" /\ rows[j].state = "credential_issued"
    <3>1. now = Transitioned(row, "verifying")
      BY <2>3, Zenon
    <3>2. now \in Row
      BY <1>1, <3>1, RowOps, StateNames, 0 \in Int, Zenon
    <3>3. now.state = "verifying" /\ now.save = row.save /\ now.ref = row.ref
      <4>1. row \in Row
        BY <1>1
      <4> HIDE DEF now, row
      <4> QED
        BY <3>1, <4>1, TransitionedFields, Zenon
    <3>4. ~row.save /\ ~rows[j].save /\ row.ref # NoRef
      BY <1>1, <2>3 DEF RowOK, CredentialStates
    <3>5. row.save \in BOOLEAN
      BY <1>1, RowFields, Zenon
    <3>6. FailRow(now).state = "failed" /\ FailRow(now).save = now.save
      <4> HIDE DEF now
      <4> QED
        BY <3>2, RowFields, Zenon
    <3>7. /\ "verifying" \in Expirable /\ rows[j].state \in Expirable
      BY <2>3 DEF Expirable
    <3> HIDE DEF now, next, j
    <3>8. Good(rows[j], now) /\ Good(rows[j], FailRow(now))
      BY <1>1, <3>3, <3>4, <3>5, <3>6, <3>7, LiveMoves, CloseMoves, Zenon
    <3> QED
      BY <1>1, <2>1, <3>8, Unmoved, OneRow, Zenon
  <2>4. CASE row.state = "credential_issued" /\ rows[j].state # "credential_issued"
    BY <1>1, <2>1, <2>4, Unmoved, Zenon
  <2> QED
    BY <2>2, <2>3, <2>4
<1> QED
  BY <1>5, <1>6, <1>7, <1>8

\* Activation, commit and compensation by a recoverer.
LEMMA ActivationMove ==
  ASSUME TypeOK, Inv, NEW r \in Recs,
         \/ BeginActivation(r) \/ EndActivation(r) \/ Commit(r)
         \/ BeginCompensation(r) \/ EndCompensation(r) \/ CrashInCompensation(r)
  PROVE  Move
<1> DEFINE j == rec[r].job
           fresh == Renewed(r)
<1>0. rec[r].pc \notin {"idle", "prepare", "next"}
  BY Zenon DEF BeginActivation, EndActivation, Commit, BeginCompensation,
    EndCompensation, CrashInCompensation
<1>1. /\ j \in Jobs /\ rows[j] \in Row /\ fresh \in Row
      /\ RowsOK /\ RowOK(rows[j])
      /\ rows[j].save \in BOOLEAN
  <2>1. j \in Jobs /\ rows[j] \in Row /\ fresh \in Row
    BY <1>0, AtWork
  <2> QED
    BY <2>1, RowFields, Zenon DEF Inv, RowsOK
<1>2. /\ fresh.state = rows[j].state /\ fresh.save = rows[j].save
      /\ fresh.owner = rows[j].owner /\ fresh.ref = rows[j].ref
  BY <1>1, RowFields, Zenon DEF Renewed
<1>3. Good(rows[j], fresh)
  BY <1>1, UpdateMoves, Zenon DEF Renewed
<1>4. /\ Fenced(r) => rows[j].owner # NoOwner
      /\ Fenced(r) => Good(rows[j], FailRow(rows[j])) \/ Fails(rows[j], FailRow(rows[j]))
      /\ Good(rows[j], ClearClaim(rows[j]))
  BY <1>1, HeldOwner, UpdateMoves, Zenon DEF Fenced
<1>5. /\ FailRow(fresh) \in Row
      /\ FailRow(fresh).state = "failed" /\ FailRow(fresh).save = rows[j].save
      /\ ClearClaim(fresh).state = rows[j].state
      /\ ClearClaim(fresh).save = rows[j].save
      /\ ClearClaim(fresh).owner = NoOwner
      /\ ClearClaim(fresh).ref = rows[j].ref
      /\ rows[j].state \in States \cup {Absent}
  BY <1>1, <1>2, RowFields, RowOps, 0 \in Int, Zenon
<1>6. /\ Fenced(r) => Good(rows[j], FailRow(fresh)) \/ Fails(rows[j], FailRow(fresh))
      /\ Good(rows[j], ClearClaim(fresh))
  BY <1>1, <1>4, <1>5, FailMoves, ClaimMoves, Zenon
<1>7. CASE BeginActivation(r)
  <2>1. /\ reg' = reg
        /\ \/ rows' = rows
           \/ Fenced(r) /\ rows' = [rows EXCEPT ![j] = FailRow(rows[j])]
           \/ rows' = [rows EXCEPT ![j] = rows[j]]
    BY <1>7, Zenon DEF BeginActivation, Write
  <2> HIDE DEF j
  <2> QED
    BY <1>1, <1>4, <2>1, Unmoved, OneRow, Zenon
<1>8. CASE EndActivation(r)
  <2> DEFINE activated == Transitioned(fresh, "activated")
  <2>1. /\ reg' = reg /\ Fenced(r)
        /\ \/ rows' = [rows EXCEPT ![j] = FailRow(fresh)]
           \/ /\ Allowed(fresh.state, "activated")
              /\ rows' = [rows EXCEPT ![j] = activated]
    BY <1>8, Zenon DEF EndActivation, Write
  <2>2. /\ activated.state = "activated" /\ activated.save = rows[j].save
        /\ activated.ref = rows[j].ref
    BY <1>1, <1>2, TransitionedFields, Zenon
  <2>3. Allowed(rows[j].state, "activated") =>
          rows[j].state = "activation_requested" /\ rows[j].ref # NoRef
    BY <1>1, <1>5 DEF Allowed, AllowedTransitions, States, Absent, RowOK, CredentialStates
  <2> HIDE DEF j, fresh, activated
  <2>4. Allowed(fresh.state, "activated") => Good(rows[j], activated)
    BY <1>1, <1>2, <2>2, <2>3, LiveMoves, Zenon
  <2> QED
    BY <1>1, <1>6, <2>1, <2>4, OneRow, Zenon
<1>9. CASE Commit(r)
  <2>1. \/ rows' = rows /\ reg' = reg
        \/ rows' = [rows EXCEPT ![j] = fresh] /\ reg' = reg
        \/ /\ fresh.state = "activated" /\ ~Duplicate(j)
           /\ reg' = [reg EXCEPT ![j] = fresh.ref]
           /\ rows' = [rows EXCEPT ![j] = ConsumeRow(fresh)]
    BY <1>9, Zenon DEF Commit, Write
  <2>2. CASE rows' = rows /\ reg' = reg
    BY <1>1, <2>2, Unmoved
  <2>3. CASE rows' = [rows EXCEPT ![j] = fresh] /\ reg' = reg
    <3> HIDE DEF j, fresh
    <3> QED
      BY <1>1, <1>3, <2>3, OneRow, Zenon
  <2>4. CASE /\ fresh.state = "activated" /\ ~Duplicate(j)
             /\ reg' = [reg EXCEPT ![j] = fresh.ref]
             /\ rows' = [rows EXCEPT ![j] = ConsumeRow(fresh)]
    <3> DEFINE b == ConsumeRow(fresh)
    <3>1. b.state = "consumed" /\ b.save = rows[j].save /\ b.owner = NoOwner
      BY <1>1, <1>2, RowFields, Zenon
    <3>2. rows[j].state = "activated"
      BY <1>2, <2>4, Zenon
    <3> HIDE DEF b, j, fresh
    <3>3. Class(rows[j]) = "saved" /\ rows[j].save /\ rows[j].ref # NoRef
      BY <1>1, <3>2 DEF Class, RowOK, Terminal, Absent, CredentialStates
    <3>4. RowOK(b) /\ b.save
      BY <3>1, <3>3 DEF RowOK, CredentialStates
    <3>5. rows'[j] = b /\ Others(j)
      BY <1>1, <2>4, TypeParts, Zenon DEF Others, b
    <3>6. \A k \in Jobs : reg'[k] # NoRef <=> k = j \/ reg[k] # NoRef
      BY <1>1, <1>2, <2>4, <3>3, TypeParts, Zenon DEF Rest
    <3> QED
      BY <1>1, <2>4, <3>1, <3>3, <3>4, <3>5, <3>6, Zenon DEF Move, StepEnroll
  <2> QED
    BY <2>1, <2>2, <2>3, <2>4
<1>10. CASE BeginCompensation(r)
  <2>1. /\ reg' = reg
        /\ rows' = rows \/ rows' = [rows EXCEPT ![j] = ClearClaim(rows[j])]
    BY <1>10, Zenon DEF BeginCompensation, Residual, Write
  <2> HIDE DEF j
  <2> QED
    BY <1>1, <1>4, <2>1, Unmoved, OneRow, Zenon
<1>11. CASE EndCompensation(r)
  <2> DEFINE failed == [FailRow(fresh) EXCEPT !.ref = NoRef]
  <2>1. /\ reg' = reg /\ Fenced(r)
        /\ \/ rows' = [rows EXCEPT ![j] = failed]
           \/ rows' = [rows EXCEPT ![j] = ClearClaim(fresh)]
    BY <1>11, Zenon DEF EndCompensation, Write
  <2>2. failed.state = "failed" /\ failed.save = rows[j].save
    BY <1>5, Zenon DEF Row
  <2> HIDE DEF j, fresh, failed
  <2>3. Good(rows[j], failed) \/ Fails(rows[j], failed)
    BY <1>1, <1>4, <1>5, <2>1, <2>2, FailMoves, Zenon
  <2> QED
    BY <1>1, <1>6, <2>1, <2>3, OneRow, Zenon
<1>12. CASE CrashInCompensation(r)
  <2>1. reg' = reg /\ rows' = [rows EXCEPT ![j] = fresh]
    BY <1>12, Zenon DEF CrashInCompensation, Die
  <2> HIDE DEF j, fresh
  <2> QED
    BY <1>1, <1>3, <2>1, OneRow, Zenon
<1> QED
  BY <1>7, <1>8, <1>9, <1>10, <1>11, <1>12

\* Time, the network, crashes between sections, restart and the orphan sweep.
LEMMA EnvironmentMove ==
  ASSUME TypeOK, Inv,
         \/ \E m \in wire : AgentHandles(m) \/ Lose(m)
         \/ \E j \in Jobs : DeadlinePasses(j) \/ PendingLapses(j) \/ LeaseLapses(j)
         \/ \E r \in Recs : Restart(r) \/ CrashInCleanup(r)
         \/ Crash \/ SweepOrphans
  PROVE  Move
<1>0. RowsOK /\ \A k \in Jobs : rows[k] \in Row /\ RowOK(rows[k])
  BY TypeParts, Zenon DEF Inv, RowsOK
<1>1. ASSUME NEW j \in Jobs, reg' = reg, rows' = [rows EXCEPT ![j].lease = "lapsed"]
      PROVE  Move
  <2> DEFINE b == [rows[j] EXCEPT !.lease = "lapsed"]
  <2>1. rows' = [rows EXCEPT ![j] = b]
    BY <1>1, Zenon
  <2>2. /\ b.state = rows[j].state /\ b.save = rows[j].save /\ b.ref = rows[j].ref
        /\ b.owner = rows[j].owner /\ rows[j].save \in BOOLEAN
    BY <1>0, Zenon DEF Row
  <2> HIDE DEF b
  <2> QED
    BY <1>0, <1>1, <2>1, <2>2, ClaimMoves, OneRow, Zenon
<1>2. CASE \E m \in wire : AgentHandles(m) \/ Lose(m)
  BY <1>0, <1>2, Unmoved, Zenon DEF AgentHandles, Lose
<1>3. ASSUME NEW j \in Jobs, DeadlinePasses(j) PROVE Move
  <2>1. reg' = reg /\ (rows' = rows \/ rows' = [rows EXCEPT ![j].lease = "lapsed"])
    BY <1>3, Zenon DEF DeadlinePasses
  <2> QED
    BY <1>0, <1>1, <2>1, Unmoved, Zenon
<1>4. ASSUME NEW j \in Jobs, PendingLapses(j) PROVE Move
  BY <1>0, <1>4, Unmoved, Zenon DEF PendingLapses
<1>5. ASSUME NEW j \in Jobs, LeaseLapses(j) PROVE Move
  BY <1>1, <1>5, Zenon DEF LeaseLapses
<1>6. CASE Crash \/ SweepOrphans \/ \E r \in Recs : CrashInCleanup(r)
  BY <1>0, <1>6, Unmoved, Zenon DEF Crash, SweepOrphans, CrashInCleanup, Die
<1>7. ASSUME NEW r \in Recs, Restart(r) PROVE Move
  <2>1. PICK healthy \in BOOLEAN : rows' = [j \in Jobs |-> StartupRow(j, healthy)]
    BY <1>7, Zenon DEF Restart
  <2>2. reg' = reg
    BY <1>7, Zenon DEF Restart
  <2>3. ASSUME NEW k \in Jobs PROVE Good(rows[k], StartupRow(k, healthy))
    <3> DEFINE a == rows[k]
               cli(row) == [row EXCEPT !.state = "awaiting_cli", !.method = "ssh_cli"]
               c == ClearClaim(a)
    <3>1. \A row \in Row : cli(row).state = "awaiting_cli" /\ cli(row).save = row.save
      BY Zenon DEF Row
    <3>2. c \in Row /\ c.save = a.save /\ a.save \in BOOLEAN
      BY <1>0, RowOps, RowFields, 0 \in Int, Zenon
    <3>3. /\ "awaiting_cli" \in Expirable /\ "awaiting_cli" \notin CredentialStates
          /\ a.state \in {"pending", "running"} => a.state \in Expirable
      BY DEF Expirable, CredentialStates
    <3> HIDE DEF c
    <3>4. cli(c).state = "awaiting_cli" /\ cli(c).save = a.save
          /\ cli(a).state = "awaiting_cli" /\ cli(a).save = a.save
      BY <1>0, <3>1, <3>2, Zenon
    <3> HIDE DEF cli
    <3>5. a.state \in {"pending", "running"} => Good(a, cli(a)) /\ Good(a, cli(c))
      BY <1>0, <3>2, <3>3, <3>4, LiveMoves, Zenon
    <3>6. a.state = "pending" => /\ Good(a, RawExpireRow(a))
                                 /\ Good(a, [a EXCEPT !.state = "running"])
      BY <1>0, <3>3, UpdateMoves, StateMove, Zenon
    <3>7. Good(a, a)
      BY <1>0, Unmoved, Zenon
    <3> QED
      BY <3>5, <3>6, <3>7, Zenon DEF StartupRow, cli, c
  <2> QED
    BY <2>1, <2>2, <2>3, Zenon DEF Move, StepQuiet
<1> QED
  BY <1>2, <1>3, <1>4, <1>5, <1>6, <1>7

\* Every step is one of these.
LEMMA NextMove == ASSUME TypeOK, Inv, Next PROVE Move
<1>1. ASSUME NEW j \in Jobs, JobStep(j) PROVE Move
  BY <1>1, ApiMove, PublisherMove, EnvironmentMove, Zenon DEF JobStep
<1>2. ASSUME NEW r \in Recs, RecStep(r) PROVE Move
  BY <1>2, ConsumeMove, SweepMove, ValidationMove, ActivationMove, EnvironmentMove,
    Zenon DEF RecStep
<1> QED
  BY <1>1, <1>2, EnvironmentMove, Zenon DEF Next

-----------------------------------------------------------------------------
(* What every action does to snapshots, requests and the Agent.            *)

\* A publisher's record that is in order: PubOK for one of them.
PubGood(p) == ~p.row.save /\ (p.pc = "validating" => p.row.ref # NoRef)

\* One publisher changes to a record that is in order.
LEMMA PubStep ==
  ASSUME TypeOK, PubOK, NEW j \in Jobs, NEW p, pub' = [pub EXCEPT ![j] = p], PubGood(p)
  PROVE  PubOK'
  BY TypeParts, Zenon DEF PubOK, PubGood

\* The records the actions write are in order: idle, or a snapshot of an unsaved row.
LEMMA IdleGood ==
  /\ PubGood(IdlePub)
  /\ PubGood([pc |-> "scheduled", row |-> NoRow])
  /\ \A row : ~row.save => PubGood([pc |-> "issuing", row |-> row])
  /\ \A row : ~row.save /\ row.ref # NoRef => PubGood([pc |-> "validating", row |-> row])
  BY Zenon DEF PubGood, IdlePub, NoRow

\* The publishers' snapshots stay unsaved when the process dies.
LEMMA DiePub == ASSUME TypeOK, PubOK, Die PROVE PubOK'
<1>1. pub' = [j \in Jobs |-> IF /\ pub[j].pc \in {"issuing", "issued"}
                                /\ pub[j].row.method = "ssh_cli"
                             THEN pub[j] ELSE IdlePub]
  BY Zenon DEF Die
<1>2. \A j \in Jobs : pub'[j] = pub[j] \/ pub'[j] = IdlePub
  BY <1>1, Zenon
<1> QED
  BY <1>2, IdleGood, Zenon DEF PubOK, PubGood

\* Every publisher's snapshot is taken of an unsaved job.
LEMMA PubKeeps == ASSUME TypeOK, Inv, Next PROVE PubOK'
<1>0. PubOK /\ RowsOK
  BY Zenon DEF Inv
<1>1. ASSUME NEW j \in Jobs, JobStep(j) PROVE PubOK'
  <2>0. rows[j] \in Row /\ RowOK(rows[j]) /\ pub[j] \in PubRecord /\ PubGood(pub[j])
    BY <1>0, TypeParts, Zenon DEF RowsOK, PubOK, PubGood
  <2>1. rows[j].state \in {"running", "awaiting_cli"} => ~rows[j].save
    BY <2>0 DEF RowOK
  <2>2. CASE CreateAuto(j)
    BY <1>0, <2>2, PubStep, IdleGood, Zenon DEF CreateAuto, PubOK
  <2>3. CASE Cancel(j)
    BY <1>0, <2>0, <2>3, PubStep, IdleGood, Zenon DEF Cancel
  <2>4. CASE DispatchAuto(j)
    <3>1. \/ rows[j].state = "running"
             /\ pub' = [pub EXCEPT ![j] = [pc |-> "issuing", row |-> rows[j]]]
          \/ pub' = [pub EXCEPT ![j] = IdlePub]
      BY <2>4, Zenon DEF DispatchAuto
    <3> QED
      BY <1>0, <2>1, <3>1, PubStep, IdleGood, Zenon
  <2>5. CASE BeginCli(j)
    <3> DEFINE claimed == [rows[j] EXCEPT !.state = "running",
                             !.method = "ssh_cli", !.owner = CliOwner,
                             !.lease = "live", !.rev = @ + 1, !.cli = TRUE]
    <3>1. claimed.save = rows[j].save
      BY <2>0, Zenon DEF Row
    <3>2. /\ rows[j].state \in {"running", "awaiting_cli"}
          /\ \/ pub' = [pub EXCEPT ![j] = [pc |-> "issuing", row |-> claimed]]
             \/ pub' = [pub EXCEPT ![j] = [pc |-> "issuing", row |-> rows[j]]]
      BY <2>5, Zenon DEF BeginCli
    <3> HIDE DEF claimed
    <3> QED
      BY <1>0, <2>1, <3>1, <3>2, PubStep, IdleGood, Zenon
  <2>6. CASE AgentIssues(j)
    <3> DEFINE p == [pub[j] EXCEPT !.pc = "issued"]
    <3>1. pub' = [pub EXCEPT ![j] = p]
      BY <2>6, Zenon DEF AgentIssues
    <3>2. p.row = pub[j].row /\ p.pc = "issued"
      BY <2>0, Zenon DEF PubRecord
    <3> HIDE DEF p
    <3> QED
      BY <1>0, <2>0, <3>1, <3>2, PubStep, Zenon DEF PubGood
  <2>7. CASE IssueFails(j) \/ CliAbandons(j) \/ PublishVerified(j)
    BY <1>0, <2>7, PubStep, IdleGood, Zenon DEF IssueFails, CliAbandons, PublishVerified
  <2>8. CASE PublishIssued(j)
    <3> DEFINE v == [IssuedRow(j) EXCEPT !.state = "verifying"]
    <3>1. \/ rows[j].state = "running"
             /\ pub' = [pub EXCEPT ![j] = [pc |-> "validating", row |-> v]]
          \/ pub' = [pub EXCEPT ![j] = IdlePub]
      BY <2>8, Zenon DEF PublishIssued, MayPublish
    <3>2. rows[j].state = "running" => ~v.save /\ v.ref # NoRef
      BY <1>0, IssuedMove, Zenon
    <3> HIDE DEF v
    <3> QED
      BY <1>0, <3>1, <3>2, PubStep, IdleGood, Zenon
  <2>9. CASE CrashInCreate(j) \/ CrashInPublish(j) \/ CrashInCancel(j)
    BY <1>0, <2>9, DiePub, Zenon DEF CrashInCreate, CrashInPublish, CrashInCancel
  <2>10. CASE GetExpires(j) \/ DeadlinePasses(j) \/ PendingLapses(j) \/ LeaseLapses(j)
    BY <1>0, <2>10, Zenon DEF GetExpires, DeadlinePasses, PendingLapses, LeaseLapses, PubOK
  <2> QED
    BY <1>1, <2>2, <2>3, <2>4, <2>5, <2>6, <2>7, <2>8, <2>9, <2>10, Zenon DEF JobStep
<1>2. ASSUME NEW r \in Recs, Restart(r) PROVE PubOK'
  <2>1. PICK healthy \in BOOLEAN :
          pub' = [j \in Jobs |->
                    IF rows[j].state = "pending" /\ StartupRow(j, healthy).state = "running"
                    THEN [pc |-> "scheduled", row |-> NoRow] ELSE pub[j]]
    BY <1>2, Zenon DEF Restart
  <2>2. \A j \in Jobs : pub'[j] = pub[j] \/ pub'[j] = [pc |-> "scheduled", row |-> NoRow]
    BY <2>1, Zenon
  <2> QED
    BY <1>0, <2>2, IdleGood, Zenon DEF PubOK, PubGood
<1>3. Crash => PubOK'
  BY <1>0, DiePub, Zenon DEF Crash
<1>4. ASSUME NEW r \in Recs, CrashInCompensation(r) \/ CrashInCleanup(r) PROVE PubOK'
  BY <1>0, <1>4, DiePub, Zenon DEF CrashInCompensation, CrashInCleanup
<1>5. ASSUME pub' = pub PROVE PubOK'
  BY <1>0, <1>5, Zenon DEF PubOK
<1>6. ASSUME NEW r \in Recs, RecStep(r) PROVE PubOK'
  <2>1. CASE Restart(r) \/ CrashInCompensation(r) \/ CrashInCleanup(r)
    BY <1>2, <1>4, <2>1
  <2>2. CASE \/ RecoverPrepare(r) \/ \E j \in Jobs : Consume(r, j) \/ RecoverClaim(r, j)
    BY <1>5, <2>2, Zenon DEF RecoverPrepare, Consume, RecoverClaim
  <2>3. CASE \/ BeginValidation(r) \/ RenewLease(r) \/ AbandonCall(r) \/ EndValidation(r)
    BY <1>5, <2>3, Zenon DEF BeginValidation, RenewLease, AbandonCall, EndValidation
  <2>4. CASE \/ BeginActivation(r) \/ EndActivation(r) \/ Commit(r)
    BY <1>5, <2>4, Zenon DEF BeginActivation, EndActivation, Commit
  <2>5. CASE \/ BeginCompensation(r) \/ EndCompensation(r) \/ RecoverCleanup(r)
    BY <1>5, <2>5, Zenon DEF BeginCompensation, EndCompensation, RecoverCleanup
  <2> QED
    BY <1>6, <2>1, <2>2, <2>3, <2>4, <2>5, Zenon DEF RecStep
<1>7. CASE SweepOrphans \/ \E m \in wire : AgentHandles(m) \/ Lose(m)
  BY <1>5, <1>7, Zenon DEF SweepOrphans, AgentHandles, Lose
<1> QED
  BY <1>1, <1>3, <1>6, <1>7, Zenon DEF Next

\* Rows in order that never lose their save flag.
Saves == RowsOK' /\ \A k \in Jobs : rows[k].save => rows'[k].save

\* A coroutine keeps its snapshot, drops it, or takes the stored row.
LEMMA RecMoves ==
  ASSUME TypeOK, RecOK, Saves, NEW r \in Recs, NEW q, rec' = [rec EXCEPT ![r] = q],
         \/ q.row = rec[r].row /\ q.job = rec[r].job
         \/ q.row = NoRow
         \/ q.job \in Jobs /\ q.row = rows'[q.job]
  PROVE  RecOK'
<1>1. rec'[r] = q /\ \A t \in Recs \ {r} : rec'[t] = rec[t]
  BY TypeParts, Zenon
<1>2. RowOK(NoRow) /\ ~NoRow.save
  BY DEF RowOK, NoRow, Absent, NoOwner, CredentialStates
<1>3. RowOK(q.row) /\ (q.job \in Jobs /\ q.row.save => rows'[q.job].save)
  BY <1>2, Zenon DEF RecOK, Saves, RowsOK
<1>4. \A t \in Recs \ {r} : /\ RowOK(rec'[t].row)
                            /\ rec'[t].job \in Jobs /\ rec'[t].row.save =>
                                 rows'[rec'[t].job].save
  BY <1>1, Zenon DEF RecOK, Saves
<1> QED
  BY <1>1, <1>3, <1>4, Zenon DEF RecOK

\* A coroutine leaves its job.
LEMMA LeaveKeeps == ASSUME TypeOK, RecOK, Saves, NEW r \in Recs, Leave(r) PROVE RecOK'
<1>1. [IdleRec EXCEPT !.pc = "next", !.todo = rec[r].todo].row = NoRow
  BY Zenon DEF IdleRec
<1> QED
  BY <1>1, RecMoves, Zenon DEF Leave

\* A coroutine goes on with its job, with the old snapshot or the stored row.
LEMMA EnterKeeps ==
  ASSUME TypeOK, RecOK, Saves, NEW r \in Recs, NEW pc, NEW row, Enter(r, pc, row),
         row = rec[r].row \/ (rec[r].job \in Jobs /\ row = rows'[rec[r].job])
  PROVE  RecOK'
<1> DEFINE q == [rec[r] EXCEPT !.pc = pc, !.row = row, !.reply = "none"]
<1>1. rec[r] \in RecRecord
  BY TypeParts, Zenon
<1>2. q.row = row /\ q.job = rec[r].job
  BY <1>1, Zenon DEF RecRecord
<1>3. rec' = [rec EXCEPT ![r] = q]
  BY Zenon DEF Enter
<1> HIDE DEF q
<1> QED
  BY <1>2, <1>3, RecMoves, Zenon

\* One field of a coroutine changes, its job and snapshot stay.
LEMMA FieldKeeps ==
  ASSUME TypeOK, RecOK, Saves, NEW r \in Recs, NEW v,
         \/ rec' = [rec EXCEPT ![r].pc = v]
         \/ rec' = [rec EXCEPT ![r].todo = v]
         \/ rec' = [rec EXCEPT ![r].reply = v]
         \/ \E w : rec' = [rec EXCEPT ![r].pc = v, ![r].todo = w]
  PROVE  RecOK'
<1>1. rec[r] \in RecRecord
  BY TypeParts, Zenon
<1>2. ASSUME NEW q, q.row = rec[r].row, q.job = rec[r].job, rec' = [rec EXCEPT ![r] = q]
      PROVE  RecOK'
  BY <1>2, RecMoves, Zenon
<1>3. ASSUME rec' = [rec EXCEPT ![r].pc = v] PROVE RecOK'
  <2>1. rec' = [rec EXCEPT ![r] = [rec[r] EXCEPT !.pc = v]]
    BY <1>3, Zenon
  <2> QED
    BY <1>1, <1>2, <2>1, Zenon DEF RecRecord
<1>4. ASSUME rec' = [rec EXCEPT ![r].todo = v] PROVE RecOK'
  <2>1. rec' = [rec EXCEPT ![r] = [rec[r] EXCEPT !.todo = v]]
    BY <1>4, Zenon
  <2> QED
    BY <1>1, <1>2, <2>1, Zenon DEF RecRecord
<1>5. ASSUME rec' = [rec EXCEPT ![r].reply = v] PROVE RecOK'
  <2>1. rec' = [rec EXCEPT ![r] = [rec[r] EXCEPT !.reply = v]]
    BY <1>5, Zenon
  <2> QED
    BY <1>1, <1>2, <2>1, Zenon DEF RecRecord
<1>6. ASSUME NEW w, rec' = [rec EXCEPT ![r].pc = v, ![r].todo = w] PROVE RecOK'
  <2> DEFINE q == [rec[r] EXCEPT !.pc = v, !.todo = w]
  <2>1. rec' = [rec EXCEPT ![r] = q]
    BY <1>1, <1>6, TypeParts, Zenon DEF RecRecord
  <2>2. q.row = rec[r].row /\ q.job = rec[r].job
    BY <1>1, Zenon DEF RecRecord
  <2> HIDE DEF q
  <2> QED
    BY <1>2, <2>1, <2>2
<1> QED
  BY <1>3, <1>4, <1>5, <1>6

\* The coroutines' snapshots die with the process.
LEMMA DieRec == ASSUME Die PROVE RecOK'
<1>1. rec' = [r \in Recs |-> IdleRec]
  BY Zenon DEF Die
<1>2. IdleRec.row = NoRow
  BY Zenon DEF IdleRec
<1>3. RowOK(NoRow) /\ ~NoRow.save
  BY DEF RowOK, NoRow, Absent, NoOwner, CredentialStates
<1> QED
  BY <1>1, <1>2, <1>3, Zenon DEF RecOK

\* What a recoverer read is in order, and saved only if the job is saved.
LEMMA RecKeeps == ASSUME TypeOK, Inv, Saves, Next PROVE RecOK'
<1>0. RecOK /\ RowsOK
  BY Zenon DEF Inv
<1>1. ASSUME rec' = rec PROVE RecOK'
  BY <1>0, <1>1, Zenon DEF RecOK, Saves
<1>2. ASSUME NEW j \in Jobs, JobStep(j) PROVE RecOK'
  <2>1. CASE CrashInCreate(j) \/ CrashInPublish(j) \/ CrashInCancel(j)
    BY <2>1, DieRec, Zenon DEF CrashInCreate, CrashInPublish, CrashInCancel
  <2>2. CASE \/ CreateAuto(j) \/ GetExpires(j) \/ Cancel(j) \/ DispatchAuto(j)
             \/ BeginCli(j) \/ AgentIssues(j) \/ IssueFails(j)
    BY <1>1, <2>2, Zenon DEF CreateAuto, GetExpires, Cancel, DispatchAuto, BeginCli,
      AgentIssues, IssueFails
  <2>3. CASE \/ CliAbandons(j) \/ PublishIssued(j) \/ PublishVerified(j)
             \/ DeadlinePasses(j) \/ PendingLapses(j) \/ LeaseLapses(j)
    BY <1>1, <2>3, Zenon DEF CliAbandons, PublishIssued, PublishVerified,
      DeadlinePasses, PendingLapses, LeaseLapses
  <2> QED
    BY <1>2, <2>1, <2>2, <2>3, Zenon DEF JobStep
<1>3. ASSUME NEW r \in Recs, RecStep(r) PROVE RecOK'
  <2> DEFINE job == rec[r].job
  <2>0. ASSUME rec[r].pc \notin {"idle", "prepare", "next"}, NEW b, Write(job, b)
        PROVE  job \in Jobs /\ rows'[job] = b
    BY <2>0, AtWork, TypeParts, Zenon DEF Write
  <2>1. CASE CrashInCompensation(r) \/ CrashInCleanup(r)
    BY <2>1, DieRec, Zenon DEF CrashInCompensation, CrashInCleanup
  <2>2. CASE Restart(r) \/ \E j \in Jobs : Consume(r, j)
    BY <1>0, <2>2, FieldKeeps, Zenon DEF Restart, Consume
  <2>3. CASE RecoverPrepare(r)
    BY <1>0, <2>3, FieldKeeps, Zenon DEF RecoverPrepare
  <2>4. CASE RecoverCleanup(r)
    <3>1. IdleRec.row = NoRow
      BY Zenon DEF IdleRec
    <3> QED
      BY <1>0, <2>4, <3>1, RecMoves, Zenon DEF RecoverCleanup
  <2>5. ASSUME NEW j \in Jobs, RecoverClaim(r, j) PROVE RecOK'
    <3>1. \/ \E v : rec' = [rec EXCEPT ![r].todo = v]
          \/ \E b, p, t : /\ rows' = [rows EXCEPT ![j] = b]
                          /\ rec' = [rec EXCEPT ![r] = [pc |-> p, todo |-> t,
                                       job |-> j, row |-> b, reply |-> "none"]]
      <4> DEFINE row == IF Due(rows[j], past[j]) THEN ExpireRow(rows[j]) ELSE rows[j]
                 pc == IF row.state \in {"activation_requested", "activated"}
                       THEN "activation" ELSE "validation"
      <4>1. \/ rec' = [rec EXCEPT ![r].todo = rec[r].todo \ {j}]
            \/ /\ rows' = [rows EXCEPT ![j] = ClaimRow(row, epoch)]
               /\ rec' = [rec EXCEPT ![r] = [pc |-> pc, todo |-> rec[r].todo \ {j},
                            job |-> j, row |-> ClaimRow(row, epoch), reply |-> "none"]]
        BY <2>5, Zenon DEF RecoverClaim, Write
      <4> HIDE DEF row, pc
      <4> QED
        BY <4>1, Zenon
    <3>2. ASSUME NEW b, NEW p, NEW t, rows' = [rows EXCEPT ![j] = b],
                 rec' = [rec EXCEPT ![r] = [pc |-> p, todo |-> t,
                                       job |-> j, row |-> b, reply |-> "none"]]
          PROVE  RecOK'
      <4> DEFINE q == [pc |-> p, todo |-> t, job |-> j, row |-> b, reply |-> "none"]
      <4>1. q.job \in Jobs /\ q.row = rows'[q.job]
        BY <2>5, <3>2, TypeParts, Zenon
      <4>2. rec' = [rec EXCEPT ![r] = q]
        BY <3>2
      <4> HIDE DEF q
      <4> QED
        BY <1>0, <4>1, <4>2, RecMoves, Zenon
    <3> QED
      BY <1>0, <3>1, <3>2, FieldKeeps, Zenon
  <2>6. CASE BeginValidation(r)
    <3> DEFINE row == rec[r].row
               next == IF row.state = "credential_issued"
                       THEN Transitioned(row, "verifying") ELSE row
               now == IF row.state = "credential_issued" THEN next ELSE rows[job]
    <3>1. /\ rec[r].pc = "validation"
          /\ Leave(r) \/ (Write(job, now) /\ Enter(r, "validate", next))
      BY <2>6, Zenon DEF BeginValidation
    <3>2. next = row \/ next = now
      BY Zenon
    <3> HIDE DEF next, now
    <3> QED
      BY <1>0, <2>0, <3>1, <3>2, LeaveKeeps, EnterKeeps, Zenon
  <2>7. CASE RenewLease(r)
    <3> DEFINE q == [rec[r] EXCEPT !.row = Renewed(r)]
    <3>1. rec[r] \in RecRecord /\ job \in Jobs /\ rows'[job] = Renewed(r)
      <4>1. rec[r].pc \notin {"idle", "prepare", "next"} /\ Write(job, Renewed(r))
        BY <2>7, Zenon DEF RenewLease, Waiting
      <4> QED
        BY <2>0, <4>1, TypeParts, Zenon
    <3>2. rec' = [rec EXCEPT ![r] = q]
      BY <2>7, Zenon DEF RenewLease
    <3>3. q.job = job /\ q.row = Renewed(r)
      BY <3>1, Zenon DEF RecRecord
    <3> HIDE DEF q
    <3> QED
      BY <1>0, <3>1, <3>2, <3>3, RecMoves, Zenon
  <2>8. CASE AbandonCall(r) \/ EndValidation(r) \/ EndCompensation(r)
    BY <1>0, <2>8, LeaveKeeps, Zenon DEF AbandonCall, EndValidation, EndCompensation
  <2>9. CASE BeginActivation(r) \/ BeginCompensation(r)
    <3>1. Leave(r) \/ \E pc : Enter(r, pc, rec[r].row)
      BY <2>9, Zenon DEF BeginActivation, BeginCompensation
    <3> QED
      BY <1>0, <3>1, LeaveKeeps, EnterKeeps, Zenon
  <2>10. CASE EndActivation(r) \/ Commit(r)
    <3>1. /\ rec[r].pc \notin {"idle", "prepare", "next"}
          /\ Leave(r) \/ \E pc, b : Write(job, b) /\ Enter(r, pc, b)
      BY <2>10, Zenon DEF EndActivation, Commit
    <3> QED
      BY <1>0, <2>0, <3>1, LeaveKeeps, EnterKeeps, Zenon
  <2> QED
    BY <1>3, <2>1, <2>2, <2>3, <2>4, <2>5, <2>6, <2>7, <2>8, <2>9, <2>10, Zenon DEF RecStep
<1>4. ASSUME NEW m \in wire, AgentHandles(m) PROVE RecOK'
  <2>1. m.rec \in Recs
    BY TypeParts, Zenon DEF Rest, Requests
  <2>2. rec' = rec \/ \E v : rec' = [rec EXCEPT ![m.rec].reply = v]
    BY <1>4, Zenon DEF AgentHandles
  <2> QED
    BY <1>0, <1>1, <2>1, <2>2, FieldKeeps, Zenon
<1>5. ASSUME NEW m \in wire, Lose(m) PROVE RecOK'
  BY <1>1, <1>5, Zenon DEF Lose
<1>6. SweepOrphans => RecOK'
  BY <1>1, Zenon DEF SweepOrphans
<1>7. Crash => RecOK'
  BY DieRec, Zenon DEF Crash
<1> QED
  BY <1>2, <1>3, <1>4, <1>5, <1>6, <1>7, Zenon DEF Next

\* Only saved jobs are asked to be activated, and only those are active.
LEMMA AskedKeeps == ASSUME TypeOK, Inv, Saves, Next PROVE AskedOK'
<1>0. AskedOK /\ RecOK /\ wire \subseteq Requests /\ remote \in [Jobs -> RemoteStates]
  BY TypeParts, Zenon DEF Inv, Rest
<1>1. \A m \in wire : m.job \in Jobs
  BY <1>0, Zenon DEF Requests
<1>2. ASSUME wire' = wire, remote' = remote PROVE AskedOK'
  BY <1>0, <1>1, <1>2, Zenon DEF AskedOK, Saves
<1>3. ASSUME NEW j \in Jobs, JobStep(j) PROVE AskedOK'
  <2>1. CASE AgentIssues(j)
    <3>1. wire' = wire /\ remote' = [remote EXCEPT ![j] = "pending"]
      BY <2>1, Zenon DEF AgentIssues
    <3> QED
      BY <1>0, <1>1, <3>1, Zenon DEF AskedOK, Saves
  <2>2. CASE PendingLapses(j)
    <3>1. wire' = wire /\ remote' = [remote EXCEPT ![j] = "lapsed"]
      BY <2>2, Zenon DEF PendingLapses
    <3> QED
      BY <1>0, <1>1, <3>1, Zenon DEF AskedOK, Saves
  <2>3. CASE \/ CreateAuto(j) \/ GetExpires(j) \/ Cancel(j) \/ DispatchAuto(j)
             \/ BeginCli(j) \/ IssueFails(j) \/ CliAbandons(j)
    BY <1>2, <2>3, Zenon DEF CreateAuto, GetExpires, Cancel, DispatchAuto, BeginCli,
      IssueFails, CliAbandons
  <2>4. CASE \/ PublishIssued(j) \/ PublishVerified(j) \/ DeadlinePasses(j) \/ LeaseLapses(j)
             \/ CrashInCreate(j) \/ CrashInPublish(j) \/ CrashInCancel(j)
    BY <1>2, <2>4, Zenon DEF PublishIssued, PublishVerified, DeadlinePasses, LeaseLapses,
      CrashInCreate, CrashInPublish, CrashInCancel, Die
  <2> QED
    BY <1>3, <2>1, <2>2, <2>3, <2>4, Zenon DEF JobStep
<1>4. ASSUME NEW r \in Recs, RecStep(r) PROVE AskedOK'
  <2>1. ASSUME BeginActivation(r) PROVE AskedOK'
    <3>1. /\ remote' = remote /\ rec[r].pc = "activation"
          /\ \/ wire' = wire
             \/ /\ rec[r].row.state = "activation_requested"
                /\ wire' = wire \cup {[kind |-> "activate", job |-> rec[r].job, rec |-> r]}
      BY <2>1, Zenon DEF BeginActivation, Send
    <3>2. rec[r].job \in Jobs /\ RowOK(rec[r].row)
      BY <1>0, <3>1, AtWork, Zenon DEF RecOK
    <3>3. rec[r].row.state = "activation_requested" => rec[r].row.save
      BY <3>2 DEF RowOK
    <3>4. rec[r].row.state = "activation_requested" => rows'[rec[r].job].save
      BY <1>0, <3>2, <3>3, Zenon DEF RecOK, Saves
    <3>5. ASSUME NEW m \in wire', m.kind = "activate" PROVE rows'[m.job].save
      <4>1. CASE m \in wire
        BY <1>0, <1>1, <3>5, <4>1, Zenon DEF AskedOK, Saves
      <4>2. CASE m \notin wire
        <5>1. /\ rec[r].row.state = "activation_requested"
              /\ m = [kind |-> "activate", job |-> rec[r].job, rec |-> r]
          BY <3>1, <3>5, <4>2, Zenon
        <5>2. m.job = rec[r].job
          BY <5>1, Zenon
        <5> QED
          BY <3>4, <5>1, <5>2
      <4> QED
        BY <4>1, <4>2
    <3> QED
      BY <1>0, <3>1, <3>5, Zenon DEF AskedOK, Saves
  <2>2. ASSUME BeginCompensation(r) PROVE AskedOK'
    <3>1. /\ remote' = remote
          /\ \/ wire' = wire
             \/ wire' = wire \cup {[kind |-> "revoke", job |-> rec[r].job, rec |-> r]}
      BY <2>2, Zenon DEF BeginCompensation, Send
    <3>2. ASSUME NEW m \in wire', m.kind = "activate" PROVE m \in wire
      <4>1. [kind |-> "revoke", job |-> rec[r].job, rec |-> r].kind = "revoke"
        BY Zenon
      <4> QED
        BY <3>1, <3>2, <4>1, Zenon
    <3> QED
      BY <1>0, <1>1, <3>1, <3>2, Zenon DEF AskedOK, Saves
  <2>3. CASE \/ RecoverPrepare(r) \/ \E j \in Jobs : Consume(r, j) \/ RecoverClaim(r, j)
    BY <1>2, <2>3, Zenon DEF RecoverPrepare, Consume, RecoverClaim
  <2>4. CASE \/ BeginValidation(r) \/ RenewLease(r) \/ AbandonCall(r) \/ EndValidation(r)
    BY <1>2, <2>4, Zenon DEF BeginValidation, RenewLease, AbandonCall, EndValidation
  <2>5. CASE \/ EndActivation(r) \/ Commit(r) \/ EndCompensation(r) \/ RecoverCleanup(r)
    BY <1>2, <2>5, Zenon DEF EndActivation, Commit, EndCompensation, RecoverCleanup
  <2>6. CASE \/ CrashInCompensation(r) \/ CrashInCleanup(r) \/ Restart(r)
    BY <1>2, <2>6, Zenon DEF CrashInCompensation, CrashInCleanup, Restart, Die
  <2> QED
    BY <1>4, <2>1, <2>2, <2>3, <2>4, <2>5, <2>6, Zenon DEF RecStep
<1>5. ASSUME NEW m \in wire, AgentHandles(m) PROVE AskedOK'
  <2> DEFINE v == remote'[m.job]
  <2>1. /\ wire' = wire \ {m} /\ m.job \in Jobs
        /\ \E w : remote' = [remote EXCEPT ![m.job] = w]
    BY <1>1, <1>5, Zenon DEF AgentHandles
  <2>2. v = "active" => m.kind = "activate" \/ remote[m.job] = "active"
    <3> DEFINE ok == m.kind = "revoke" \/ remote[m.job] \in {"pending", "active"}
    <3>1. v = IF ~ok THEN remote[m.job]
              ELSE IF m.kind = "activate" THEN "active" ELSE "revoked"
      BY <1>0, <1>1, <1>5, Zenon DEF AgentHandles
    <3>2. m.kind = "activate" \/ m.kind = "revoke"
      BY <1>0, Zenon DEF Requests
    <3> HIDE DEF v
    <3> QED
      BY <3>1, <3>2
  <2>3. v = "active" => rows'[m.job].save
    BY <1>0, <1>5, <2>1, <2>2, Zenon DEF AskedOK, Saves
  <2>4. \A j \in Jobs \ {m.job} : remote'[j] = remote[j]
    BY <1>0, <2>1, Zenon
  <2> QED
    BY <1>0, <1>1, <2>1, <2>3, <2>4, Zenon DEF AskedOK, Saves
<1>6. ASSUME NEW m \in wire, Lose(m) PROVE AskedOK'
  <2>1. wire' = wire \ {m} /\ remote' = remote
    BY <1>6, Zenon DEF Lose
  <2> QED
    BY <1>0, <1>1, <2>1, Zenon DEF AskedOK, Saves
<1>7. SweepOrphans \/ Crash => AskedOK'
  BY <1>2, Zenon DEF SweepOrphans, Crash, Die
<1> QED
  BY <1>3, <1>4, <1>5, <1>6, <1>7, Zenon DEF Next

-----------------------------------------------------------------------------
(* The theorems.                                                           *)

\* Inv holds at first and in every step.
LEMMA InvInit == Init => Inv
<1> SUFFICES ASSUME Init PROVE Inv
  OBVIOUS
<1>1. RowOK(NoRow) /\ ~NoRow.save /\ NoRow.state # "consumed"
  BY DEF RowOK, NoRow, Absent, NoOwner, CredentialStates
<1>2. IdleRec.row = NoRow /\ IdlePub.row = NoRow /\ IdlePub.pc = "none"
  BY Zenon DEF IdleRec, IdlePub
<1>3. \A j \in Jobs : /\ rows[j] = NoRow /\ pub[j] = IdlePub /\ reg[j] = NoRef
                      /\ remote[j] = "none"
  BY Zenon DEF Init
<1>4. wire = {} /\ \A r \in Recs : rec[r] = IdleRec
  BY Zenon DEF Init
<1> QED
  BY <1>1, <1>2, <1>3, <1>4, Zenon DEF Inv, RowsOK, RegOK, PubOK, RecOK, AskedOK,
    Registered

\* Inv is preserved by every step of the API, the publishers, recovery, the
\* Agent, time and crashes: the rows move as Move allows, the rest follows.
LEMMA InvNext == TypeOK /\ Inv /\ [Next]_vars => Inv'
<1> SUFFICES ASSUME TypeOK, Inv, [Next]_vars PROVE Inv'
  OBVIOUS
<1>1. CASE Next
  <2>1. RowsOK' /\ RegOK' /\ Saves
    BY <1>1, NextMove, MoveKeeps, Zenon DEF Inv, Saves
  <2> QED
    BY <1>1, <2>1, PubKeeps, RecKeeps, AskedKeeps, Zenon DEF Inv
<1>2. CASE UNCHANGED vars
  BY <1>2, Zenon DEF vars, Inv, RowsOK, RegOK, PubOK, RecOK, AskedOK, Registered
<1> QED
  BY <1>1, <1>2

\* The inductive invariant of the saga: rows in order, a registry that holds
\* exactly the consumed jobs (commit_activated_enrollment), publishers whose
\* snapshots predate the save, recoverers that never outlive one, and
\* activation asked of the Agent for saved jobs only.
THEOREM InvCorrect == Spec => []Inv
  BY InvInit, InvNext, TypeCorrect, PTL DEF Spec

\* The Agent activates a credential only for a job consume() saved, and jobs.get,
\* cancel, prepare_recovery, the creates and the publishers never cancel, expire
\* or reset a saved job.
THEOREM SavedFinal == Spec => []SavedIsFinal
<1>1. Inv => SavedIsFinal
  BY Zenon DEF Inv, RowsOK, RowOK, AskedOK, SavedIsFinal
<1> QED
  BY <1>1, InvCorrect, PTL

\* The saga implements EnrollmentPromise: every step of the orchestrator, its
\* journal, the Agents, time and crashes is a step of the promise or one that a
\* client of the API cannot see.
THEOREM Refinement == Spec => KeepsPromise
<1>1. Init => P!Init
  <2> SUFFICES ASSUME Init PROVE P!Init
    OBVIOUS
  <2>1. RegOK /\ \A j \in Jobs : rows[j].state = Absent
    BY InvInit, Zenon DEF Inv, Init, NoRow
  <2>2. Outcome = [j \in Jobs |-> Class(rows[j])]
    BY <2>1, OutcomeClass
  <2>3. \A j \in Jobs : Class(rows[j]) = "absent"
    BY <2>1, ClassOf
  <2> QED
    BY <2>2, <2>3, Zenon DEF P!Init
<1>2. TypeOK /\ Inv /\ Inv' /\ [Next]_vars => [P!Next]_Outcome
  <2> SUFFICES ASSUME TypeOK, Inv, Inv', [Next]_vars PROVE [P!Next]_Outcome
    OBVIOUS
  <2>1. CASE Next
    BY <2>1, NextMove, MoveRefines, Zenon DEF Inv
  <2>2. CASE UNCHANGED vars
    <3>1. rows' = rows /\ reg' = reg
      BY <2>2, Zenon DEF vars
    <3> QED
      BY <3>1, Unmoved, MoveRefines, Zenon DEF Inv
  <2> QED
    BY <2>1, <2>2
<1> QED
  BY <1>1, <1>2, TypeCorrect, InvCorrect, PTL DEF Spec, KeepsPromise, P!Spec
=============================================================================
