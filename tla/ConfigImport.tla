---------------------------- MODULE ConfigImport ----------------------------
(***************************************************************************)
(* The one-time import of Agents from the configuration file into the      *)
(* registry, run by every Manager start before anything is served.         *)
(*                                                                         *)
(* The token files are written before the one transaction that inserts the *)
(* rows and the marker.  A write may fail after it has published its file, *)
(* and the import then has no reference to it; the transaction, its        *)
(* rollback, the check of what a failed commit left behind and the         *)
(* deletion of a file may each fail, the process may die at any step, and  *)
(* a second Manager may be starting on the same directory.  The credential *)
(* lease spans the writing of the files, the transaction and the check of  *)
(* a commit that raised, not the clean-up after it.                        *)
(***************************************************************************)
EXTENDS Naturals, FiniteSets

CONSTANTS
  Importers,   \* starts of a Manager; the token files of one bear its name
  Yaml,        \* the Agents of the configuration file
  Nobody,      \* no row, no holder of the lease
  Enrolled     \* the row of an Agent that was enrolled, not imported

ASSUME ImportAssumption ==
  /\ IsFiniteSet(Importers) /\ IsFiniteSet(Yaml)
  /\ Nobody \notin Importers /\ Enrolled \notin Importers \cup {Nobody}

VARIABLES
  marker,   \* manager_metadata: yaml_agents_imported_v1
  rows,     \* [Yaml -> ...]: whose token file the Agent's row refers to
  files,    \* token files, <<importer, agent>>
  refs,     \* new_references of every import: the files whose put returned
  imp,      \* [Importers -> ...]: where each import is
  lease,    \* who holds the credential lease
  removed   \* Agents the administrator has removed (history)

importVars == <<marker, rows, files, refs, imp, lease, removed>>

-----------------------------------------------------------------------------
Outcomes == {"imported", "skipped", "failed", "incomplete", "uncertain", "dead"}

ImportTypeOK ==
  /\ marker \in BOOLEAN
  /\ rows \in [Yaml -> Importers \cup {Nobody, Enrolled}]
  /\ files \subseteq Importers \X Yaml
  /\ refs \subseteq Importers \X Yaml
  /\ imp \in [Importers -> {"new", "prepared", "put", "verify_other", "verify_own",
                            "delete_all", "drop_skip", "drop_fail"} \cup Outcomes]
  /\ lease \in Importers \cup {Nobody}
  /\ removed \subseteq Yaml

ImportInit ==
  /\ marker = FALSE
  /\ rows = [y \in Yaml |-> Nobody]
  /\ files = {} /\ refs = {} /\ removed = {}
  /\ imp = [i \in Importers |-> "new"]
  /\ lease = Nobody

Registered == {y \in Yaml : rows[y] # Nobody}
Own(i) == {t \in refs : t[1] = i}
Referenced(t) == rows[t[2]] = t[1]
ImportAt(i, pc) == imp' = [imp EXCEPT ![i] = pc]

-----------------------------------------------------------------------------
\* _prepare_import_if_needed: a registry that has Agents is marked and left.
PrepareImport(i) ==
  /\ imp[i] = "new"
  /\ \/ marker /\ ImportAt(i, "skipped") /\ UNCHANGED marker
     \/ ~marker /\ Registered # {} /\ ImportAt(i, "skipped") /\ marker' = TRUE
     \/ ~marker /\ Registered = {} /\ ImportAt(i, "prepared") /\ UNCHANGED marker
     \/ ImportAt(i, "failed") /\ UNCHANGED marker
  /\ UNCHANGED <<rows, files, refs, lease, removed>>

\* _prepare_all reads and checks every entry before anything is written.
ValidateImport(i) ==
  /\ imp[i] = "prepared" /\ lease = Nobody
  /\ \/ ImportAt(i, "put") /\ lease' = i
     \/ ImportAt(i, "failed") /\ UNCHANGED lease
  /\ UNCHANGED <<marker, rows, files, refs, removed>>

\* What a put leaves that raises: the file was published, or it was not.
PublishedOrNot(i, y) == files' = files \cup {<<i, y>>} \/ files' = files

\* Faulty variant: a failure leaves the files written before it for good.
PutTokenLeaves(i, y) ==
  /\ imp[i] = "put" /\ <<i, y>> \notin refs
  /\ \/ /\ files' = files \cup {<<i, y>>} /\ refs' = refs \cup {<<i, y>>}
        /\ UNCHANGED <<imp, lease>>
     \/ /\ PublishedOrNot(i, y) /\ UNCHANGED refs
        /\ ImportAt(i, "failed") /\ lease' = Nobody
  /\ UNCHANGED <<marker, rows, removed>>

\* One token file, whose reference put returns; or put raises, and the import
\* gives up with the references it has.
PutToken(i, y) ==
  /\ imp[i] = "put" /\ <<i, y>> \notin refs
  /\ \/ /\ files' = files \cup {<<i, y>>} /\ refs' = refs \cup {<<i, y>>}
        /\ UNCHANGED <<imp, lease>>
     \/ /\ PublishedOrNot(i, y) /\ UNCHANGED refs
        /\ ImportAt(i, "delete_all") /\ lease' = Nobody
  /\ UNCHANGED <<marker, rows, removed>>

Commit(i) ==
  /\ rows' = [y \in Yaml |-> i]
  /\ marker' = TRUE

\* Faulty variant: the marker is not read again in the transaction.
TakenByRows == Registered # {}

\* Another import is complete, or the registry has Agents: it is marked.
Taken == marker \/ Registered # {}

\* Faulty variant: a commit that raised is taken for one that failed.
RaisedFails(i) == ImportAt(i, "delete_all") /\ lease' = Nobody

\* A commit that raised may have taken effect, and is looked at again before
\* the lease is given back.
Raised(i) == ImportAt(i, "verify_own") /\ UNCHANGED lease

\* _commit_import
CommitImport(i) ==
  /\ imp[i] = "put" /\ \A y \in Yaml : <<i, y>> \in refs
  /\ \/ /\ Taken
        /\ ImportAt(i, "verify_other") /\ marker' = TRUE /\ UNCHANGED rows
        /\ lease' = Nobody
     \/ /\ ~Taken
        /\ \/ Commit(i) /\ ImportAt(i, "imported") /\ lease' = Nobody
           \/ Commit(i) /\ Raised(i)
           \/ UNCHANGED <<marker, rows>> /\ Raised(i)
     \/ /\ UNCHANGED <<marker, rows>> /\ lease' = Nobody
        /\ \/ ImportAt(i, "delete_all")   \* rolled back
           \/ ImportAt(i, "uncertain")    \* the rollback failed
  /\ UNCHANGED <<files, refs, removed>>

\* _verify_committed_import
VerifyImport(i) ==
  /\ imp[i] \in {"verify_other", "verify_own"}
  /\ \/ ImportAt(i, "uncertain")
     \/ /\ imp[i] = "verify_own" /\ marker /\ \A y \in Yaml : rows[y] = i
        /\ ImportAt(i, "imported")
     \/ /\ imp[i] = "verify_own" => ~(marker /\ \A y \in Yaml : rows[y] = i)
        /\ ImportAt(i, IF imp[i] = "verify_other" \/ marker THEN "drop_skip" ELSE "drop_fail")
  /\ lease' = IF imp[i] = "verify_own" THEN Nobody ELSE lease
  /\ UNCHANGED <<marker, rows, files, refs, removed>>

\* _delete_new_credentials: every reference is tried; one that is gone already,
\* or whose deletion raises before or after its effect, is reported.  After a
\* verification only the files no row refers to are deleted.
DeleteTokens(i) ==
  LET doomed == IF imp[i] = "delete_all" THEN Own(i)
                ELSE {t \in Own(i) : ~Referenced(t)}
      clean == IF imp[i] = "drop_skip" THEN "skipped"
               ELSE IF doomed # Own(i) THEN "uncertain" ELSE "failed"
  IN
  /\ imp[i] \in {"delete_all", "drop_skip", "drop_fail"} /\ lease = Nobody
  /\ \E gone \in SUBSET (doomed \cap files) :
       /\ files' = files \ gone
       /\ \/ gone = doomed /\ ImportAt(i, clean)
          \/ doomed # {} /\ ImportAt(i, "incomplete")
  /\ UNCHANGED <<marker, rows, refs, lease, removed>>

ImporterDies(i) ==
  /\ imp[i] \notin Outcomes \cup {"new"}
  /\ ImportAt(i, "dead")
  /\ lease' = IF lease = i THEN Nobody ELSE lease
  /\ UNCHANGED <<marker, rows, files, refs, removed>>

-----------------------------------------------------------------------------
(* The registry of a Manager that has started, perhaps while another does. *)

\* A removal deletes the row and its token file.
RemoveImported(y) ==
  /\ rows[y] # Nobody
  /\ rows' = [rows EXCEPT ![y] = Nobody]
  /\ files' = {t \in files : t # <<rows[y], y>>}
  /\ removed' = removed \cup {y}
  /\ UNCHANGED <<marker, refs, imp, lease>>

\* A Manager that has started may enroll an Agent under any id that is free.
EnrollAgent(y) ==
  /\ rows[y] = Nobody /\ marker
  /\ rows' = [rows EXCEPT ![y] = Enrolled]
  /\ removed' = removed \ {y}
  /\ UNCHANGED <<marker, files, refs, imp, lease>>

\* A Manager whose import is over sweeps the directory once it has recovered its
\* jobs; the first file that cannot be deleted ends the sweep.
CleanupOrphans ==
  /\ \E i \in Importers : imp[i] \in {"imported", "skipped"}
  /\ lease = Nobody
  /\ \E gone \in SUBSET {t \in files : ~Referenced(t)} : files' = files \ gone
  /\ UNCHANGED <<marker, rows, refs, imp, lease, removed>>

ImportNext ==
  \/ \E i \in Importers : PrepareImport(i)
  \/ \E i \in Importers : ValidateImport(i)
  \/ \E i \in Importers, y \in Yaml : PutToken(i, y)
  \/ \E i \in Importers : CommitImport(i)
  \/ \E i \in Importers : VerifyImport(i)
  \/ \E i \in Importers : DeleteTokens(i)
  \/ \E i \in Importers : ImporterDies(i)
  \/ \E y \in Yaml : RemoveImported(y)
  \/ \E y \in Yaml : EnrollAgent(y)
  \/ CleanupOrphans

ImportSpec == ImportInit /\ [][ImportNext]_importVars

-----------------------------------------------------------------------------
(* Properties.                                                             *)

\* Every imported row has its token file, whatever the compensation of this or
\* of a concurrent import deleted, and also when the commit raised and took
\* effect (_verify_committed_import before _delete_new_credentials).
ImportedHaveTokens ==
  \A y \in Yaml : rows[y] \in Importers => <<rows[y], y>> \in files

\* The configuration file is imported once: an Agent the administrator has
\* removed does not come back with a later start.
RemovedStayRemoved == \A y \in removed : rows[y] = Nobody

\* A token file that no row refers to is not there after an import that imported
\* or skipped.  After one that reports a plain failure it is the single file whose
\* put raised once it was published, which the import never learned of
\* (_delete_new_credentials deletes the references it was given).
NoStrayTokens ==
  /\ \A t \in files : ~Referenced(t) =>
       /\ imp[t[1]] \notin {"imported", "skipped"}
       /\ imp[t[1]] = "failed" => t \notin refs
  /\ \A i \in Importers : \A y, z \in Yaml :
       {<<i, y>>, <<i, z>>} \subseteq files \ refs => y = z
=============================================================================
