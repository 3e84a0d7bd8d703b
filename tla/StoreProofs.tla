----------------------------- MODULE StoreProofs -----------------------------
(***************************************************************************)
(* Proofs about the three parts of a Manager that keep tokens beside a     *)
(* table and share no state: the import of the configuration file (any     *)
(* number of starting Managers, any file), the credential directory (any   *)
(* number of writes, references and power losses) and the enrollment of    *)
(* the Agent beside the Manager (any number of attempts, credentials and   *)
(* Manager incarnations).                                                  *)
(***************************************************************************)
EXTENDS LocalBootstrap, ConfigImport, CredentialFiles, FiniteSetTheorems, TLAPS

-----------------------------------------------------------------------------
(* ConfigImport: the inductive invariant.                                  *)

\* A row of the registry, and an Agent that was removed, mean that some import
\* is over: no later one commits.
Marked ==
  /\ Registered # {} => marker
  /\ removed # {} => marker
  /\ \A i \in Importers : imp[i] = "imported" => marker

\* Before its files are written an import has none.
NoneYet ==
  \A i \in Importers : imp[i] \in {"new", "prepared"} =>
    \A y \in Yaml : <<i, y>> \notin files \cup refs

\* An import that has not committed, or knows that it did not, is in no row.
NotInRows ==
  \A i \in Importers : imp[i] \in {"new", "prepared", "put", "delete_all"} =>
    \A y \in Yaml : rows[y] # i

\* Only an import that gave up may have a file it has no reference to.
Listed ==
  \A t \in files :
    imp[t[1]] \notin {"delete_all", "failed", "incomplete", "dead"} => t \in refs

\* An import holds the lease from its first file to the end of its transaction,
\* so that nothing sweeps the files it has written.
LeaseHeld == \A i \in Importers : imp[i] \in {"put", "verify_own"} => lease = i
FilesHeld == \A i \in Importers : imp[i] = "put" => Own(i) \subseteq files

ImportInv ==
  /\ ImportTypeOK
  /\ Marked
  /\ NoneYet
  /\ NotInRows
  /\ Listed
  /\ LeaseHeld
  /\ FilesHeld
  /\ ImportedHaveTokens
  /\ RemovedStayRemoved
  /\ NoStrayTokens

-----------------------------------------------------------------------------
LEMMA InitInv == ImportInit => ImportInv
  BY ImportAssumption
  DEF ImportInit, ImportInv, ImportTypeOK, Marked, NoneYet, NotInRows, Own, Listed,
      LeaseHeld, FilesHeld, Registered, ImportedHaveTokens, RemovedStayRemoved,
      NoStrayTokens, Outcomes

\* NoStrayTokens in the form the steps use: what each import has left, and that no
\* import has two files it does not know of.
StraysOf(i) ==
  \A y \in Yaml : <<i, y>> \in files /\ rows[y] # i =>
    /\ imp[i] \notin {"imported", "skipped"}
    /\ imp[i] = "failed" => <<i, y>> \notin refs
OneUnknown(i) ==
  \A y, z \in Yaml : {<<i, y>>, <<i, z>>} \subseteq files \ refs => y = z

LEMMA ByImport ==
  ASSUME ImportTypeOK
  PROVE  NoStrayTokens <=> \A i \in Importers : StraysOf(i) /\ OneUnknown(i)
<1>1. \A t \in files : t[1] \in Importers /\ t[2] \in Yaml /\ t = <<t[1], t[2]>>
  BY DEF ImportTypeOK
<1>2. ASSUME NoStrayTokens PROVE \A i \in Importers : StraysOf(i) /\ OneUnknown(i)
  BY <1>2 DEF NoStrayTokens, StraysOf, OneUnknown, Referenced
<1>3. ASSUME \A i \in Importers : StraysOf(i) /\ OneUnknown(i) PROVE NoStrayTokens
  BY <1>1, <1>3 DEF NoStrayTokens, StraysOf, OneUnknown, Referenced
<1> QED BY <1>2, <1>3

LEMMA ByImportNext ==
  ASSUME ImportTypeOK', \A i \in Importers : (StraysOf(i) /\ OneUnknown(i))'
  PROVE  NoStrayTokens'
<1>1. \A t \in files' : t[1] \in Importers /\ t[2] \in Yaml /\ t = <<t[1], t[2]>>
  BY DEF ImportTypeOK
<1> QED BY <1>1 DEF NoStrayTokens, StraysOf, OneUnknown, Referenced

\* Nothing but the state of one import and the lease changes, and the marker may
\* be set.
LEMMA OnlyState ==
  ASSUME ImportInv, NEW i \in Importers, NEW pc,
         imp' = [imp EXCEPT ![i] = pc],
         marker' \in BOOLEAN, marker => marker',
         UNCHANGED <<rows, files, refs, removed>>,
         lease' \in Importers \cup {Nobody},
         \A k \in Importers \ {i} : imp[k] \in {"put", "verify_own"} => lease' = k,
         pc \in {"prepared", "put", "verify_other", "verify_own", "delete_all",
                 "drop_skip", "drop_fail"} \cup Outcomes,
         pc \in {"put", "verify_own"} => lease' = i,
         pc \in {"prepared", "put"} => \A y \in Yaml : <<i, y>> \notin files \cup refs,
         pc \in {"prepared", "put", "delete_all"} => \A y \in Yaml : rows[y] # i,
         pc \notin {"delete_all", "failed", "incomplete", "dead"} =>
           \A y \in Yaml : <<i, y>> \in files => <<i, y>> \in refs,
         pc = "imported" => marker',
         pc \in {"imported", "skipped", "failed"} =>
           \A y \in Yaml : <<i, y>> \in files => rows[y] = i
  PROVE  ImportInv'
<1>1. ImportTypeOK'
  BY DEF ImportInv, ImportTypeOK
<1>2. Marked'
  BY DEF ImportInv, ImportTypeOK, Marked, Registered
<1>3. NoneYet'
  BY DEF ImportInv, ImportTypeOK, NoneYet, Outcomes
<1>4. NotInRows'
  BY DEF ImportInv, ImportTypeOK, NotInRows, Outcomes
<1>5. ImportedHaveTokens' /\ RemovedStayRemoved'
  BY DEF ImportInv, ImportedHaveTokens, RemovedStayRemoved
<1>6. Listed'
  <2> SUFFICES ASSUME NEW t \in files,
                      imp'[t[1]] \notin {"delete_all", "failed", "incomplete", "dead"}
               PROVE  t \in refs
    BY DEF Listed
  <2>1. t[1] \in Importers /\ t[2] \in Yaml /\ t = <<t[1], t[2]>>
    BY DEF ImportInv, ImportTypeOK
  <2>2. CASE t[1] = i
    BY <2>1, <2>2 DEF ImportInv, ImportTypeOK
  <2>3. CASE t[1] # i
    BY <2>1, <2>3 DEF ImportInv, ImportTypeOK, Listed
  <2> QED BY <2>2, <2>3
<1>7. LeaseHeld'
  BY DEF ImportInv, ImportTypeOK, LeaseHeld
<1>8. FilesHeld'
  <2> SUFFICES ASSUME NEW k \in Importers, imp'[k] = "put" PROVE Own(k) \subseteq files
    BY DEF FilesHeld, Own
  <2>1. CASE k = i
    <3>1. pc = "put"
      BY <2>1 DEF ImportInv, ImportTypeOK
    <3> QED BY <2>1, <3>1 DEF ImportInv, ImportTypeOK, Own
  <2>2. CASE k # i
    BY <2>2 DEF ImportInv, ImportTypeOK, FilesHeld
  <2> QED BY <2>1, <2>2
<1>9. NoStrayTokens'
  <2>1. ASSUME NEW k \in Importers PROVE StraysOf(k)' /\ OneUnknown(k)'
    <3>1. StraysOf(k) /\ OneUnknown(k)
      BY ByImport DEF ImportInv
    <3>2. CASE k = i
      BY <3>1, <3>2 DEF ImportInv, ImportTypeOK, StraysOf, OneUnknown
    <3>3. CASE k # i
      BY <3>1, <3>3 DEF ImportInv, ImportTypeOK, StraysOf, OneUnknown
    <3> QED BY <3>2, <3>3
  <2> QED BY <1>1, <2>1, ByImportNext
<1> QED BY <1>1, <1>2, <1>3, <1>4, <1>5, <1>6, <1>7, <1>8, <1>9 DEF ImportInv

\* Nobody but the holder writes files or looks at a commit of its own.
LEMMA OneHolder ==
  ASSUME ImportInv, NEW i \in Importers,
         imp[i] \in {"put", "verify_own"} \/ lease = Nobody
  PROVE  \A k \in Importers \ {i} : imp[k] \notin {"put", "verify_own"}
  BY ImportAssumption DEF ImportInv, LeaseHeld

LEMMA PrepareKeeps ==
  ASSUME ImportInv, NEW i \in Importers, PrepareImport(i)
  PROVE  ImportInv'
<1>1. \A y \in Yaml : rows[y] # i /\ <<i, y>> \notin files \cup refs
  BY DEF ImportInv, NoneYet, NotInRows, PrepareImport
<1>2. \A k \in Importers \ {i} : imp[k] \in {"put", "verify_own"} => lease' = k
  BY DEF ImportInv, LeaseHeld, PrepareImport
<1> QED BY <1>1, <1>2, OnlyState
    DEF PrepareImport, ImportAt, Outcomes, ImportInv, ImportTypeOK

LEMMA ValidateKeeps ==
  ASSUME ImportInv, NEW i \in Importers, ValidateImport(i)
  PROVE  ImportInv'
<1>1. \A y \in Yaml : rows[y] # i /\ <<i, y>> \notin files \cup refs
  BY DEF ImportInv, NoneYet, NotInRows, ValidateImport
<1>2. \A k \in Importers \ {i} : imp[k] \notin {"put", "verify_own"}
  BY OneHolder DEF ValidateImport
<1> QED BY <1>1, <1>2, OnlyState
    DEF ValidateImport, ImportAt, Outcomes, ImportInv, ImportTypeOK

LEMMA VerifyKeeps ==
  ASSUME ImportInv, NEW i \in Importers, VerifyImport(i)
  PROVE  ImportInv'
<1>1. \A k \in Importers \ {i} : imp[k] \in {"put", "verify_own"} => lease' = k
  BY OneHolder DEF ImportInv, LeaseHeld, VerifyImport
<1>2. \A y \in Yaml : <<i, y>> \in files => <<i, y>> \in refs
  BY DEF ImportInv, Listed, VerifyImport
<1>3. lease' \in Importers \cup {Nobody}
  BY DEF ImportInv, ImportTypeOK, VerifyImport
<1>4. CASE imp' = [imp EXCEPT ![i] = "imported"] /\ marker /\ \A y \in Yaml : rows[y] = i
  BY <1>1, <1>2, <1>3, <1>4, OnlyState DEF VerifyImport, Outcomes, ImportInv, ImportTypeOK
<1>5. CASE \E pc \in {"uncertain", "drop_skip", "drop_fail"} : imp' = [imp EXCEPT ![i] = pc]
  BY <1>1, <1>2, <1>3, <1>5, OnlyState DEF VerifyImport, Outcomes, ImportInv, ImportTypeOK
<1> QED BY <1>4, <1>5 DEF VerifyImport, ImportAt

LEMMA DiesKeeps ==
  ASSUME ImportInv, NEW i \in Importers, ImporterDies(i)
  PROVE  ImportInv'
<1>1. lease' \in Importers \cup {Nobody} /\ marker' \in BOOLEAN /\ (marker => marker')
  BY DEF ImporterDies, ImportInv, ImportTypeOK
<1>2. imp' = [imp EXCEPT ![i] = "dead"] /\ UNCHANGED <<rows, files, refs, removed>>
  BY DEF ImporterDies, ImportAt
<1>3. \A k \in Importers \ {i} : imp[k] \in {"put", "verify_own"} => lease' = k
  BY DEF ImporterDies, ImportInv, LeaseHeld
<1> QED BY <1>1, <1>2, <1>3, OnlyState DEF Outcomes

-----------------------------------------------------------------------------
\* One more file of an import that is in no row; or the import gives up, perhaps
\* with a file it does not know of.
LEMMA PutKeeps ==
  ASSUME ImportInv, NEW i \in Importers, NEW y \in Yaml, PutToken(i, y)
  PROVE  ImportInv'
<1>1. /\ files' = files \cup {<<i, y>>} \/ files' = files
      /\ UNCHANGED <<marker, rows, removed>>
      /\ imp[i] = "put" /\ \A z \in Yaml : rows[z] # i
  BY DEF PutToken, PublishedOrNot, ImportInv, NotInRows
<1>2. \A k \in Importers \ {i} : imp[k] \notin {"put", "verify_own"}
  BY OneHolder, <1>1
<1>3. Own(i) \subseteq files /\ \A z \in Yaml : <<i, z>> \in files => <<i, z>> \in refs
  BY <1>1 DEF ImportInv, FilesHeld, Listed
<1>4. ImportedHaveTokens' /\ RemovedStayRemoved'
  BY <1>1 DEF ImportInv, ImportedHaveTokens, RemovedStayRemoved
<1>5. \A k \in Importers : StraysOf(k) /\ OneUnknown(k)
  BY ByImport DEF ImportInv
<1>6. CASE /\ files' = files \cup {<<i, y>>} /\ refs' = refs \cup {<<i, y>>}
           /\ UNCHANGED <<imp, lease>>
  <2>1. ImportTypeOK' /\ Marked' /\ NotInRows' /\ LeaseHeld'
    BY <1>1, <1>6 DEF ImportInv, ImportTypeOK, Marked, Registered, NotInRows, LeaseHeld
  <2>2. NoneYet'
    BY <1>1, <1>6 DEF ImportInv, NoneYet
  <2>3. Listed' /\ FilesHeld'
    BY <1>6 DEF ImportInv, Listed, FilesHeld, Own
  <2>4. ASSUME NEW k \in Importers PROVE StraysOf(k)' /\ OneUnknown(k)'
    BY <1>1, <1>5, <1>6 DEF StraysOf, OneUnknown
  <2>5. NoStrayTokens'
    BY <2>1, <2>4, ByImportNext
  <2> QED BY <1>4, <2>1, <2>2, <2>3, <2>5 DEF ImportInv
<1>7. CASE imp' = [imp EXCEPT ![i] = "delete_all"] /\ lease' = Nobody /\ UNCHANGED refs
  <2>1. \A k \in Importers : imp'[k] = IF k = i THEN "delete_all" ELSE imp[k]
    BY <1>7 DEF ImportInv, ImportTypeOK
  <2>2. ImportTypeOK'
    BY <1>1, <1>7 DEF ImportInv, ImportTypeOK
  <2>3. Marked' /\ NotInRows' /\ NoneYet'
    BY <1>1, <1>7, <2>1 DEF ImportInv, Marked, Registered, NotInRows, NoneYet
  <2>4. LeaseHeld' /\ FilesHeld'
    BY <1>2, <1>7, <2>1 DEF LeaseHeld, FilesHeld
  <2>5. Listed'
    <3> SUFFICES ASSUME NEW t \in files',
                        imp'[t[1]] \notin {"delete_all", "failed", "incomplete", "dead"}
                 PROVE  t \in refs
      BY <1>7 DEF Listed
    <3>1. t[1] # i
      BY <2>1
    <3>2. t \in files /\ t[1] \in Importers
      BY <1>1, <3>1 DEF ImportInv, ImportTypeOK
    <3> QED BY <2>1, <3>1, <3>2 DEF ImportInv, Listed
  <2>6. ASSUME NEW k \in Importers PROVE StraysOf(k)' /\ OneUnknown(k)'
    <3>1. CASE k = i
      BY <1>1, <1>3, <1>7, <2>1, <3>1 DEF StraysOf, OneUnknown
    <3>2. CASE k # i
      BY <1>1, <1>5, <1>7, <2>1, <3>2 DEF StraysOf, OneUnknown
    <3> QED BY <3>1, <3>2
  <2>7. NoStrayTokens'
    BY <2>2, <2>6, ByImportNext
  <2> QED BY <1>4, <2>2, <2>3, <2>4, <2>5, <2>7 DEF ImportInv
<1> QED BY <1>6, <1>7 DEF PutToken, ImportAt

\* The transaction takes effect: the registry was empty and unmarked, so every
\* other import that ended in order has no file, and this one has all of its.
LEMMA CommitKeeps ==
  ASSUME ImportInv, NEW i \in Importers, NEW pc \in {"imported", "verify_own"},
         imp[i] = "put", \A y \in Yaml : <<i, y>> \in refs, ~Taken, Commit(i),
         imp' = [imp EXCEPT ![i] = pc], UNCHANGED <<files, refs, removed>>,
         lease' \in {lease, Nobody}, pc = "verify_own" => lease' = lease
  PROVE  ImportInv'
<1>1. ~marker /\ removed = {} /\ \A k \in Importers, y \in Yaml : rows[y] # k
  BY ImportAssumption DEF ImportInv, Marked, Taken, Registered
<1>2. \A k \in Importers \ {i} : imp[k] \notin {"put", "verify_own"}
  BY OneHolder
<1>3. \A y \in Yaml : <<i, y>> \in files
  BY DEF ImportInv, FilesHeld, Own
<1>4. \A k \in Importers : imp'[k] = IF k = i THEN pc ELSE imp[k]
  BY DEF ImportInv, ImportTypeOK
<1>5. ImportTypeOK'
  BY DEF Commit, ImportInv, ImportTypeOK, Outcomes
<1>6. Marked' /\ RemovedStayRemoved'
  BY <1>1 DEF Commit, Marked, RemovedStayRemoved
<1>7. NoneYet' /\ NotInRows'
  BY <1>4 DEF Commit, ImportInv, NoneYet, NotInRows
<1>8. Listed'
  BY <1>4 DEF ImportInv, ImportTypeOK, Listed
<1>9. LeaseHeld' /\ FilesHeld'
  BY <1>2, <1>4 DEF ImportInv, LeaseHeld, FilesHeld
<1>10. ImportedHaveTokens'
  BY <1>3 DEF Commit, ImportedHaveTokens
<1>11. ASSUME NEW k \in Importers PROVE StraysOf(k)' /\ OneUnknown(k)'
  <2>1. StraysOf(k) /\ OneUnknown(k)
    BY ByImport DEF ImportInv
  <2>2. OneUnknown(k)'
    BY <2>1 DEF OneUnknown
  <2>3. StraysOf(k)'
    BY <1>1, <1>4, <2>1 DEF StraysOf, Commit
  <2> QED BY <2>2, <2>3
<1>12. NoStrayTokens'
  BY <1>5, <1>11, ByImportNext
<1> QED BY <1>5, <1>6, <1>7, <1>8, <1>9, <1>10, <1>12 DEF ImportInv

LEMMA CommitImportKeeps ==
  ASSUME ImportInv, NEW i \in Importers, CommitImport(i)
  PROVE  ImportInv'
<1>1. \A y \in Yaml : rows[y] # i /\ (<<i, y>> \in files => <<i, y>> \in refs)
  BY DEF CommitImport, ImportInv, NotInRows, Listed
<1>2. lease = i /\ \A k \in Importers \ {i} : imp[k] \notin {"put", "verify_own"}
  BY OneHolder DEF CommitImport, ImportInv, LeaseHeld
<1>3. CASE /\ ~Taken /\ Commit(i)
           /\ \/ imp' = [imp EXCEPT ![i] = "imported"] /\ lease' = Nobody
              \/ imp' = [imp EXCEPT ![i] = "verify_own"] /\ lease' = lease
  BY <1>3, CommitKeeps DEF CommitImport
<1>4. CASE /\ UNCHANGED rows /\ (marker' = TRUE \/ marker' = marker)
           /\ \/ /\ lease' = Nobody
                 /\ \E pc \in {"verify_other", "delete_all", "uncertain"} :
                      imp' = [imp EXCEPT ![i] = pc]
              \/ imp' = [imp EXCEPT ![i] = "verify_own"] /\ lease' = lease
  <2>1. PICK pc \in {"verify_other", "verify_own", "delete_all", "uncertain"} :
          imp' = [imp EXCEPT ![i] = pc] /\ (pc = "verify_own" => lease' = i)
    BY <1>2, <1>4
  <2>2. marker \in BOOLEAN
    BY DEF ImportInv, ImportTypeOK
  <2>3. marker' \in BOOLEAN /\ (marker => marker')
    <3>1. CASE marker' = TRUE
      BY <3>1
    <3>2. CASE marker' = marker
      BY <2>2, <3>2
    <3> QED BY <1>4, <3>1, <3>2
  <2>4. lease' \in Importers \cup {Nobody} /\ UNCHANGED <<rows, files, refs, removed>>
    BY <1>2, <1>4 DEF CommitImport
  <2> QED BY <1>1, <1>2, <2>1, <2>3, <2>4, OnlyState DEF Outcomes
<1> QED BY <1>3, <1>4 DEF CommitImport, ImportAt, Raised

-----------------------------------------------------------------------------
\* Files that no row refers to go, and none of an import that still writes.
LEMMA FilesGo ==
  ASSUME ImportInv, NEW gone, files' = files \ gone,
         \A t \in gone : ~Referenced(t),
         \A t \in gone : imp[t[1]] # "put",
         UNCHANGED <<marker, rows, refs, lease, removed>>
  PROVE  /\ RemovedStayRemoved' /\ ImportedHaveTokens'
         /\ \A i \in Importers : OneUnknown(i)'
         /\ UNCHANGED imp => ImportInv'
<1>1. ImportedHaveTokens'
  BY DEF ImportInv, ImportedHaveTokens, Referenced
<1>2. RemovedStayRemoved'
  BY DEF ImportInv, RemovedStayRemoved
<1>3. \A k \in Importers : StraysOf(k) /\ OneUnknown(k)
  BY ByImport DEF ImportInv
<1>4. \A k \in Importers : OneUnknown(k)'
  BY <1>3 DEF OneUnknown
<1>5. ASSUME UNCHANGED imp PROVE ImportInv'
  <2>1. ImportTypeOK' /\ Marked' /\ NoneYet' /\ NotInRows' /\ Listed' /\ LeaseHeld'
    BY <1>5 DEF ImportInv, ImportTypeOK, Marked, Registered, NoneYet, NotInRows,
                Listed, LeaseHeld
  <2>2. FilesHeld'
    BY <1>5 DEF ImportInv, FilesHeld, Own
  <2>3. ASSUME NEW k \in Importers PROVE StraysOf(k)'
    BY <1>3, <1>5 DEF StraysOf
  <2>4. NoStrayTokens'
    BY <1>4, <2>1, <2>3, ByImportNext
  <2> QED BY <1>1, <1>2, <2>1, <2>2, <2>4 DEF ImportInv
<1> QED BY <1>1, <1>2, <1>4, <1>5

\* What is deleted is in no row: of an import that did not commit nothing is, and
\* after a verification the row is asked.
LEMMA DeleteKeeps ==
  ASSUME ImportInv, NEW i \in Importers, DeleteTokens(i)
  PROVE  ImportInv'
<1> DEFINE doomed == IF imp[i] = "delete_all" THEN Own(i)
                     ELSE {t \in Own(i) : ~Referenced(t)}
           clean == IF imp[i] = "drop_skip" THEN "skipped"
                    ELSE IF doomed # Own(i) THEN "uncertain" ELSE "failed"
<1>1. PICK gone \in SUBSET (doomed \cap files) :
        /\ files' = files \ gone
        /\ \/ gone = doomed /\ imp' = [imp EXCEPT ![i] = clean]
           \/ imp' = [imp EXCEPT ![i] = "incomplete"]
  BY DEF DeleteTokens, ImportAt
<1>2. PICK pc \in {"skipped", "uncertain", "failed", "incomplete"} :
        /\ imp' = [imp EXCEPT ![i] = pc]
        /\ pc # "incomplete" => gone = doomed /\ pc = clean
  BY <1>1
<1>3. \A k \in Importers : imp'[k] = IF k = i THEN pc ELSE imp[k]
  BY <1>2 DEF ImportInv, ImportTypeOK
<1>4. UNCHANGED <<marker, rows, refs, lease, removed>>
      /\ imp[i] \in {"delete_all", "drop_skip", "drop_fail"}
  BY DEF DeleteTokens
<1>5. \A t \in gone : t[1] = i /\ ~Referenced(t)
  <2>1. CASE imp[i] = "delete_all"
    <3>1. \A t \in gone : t \in Own(i) /\ t \in files
      BY <1>1, <2>1
    <3>2. \A t \in gone : t[1] = i /\ t[2] \in Yaml
      BY <3>1 DEF Own, ImportInv, ImportTypeOK
    <3> QED BY <2>1, <3>2 DEF ImportInv, NotInRows, Referenced
  <2>2. CASE imp[i] # "delete_all"
    BY <1>1, <2>2 DEF Own
  <2> QED BY <2>1, <2>2
<1>6. /\ Marked' /\ RemovedStayRemoved' /\ ImportedHaveTokens'
      /\ \A k \in Importers : OneUnknown(k)'
  <2>1. \A t \in gone : imp[t[1]] # "put"
    BY <1>4, <1>5
  <2>2. files' = files \ gone /\ \A t \in gone : ~Referenced(t)
    BY <1>1, <1>5
  <2>3. Marked'
    BY <1>3, <1>4 DEF ImportInv, Marked, Registered
  <2> HIDE DEF doomed, clean
  <2> QED BY <1>4, <2>1, <2>2, <2>3, FilesGo
<1>7. ImportTypeOK'
  BY <1>1, <1>2, <1>4 DEF ImportInv, ImportTypeOK, Outcomes
<1>8. NoneYet' /\ NotInRows' /\ LeaseHeld'
  BY <1>1, <1>3, <1>4 DEF ImportInv, NoneYet, NotInRows, LeaseHeld
<1>9. FilesHeld'
  BY <1>1, <1>3, <1>4, <1>5 DEF ImportInv, FilesHeld, Own
<1>10. ASSUME imp[i] # "delete_all", NEW y \in Yaml, <<i, y>> \in files
       PROVE  <<i, y>> \in refs
  BY <1>4, <1>10 DEF ImportInv, Listed
<1>11. Listed'
  <2> SUFFICES ASSUME NEW t \in files',
                      imp'[t[1]] \notin {"delete_all", "failed", "incomplete", "dead"}
               PROVE  t \in refs
    BY <1>4 DEF Listed
  <2>1. t \in files /\ t[1] \in Importers /\ t[2] \in Yaml /\ t = <<t[1], t[2]>>
    BY <1>1 DEF ImportInv, ImportTypeOK
  <2>2. CASE t[1] # i
    BY <1>3, <2>1, <2>2 DEF ImportInv, Listed
  <2>3. CASE t[1] = i
    <3>1. imp[i] # "delete_all"
      BY <1>2, <1>3, <2>3
    <3> QED BY <1>10, <2>1, <2>3, <3>1
  <2> QED BY <2>2, <2>3
<1>12. ASSUME NEW k \in Importers PROVE StraysOf(k)'
  <2>1. StraysOf(k)
    BY ByImport DEF ImportInv
  <2>2. CASE k # i
    BY <1>1, <1>3, <1>4, <2>1, <2>2 DEF StraysOf
  <2>3. CASE k = i
    <3> SUFFICES ASSUME NEW y \in Yaml, <<i, y>> \in files', rows[y] # i,
                        pc \in {"skipped", "failed"}
                 PROVE  pc = "failed" /\ <<i, y>> \notin refs
      BY <1>2, <1>3, <1>4, <2>3 DEF StraysOf
    <3>1. gone = doomed /\ pc = clean /\ <<i, y>> \in files /\ <<i, y>> \notin gone
      BY <1>1, <1>2
    <3>2. ~Referenced(<<i, y>>)
      BY DEF Referenced
    <3>3. <<i, y>> \notin refs
      BY <3>1, <3>2 DEF Own
    <3>4. imp[i] = "delete_all"
      BY <1>10, <3>1, <3>3
    <3>5. pc = "failed"
      BY <3>1, <3>4
    <3> QED BY <3>3, <3>5
  <2> QED BY <2>2, <2>3
<1>13. NoStrayTokens'
  BY <1>6, <1>7, <1>12, ByImportNext
<1> QED BY <1>6, <1>7, <1>8, <1>9, <1>11, <1>13 DEF ImportInv

\* The sweep of a Manager that has started finds the lease free: no import is
\* between its first file and its transaction.
LEMMA CleanupKeeps ==
  ASSUME ImportInv, CleanupOrphans
  PROVE  ImportInv'
<1>1. PICK gone \in SUBSET {t \in files : ~Referenced(t)} : files' = files \ gone
  BY DEF CleanupOrphans
<1>2. \A t \in gone : t[1] \in Importers
  BY <1>1 DEF ImportInv, ImportTypeOK
<1>3. \A t \in gone : imp[t[1]] # "put"
  BY <1>2, ImportAssumption DEF CleanupOrphans, ImportInv, LeaseHeld
<1>4. UNCHANGED <<marker, rows, refs, lease, removed>> /\ UNCHANGED imp
  BY DEF CleanupOrphans
<1> QED BY <1>1, <1>3, <1>4, FilesGo

LEMMA RemoveKeeps ==
  ASSUME ImportInv, NEW y \in Yaml, RemoveImported(y)
  PROVE  ImportInv'
<1>1. marker
  BY DEF RemoveImported, ImportInv, Marked, Registered
<1>2. ImportTypeOK'
  BY DEF RemoveImported, ImportInv, ImportTypeOK
<1>3. Marked' /\ RemovedStayRemoved'
  BY <1>1 DEF RemoveImported, ImportInv, ImportTypeOK, Marked, Registered,
              RemovedStayRemoved
<1>4. NoneYet' /\ NotInRows' /\ Listed' /\ LeaseHeld'
  BY ImportAssumption
     DEF RemoveImported, ImportInv, ImportTypeOK, NoneYet, NotInRows, Listed, LeaseHeld
<1>5. ImportedHaveTokens'
  BY ImportAssumption
     DEF RemoveImported, ImportInv, ImportTypeOK, ImportedHaveTokens
<1>6. FilesHeld'
  BY DEF RemoveImported, ImportInv, FilesHeld, NotInRows, Own
<1>7. ASSUME NEW k \in Importers PROVE StraysOf(k)' /\ OneUnknown(k)'
  <2>1. StraysOf(k) /\ OneUnknown(k)
    BY ByImport DEF ImportInv
  <2>2. OneUnknown(k)'
    BY <2>1 DEF RemoveImported, OneUnknown
  <2>3. \A z \in Yaml : <<k, z>> \in files' /\ rows'[z] # k => <<k, z>> \in files /\ rows[z] # k
    BY DEF RemoveImported, ImportInv, ImportTypeOK
  <2>4. StraysOf(k)'
    BY <2>1, <2>3 DEF RemoveImported, StraysOf
  <2> QED BY <2>2, <2>4
<1>8. NoStrayTokens'
  BY <1>2, <1>7, ByImportNext
<1> QED BY <1>2, <1>3, <1>4, <1>5, <1>6, <1>8 DEF ImportInv

LEMMA EnrollKeeps ==
  ASSUME ImportInv, NEW y \in Yaml, EnrollAgent(y)
  PROVE  ImportInv'
<1>1. ImportTypeOK' /\ Marked' /\ NoneYet' /\ Listed' /\ LeaseHeld' /\ FilesHeld'
  BY DEF EnrollAgent, ImportInv, ImportTypeOK, Marked, Registered, NoneYet, Listed,
         LeaseHeld, FilesHeld, Own
<1>2. NotInRows' /\ ImportedHaveTokens'
  BY ImportAssumption
     DEF EnrollAgent, ImportInv, ImportTypeOK, NotInRows, ImportedHaveTokens
<1>3. RemovedStayRemoved'
  BY DEF EnrollAgent, ImportInv, ImportTypeOK, RemovedStayRemoved
<1>4. ASSUME NEW k \in Importers PROVE StraysOf(k)' /\ OneUnknown(k)'
  <2>1. StraysOf(k) /\ OneUnknown(k)
    BY ByImport DEF ImportInv
  <2> QED BY <2>1, ImportAssumption
      DEF EnrollAgent, ImportInv, ImportTypeOK, StraysOf, OneUnknown
<1>5. NoStrayTokens'
  BY <1>1, <1>4, ByImportNext
<1> QED BY <1>1, <1>2, <1>3, <1>5 DEF ImportInv

-----------------------------------------------------------------------------
LEMMA StepKeeps == ImportInv /\ [ImportNext]_importVars => ImportInv'
<1> SUFFICES ASSUME ImportInv, [ImportNext]_importVars PROVE ImportInv'
  OBVIOUS
<1>1. CASE UNCHANGED importVars
  BY <1>1 DEF importVars, ImportInv, ImportTypeOK, Marked, Registered, NoneYet, Own,
              NotInRows, Listed, LeaseHeld, FilesHeld, ImportedHaveTokens,
              RemovedStayRemoved, NoStrayTokens, Referenced
<1>2. CASE ImportNext
  BY <1>2, PrepareKeeps, ValidateKeeps, PutKeeps, CommitImportKeeps, VerifyKeeps,
     DeleteKeeps, DiesKeeps, RemoveKeeps, EnrollKeeps, CleanupKeeps DEF ImportNext
<1> QED BY <1>1, <1>2

\* The type invariant of the import: marker, rows, token files, the credential lease
\* and every Manager start stay well formed (fleet/importer.py).
THEOREM ImportTyped == ImportSpec => []ImportTypeOK
<1>1. ImportInv => ImportTypeOK
  BY DEF ImportInv
<1> QED BY <1>1, InitInv, StepKeeps, PTL DEF ImportSpec

\* Whatever fails, dies or runs beside it, an import never leaves a row whose
\* token file is gone (fleet/importer.py).
THEOREM TokensOfImported == ImportSpec => []ImportedHaveTokens
<1>1. ImportInv => ImportedHaveTokens
  BY DEF ImportInv
<1> QED BY <1>1, InitInv, StepKeeps, PTL DEF ImportSpec

\* The configuration file is imported once: no start of a Manager brings back an
\* Agent that was removed (the marker of fleet/importer.py).
THEOREM ImportedOnce == ImportSpec => []RemovedStayRemoved
<1>1. ImportInv => RemovedStayRemoved
  BY DEF ImportInv
<1> QED BY <1>1, InitInv, StepKeeps, PTL DEF ImportSpec

\* An import that imported or skipped leaves no token file without a row, and one
\* that reports a plain failure leaves at most the single file whose put raised
\* after it was published (_delete_new_credentials of fleet/importer.py).
THEOREM CleanImports == ImportSpec => []NoStrayTokens
<1>1. ImportInv => NoStrayTokens
  BY DEF ImportInv
<1> QED BY <1>1, InitInv, StepKeeps, PTL DEF ImportSpec

-----------------------------------------------------------------------------
(* CredentialFiles: the inductive invariant.                               *)

\* The lifecycle lease: whoever is between its first and its last system call
\* holds it.
Exclusive == \A w \in Writes : write[w].pc \in InProgress => holder = w /\ write[w].ref \in Refs

\* Until it is linked or renamed no directory that a power loss may leave names
\* the inode of a write.
Unpublished ==
  \A w \in Writes : write[w].pc \in {"new", "open", "written"} =>
    \A d \in after, r \in Refs : d.ref[r] # w

\* A temporary file that is about to be published is complete and on disk.
Complete == \A w \in Writes : write[w].pc = "written" => data[w] = "full" /\ w \in synced

\* What a write published is still there when it synchronizes the directory.
Placed ==
  \A w \in Writes : write[w].pc \in {"linked", "moved"} =>
    dir.ref[write[w].ref] = IF write[w].op = "delete" THEN NoInode ELSE w

\* An inode has one published name.
OneName ==
  \A d \in after : \A r, q \in Refs : d.ref[r] = d.ref[q] /\ d.ref[r] # NoInode => r = q

FilesInv ==
  /\ FilesTypeOK
  /\ Exclusive
  /\ Unpublished
  /\ Complete
  /\ Placed
  /\ OneName
  /\ NoTornToken
  /\ AckedDurable

-----------------------------------------------------------------------------
(* Directories.                                                            *)

LEMMA DirNamed ==
  ASSUME NEW d \in Dir, NEW r \in Refs, NEW i \in Writes \cup {NoInode}
  PROVE  /\ [d EXCEPT !.ref[r] = i] \in Dir
         /\ \A q \in Refs : [d EXCEPT !.ref[r] = i].ref[q] = IF q = r THEN i ELSE d.ref[q]
  BY DEF Dir

LEMMA DirTemporary ==
  ASSUME NEW d \in Dir, NEW w \in Writes
  PROVE  /\ [d EXCEPT !.tmp = @ \cup {w}] \in Dir /\ [d EXCEPT !.tmp = @ \ {w}] \in Dir
         /\ [d EXCEPT !.tmp = {}] \in Dir
         /\ [d EXCEPT !.tmp = @ \cup {w}].ref = d.ref /\ [d EXCEPT !.tmp = @ \ {w}].ref = d.ref
         /\ [d EXCEPT !.tmp = {}].ref = d.ref
  BY DEF Dir

\* A write moves on, and the others stay.
LEMMA WriteMoves ==
  ASSUME FilesTypeOK, NEW w \in Writes, NEW p, Step(w, p)
  PROVE  /\ write'[w].pc = p /\ write'[w].op = write[w].op /\ write'[w].ref = write[w].ref
         /\ \A v \in Writes \ {w} : write'[v] = write[v]
  BY DEF FilesTypeOK, Step

LEMMA StepType ==
  ASSUME FilesTypeOK, NEW w \in Writes, NEW p \in InProgress \cup {"new", "done", "failed"},
         Step(w, p)
  PROVE  write' \in [Writes -> [pc: InProgress \cup {"new", "done", "failed"},
                                op: {"put", "replace", "delete"}, ref: Refs \cup {NoInode}]]
  BY DEF FilesTypeOK, Step

\* The write under way is the only one.
LEMMA Alone ==
  ASSUME FilesInv, NEW w \in Writes, write[w].pc \in InProgress
  PROVE  /\ \A v \in Writes \ {w} : write[v].pc \notin InProgress
         /\ holder = w /\ write[w].ref \in Refs
  BY DEF FilesInv, Exclusive

LEMMA FilesInit1 == FilesInit => FilesInv
<1> SUFFICES ASSUME FilesInit PROVE FilesInv
  OBVIOUS
<1>1. \A r \in Refs : dir.ref[r] = NoInode /\ acked[r] = NoInode
  BY DEF FilesInit
<1>2. \A w \in Writes : write[w].pc = "new"
  BY DEF FilesInit
<1>3. FilesTypeOK
  <2>1. dir \in Dir
    BY DEF FilesInit, Dir
  <2>2. write \in [Writes -> [pc: InProgress \cup {"new", "done", "failed"},
                              op: {"put", "replace", "delete"}, ref: Refs \cup {NoInode}]]
    BY DEF FilesInit
  <2> QED BY <2>1, <2>2 DEF FilesInit, FilesTypeOK
<1>4. after = {dir}
  BY DEF FilesInit
<1> QED BY <1>1, <1>2, <1>3, <1>4, FilesAssumption
    DEF FilesInv, Exclusive, Unpublished, Complete, Placed, OneName, NoTornToken, AckedDurable,
        InProgress

-----------------------------------------------------------------------------
(* The steps of a write.                                                   *)

\* A write that has not begun starts with its temporary file; or, a delete,
\* with the name it removes.
LEMMA BeginKeeps ==
  ASSUME FilesInv, NEW w \in Writes, NEW r \in Refs, BeginWrite(w, r)
  PROVE  FilesInv'
<1>0. /\ FilesTypeOK /\ dir \in Dir /\ dir \in after /\ after \subseteq Dir
      /\ holder = NoInode /\ holder' = w /\ write[w].pc = "new"
      /\ UNCHANGED <<synced, acked, losses>>
  BY DEF FilesInv, FilesTypeOK, BeginWrite
<1>a. \A v \in Writes : write[v].pc \notin InProgress
  BY <1>0, FilesAssumption DEF FilesInv, Exclusive
<1>b. \A q \in Refs : ~Unanswered(q)
  BY <1>a DEF Unanswered
<1>1. CASE write[w].op = "delete"
  <2> DEFINE d == [dir EXCEPT !.ref[r] = NoInode]
  <2>1. write' = [write EXCEPT ![w].pc = "moved", ![w].ref = r] /\ Change(d) /\ UNCHANGED data
    BY <1>1 DEF BeginWrite
  <2>2. d \in Dir /\ \A q \in Refs : d.ref[q] = IF q = r THEN NoInode ELSE dir.ref[q]
    BY <1>0, DirNamed
  <2> HIDE DEF d
  <2>3. dir' = d /\ after' = after \cup {d}
    BY <2>1 DEF Change
  <2>4. /\ write'[w].pc = "moved" /\ write'[w].ref = r /\ write'[w].op = "delete"
        /\ \A v \in Writes \ {w} : write'[v] = write[v]
    BY <1>0, <1>1, <2>1 DEF FilesTypeOK
  <2>5. write' \in [Writes -> [pc: InProgress \cup {"new", "done", "failed"},
                               op: {"put", "replace", "delete"}, ref: Refs \cup {NoInode}]]
    BY <1>0, <2>1, ZenonT(30) DEF FilesTypeOK, InProgress
  <2>6. FilesTypeOK'
    BY <1>0, <2>1, <2>2, <2>3, <2>5 DEF FilesTypeOK
  <2>7. Exclusive'
    BY <1>0, <1>a, <2>4 DEF Exclusive
  <2>8. Unpublished'
    BY <1>0, <2>2, <2>3, <2>4, FilesAssumption DEF FilesInv, Unpublished
  <2>9. Complete'
    BY <1>0, <2>1, <2>4 DEF FilesInv, Complete
  <2>10. Placed'
    BY <1>a, <2>2, <2>3, <2>4 DEF Placed, InProgress
  <2>11. OneName'
    BY <1>0, <2>2, <2>3 DEF FilesInv, OneName
  <2>12. NoTornToken'
    BY <1>0, <2>1, <2>2, <2>3 DEF FilesInv, NoTornToken
  <2>13. AckedDurable'
    <3>1. Unanswered(r)'
      BY <2>4 DEF Unanswered, InProgress
    <3> QED BY <1>0, <1>b, <2>2, <2>3, <3>1 DEF FilesInv, AckedDurable
  <2> QED BY <2>6, <2>7, <2>8, <2>9, <2>10, <2>11, <2>12, <2>13 DEF FilesInv
<1>2. CASE write[w].op # "delete"
  <2> DEFINE d == [dir EXCEPT !.tmp = @ \cup {w}]
  <2>1. /\ write' = [write EXCEPT ![w].pc = "open", ![w].ref = r] /\ Change(d)
        /\ data' = [data EXCEPT ![w] = "partial"]
    BY <1>2 DEF BeginWrite
  <2>2. d \in Dir /\ d.ref = dir.ref
    BY <1>0, DirTemporary
  <2> HIDE DEF d
  <2>3. dir' = d /\ after' = after \cup {d}
    BY <2>1 DEF Change
  <2>4. /\ write'[w].pc = "open" /\ write'[w].ref = r /\ write'[w].op = write[w].op
        /\ \A v \in Writes \ {w} : write'[v] = write[v]
    BY <1>0, <2>1 DEF FilesTypeOK
  <2>5. write' \in [Writes -> [pc: InProgress \cup {"new", "done", "failed"},
                               op: {"put", "replace", "delete"}, ref: Refs \cup {NoInode}]]
    BY <1>0, <2>1 DEF FilesTypeOK, InProgress
  <2>6. FilesTypeOK'
    BY <1>0, <2>1, <2>2, <2>3, <2>5 DEF FilesTypeOK
  <2>7. Exclusive'
    BY <1>0, <1>a, <2>4 DEF Exclusive
  <2>8. Unpublished'
    BY <1>0, <2>2, <2>3, <2>4 DEF FilesInv, Unpublished
  <2>9. Complete'
    BY <1>0, <2>1, <2>4 DEF FilesInv, FilesTypeOK, Complete
  <2>10. Placed'
    BY <1>a, <2>4 DEF Placed, InProgress
  <2>11. OneName'
    BY <1>0, <2>2, <2>3 DEF FilesInv, OneName
  <2>12. NoTornToken'
    <3>1. \A e \in after', q \in Refs : e.ref[q] # w
      BY <1>0, <2>2, <2>3 DEF FilesInv, Unpublished
    <3>2. \A e \in after', q \in Refs : e.ref[q] \in Writes \cup {NoInode}
      BY <1>0, <2>2, <2>3 DEF Dir
    <3> QED BY <1>0, <2>1, <2>2, <2>3, <3>1, <3>2 DEF FilesInv, FilesTypeOK, NoTornToken
  <2>13. AckedDurable'
    BY <1>0, <1>b, <2>2, <2>3 DEF FilesInv, AckedDurable
  <2> QED BY <2>6, <2>7, <2>8, <2>9, <2>10, <2>11, <2>12, <2>13 DEF FilesInv
<1> QED BY <1>1, <1>2

LEMMA WriteKeeps ==
  ASSUME FilesInv, NEW w \in Writes, WriteTemporary(w)
  PROVE  FilesInv'
<1>0. FilesTypeOK /\ write[w].pc = "open" /\ data' = [data EXCEPT ![w] = "full"]
      /\ synced' = synced \cup {w} /\ UNCHANGED <<dir, after, holder, acked, losses>>
  BY DEF FilesInv, WriteTemporary
<1>1. /\ write'[w].pc = "written" /\ write'[w].op = write[w].op /\ write'[w].ref = write[w].ref
      /\ \A v \in Writes \ {w} : write'[v] = write[v]
  BY <1>0, WriteMoves DEF WriteTemporary
<1>2. FilesTypeOK'
  <2>1. write' \in [Writes -> [pc: InProgress \cup {"new", "done", "failed"},
                               op: {"put", "replace", "delete"}, ref: Refs \cup {NoInode}]]
    BY <1>0, StepType DEF WriteTemporary, InProgress
  <2> QED BY <1>0, <2>1 DEF FilesTypeOK
<1>3. Exclusive' /\ Unpublished' /\ Placed' /\ OneName'
  BY <1>0, <1>1 DEF FilesInv, Exclusive, Unpublished, Placed, OneName, InProgress
<1>4. Complete'
  BY <1>0, <1>1 DEF FilesInv, FilesTypeOK, Complete
<1>5. NoTornToken'
  BY <1>0 DEF FilesInv, FilesTypeOK, NoTornToken, Dir
<1>6. AckedDurable'
  <2>1. \A r \in Refs : Unanswered(r)' <=> Unanswered(r)
    BY <1>0, <1>1 DEF Unanswered, InProgress
  <2> QED BY <1>0, <2>1 DEF FilesInv, AckedDurable
<1> QED BY <1>2, <1>3, <1>4, <1>5, <1>6 DEF FilesInv

\* The temporary file gets its name, by a link or by a rename.
LEMMA PublishKeeps ==
  ASSUME FilesInv, NEW w \in Writes, NEW p \in {"linked", "moved"}, Step(w, p),
         write[w].pc = "written", write[w].op \in {"put", "replace"},
         write[w].op = "put" => dir.ref[write[w].ref] = NoInode,
         NEW d \in Dir, Change(d),
         \A q \in Refs : d.ref[q] = IF q = write[w].ref THEN w ELSE dir.ref[q],
         UNCHANGED <<data, synced, holder, acked, losses>>
  PROVE  FilesInv'
<1>0. /\ FilesTypeOK /\ dir \in Dir /\ dir \in after /\ after \subseteq Dir
      /\ dir' = d /\ after' = after \cup {d}
  BY DEF FilesInv, FilesTypeOK, Change
<1>a. /\ \A v \in Writes \ {w} : write[v].pc \notin InProgress
      /\ holder = w /\ write[w].ref \in Refs
  BY Alone DEF InProgress
<1>1. /\ write'[w].pc = p /\ write'[w].op = write[w].op /\ write'[w].ref = write[w].ref
      /\ \A v \in Writes \ {w} : write'[v] = write[v]
  BY <1>0, WriteMoves
<1>2. FilesTypeOK'
  <2>1. write' \in [Writes -> [pc: InProgress \cup {"new", "done", "failed"},
                               op: {"put", "replace", "delete"}, ref: Refs \cup {NoInode}]]
    BY <1>0, StepType DEF InProgress
  <2> QED BY <1>0, <2>1 DEF FilesTypeOK
<1>3. Exclusive'
  BY <1>a, <1>1 DEF Exclusive
<1>4. Unpublished'
  BY <1>0, <1>1 DEF FilesInv, Unpublished
<1>5. Complete'
  BY <1>1 DEF FilesInv, Complete
<1>6. Placed'
  BY <1>0, <1>a, <1>1 DEF Placed, InProgress
<1>7. OneName'
  <2>1. \A q \in Refs : dir.ref[q] # w
    BY <1>0 DEF FilesInv, Unpublished
  <2> QED BY <1>0, <2>1 DEF FilesInv, OneName
<1>8. NoTornToken'
  <2>1. data[w] = "full" /\ w \in synced
    BY DEF FilesInv, Complete
  <2> QED BY <1>0, <2>1 DEF FilesInv, NoTornToken
<1>9. AckedDurable'
  <2> SUFFICES ASSUME NEW r \in Refs, acked[r] # NoInode, ~Unanswered(r)'
               PROVE  \A e \in after' : e.ref[r] = acked[r]
    BY DEF AckedDurable
  <2>1. Unanswered(r)' <=> Unanswered(r)
    BY <1>1 DEF Unanswered, InProgress
  <2>2. \A e \in after : e.ref[r] = acked[r]
    BY <2>1 DEF FilesInv, AckedDurable
  <2>3. r # write[w].ref
    <3>1. CASE write[w].op = "replace"
      BY <2>1, <3>1 DEF Unanswered, InProgress
    <3>2. CASE write[w].op = "put"
      BY <1>0, <2>2, <3>2
    <3> QED BY <3>1, <3>2
  <2> QED BY <1>0, <2>2, <2>3
<1> QED BY <1>2, <1>3, <1>4, <1>5, <1>6, <1>7, <1>8, <1>9 DEF FilesInv

\* A step whose directory has the published names it had, and that ends or
\* continues the write; its inode is published or it is no longer wanted.
LEMMA SameNames ==
  ASSUME FilesInv, NEW w \in Writes, NEW p \in {"new", "moved", "failed"}, Step(w, p),
         write[w].pc \in InProgress,
         p = "moved" => write[w].pc = "linked",
         NEW d \in Dir, Change(d), d.ref = dir.ref,
         holder' = IF p = "moved" THEN holder ELSE NoInode,
         p = "new" => write[w].pc = "written" /\ data' = [data EXCEPT ![w] = "none"]
                      /\ synced' = synced \ {w} /\ write[w].op = "put",
         p # "new" => UNCHANGED <<data, synced>>,
         acked' = [acked EXCEPT ![write[w].ref] =
                     IF p = "failed" /\ write[w].op # "put" THEN NoInode ELSE @],
         UNCHANGED losses
  PROVE  FilesInv'
<1>0. /\ FilesTypeOK /\ dir \in Dir /\ dir \in after /\ after \subseteq Dir
      /\ dir' = d /\ after' = after \cup {d}
  BY DEF FilesInv, FilesTypeOK, Change
<1>a. /\ \A v \in Writes \ {w} : write[v].pc \notin InProgress
      /\ holder = w /\ write[w].ref \in Refs
  BY Alone
<1>1. /\ write'[w].pc = p /\ write'[w].op = write[w].op /\ write'[w].ref = write[w].ref
      /\ \A v \in Writes \ {w} : write'[v] = write[v]
  BY <1>0, WriteMoves
<1>b. \A e \in after' : \E f \in after : e.ref = f.ref
  BY <1>0
<1>2. FilesTypeOK'
  <2>1. write' \in [Writes -> [pc: InProgress \cup {"new", "done", "failed"},
                               op: {"put", "replace", "delete"}, ref: Refs \cup {NoInode}]]
    BY <1>0, StepType DEF InProgress
  <2>2. acked' \in [Refs -> Writes \cup {NoInode}]
    BY <1>0, <1>a DEF FilesTypeOK
  <2>3. data' \in [Writes -> {"none", "partial", "full"}] /\ synced' \subseteq Writes
    BY <1>0 DEF FilesTypeOK
  <2> QED BY <1>0, <1>a, <2>1, <2>2, <2>3 DEF FilesTypeOK
<1>3. Exclusive'
  BY <1>a, <1>1 DEF Exclusive, InProgress
<1>4. Unpublished'
  BY <1>b, <1>1 DEF FilesInv, Unpublished
<1>5. Complete'
  BY <1>0, <1>a, <1>1 DEF FilesInv, FilesTypeOK, Complete, InProgress
<1>6. Placed'
  BY <1>0, <1>a, <1>1 DEF FilesInv, Placed, InProgress
<1>7. OneName'
  BY <1>b DEF FilesInv, OneName
<1>8. NoTornToken'
  <2> SUFFICES ASSUME NEW e \in after', NEW r \in Refs, e.ref[r] # NoInode
               PROVE  data'[e.ref[r]] = "full" /\ e.ref[r] \in synced'
    BY DEF NoTornToken
  <2>1. PICK f \in after : e.ref = f.ref
    BY <1>b
  <2>2. data[f.ref[r]] = "full" /\ f.ref[r] \in synced /\ f.ref[r] \in Writes
    BY <1>0, <2>1 DEF FilesInv, NoTornToken, FilesTypeOK
  <2>3. p = "new" => f.ref[r] # w
    BY DEF FilesInv, Unpublished
  <2> QED BY <1>0, <2>1, <2>2, <2>3 DEF FilesTypeOK
<1>9. AckedDurable'
  <2> SUFFICES ASSUME NEW r \in Refs, acked'[r] # NoInode, ~Unanswered(r)', NEW e \in after'
               PROVE  e.ref[r] = acked'[r]
    BY DEF AckedDurable
  <2>1. acked'[r] = acked[r]
    BY <1>0, <1>a DEF FilesTypeOK
  <2>2. ~Unanswered(r)
    <3> SUFFICES ASSUME Unanswered(r) PROVE FALSE
      OBVIOUS
    <3>1. write[w].ref = r /\ write[w].op # "put"
      BY <1>a DEF Unanswered
    <3>2. CASE p = "moved"
      BY <1>1, <3>1, <3>2 DEF Unanswered, InProgress
    <3>3. CASE p = "failed"
      BY <1>0, <1>a, <3>1, <3>3 DEF FilesTypeOK
    <3> QED BY <3>1, <3>2, <3>3
  <2>3. PICK f \in after : e.ref = f.ref
    BY <1>b
  <2> QED BY <2>1, <2>2, <2>3 DEF FilesInv, AckedDurable
<1> QED BY <1>2, <1>3, <1>4, <1>5, <1>6, <1>7, <1>8, <1>9 DEF FilesInv

LEMMA LinkKeeps ==
  ASSUME FilesInv, NEW w \in Writes, LinkTemporary(w)
  PROVE  FilesInv'
<1>0. /\ FilesTypeOK /\ dir \in Dir /\ write[w].pc = "written" /\ write[w].op = "put"
      /\ UNCHANGED <<acked, losses>> /\ write[w].ref \in Refs
  BY Alone DEF FilesInv, FilesTypeOK, LinkTemporary, InProgress
<1>1. CASE dir.ref[write[w].ref] = NoInode
  <2> DEFINE d == [dir EXCEPT !.ref[write[w].ref] = w]
  <2>1. d \in Dir /\ \A q \in Refs : d.ref[q] = IF q = write[w].ref THEN w ELSE dir.ref[q]
    BY <1>0, DirNamed
  <2>2. Step(w, "linked") /\ Change(d) /\ UNCHANGED <<data, synced, holder>>
    BY <1>1 DEF LinkTemporary
  <2> HIDE DEF d
  <2> QED BY <1>0, <1>1, <2>1, <2>2, PublishKeeps
<1>2. CASE dir.ref[write[w].ref] # NoInode
  <2> DEFINE d == Untmp(w)
  <2>1. d \in Dir /\ d.ref = dir.ref
    BY <1>0, DirTemporary DEF Untmp
  <2>2. Step(w, "new") /\ Change(d) /\ holder' = NoInode
        /\ data' = [data EXCEPT ![w] = "none"] /\ synced' = synced \ {w}
    BY <1>2 DEF LinkTemporary
  <2>3. acked' = [acked EXCEPT ![write[w].ref] = @]
    BY <1>0 DEF FilesTypeOK
  <2>4. write[w].pc \in InProgress
    BY <1>0 DEF InProgress
  <2> HIDE DEF d
  <2> QED BY <1>0, <2>1, <2>2, <2>3, <2>4, SameNames
<1> QED BY <1>1, <1>2

LEMMA RenameKeeps ==
  ASSUME FilesInv, NEW w \in Writes, RenameTemporary(w)
  PROVE  FilesInv'
<1>0. /\ FilesTypeOK /\ dir \in Dir /\ write[w].pc = "written" /\ write[w].op = "replace"
      /\ UNCHANGED <<data, synced, holder, acked, losses>> /\ write[w].ref \in Refs
      /\ Step(w, "moved")
  BY Alone DEF FilesInv, FilesTypeOK, RenameTemporary, InProgress
<1> DEFINE d == [Untmp(w) EXCEPT !.ref[write[w].ref] = w]
<1>1. Untmp(w) \in Dir /\ Untmp(w).ref = dir.ref
  BY <1>0, DirTemporary DEF Untmp
<1>2. d \in Dir /\ \A q \in Refs : d.ref[q] = IF q = write[w].ref THEN w ELSE dir.ref[q]
  BY <1>0, <1>1, DirNamed
<1>3. Change(d)
  BY DEF RenameTemporary
<1> HIDE DEF d
<1> QED BY <1>0, <1>2, <1>3, PublishKeeps

LEMMA UnlinkKeeps ==
  ASSUME FilesInv, NEW w \in Writes, UnlinkTemporary(w) \/ WriteFails(w)
  PROVE  FilesInv'
<1>0. FilesTypeOK /\ dir \in Dir /\ write[w].pc \in InProgress /\ write[w].ref \in Refs
  BY Alone DEF FilesInv, FilesTypeOK, UnlinkTemporary, WriteFails, InProgress
<1> DEFINE d == Untmp(w)
<1>1. d \in Dir /\ d.ref = dir.ref /\ Change(d) /\ UNCHANGED <<data, synced, losses>>
  BY <1>0, DirTemporary DEF Untmp, UnlinkTemporary, WriteFails
<1>2. CASE UnlinkTemporary(w)
  <2>1. Step(w, "moved") /\ write[w].pc = "linked" /\ holder' = holder
    BY <1>2 DEF UnlinkTemporary
  <2>2. acked' = [acked EXCEPT ![write[w].ref] = @]
    BY <1>2 DEF UnlinkTemporary, FilesInv, FilesTypeOK
  <2> HIDE DEF d
  <2> QED BY <1>0, <1>1, <2>1, <2>2, SameNames
<1>3. CASE WriteFails(w)
  <2>1. Step(w, "failed") /\ holder' = NoInode
    BY <1>3 DEF WriteFails
  <2>2. acked' = [acked EXCEPT ![write[w].ref] = IF write[w].op # "put" THEN NoInode ELSE @]
    BY <1>3 DEF WriteFails
  <2> HIDE DEF d
  <2> QED BY <1>0, <1>1, <2>1, <2>2, SameNames
<1> QED BY <1>2, <1>3

\* The directory is synchronized before the caller is answered.
LEMMA SyncKeeps ==
  ASSUME FilesInv, NEW w \in Writes, SyncDirectory(w)
  PROVE  FilesInv'
<1>0. /\ FilesTypeOK /\ dir \in after /\ write[w].pc = "moved"
      /\ dir' = dir /\ after' = {dir} /\ holder' = NoInode /\ UNCHANGED <<data, synced, losses>>
      /\ acked' = [acked EXCEPT ![write[w].ref] = IF write[w].op = "delete" THEN NoInode ELSE w]
  BY DEF FilesInv, FilesTypeOK, SyncDirectory, SyncDir
<1>a. /\ \A v \in Writes \ {w} : write[v].pc \notin InProgress
      /\ write[w].ref \in Refs
  BY <1>0, Alone DEF InProgress
<1>1. /\ write'[w].pc = "done" /\ write'[w].op = write[w].op /\ write'[w].ref = write[w].ref
      /\ \A v \in Writes \ {w} : write'[v] = write[v]
  BY <1>0, WriteMoves DEF SyncDirectory
<1>2. FilesTypeOK'
  <2>1. write' \in [Writes -> [pc: InProgress \cup {"new", "done", "failed"},
                               op: {"put", "replace", "delete"}, ref: Refs \cup {NoInode}]]
    BY <1>0, StepType DEF SyncDirectory, InProgress
  <2>2. acked' \in [Refs -> Writes \cup {NoInode}]
    BY <1>0, <1>a DEF FilesTypeOK
  <2> QED BY <1>0, <2>1, <2>2 DEF FilesTypeOK
<1>3. Exclusive' /\ Placed'
  BY <1>a, <1>1 DEF Exclusive, Placed, InProgress
<1>4. Unpublished' /\ Complete' /\ OneName' /\ NoTornToken'
  BY <1>0, <1>1 DEF FilesInv, Unpublished, Complete, OneName, NoTornToken
<1>5. AckedDurable'
  <2> SUFFICES ASSUME NEW r \in Refs, acked'[r] # NoInode
               PROVE  dir.ref[r] = acked'[r]
    BY <1>0 DEF AckedDurable
  <2>1. CASE r = write[w].ref
    BY <1>0, <1>a, <2>1 DEF FilesInv, FilesTypeOK, Placed
  <2>2. CASE r # write[w].ref
    <3>1. ~Unanswered(r) /\ acked'[r] = acked[r]
      BY <1>0, <1>a, <2>2 DEF Unanswered, FilesTypeOK
    <3> QED BY <1>0, <3>1 DEF FilesInv, AckedDurable
  <2> QED BY <2>1, <2>2
<1> QED BY <1>2, <1>3, <1>4, <1>5 DEF FilesInv

-----------------------------------------------------------------------------
(* Power losses and the next start.                                        *)

LEMMA LossKeeps ==
  ASSUME FilesInv, PowerLoss
  PROVE  FilesInv'
<1>0. FilesTypeOK /\ synced' = synced /\ losses' = losses + 1 /\ holder' = "starting"
  BY DEF FilesInv, PowerLoss
<1>1. PICK d \in after : dir' = d /\ after' = {d}
  BY DEF PowerLoss
<1>2. /\ data' \in [Writes -> {"none", "partial", "full"}]
      /\ \A w \in synced : data'[w] = data[w]
  BY <1>0 DEF PowerLoss, FilesTypeOK
<1>3. \A w \in Writes : /\ write'[w].pc = IF write[w].pc \in InProgress THEN "failed" ELSE write[w].pc
                        /\ write'[w].op = write[w].op /\ write'[w].ref = write[w].ref
  BY <1>0 DEF PowerLoss, FilesTypeOK
<1>4. \A w \in Writes : write'[w].pc \notin InProgress
  BY <1>3 DEF InProgress
<1>5. acked' = [r \in Refs |-> IF Unanswered(r) THEN NoInode ELSE acked[r]]
  BY DEF PowerLoss
<1>6. FilesTypeOK'
  <2>1. write' \in [Writes -> [pc: InProgress \cup {"new", "done", "failed"},
                               op: {"put", "replace", "delete"}, ref: Refs \cup {NoInode}]]
    <3>1. \A w \in Writes : [write[w] EXCEPT !.pc = "failed"] \in
             [pc: InProgress \cup {"new", "done", "failed"},
              op: {"put", "replace", "delete"}, ref: Refs \cup {NoInode}]
      BY <1>0 DEF FilesTypeOK
    <3> QED BY <1>0, <3>1 DEF PowerLoss, FilesTypeOK
  <2> QED BY <1>0, <1>1, <1>2, <1>5, <2>1 DEF FilesTypeOK
<1>7. Exclusive' /\ Placed'
  BY <1>4 DEF Exclusive, Placed, InProgress
<1>8. Unpublished' /\ OneName'
  BY <1>1, <1>3 DEF FilesInv, Unpublished, OneName
<1>9. Complete'
  BY <1>4 DEF Complete, InProgress
<1>10. NoTornToken'
  BY <1>0, <1>1, <1>2 DEF FilesInv, NoTornToken
<1>11. AckedDurable'
  BY <1>1, <1>5 DEF FilesInv, AckedDurable
<1> QED BY <1>6, <1>7, <1>8, <1>9, <1>10, <1>11 DEF FilesInv

LEMMA RecoverKeeps ==
  ASSUME FilesInv, RecoverTemporaries
  PROVE  FilesInv'
<1>0. /\ FilesTypeOK /\ dir \in Dir /\ dir \in after /\ holder = "starting"
      /\ holder' = NoInode /\ UNCHANGED <<data, synced, write, acked, losses>>
      /\ dir' = [dir EXCEPT !.tmp = {}] /\ after' = {dir'}
  BY DEF FilesInv, FilesTypeOK, RecoverTemporaries
<1>1. dir' \in Dir /\ dir'.ref = dir.ref
  <2>1. [dir EXCEPT !.tmp = {}] \in Dir /\ [dir EXCEPT !.tmp = {}].ref = dir.ref
    BY <1>0 DEF Dir
  <2> QED BY <1>0, <2>1
<1>2. FilesTypeOK'
  BY <1>0, <1>1 DEF FilesTypeOK
<1>3. \A w \in Writes : write[w].pc \notin InProgress
  BY <1>0, FilesAssumption DEF FilesInv, Exclusive
<1>4. Exclusive' /\ Placed'
  BY <1>0, <1>3 DEF Exclusive, Placed, InProgress
<1>5. Unpublished' /\ OneName' /\ Complete' /\ NoTornToken'
  BY <1>0, <1>1 DEF FilesInv, Unpublished, OneName, Complete, NoTornToken
<1>6. AckedDurable'
  <2>1. \A r \in Refs : ~Unanswered(r)
    BY <1>3 DEF Unanswered
  <2>2. \A r \in Refs : acked[r] # NoInode => dir.ref[r] = acked[r]
    BY <1>0, <2>1 DEF FilesInv, AckedDurable
  <2>3. \A e \in after' : e.ref = dir.ref
    BY <1>0, <1>1
  <2> QED BY <1>0, <2>2, <2>3 DEF AckedDurable
<1> QED BY <1>2, <1>4, <1>5, <1>6 DEF FilesInv

LEMMA FilesStep == FilesInv /\ [FilesNext]_filesVars => FilesInv'
<1> SUFFICES ASSUME FilesInv, [FilesNext]_filesVars PROVE FilesInv'
  OBVIOUS
<1>1. CASE UNCHANGED filesVars
  BY <1>1 DEF filesVars, FilesInv, FilesTypeOK, Exclusive, Unpublished, Complete, Placed, OneName,
              NoTornToken, AckedDurable, Unanswered
<1> QED BY <1>1, BeginKeeps, WriteKeeps, LinkKeeps, UnlinkKeeps, RenameKeeps, SyncKeeps,
           LossKeeps, RecoverKeeps DEF FilesNext

\* With one published name, an inode has two links at most.
LEMMA NamesCounted == FilesInv => RecoveryAccepts
<1> SUFFICES ASSUME FilesInv, NEW d \in after, NEW w \in Writes
             PROVE  Links(d, w) <= 2 /\ Cardinality({r \in Refs : d.ref[r] = w}) <= 1
  BY DEF RecoveryAccepts
<1> DEFINE S == {r \in Refs : d.ref[r] = w}
<1>1. Cardinality(S) \in {0, 1}
  <2>1. CASE S = {}
    BY <2>1, FS_EmptySet
  <2>2. CASE S # {}
    <3>1. PICK r \in S : TRUE
      BY <2>2
    <3>2. S = {r}
      BY <3>1, FilesAssumption DEF FilesInv, OneName
    <3> QED BY <3>2, FS_Singleton
  <2> QED BY <2>1, <2>2
<1> HIDE DEF S
<1>2. Links(d, w) = Cardinality(S) + (IF w \in d.tmp THEN 1 ELSE 0)
  BY DEF Links, S
<1>3. Links(d, w) <= 2
  BY <1>1, <1>2
<1>4. Cardinality(S) <= 1
  BY <1>1
<1> QED BY <1>3, <1>4 DEF S

-----------------------------------------------------------------------------
(* The theorems.                                                           *)

\* Every variable of the credential directory keeps its type.
THEOREM FilesTyped == FilesSpec => []FilesTypeOK
<1>1. FilesInv => FilesTypeOK
  BY DEF FilesInv
<1> QED BY <1>1, FilesInit1, FilesStep, PTL DEF FilesSpec

\* Whatever the power loss leaves, no published name leads to a token that is
\* not complete and on disk.
THEOREM TokensNeverTorn == FilesSpec => []NoTornToken
<1>1. FilesInv => NoTornToken
  BY DEF FilesInv
<1> QED BY <1>1, FilesInit1, FilesStep, PTL DEF FilesSpec

\* A token that put or replace answered for is found again after any power loss,
\* unless a replace or a delete of it was under way.
THEOREM AckedAlwaysDurable == FilesSpec => []AckedDurable
<1>1. FilesInv => AckedDurable
  BY DEF FilesInv
<1> QED BY <1>1, FilesInit1, FilesStep, PTL DEF FilesSpec

\* The recovery of temporary files never finds a link count it refuses, so no
\* power loss keeps the Manager from starting.
THEOREM RecoveryAlwaysAccepts == FilesSpec => []RecoveryAccepts
  BY NamesCounted, FilesInit1, FilesStep, PTL DEF FilesSpec

-----------------------------------------------------------------------------
(* LocalBootstrap: the inductive invariant.                                *)

JobRow ==
  [state: States \cup {Absent}, method: Methods, ref: Creds \cup {NoRef},
   owner: 0..MaxLives, lease: Leases, rev: Nat, cli: BOOLEAN, save: BOOLEAN]

AttemptRecord ==
  [pc: {"idle", "issue", "publish", "validate", "activate", "revoke"},
   helper: Creds \cup {NoCred}, snap: JobRow]

RescueRecord ==
  [pc: {"idle", "validate", "activate", "sweep"}, boot: BOOLEAN, snap: JobRow]

AgentRecord ==
  [cred: Creds \cup {NoCred}, state: {"none", "pending", "lapsed", "active", "revoked"}]

WireRecord ==
  [kind: {"issue", "reissue"}, of: 1..MaxTries]
  \cup [kind: Calls, of: Creds, by: {"attempt", "rescue"}]

\* The states of a saved activation, and the ones that are out of reach of an
\* attempt whose activation is not saved.
SavedStates == {"activation_requested", "activated"}
Settled == SavedStates \cup {"consumed", Absent}

\* The type invariant with its records in full; an attempt past its issue knows
\* its credential, and only a Manager that may start again is down.
BootTyped ==
  /\ job \in JobRow /\ due \in BOOLEAN
  /\ attempt \in AttemptRecord /\ rescue \in RescueRecord /\ agent \in AgentRecord
  /\ used \subseteq Creds /\ tokens \subseteq Creds /\ wire \subseteq WireRecord
  /\ member \in Creds \cup {NoCred} /\ tries \in 0..MaxTries
  /\ life \in [n: 1..MaxLives, up: BOOLEAN]
  /\ ~life.up => life.n < MaxLives
  /\ attempt.pc \in {"publish", "validate", "activate", "revoke"} => attempt.helper \in Creds

\* An attempt runs in a Manager that is up and has recovered, for an Agent that is
\* not registered, and no incarnation before this one holds the row's claim.
BootAlone ==
  /\ attempt.pc # "idle" =>
       life.up /\ ~rescue.boot /\ member = NoCred /\ job.owner \in {NoOwner, life.n}
  /\ rescue.pc # "idle" \/ rescue.boot => life.up

\* What the row may be in each phase of an attempt and of another recover().  The
\* row an activation claimed is the stored one until its fence is lost, and then
\* the row has ended or verifies again.
BootPhases ==
  /\ attempt.pc \in {"issue", "publish"} => job.state = "running" /\ ~due
  /\ attempt.pc \in {"validate", "revoke"} => job.state \notin Settled
  /\ attempt.pc = "validate" =>
       attempt.snap.state = "verifying" /\ attempt.snap.ref = attempt.helper
  /\ attempt.pc = "revoke" => attempt.snap.owner \in {NoOwner, life.n}
  /\ attempt.pc = "activate" =>
       /\ attempt.snap.state = "activation_requested" /\ attempt.snap.ref = attempt.helper
       /\ attempt.snap.owner = life.n /\ attempt.snap.lease = "live"
       /\ \/ job = attempt.snap
          \/ job.rev > attempt.snap.rev /\ job.state \notin Settled
  /\ rescue.pc = "activate" =>
       /\ job = rescue.snap /\ job.state = "activation_requested"
       /\ job.owner = life.n /\ attempt.pc = "idle"

\* A claim is on a row with a credential; an activated row is the Agent's own; a
\* registered Agent's row is consumed.
BootRows ==
  /\ job.owner # NoOwner => job.state \in CredentialStates
  /\ job.state = "running" => job.ref = NoRef /\ job.owner = NoOwner
  /\ job.state = "activated" => agent = [cred |-> job.ref, state |-> "active"]
  /\ member # NoCred => job.state = "consumed" /\ job.ref = NoRef

\* Every credential that is named anywhere was issued.
BootIssued ==
  /\ attempt.helper \in used \cup {NoCred} /\ tokens \subseteq used
  /\ job.ref \in used \cup {NoRef} /\ agent.cred \in used \cup {NoCred}
  /\ member \in used \cup {NoCred}
  /\ attempt.snap.ref \in used \cup {NoRef} /\ rescue.snap.ref \in used \cup {NoRef}
  /\ \A m \in wire : m.kind \in Calls => m.of \in used

\* No revoke is under way for the registered credential, for a saved one, or for
\* the one an attempt still works with.
BootRevokes ==
  \A m \in wire : m.kind = "revoke" =>
    /\ m.of # member
    /\ job.state \in SavedStates => m.of # job.ref
    /\ attempt.pc \in {"publish", "validate", "activate"} => m.of # attempt.helper

BootInv ==
  /\ BootTyped /\ BootAlone /\ BootPhases /\ BootRows
  /\ BootIssued /\ BootRevokes /\ LocalUsable

-----------------------------------------------------------------------------
(* Rows and requests.                                                      *)

LEMMA ClaimedRow ==
  ASSUME NEW r \in JobRow, NEW n \in 1..MaxLives
  PROVE  /\ ClaimRow(r, n) \in JobRow /\ ClaimRow(r, n).state = r.state
         /\ ClaimRow(r, n).ref = r.ref /\ ClaimRow(r, n).owner = n
         /\ ClaimRow(r, n).lease = "live" /\ ClaimRow(r, n).rev = r.rev + 1
<1>1. n \in 0..MaxLives /\ r.rev + 1 \in Nat
  BY BootstrapAssumption DEF JobRow
<1>2. "live" \in Leases
  BY DEF Leases
<1> QED
  BY <1>1, <1>2, Zenon DEF ClaimRow, JobRow

LEMMA ClearedRow ==
  ASSUME NEW r \in JobRow
  PROVE  /\ ClearClaim(r) \in JobRow /\ ClearClaim(r).state = r.state
         /\ ClearClaim(r).ref = r.ref /\ ClearClaim(r).owner = NoOwner
         /\ ClearClaim(r).rev = r.rev + 1
<1>1. NoOwner \in 0..MaxLives /\ r.rev + 1 \in Nat
  BY BootstrapAssumption DEF JobRow, NoOwner
<1>2. "none" \in Leases
  BY DEF Leases
<1> QED
  BY <1>1, <1>2, Zenon DEF ClearClaim, JobRow

LEMMA StateRow ==
  ASSUME NEW r \in JobRow, NEW s \in States
  PROVE  /\ [r EXCEPT !.state = s] \in JobRow /\ [r EXCEPT !.state = s].state = s
         /\ [r EXCEPT !.state = s].ref = r.ref /\ [r EXCEPT !.state = s].owner = r.owner
         /\ [r EXCEPT !.state = s].rev = r.rev /\ [r EXCEPT !.state = s].lease = r.lease
  BY DEF JobRow

LEMMA EndedRow ==
  ASSUME NEW r \in JobRow
  PROVE  /\ ExpireRow(r) \in JobRow /\ ExpireRow(r).state = "expired"
         /\ ExpireRow(r).ref = r.ref /\ ExpireRow(r).owner = NoOwner
         /\ ExpireRow(r).rev = r.rev + 1
         /\ FailRow(r) \in JobRow /\ FailRow(r).state = "failed"
         /\ FailRow(r).ref = r.ref /\ FailRow(r).owner = NoOwner
         /\ FailRow(r).rev = r.rev + 1
  BY ClearedRow DEF ExpireRow, FailRow, JobRow, States

LEMMA ConsumedRow ==
  ASSUME NEW r \in JobRow
  PROVE  /\ ConsumeRow(r) \in JobRow /\ ConsumeRow(r).state = "consumed"
         /\ ConsumeRow(r).ref = NoRef /\ ConsumeRow(r).owner = NoOwner
         /\ ConsumeRow(r).rev = r.rev + 1
  BY ClearedRow DEF ConsumeRow, JobRow, States

LEMMA CleanedRow ==
  ASSUME NEW r \in JobRow
  PROVE  /\ FinishCleanupRow(r) \in JobRow /\ FinishCleanupRow(r).state = r.state
         /\ FinishCleanupRow(r).ref = NoRef /\ FinishCleanupRow(r).owner = r.owner
         /\ FinishCleanupRow(r).rev = r.rev
  BY DEF FinishCleanupRow, JobRow

LEMMA EmptyRow ==
  /\ NoRow \in JobRow /\ NoRow.state = Absent /\ NoRow.ref = NoRef
  /\ NoRow.owner = NoOwner
  BY BootstrapAssumption DEF NoRow, JobRow, Absent, NoOwner, Methods, Leases

LEMMA NewRows ==
  ASSUME NEW r \in JobRow
  PROVE  LET first == [NoRow EXCEPT !.state = "running"]
         IN /\ first \in JobRow /\ first.state = "running" /\ first.ref = NoRef
            /\ first.owner = NoOwner
            /\ Rearmed(r) \in JobRow /\ Rearmed(r).state = "running"
            /\ Rearmed(r).ref = NoRef /\ Rearmed(r).owner = NoOwner
<1>1. "running" \in States /\ r.rev + 1 \in Nat
  BY DEF JobRow, States
<1> QED
  BY <1>1, EmptyRow, Zenon DEF Rearmed, JobRow

LEMMA RequestTyped ==
  ASSUME NEW kind \in Calls, NEW c \in Creds, NEW by \in {"attempt", "rescue"}
  PROVE  /\ Request(kind, c, by) \in WireRecord
         /\ Request(kind, c, by).kind = kind /\ Request(kind, c, by).of = c
  BY DEF Request, WireRecord

LEMMA BootInitInv == BootstrapInit => BootInv
<1> SUFFICES ASSUME BootstrapInit PROVE BootInv
  OBVIOUS
<1>1. Resting \in AttemptRecord /\ Unrescued \in RescueRecord
      /\ agent \in AgentRecord
  BY EmptyRow DEF Resting, Unrescued, AttemptRecord, RescueRecord, BootstrapInit, AgentRecord
<1>2. BootTyped
  <2>1. 1 \in 1..MaxLives /\ tries \in 0..MaxTries
    BY BootstrapAssumption DEF BootstrapInit
  <2>2. life \in [n: 1..MaxLives, up: BOOLEAN] /\ life.up
    BY <2>1 DEF BootstrapInit
  <2> QED
    BY <1>1, <2>1, <2>2, EmptyRow DEF BootTyped, BootstrapInit, Resting
<1>3. BootAlone /\ BootPhases
  BY DEF BootAlone, BootPhases, BootstrapInit, Resting, Unrescued
<1>4. BootRows /\ BootIssued /\ BootRevokes /\ LocalUsable
  BY EmptyRow
  DEF BootRows, BootIssued, BootRevokes, LocalUsable, BootstrapInit, Resting, Unrescued,
      Absent, CredentialStates, NoOwner, SavedStates
<1> QED
  BY <1>2, <1>3, <1>4 DEF BootInv

LEMMA RestingTyped ==
  /\ Resting \in AttemptRecord /\ Resting.pc = "idle" /\ Resting.helper = NoCred
  /\ Resting.snap = NoRow
  BY EmptyRow DEF Resting, AttemptRecord

-----------------------------------------------------------------------------
(* An attempt.                                                             *)

\* Compensating for a row that may have been written just before: a saved one is
\* left alone, and the credential of any other is revoked.
LEMMA CompensationKeeps ==
  ASSUME BootInv, attempt.helper \in Creds, attempt.pc # "idle", rescue.pc # "activate",
         job' \in JobRow, job'.owner \in {NoOwner, life.n},
         job'.state \notin {"consumed", Absent}, job'.ref \in used \cup {NoRef},
         job'.owner # NoOwner => job'.state \in CredentialStates,
         job'.state = "running" => job'.ref = NoRef /\ job'.owner = NoOwner,
         job'.state = "activated" => agent = [cred |-> job'.ref, state |-> "active"],
         job'.state \in CredentialStates => job'.ref \in tokens,
         job'.state \in SavedStates => \A m \in wire : m.kind = "revoke" => m.of # job'.ref,
         BeginCompensation(job'),
         UNCHANGED <<due, rescue, agent, used, tokens, member, tries, life>>
  PROVE  BootInv'
<1>0. member = NoCred
  BY DEF BootInv, BootAlone
<1>1. CASE job'.state \in SavedStates
  <2>1. attempt' = Resting /\ wire' = wire
    BY <1>1 DEF BeginCompensation, SavedStates
  <2>2. BootTyped'
    BY <2>1, RestingTyped DEF BootInv, BootTyped
  <2>3. BootAlone' /\ BootPhases'
    BY <2>1, RestingTyped DEF BootInv, BootAlone, BootPhases
  <2>4. BootRows' /\ BootIssued' /\ LocalUsable'
    BY <1>0, <2>1, RestingTyped, EmptyRow DEF BootInv, BootRows, BootIssued, LocalUsable
  <2>5. BootRevokes'
    BY <1>0, <2>1, RestingTyped DEF BootInv, BootRevokes
  <2> QED
    BY <2>2, <2>3, <2>4, <2>5 DEF BootInv
<1>2. CASE job'.state \notin SavedStates
  <2> DEFINE q == Request("revoke", attempt.helper, "attempt")
  <2>1. attempt' = [attempt EXCEPT !.pc = "revoke", !.snap = job'] /\ wire' = wire \cup {q}
    BY <1>2 DEF BeginCompensation, SavedStates
  <2>2. /\ attempt' \in AttemptRecord /\ attempt'.pc = "revoke"
        /\ attempt'.helper = attempt.helper /\ attempt'.snap = job'
    BY <2>1 DEF BootInv, BootTyped, AttemptRecord
  <2>3. q \in WireRecord /\ q.kind = "revoke" /\ q.of = attempt.helper
    BY RequestTyped DEF Calls
  <2> HIDE DEF q
  <2>4. BootTyped'
    BY <2>1, <2>2, <2>3 DEF BootInv, BootTyped
  <2>5. BootAlone' /\ BootPhases'
    BY <1>2, <2>2 DEF BootInv, BootAlone, BootPhases, Settled
  <2>6. BootRows' /\ LocalUsable'
    BY <1>0 DEF BootInv, BootRows, LocalUsable
  <2>7. BootIssued'
    BY <2>1, <2>2, <2>3, BootstrapAssumption DEF BootInv, BootIssued, BootTyped
  <2>8. BootRevokes'
    BY <1>0, <1>2, <2>1, <2>2, <2>3, BootstrapAssumption DEF BootInv, BootRevokes
  <2> QED
    BY <2>4, <2>5, <2>6, <2>7, <2>8 DEF BootInv
<1> QED
  BY <1>1, <1>2

\* The row as it is satisfies what a compensation asks of it.
LEMMA AsItIs ==
  ASSUME BootInv, attempt.pc \in {"publish", "validate", "activate"},
         BeginCompensation(job),
         UNCHANGED <<job, due, rescue, agent, used, tokens, member, tries, life>>
  PROVE  BootInv'
<1>1. /\ attempt.helper \in Creds /\ attempt.pc # "idle" /\ rescue.pc # "activate"
      /\ job \in JobRow /\ job.owner \in {NoOwner, life.n}
  BY DEF BootInv, BootTyped, BootAlone, BootPhases
<1>2. job.state \notin {"consumed", Absent}
  BY DEF BootInv, BootPhases, Settled, SavedStates, Absent
<1>3. /\ job.ref \in used \cup {NoRef}
      /\ job.owner # NoOwner => job.state \in CredentialStates
      /\ job.state = "running" => job.ref = NoRef /\ job.owner = NoOwner
      /\ job.state = "activated" => agent = [cred |-> job.ref, state |-> "active"]
      /\ job.state \in CredentialStates => job.ref \in tokens
      /\ job.state \in SavedStates => \A m \in wire : m.kind = "revoke" => m.of # job.ref
  BY DEF BootInv, BootRows, BootIssued, BootRevokes, LocalUsable
<1>4. BeginCompensation(job')
  BY DEF BeginCompensation
<1> QED
  BY <1>1, <1>2, <1>3, <1>4, CompensationKeeps

LEMMA ValidateFailsKeeps == BootInv /\ ValidateFails => BootInv'
  BY AsItIs DEF ValidateFails

LEMMA CancelActivationKeeps == BootInv /\ CancelActivation => BootInv'
  BY AsItIs DEF CancelActivation

LEMMA IssueFailsKeeps == BootInv /\ IssueFails => BootInv'
<1> SUFFICES ASSUME BootInv, IssueFails PROVE BootInv'
  OBVIOUS
<1>1. /\ attempt' = Resting /\ member = NoCred /\ rescue.pc # "activate"
      /\ job.state = "running" /\ job' = [job EXCEPT !.state = "failed"]
      /\ UNCHANGED <<due, rescue, agent, used, tokens, wire, member, tries, life>>
  BY DEF IssueFails, BootInv, BootAlone, BootPhases
<1>2. /\ job' \in JobRow /\ job'.state = "failed" /\ job'.ref = job.ref
      /\ job'.owner = NoOwner
  BY <1>1, StateRow DEF BootInv, BootTyped, BootRows, States
<1>3. BootTyped'
  BY <1>1, <1>2, RestingTyped DEF BootInv, BootTyped
<1>4. BootAlone' /\ BootPhases'
  BY <1>1, <1>2, RestingTyped DEF BootInv, BootAlone, BootPhases
<1>5. BootRows' /\ BootIssued' /\ BootRevokes' /\ LocalUsable'
  BY <1>1, <1>2, RestingTyped, EmptyRow
  DEF BootInv, BootRows, BootIssued, BootRevokes, LocalUsable, CredentialStates, SavedStates
<1> QED
  BY <1>3, <1>4, <1>5 DEF BootInv

LEMMA RevokeFailsKeeps == BootInv /\ RevokeFails => BootInv'
<1> SUFFICES ASSUME BootInv, RevokeFails PROVE BootInv'
  OBVIOUS
<1>1. /\ attempt' = Resting
      /\ UNCHANGED <<job, due, rescue, agent, used, tokens, wire, member, tries, life>>
  BY DEF RevokeFails
<1>2. BootTyped'
  BY <1>1, RestingTyped DEF BootInv, BootTyped
<1>3. BootAlone' /\ BootPhases'
  BY <1>1, RestingTyped DEF BootInv, BootAlone, BootPhases
<1>4. BootRows' /\ BootIssued' /\ BootRevokes' /\ LocalUsable'
  BY <1>1, RestingTyped, EmptyRow
  DEF BootInv, BootRows, BootIssued, BootRevokes, LocalUsable
<1> QED
  BY <1>2, <1>3, <1>4 DEF BootInv

LEMMA PublishHelperKeeps == BootInv /\ Publish => BootInv'
<1> SUFFICES ASSUME BootInv, Publish PROVE BootInv'
  OBVIOUS
<1>1. CASE BeginCompensation(job) /\ UNCHANGED <<job, tokens>>
  BY <1>1, AsItIs DEF Publish
<1>2. CASE ~(BeginCompensation(job) /\ UNCHANGED <<job, tokens>>)
  <2> DEFINE row == [job EXCEPT !.state = "verifying", !.ref = attempt.helper]
  <2>1. /\ attempt.pc = "publish" /\ job.state = "running" /\ job' = row
        /\ attempt' = [attempt EXCEPT !.pc = "validate", !.snap = row]
        /\ tokens' = tokens \cup {attempt.helper} /\ wire' = wire
        /\ UNCHANGED <<due, rescue, agent, used, member, tries, life>>
    BY <1>2 DEF Publish
  <2>2. attempt.helper \in Creds /\ attempt.helper \in used /\ "verifying" \in States
    BY <2>1, BootstrapAssumption DEF BootInv, BootTyped, BootIssued, States
  <2>3. /\ row \in JobRow /\ row.state = "verifying" /\ row.ref = attempt.helper
        /\ row.owner = job.owner
    BY <2>2, Zenon DEF BootInv, BootTyped, JobRow
  <2> HIDE DEF row
  <2>4. /\ attempt' \in AttemptRecord /\ attempt'.pc = "validate"
        /\ attempt'.helper = attempt.helper /\ attempt'.snap = row
    BY <2>1, <2>3 DEF BootInv, BootTyped, AttemptRecord
  <2>5. member = NoCred /\ job.owner = NoOwner /\ rescue.pc # "activate"
    BY <2>1 DEF BootInv, BootAlone, BootRows, BootPhases
  <2>6. BootTyped'
    BY <2>1, <2>2, <2>3, <2>4 DEF BootInv, BootTyped
  <2>7. BootAlone' /\ BootPhases'
    BY <2>1, <2>3, <2>4, <2>5 DEF BootInv, BootAlone, BootPhases, Settled, SavedStates, Absent
  <2>8. BootRows' /\ LocalUsable'
    BY <2>1, <2>3, <2>5 DEF BootInv, BootRows, LocalUsable
  <2>9. BootIssued'
    BY <2>1, <2>2, <2>3, <2>4 DEF BootInv, BootIssued
  <2>10. BootRevokes'
    BY <2>1, <2>3, <2>4 DEF BootInv, BootRevokes, SavedStates
  <2> QED
    BY <2>6, <2>7, <2>8, <2>9, <2>10 DEF BootInv
<1> QED
  BY <1>1, <1>2

\* The save: the snapshot is claimed and its activation requested, or its token is
\* gone and it fails.
LEMMA ValidateAndSaveKeeps == BootInv /\ ValidateAndSave => BootInv'
<1> SUFFICES ASSUME BootInv, ValidateAndSave PROVE BootInv'
  OBVIOUS
<1> DEFINE saved == [attempt.snap EXCEPT !.state = "activation_requested", !.save = TRUE]
           claimed == ClaimRow(saved, life.n)
           q == Request("activate", attempt.helper, "attempt")
<1>0. /\ attempt.pc = "validate" /\ attempt.helper \in Creds /\ attempt.helper \in used
      /\ attempt.snap \in JobRow /\ attempt.snap.ref = attempt.helper
      /\ life.n \in 1..MaxLives /\ "activation_requested" \in States
      /\ member = NoCred /\ rescue.pc # "activate"
      /\ UNCHANGED <<due, rescue, agent, used, tokens, member, tries, life>>
  BY BootstrapAssumption
  DEF ValidateAndSave, BootInv, BootTyped, BootIssued, BootPhases, BootAlone, AttemptRecord,
      States
<1>1. saved \in JobRow /\ saved.state = "activation_requested" /\ saved.ref = attempt.helper
  BY <1>0, Zenon DEF JobRow
<1>2. /\ claimed \in JobRow /\ claimed.state = "activation_requested"
      /\ claimed.ref = attempt.helper /\ claimed.owner = life.n /\ claimed.lease = "live"
  <2> HIDE DEF saved
  <2> QED BY <1>0, <1>1, ClaimedRow
<1>3. CASE attempt.helper \in tokens
  <2>1. /\ job' = claimed /\ wire' = wire \cup {q}
        /\ attempt' = [attempt EXCEPT !.pc = "activate", !.snap = claimed]
    BY <1>3 DEF ValidateAndSave
  <2>2. q \in WireRecord /\ q.kind = "activate" /\ q.of = attempt.helper
    BY <1>0, RequestTyped DEF Calls
  <2> HIDE DEF claimed, q
  <2>3. /\ attempt' \in AttemptRecord /\ attempt'.pc = "activate"
        /\ attempt'.helper = attempt.helper /\ attempt'.snap = claimed
    BY <1>2, <2>1 DEF BootInv, BootTyped, AttemptRecord
  <2>4. BootTyped'
    BY <1>0, <1>2, <2>1, <2>2, <2>3 DEF BootInv, BootTyped
  <2>5. BootAlone' /\ BootPhases'
    BY <1>0, <1>2, <2>1, <2>3 DEF BootInv, BootAlone, BootPhases
  <2>6. BootRows' /\ LocalUsable'
    BY <1>0, <1>2, <1>3, <2>1 DEF BootInv, BootRows, LocalUsable, CredentialStates
  <2>7. BootIssued'
    BY <1>0, <1>2, <2>1, <2>2, <2>3 DEF BootInv, BootIssued
  <2>8. BootRevokes'
    BY <1>0, <1>2, <2>1, <2>2, <2>3 DEF BootInv, BootRevokes
  <2> QED
    BY <2>4, <2>5, <2>6, <2>7, <2>8 DEF BootInv
<1>4. CASE attempt.helper \notin tokens
  <2>1. job' = FailRow(claimed) /\ BeginCompensation(job')
    BY <1>4 DEF ValidateAndSave
  <2> HIDE DEF claimed
  <2>2. /\ job' \in JobRow /\ job'.state = "failed" /\ job'.ref = attempt.helper
        /\ job'.owner = NoOwner
    BY <1>2, <2>1, EndedRow
  <2>3. job'.state \notin CredentialStates /\ job'.state \notin SavedStates
        /\ job'.state \notin {"consumed", Absent}
    BY <2>2 DEF CredentialStates, SavedStates, Absent
  <2> QED
    BY <1>0, <2>1, <2>2, <2>3, CompensationKeeps
<1> QED
  BY <1>3, <1>4

\* A claim that still holds is the one the attempt took.
LEMMA AttemptHolds ==
  ASSUME BootInv, attempt.pc = "activate", Holds(job, life.n, attempt.snap.rev)
  PROVE  /\ job.state = "activation_requested" /\ job.ref = attempt.helper
         /\ job.owner = life.n
  BY DEF BootInv, BootTyped, BootPhases, Holds, AttemptRecord, JobRow

LEMMA ActivationAnsweredKeeps == BootInv /\ ActivationAnswered => BootInv'
<1> SUFFICES ASSUME BootInv, ActivationAnswered PROVE BootInv'
  OBVIOUS
<1> DEFINE q == Request("activate", attempt.helper, "attempt")
<1>0. /\ attempt.pc = "activate" /\ attempt.helper \in Creds /\ attempt.helper \in used
      /\ job \in JobRow /\ member = NoCred /\ rescue.pc # "activate"
      /\ UNCHANGED <<due, rescue, agent, used, tokens, tries, life>>
  BY BootstrapAssumption
  DEF ActivationAnswered, BootInv, BootTyped, BootIssued, BootPhases, BootAlone
<1>1. q.of = attempt.helper
  BY DEF Request
<1>2. CASE job'.state = "consumed"
  <2>1. job.state # "consumed"
    BY <1>0 DEF BootInv, BootPhases, Settled
  <2>2. ClearClaim(job).state # "consumed"
    BY <1>0, <2>1, ClearedRow
  <2>3. [RenewRow(job) EXCEPT !.state = "activated"].state # "consumed"
    BY <1>0 DEF RenewRow, JobRow
  <2>4. /\ Holds(job, life.n, attempt.snap.rev) /\ Activated(q)
        /\ job' = ConsumeRow(job) /\ member' = job.ref
        /\ attempt' = Resting /\ wire' = wire
    BY <1>2, <2>1, <2>2, <2>3 DEF ActivationAnswered, FinishActivation
  <2>5. agent = [cred |-> attempt.helper, state |-> "active"]
    BY <1>1, <2>4 DEF Activated
  <2>6. job.state = "activation_requested" /\ member' = attempt.helper
    BY <1>0, <2>4, AttemptHolds
  <2>7. /\ job' \in JobRow /\ job'.state = "consumed" /\ job'.ref = NoRef
        /\ job'.owner = NoOwner
    BY <1>0, <2>4, ConsumedRow
  <2>8. attempt.helper \in tokens
    BY <1>0, <2>4, <2>6, AttemptHolds DEF BootInv, LocalUsable, CredentialStates
  <2>9. BootTyped'
    BY <1>0, <2>4, <2>6, <2>7, RestingTyped DEF BootInv, BootTyped
  <2>10. BootAlone' /\ BootPhases'
    BY <1>0, <2>4, RestingTyped DEF BootInv, BootAlone, BootPhases
  <2>11. BootRows' /\ LocalUsable'
    BY <1>0, <2>4, <2>5, <2>6, <2>7, <2>8
    DEF BootInv, BootRows, LocalUsable, CredentialStates
  <2>12. BootIssued'
    BY <1>0, <2>4, <2>6, <2>7, RestingTyped, EmptyRow DEF BootInv, BootIssued
  <2>13. BootRevokes'
    BY <1>0, <2>4, <2>6, <2>7, RestingTyped DEF BootInv, BootRevokes, SavedStates
  <2> QED
    BY <2>9, <2>10, <2>11, <2>12, <2>13 DEF BootInv
<1>3. CASE job'.state # "consumed"
  <2>0. BeginCompensation(job')
    BY <1>3 DEF ActivationAnswered
  <2>1. CASE job' = job
    <3>1. member' = member
      BY <1>0, <2>1, ConsumedRow DEF ActivationAnswered, FinishActivation, BootInv, BootPhases, Settled
    <3> QED
      BY <1>0, <2>0, <2>1, <3>1, AsItIs
  <2>2. CASE Holds(job, life.n, attempt.snap.rev) /\ job' = ClearClaim(job) /\ member' = member
    <3>1. /\ job' \in JobRow /\ job'.state = "activation_requested"
          /\ job'.ref = attempt.helper /\ job'.owner = NoOwner
      BY <1>0, <2>2, ClearedRow, AttemptHolds
    <3>2. /\ job.ref = attempt.helper /\ job.state = "activation_requested"
          /\ attempt.helper \in tokens
      BY <1>0, <2>2, AttemptHolds DEF BootInv, LocalUsable, CredentialStates
    <3>3. \A m \in wire : m.kind = "revoke" => m.of # job'.ref
      BY <1>0, <3>1 DEF BootInv, BootRevokes
    <3>4. job'.state \notin {"consumed", Absent, "running", "activated"}
      BY <3>1 DEF Absent
    <3> QED
      BY <1>0, <2>0, <2>2, <3>1, <3>2, <3>3, <3>4, CompensationKeeps
  <2>3. CASE /\ Holds(job, life.n, attempt.snap.rev) /\ Activated(q)
             /\ job' = [RenewRow(job) EXCEPT !.state = "activated"] /\ member' = member
    <3>0. "activated" \in States /\ "live" \in Leases /\ job.rev + 1 \in Nat
      BY <1>0 DEF States, Leases, JobRow
    <3>1. /\ job' \in JobRow /\ job'.state = "activated"
          /\ job'.ref = job.ref /\ job'.owner = job.owner
      BY <1>0, <2>3, <3>0, Zenon DEF RenewRow, JobRow
    <3>2. /\ job.ref = attempt.helper /\ job.state = "activation_requested"
          /\ job.owner = life.n /\ attempt.helper \in tokens
      BY <1>0, <2>3, AttemptHolds DEF BootInv, LocalUsable, CredentialStates
    <3>3. \A m \in wire : m.kind = "revoke" => m.of # job'.ref
      BY <1>0, <3>1, <3>2 DEF BootInv, BootRevokes
    <3>4. agent = [cred |-> attempt.helper, state |-> "active"]
      BY <1>1, <2>3 DEF Activated
    <3>5. job'.state \notin {"consumed", Absent, "running"} /\ job'.state \in CredentialStates
      BY <3>1 DEF Absent, CredentialStates
    <3> QED
      BY <1>0, <2>0, <2>3, <3>1, <3>2, <3>3, <3>4, <3>5, CompensationKeeps
  <2>4. ~(job' = ConsumeRow(job))
    BY <1>0, <1>3, ConsumedRow
  <2> QED
    BY <2>1, <2>2, <2>3, <2>4 DEF ActivationAnswered, FinishActivation
<1> QED
  BY <1>2, <1>3

\* A row that ends, under an attempt or another recover() that goes on or ends too.
LEMMA RowEnds ==
  ASSUME BootInv, member = NoCred, rescue.pc # "activate",
         rescue' \in RescueRecord, rescue'.pc # "activate",
         rescue'.boot => rescue.boot, rescue'.pc # "idle" => life.up,
         rescue'.snap.ref \in used \cup {NoRef},
         attempt' \in {attempt, Resting},
         attempt.pc \in {"issue", "publish"} => attempt' = Resting,
         attempt.pc = "activate" => attempt' = Resting \/ job'.rev > attempt.snap.rev,
         job' \in JobRow, job'.state \in Terminal \ {"consumed"},
         job'.owner = NoOwner, job'.ref \in used \cup {NoRef},
         tokens' \subseteq tokens, due' \in BOOLEAN,
         UNCHANGED <<agent, used, wire, member, tries, life>>
  PROVE  BootInv'
<1>1. job'.state \notin Settled \cup CredentialStates \cup SavedStates \cup {"running"}
  BY DEF Terminal, Settled, SavedStates, CredentialStates, Absent
<1>2. BootTyped'
  BY RestingTyped DEF BootInv, BootTyped
<1>3. BootAlone'
  BY RestingTyped DEF BootInv, BootAlone
<1>4. BootPhases'
  BY <1>1, RestingTyped DEF BootInv, BootPhases
<1>5. BootRows' /\ LocalUsable'
  BY <1>1 DEF BootInv, BootRows, LocalUsable, SavedStates
<1>6. BootIssued'
  BY RestingTyped, EmptyRow DEF BootInv, BootIssued
<1>7. BootRevokes'
  BY <1>1, RestingTyped DEF BootInv, BootRevokes
<1> QED
  BY <1>2, <1>3, <1>4, <1>5, <1>6, <1>7 DEF BootInv

\* What a compensation writes: the stored row, or a failed one.
LEMMA FailedRowIs ==
  ASSUME BootInv, attempt.pc = "revoke"
  PROVE  LET row == FailedRow(attempt.snap)
         IN \/ row = job
            \/ /\ row \in JobRow /\ row.state = "failed" /\ row.owner = NoOwner
               /\ row.ref \in used \cup {NoRef}
<1>0. /\ job \in JobRow /\ attempt.snap \in JobRow
      /\ attempt.snap.owner \in {NoOwner, life.n} /\ "failed" \in States
      /\ job.ref \in used \cup {NoRef} /\ attempt.snap.ref \in used \cup {NoRef}
  BY DEF BootInv, BootTyped, AttemptRecord, BootPhases, BootIssued, States
<1>1. /\ FailRow(job) \in JobRow /\ FailRow(job).state = "failed"
      /\ FailRow(job).owner = NoOwner /\ FailRow(job).ref = job.ref
  BY <1>0, EndedRow
<1> DEFINE f == [attempt.snap EXCEPT !.state = "failed"]
<1>2. /\ f \in JobRow /\ f.state = "failed" /\ f.ref = attempt.snap.ref
      /\ f.owner = attempt.snap.owner
  BY <1>0, StateRow
<1>3. \/ FailedRow(attempt.snap) = job \/ FailedRow(attempt.snap) = FailRow(job)
      \/ FailedRow(attempt.snap) = f /\ attempt.snap.owner # life.n
  BY DEF FailedRow
<1> QED
  BY <1>0, <1>1, <1>2, <1>3

LEMMA EndCompensationKeeps == BootInv /\ EndCompensation => BootInv'
<1> SUFFICES ASSUME BootInv, EndCompensation PROVE BootInv'
  OBVIOUS
<1> DEFINE row == FailedRow(attempt.snap)
<1>0. /\ attempt.pc = "revoke" /\ attempt' = Resting /\ member = NoCred
      /\ rescue.pc # "activate" /\ job \in JobRow /\ job.state \notin Settled
      /\ rescue \in RescueRecord /\ due \in BOOLEAN
      /\ rescue.snap.ref \in used \cup {NoRef} /\ job.ref \in used \cup {NoRef}
      /\ rescue.pc # "idle" => life.up
      /\ UNCHANGED <<due, rescue, agent, used, wire, member, tries, life>>
  BY DEF EndCompensation, BootInv, BootTyped, BootAlone, BootPhases, BootIssued
<1>1. CASE job' = job /\ tokens' = tokens
  BY <1>0, <1>1, RevokeFailsKeeps DEF RevokeFails
<1>2. CASE ~(job' = job /\ tokens' = tokens)
  <2>1. /\ row \in JobRow /\ row.state \in Terminal \ {"consumed"} /\ row.owner = NoOwner
        /\ row.ref \in used \cup {NoRef}
    <3>1. CASE row = job
      <4>1. job.state \in Terminal
        BY <1>2, <3>1 DEF EndCompensation
      <4>2. job.state # "consumed" /\ job.state \notin CredentialStates
        BY <1>0, <4>1 DEF Terminal, CredentialStates, Settled
      <4> QED
        BY <1>0, <3>1, <4>1, <4>2 DEF BootInv, BootRows
    <3>2. CASE row # job
      BY <1>0, <3>2, FailedRowIs DEF Terminal
    <3> QED
      BY <3>1, <3>2
  <2>2. \/ job' = row /\ tokens' = tokens
        \/ job' = FinishCleanupRow(row) /\ tokens' = tokens \ {row.ref}
    BY DEF EndCompensation, Cleaned
  <2> HIDE DEF row
  <2>3. /\ job' \in JobRow /\ job'.state \in Terminal \ {"consumed"}
        /\ job'.owner = NoOwner /\ job'.ref \in used \cup {NoRef} /\ tokens' \subseteq tokens
    BY <2>1, <2>2, CleanedRow
  <2> QED
    BY <1>0, <2>3, RowEnds
<1> QED
  BY <1>1, <1>2

\* A new attempt: the job runs and the Agent is asked, or the job fails at once.
LEMMA DispatchKeeps ==
  ASSUME BootInv, MayBegin, rescue.pc # "activate",
         NEW row \in JobRow, row.state = "running", row.ref = NoRef, row.owner = NoOwner,
         NEW kind \in {"issue", "reissue"}, Dispatch(row, kind),
         tokens' \subseteq tokens, UNCHANGED <<rescue, agent, used, member, life>>
  PROVE  BootInv'
<1>0. /\ attempt.pc = "idle" /\ member = NoCred /\ life.up /\ ~rescue.boot
      /\ due' = FALSE
  BY DEF MayBegin, Dispatch
<1>1. tries' \in 0..MaxTries /\ tries + 1 \in 1..MaxTries
  BY BootstrapAssumption DEF MayBegin, Dispatch, BootInv, BootTyped
<1> DEFINE q == [kind |-> kind, of |-> tries + 1]
<1>2. q \in WireRecord /\ q.kind \notin Calls
  BY <1>1 DEF WireRecord, Calls
<1>3. CASE /\ job' = row /\ attempt' = [Resting EXCEPT !.pc = "issue"]
           /\ wire' = wire \cup {q}
  <2> HIDE DEF q
  <2>1. /\ attempt' \in AttemptRecord /\ attempt'.pc = "issue"
        /\ attempt'.helper = NoCred /\ attempt'.snap = NoRow
    BY <1>3, RestingTyped DEF AttemptRecord
  <2>2. BootTyped'
    BY <1>0, <1>1, <1>2, <1>3, <2>1 DEF BootInv, BootTyped
  <2>3. BootAlone' /\ BootPhases'
    BY <1>0, <1>3, <2>1 DEF BootInv, BootAlone, BootPhases
  <2>4. BootRows' /\ LocalUsable'
    BY <1>0, <1>3 DEF BootInv, BootRows, LocalUsable, CredentialStates
  <2>5. BootIssued'
    BY <1>2, <1>3, <2>1, EmptyRow DEF BootInv, BootIssued
  <2>6. BootRevokes'
    BY <1>0, <1>2, <1>3, <2>1 DEF BootInv, BootRevokes, SavedStates, Calls
  <2> QED
    BY <2>2, <2>3, <2>4, <2>5, <2>6 DEF BootInv
<1>4. CASE /\ job' = [row EXCEPT !.state = "failed"] /\ attempt' = Resting
           /\ wire' = wire
  <2>1. job' \in JobRow /\ job'.state = "failed" /\ job'.ref = NoRef /\ job'.owner = NoOwner
    BY <1>4, StateRow DEF States
  <2>2. BootTyped'
    BY <1>0, <1>1, <1>4, <2>1, RestingTyped DEF BootInv, BootTyped
  <2>3. BootAlone' /\ BootPhases'
    BY <1>0, <1>4, RestingTyped DEF BootInv, BootAlone, BootPhases
  <2>4. BootRows' /\ LocalUsable'
    BY <1>0, <2>1 DEF BootInv, BootRows, LocalUsable, CredentialStates
  <2>5. BootIssued' /\ BootRevokes'
    BY <1>0, <1>4, <2>1, RestingTyped, EmptyRow
    DEF BootInv, BootIssued, BootRevokes, SavedStates
  <2> QED
    BY <2>2, <2>3, <2>4, <2>5 DEF BootInv
<1> QED
  BY <1>3, <1>4 DEF Dispatch

LEMMA BeginFirstKeeps == BootInv /\ BeginFirst => BootInv'
<1> SUFFICES ASSUME BootInv, BeginFirst PROVE BootInv'
  OBVIOUS
<1> DEFINE row == [NoRow EXCEPT !.state = "running"]
<1>1. row \in JobRow /\ row.state = "running" /\ row.ref = NoRef /\ row.owner = NoOwner
  BY NewRows, EmptyRow
<1>2. MayBegin /\ rescue.pc # "activate"
  BY DEF BeginFirst, BootInv, BootPhases, Absent
<1>3. Dispatch(row, "issue") /\ UNCHANGED <<rescue, agent, used, tokens, member, life>>
  BY DEF BeginFirst
<1> HIDE DEF row
<1> QED
  BY <1>1, <1>2, <1>3, DispatchKeeps

LEMMA BeginRetryKeeps == BootInv /\ BeginRetry => BootInv'
<1> SUFFICES ASSUME BootInv, BeginRetry PROVE BootInv'
  OBVIOUS
<1> DEFINE ended == IF Due(job, due) THEN ExpireRow(job) ELSE job
<1>0. /\ job \in JobRow /\ MayBegin /\ attempt.pc = "idle" /\ member = NoCred
      /\ ended.state \in Terminal \ {"consumed"}
      /\ rescue \in RescueRecord /\ due \in BOOLEAN
      /\ rescue.snap.ref \in used \cup {NoRef} /\ job.ref \in used \cup {NoRef}
      /\ rescue.pc # "idle" => life.up
      /\ UNCHANGED <<rescue, agent, used, member, life>>
  BY DEF BeginRetry, MayBegin, BootInv, BootTyped, BootAlone, BootIssued
<1>1. job.state # "activation_requested"
  BY <1>0 DEF Due, Expirable, Terminal
<1>2. rescue.pc # "activate"
  BY <1>1 DEF BootInv, BootPhases
<1>3. ended \in JobRow /\ ended.ref = job.ref /\ ended.owner = NoOwner
  <2>1. CASE Due(job, due)
    BY <1>0, <2>1, EndedRow
  <2>2. CASE ~Due(job, due)
    <3>1. job.state \notin CredentialStates
      BY <1>0, <2>2 DEF Terminal, CredentialStates
    <3> QED
      BY <1>0, <2>2, <3>1 DEF BootInv, BootRows
  <2> QED
    BY <2>1, <2>2
<1>4. CASE Dispatch(Rearmed(ended), "reissue") /\ tokens' = tokens \ {ended.ref}
  <2> HIDE DEF ended
  <2>1. /\ Rearmed(ended) \in JobRow /\ Rearmed(ended).state = "running"
        /\ Rearmed(ended).ref = NoRef /\ Rearmed(ended).owner = NoOwner
    BY <1>3, NewRows
  <2> QED
    BY <1>0, <1>2, <1>4, <2>1, DispatchKeeps
<1>5. CASE /\ Cleaned(ended, job', tokens') /\ job'.ref # NoRef
           /\ UNCHANGED <<attempt, wire, tries, due>>
  <2> HIDE DEF ended
  <2>1. job' = ended /\ tokens' = tokens
    BY <1>3, <1>5, CleanedRow DEF Cleaned
  <2> QED
    BY <1>0, <1>2, <1>3, <1>5, <2>1, RowEnds
<1> QED
  BY <1>4, <1>5 DEF BeginRetry

-----------------------------------------------------------------------------
(* recover(), elsewhere than in the attempt.                               *)

LEMMA RescueMoved ==
  ASSUME rescue \in RescueRecord, NEW snap \in JobRow,
         NEW pc \in {"idle", "validate", "activate", "sweep"},
         rescue' = [rescue EXCEPT !.pc = pc, !.snap = snap]
  PROVE  /\ rescue' \in RescueRecord /\ rescue'.pc = pc
         /\ rescue'.boot = rescue.boot /\ rescue'.snap = snap
  BY DEF RescueRecord

\* A row that stays, or one in its old state whose claim is taken: what an attempt
\* knows of it is kept.
LEMMA RowClaimed ==
  ASSUME BootInv, life.up, rescue.pc = "idle",
         rescue' \in RescueRecord, rescue'.boot = rescue.boot,
         rescue'.snap.ref \in used \cup {NoRef},
         rescue'.pc = "activate" =>
           job' = rescue'.snap /\ job'.state = "activation_requested" /\ job'.owner = life.n,
         job' \in JobRow, job'.state = job.state, job'.ref = job.ref,
         job' = job \/ /\ Claimable(job) /\ job'.owner = life.n /\ job'.rev = job.rev + 1,
         wire' = wire \/ \E c \in used : wire' = wire \cup {Request("activate", c, "rescue")},
         rescue'.pc = "activate" => Claimable(job),
         UNCHANGED <<due, attempt, agent, used, tokens, member, tries, life>>
  PROVE  BootInv'
<1>0. /\ job \in JobRow /\ used \subseteq Creds /\ life.n \in 1..MaxLives
      /\ attempt \in AttemptRecord /\ attempt.snap \in JobRow
  BY DEF BootInv, BootTyped, AttemptRecord
<1>1. /\ wire' \subseteq WireRecord /\ \A m \in wire' : m.kind = "revoke" => m \in wire
      /\ \A m \in wire' : m.kind \in Calls => m.of \in used
  <2>1. CASE wire' = wire
    BY <2>1 DEF BootInv, BootTyped, BootIssued
  <2>2. CASE wire' # wire
    <3>1. PICK c \in used : wire' = wire \cup {Request("activate", c, "rescue")}
      BY <2>2
    <3>2. /\ Request("activate", c, "rescue") \in WireRecord
          /\ Request("activate", c, "rescue").kind = "activate"
          /\ Request("activate", c, "rescue").of = c
      BY <1>0, RequestTyped DEF Calls
    <3> QED
      BY <3>1, <3>2 DEF BootInv, BootTyped, BootIssued
  <2> QED
    BY <2>1, <2>2
<1>2. Claimable(job) => job.state \in CredentialStates /\ ~(attempt.pc = "activate" /\ job = attempt.snap)
  BY <1>0 DEF Claimable, Recoverable, BootInv, BootPhases, NoOwner
<1>3. BootTyped'
  BY <1>1 DEF BootInv, BootTyped
<1>4. BootAlone'
  BY DEF BootInv, BootAlone
<1>5. BootPhases'
  <2>1. CASE job' = job
    <3>1. rescue'.pc = "activate" => attempt.pc = "idle"
      <4>1. SUFFICES ASSUME rescue'.pc = "activate" PROVE attempt.pc = "idle"
        OBVIOUS
      <4>2. job.state = "activation_requested" /\ ~(attempt.pc = "activate" /\ job = attempt.snap)
        BY <1>2, <4>1
      <4> QED
        BY <1>0, <4>2 DEF BootInv, BootPhases, AttemptRecord, Settled, SavedStates
    <3> QED
      BY <2>1, <3>1 DEF BootInv, BootPhases
  <2>2. CASE job' # job
    <3>0. /\ Claimable(job) /\ job'.owner = life.n /\ job'.rev = job.rev + 1
          /\ job.state \in CredentialStates /\ ~(attempt.pc = "activate" /\ job = attempt.snap)
      BY <1>2, <2>2
    <3>1. job.state # "running"
      BY <3>0 DEF CredentialStates
    <3>2. rescue'.pc = "activate" => attempt.pc = "idle"
      BY <1>0, <3>0 DEF BootInv, BootPhases, AttemptRecord, Settled, SavedStates
    <3>3. attempt.pc = "activate" => job'.rev > attempt.snap.rev /\ job'.state \notin Settled
      <4>1. job.rev \in Nat /\ attempt.snap.rev \in Nat
        BY <1>0 DEF JobRow
      <4> QED
        BY <3>0, <4>1 DEF BootInv, BootPhases
    <3> QED
      BY <3>1, <3>2, <3>3 DEF BootInv, BootPhases
  <2> QED
    BY <2>1, <2>2
<1>6. BootRows' /\ LocalUsable'
  <2>1. job'.owner # NoOwner => job'.state \in CredentialStates
    BY <1>2 DEF BootInv, BootRows
  <2>2. job'.state = "running" => job' = job
    BY <1>2 DEF CredentialStates
  <2> QED
    BY <2>1, <2>2 DEF BootInv, BootRows, LocalUsable
<1>7. BootIssued'
  BY <1>1 DEF BootInv, BootIssued
<1>8. BootRevokes'
  BY <1>1 DEF BootInv, BootRevokes
<1> QED
  BY <1>3, <1>4, <1>5, <1>6, <1>7, <1>8 DEF BootInv

\* Registering the Agent of an active credential, when no attempt runs.
LEMMA ConsumeKeeps ==
  ASSUME BootInv, attempt.pc = "idle", rescue.pc # "idle" \/ rescue.boot \/ life.up,
         rescue' \in RescueRecord, rescue'.pc # "activate",
         rescue'.boot => rescue.boot, rescue'.pc # "idle" => life.up,
         rescue'.snap.ref \in used \cup {NoRef},
         NEW c \in used, c \in tokens, agent = [cred |-> c, state |-> "active"],
         \A m \in wire : m.kind = "revoke" => m.of # c,
         job' \in JobRow, job'.state = "consumed", job'.ref = NoRef, job'.owner = NoOwner,
         member' = c,
         UNCHANGED <<due, attempt, agent, used, tokens, wire, tries, life>>
  PROVE  BootInv'
<1>1. BootTyped'
  BY DEF BootInv, BootTyped
<1>2. BootAlone' /\ BootPhases'
  BY DEF BootInv, BootAlone, BootPhases
<1>3. BootRows' /\ LocalUsable'
  BY DEF BootInv, BootRows, LocalUsable, CredentialStates
<1>4. BootIssued' /\ BootRevokes'
  BY DEF BootInv, BootIssued, BootRevokes, SavedStates
<1> QED
  BY <1>1, <1>2, <1>3, <1>4 DEF BootInv

LEMMA RescueClaimsKeeps == BootInv /\ RescueClaims => BootInv'
<1> SUFFICES ASSUME BootInv, RescueClaims PROVE BootInv'
  OBVIOUS
<1> DEFINE row == IF Due(job, due) THEN ExpireRow(job) ELSE job
           claimed == ClaimRow(row, life.n)
           call == Request("activate", claimed.ref, "rescue")
           Go(pc) == rescue' = [rescue EXCEPT !.pc = pc, !.snap = claimed]
<1>0. /\ job \in JobRow /\ life.n \in 1..MaxLives /\ life.up /\ rescue.pc = "idle"
      /\ rescue \in RescueRecord /\ job.ref \in used \cup {NoRef} /\ due \in BOOLEAN
      /\ UNCHANGED <<due, attempt, agent, used, tokens, tries, life>>
  BY DEF RescueClaims, BootInv, BootTyped, BootIssued
<1>1. row \in JobRow /\ row.ref = job.ref
  BY <1>0, EndedRow
<1>2. /\ claimed \in JobRow /\ claimed.state = row.state /\ claimed.ref = job.ref
      /\ claimed.owner = life.n /\ claimed.rev = row.rev + 1
  <2> HIDE DEF row
  <2> QED BY <1>0, <1>1, ClaimedRow
<1>3. \A pc \in {"validate", "activate", "sweep"} : Go(pc) =>
        /\ rescue' \in RescueRecord /\ rescue'.pc = pc /\ rescue'.boot = rescue.boot
        /\ rescue'.snap = claimed
  <2> HIDE DEF claimed
  <2> QED BY <1>0, <1>2, RescueMoved
<1>4. CASE Due(job, due)
  <2>1. /\ row = ExpireRow(job) /\ row.state = "expired" /\ row.owner = NoOwner
        /\ row.rev = job.rev + 1 /\ due /\ job.state \in Expirable
    BY <1>0, <1>4, EndedRow DEF Due
  <2>2. ~Claimable(row)
    BY <2>1 DEF Claimable, Recoverable, CredentialStates
  <2>3. Go("sweep") /\ job' = row /\ UNCHANGED <<wire, member>>
    BY <2>2 DEF RescueClaims
  <2>4. member = NoCred
    BY <2>1 DEF BootInv, BootRows, Expirable
  <2>5. attempt.pc \notin {"issue", "publish"}
    BY <2>1 DEF BootInv, BootPhases
  <2>6. attempt.pc = "activate" => row.rev > attempt.snap.rev
    <3> HIDE DEF row
    <3>1. job.rev \in Nat
      BY <1>0 DEF JobRow
    <3>2. attempt.pc = "activate" => job.rev >= attempt.snap.rev
      BY <3>1 DEF BootInv, BootPhases, BootTyped, AttemptRecord, JobRow
    <3>3. attempt.snap.rev \in Nat
      BY DEF BootInv, BootTyped, AttemptRecord, JobRow
    <3> QED
      BY <2>1, <3>1, <3>2, <3>3
  <2>7. /\ rescue' \in RescueRecord /\ rescue'.pc = "sweep" /\ rescue'.boot = rescue.boot
        /\ rescue'.snap.ref = job.ref
    BY <1>2, <1>3, <2>3
  <2>8. row.state \in Terminal \ {"consumed"}
    BY <2>1 DEF Terminal
  <2> HIDE DEF row, claimed
  <2> QED
    BY <1>0, <1>1, <2>1, <2>3, <2>4, <2>5, <2>6, <2>7, <2>8, RowEnds
<1>5. CASE ~Due(job, due)
  <2>0. row = job
    BY <1>5
  <2>1. CASE ~Claimable(row) \/ row.rev >= MaxClaims
    <3>1. Go("sweep") /\ job' = job /\ UNCHANGED <<wire, member>>
      BY <2>0, <2>1 DEF RescueClaims
    <3>2. /\ rescue' \in RescueRecord /\ rescue'.pc = "sweep" /\ rescue'.boot = rescue.boot
          /\ rescue'.snap.ref = job.ref
      BY <1>2, <1>3, <3>1
    <3> HIDE DEF row, claimed, Go
    <3> QED
      BY <1>0, <3>1, <3>2, RowClaimed
  <2>2. CASE ~(~Claimable(row) \/ row.rev >= MaxClaims)
    <3>0. Claimable(job)
      BY <2>0, <2>2
    <3>1. CASE Go("validate") /\ job' = claimed /\ UNCHANGED <<wire, member>>
      <4>1. /\ rescue' \in RescueRecord /\ rescue'.pc = "validate"
            /\ rescue'.boot = rescue.boot /\ rescue'.snap.ref = job.ref
        BY <1>2, <1>3, <3>1
      <4> HIDE DEF row, claimed, Go
      <4> QED
        BY <1>0, <1>2, <2>0, <3>0, <3>1, <4>1, RowClaimed
    <3>2. CASE /\ job.state = "activation_requested" /\ Go("activate") /\ job' = claimed
               /\ wire' = wire \cup {call} /\ member' = member
      <4>1. /\ rescue' \in RescueRecord /\ rescue'.pc = "activate"
            /\ rescue'.boot = rescue.boot /\ rescue'.snap = claimed
        BY <1>3, <3>2
      <4>2. job.ref \in used /\ call = Request("activate", job.ref, "rescue")
        BY <1>2, <3>2 DEF BootInv, BootIssued, LocalUsable, CredentialStates
      <4>3. \E c \in used : wire' = wire \cup {Request("activate", c, "rescue")}
        BY <3>2, <4>2
      <4> HIDE DEF row, claimed, Go, call
      <4> QED
        BY <1>0, <1>2, <2>0, <3>0, <3>2, <4>1, <4>3, RowClaimed
    <3>3. CASE Go("sweep") /\ wire' = wire /\ job' = claimed /\ member' = member
      <4>1. /\ rescue' \in RescueRecord /\ rescue'.pc = "sweep"
            /\ rescue'.boot = rescue.boot /\ rescue'.snap.ref = job.ref
        BY <1>2, <1>3, <3>3
      <4> HIDE DEF row, claimed, Go
      <4> QED
        BY <1>0, <1>2, <2>0, <3>0, <3>3, <4>1, RowClaimed
    <3>4. CASE /\ job.state = "activated" /\ Go("sweep") /\ wire' = wire
               /\ job' = ConsumeRow(claimed) /\ member' = claimed.ref
      <4>1. /\ rescue' \in RescueRecord /\ rescue'.pc = "sweep"
            /\ rescue'.boot = rescue.boot /\ rescue'.snap.ref = job.ref
        BY <1>2, <1>3, <3>4
      <4>2. attempt.pc = "idle"
        BY <3>4 DEF BootInv, BootTyped, AttemptRecord, BootPhases, Settled, SavedStates
      <4>3. /\ job.ref \in tokens /\ job.ref \in used
            /\ agent = [cred |-> job.ref, state |-> "active"]
            /\ \A m \in wire : m.kind = "revoke" => m.of # job.ref
        BY <3>4
        DEF BootInv, BootRows, BootIssued, BootRevokes, LocalUsable, CredentialStates,
            SavedStates
      <4> HIDE DEF row, claimed, Go
      <4>4. /\ job' \in JobRow /\ job'.state = "consumed" /\ job'.ref = NoRef
            /\ job'.owner = NoOwner
        BY <1>2, <3>4, ConsumedRow
      <4> QED
        BY <1>0, <1>2, <3>4, <4>1, <4>2, <4>3, <4>4, ConsumeKeeps
    <3>5. CASE /\ job.state \in {"activation_requested", "activated"} /\ Go("sweep")
               /\ job' = FailRow(claimed) /\ UNCHANGED <<wire, member>>
      <4>1. /\ rescue' \in RescueRecord /\ rescue'.pc = "sweep"
            /\ rescue'.boot = rescue.boot /\ rescue'.snap.ref = job.ref
        BY <1>2, <1>3, <3>5
      <4>2. member = NoCred /\ attempt.pc \notin {"issue", "publish"}
        BY <3>5 DEF BootInv, BootRows, BootPhases
      <4> HIDE DEF row, claimed, Go
      <4>3. /\ job' \in JobRow /\ job'.state = "failed" /\ job'.owner = NoOwner
            /\ job'.ref = job.ref /\ job'.rev = job.rev + 2
        <5>1. claimed.rev = job.rev + 1 /\ job.rev \in Nat
          BY <1>0, <1>2, <2>0 DEF JobRow
        <5> QED BY <1>2, <3>5, <5>1, EndedRow
      <4>4. attempt.pc = "activate" => job'.rev > attempt.snap.rev
        <5>1. attempt.snap.rev \in Nat /\ job.rev \in Nat
          BY <1>0 DEF BootInv, BootTyped, AttemptRecord, JobRow
        <5>2. attempt.pc = "activate" => job.rev >= attempt.snap.rev
          BY <5>1 DEF BootInv, BootPhases
        <5> QED BY <4>3, <5>1, <5>2
      <4>5. job'.state \in Terminal \ {"consumed"}
        BY <4>3 DEF Terminal
      <4> QED
        BY <1>0, <3>5, <4>1, <4>2, <4>3, <4>4, <4>5, RowEnds
    <3> QED
      BY <2>0, <2>2, <3>1, <3>2, <3>3, <3>4, <3>5 DEF RescueClaims
  <2> QED
    BY <2>1, <2>2
<1> QED
  BY <1>4, <1>5

LEMMA RescueValidatesKeeps == BootInv /\ RescueValidates => BootInv'
<1> SUFFICES ASSUME BootInv, RescueValidates PROVE BootInv'
  OBVIOUS
<1>0. /\ rescue.pc = "validate" /\ rescue' = [rescue EXCEPT !.pc = "sweep"]
      /\ job \in JobRow /\ life.n \in 1..MaxLives /\ rescue \in RescueRecord
      /\ job.ref \in used \cup {NoRef} /\ life.up /\ due \in BOOLEAN
      /\ attempt.snap \in JobRow /\ rescue.snap.ref \in used \cup {NoRef}
      /\ UNCHANGED <<due, attempt, agent, used, tokens, wire, member, tries, life>>
  BY DEF RescueValidates, BootInv, BootTyped, BootIssued, BootAlone, AttemptRecord
<1>1. /\ rescue' \in RescueRecord /\ rescue'.pc = "sweep" /\ rescue'.boot = rescue.boot
      /\ rescue'.snap = rescue.snap
  BY <1>0 DEF RescueRecord
<1>2. CASE job' = job
  <2>1. BootTyped' /\ BootAlone' /\ BootPhases'
    BY <1>0, <1>1, <1>2 DEF BootInv, BootTyped, BootAlone, BootPhases
  <2>2. BootRows' /\ BootIssued' /\ BootRevokes' /\ LocalUsable'
    BY <1>0, <1>1, <1>2 DEF BootInv, BootRows, BootIssued, BootRevokes, LocalUsable
  <2> QED
    BY <2>1, <2>2 DEF BootInv
<1>3. CASE job' # job
  <2>1. job.owner = life.n /\ job.owner # NoOwner
    BY <1>0, <1>3 DEF RescueValidates, Holds, NoOwner
  <2>2. job.state \in CredentialStates
    BY <2>1 DEF BootInv, BootRows
  <2>3. member = NoCred /\ attempt.pc \notin {"issue", "publish"} /\ job.ref \in tokens
    BY <2>2 DEF BootInv, BootRows, BootPhases, LocalUsable, CredentialStates
  <2>4. job.rev \in Nat /\ attempt.snap.rev \in Nat
    BY <1>0 DEF JobRow
  <2>5. attempt.pc = "activate" => job.rev >= attempt.snap.rev
    BY <2>4 DEF BootInv, BootPhases
  <2>6. CASE job' = FailRow(job)
    <3>1. /\ job' \in JobRow /\ job'.state = "failed" /\ job'.ref = job.ref
          /\ job'.owner = NoOwner /\ job'.rev = job.rev + 1
      BY <1>0, <2>6, EndedRow
    <3>2. job'.state \in Terminal \ {"consumed"}
      BY <3>1 DEF Terminal
    <3>3. attempt.pc = "activate" => job'.rev > attempt.snap.rev
      BY <2>4, <2>5, <3>1
    <3> QED
      BY <1>0, <1>1, <2>3, <3>1, <3>2, <3>3, RowEnds
  <2>7. CASE job' = [ClearClaim(job) EXCEPT !.state = "verified"]
    <3>1. /\ job' \in JobRow /\ job'.state = "verified" /\ job'.ref = job.ref
          /\ job'.owner = NoOwner /\ job'.rev = job.rev + 1
      <4>1. /\ ClearClaim(job) \in JobRow /\ ClearClaim(job).ref = job.ref
            /\ ClearClaim(job).owner = NoOwner /\ ClearClaim(job).rev = job.rev + 1
        BY <1>0, ClearedRow
      <4>2. "verified" \in States
        BY DEF States
      <4> QED
        BY <2>7, <4>1, <4>2, StateRow
    <3>2. attempt.pc = "activate" => job'.rev > attempt.snap.rev
      BY <2>4, <2>5, <3>1
    <3>3. job'.state \notin Settled \cup SavedStates
      BY <3>1 DEF Settled, SavedStates, Absent
    <3>4. BootTyped' /\ BootAlone'
      BY <1>0, <1>1, <3>1 DEF BootInv, BootTyped, BootAlone
    <3>5. BootPhases'
      BY <1>0, <1>1, <2>3, <3>1, <3>2, <3>3 DEF BootInv, BootPhases
    <3>6. BootRows' /\ LocalUsable'
      BY <1>0, <2>3, <3>1 DEF BootInv, BootRows, LocalUsable
    <3>7. BootIssued' /\ BootRevokes'
      BY <1>0, <1>1, <3>1, <3>3 DEF BootInv, BootIssued, BootRevokes
    <3> QED
      BY <3>4, <3>5, <3>6, <3>7 DEF BootInv
  <2> QED
    BY <1>3, <2>6, <2>7 DEF RescueValidates
<1> QED
  BY <1>2, <1>3

LEMMA RescueActivatesKeeps == BootInv /\ RescueActivates => BootInv'
<1> SUFFICES ASSUME BootInv, RescueActivates PROVE BootInv'
  OBVIOUS
<1> DEFINE q == Request("activate", rescue.snap.ref, "rescue")
<1>0. /\ rescue.pc = "activate" /\ rescue' = [rescue EXCEPT !.pc = "sweep"]
      /\ job \in JobRow /\ life.n \in 1..MaxLives /\ rescue \in RescueRecord
      /\ job = rescue.snap /\ job.state = "activation_requested" /\ job.owner = life.n
      /\ attempt.pc = "idle" /\ life.up /\ rescue.snap.ref \in used \cup {NoRef}
      /\ UNCHANGED <<due, attempt, agent, used, tokens, wire, tries, life>>
  BY DEF RescueActivates, BootInv, BootTyped, BootIssued, BootAlone, BootPhases
<1>1. /\ rescue' \in RescueRecord /\ rescue'.pc = "sweep" /\ rescue'.boot = rescue.boot
      /\ rescue'.snap = rescue.snap
  BY <1>0 DEF RescueRecord
<1>2. /\ job.ref \in tokens /\ job.ref \in used /\ member = NoCred
      /\ \A m \in wire : m.kind = "revoke" => m.of # job.ref
  BY <1>0
  DEF BootInv, BootRows, BootIssued, BootRevokes, LocalUsable, CredentialStates, SavedStates
<1>3. Activated(q) => agent = [cred |-> job.ref, state |-> "active"]
  BY <1>0 DEF Activated, Request
<1> HIDE DEF q
<1>4. CASE Activated(q) /\ job' = ConsumeRow(job) /\ member' = job.ref
  <2>1. /\ job' \in JobRow /\ job'.state = "consumed" /\ job'.ref = NoRef
        /\ job'.owner = NoOwner
    BY <1>0, <1>4, ConsumedRow
  <2> QED
    BY <1>0, <1>1, <1>2, <1>3, <1>4, <2>1, ConsumeKeeps
<1>5. CASE /\ member' = member
           /\ job' \in {job, ClearClaim(job)} \/ /\ Activated(q)
                                                 /\ job' = [RenewRow(job) EXCEPT !.state = "activated"]
  <2>0. "activated" \in States /\ "live" \in Leases /\ job.rev + 1 \in Nat
    BY <1>0 DEF States, Leases, JobRow
  <2>1. /\ job' \in JobRow /\ job'.ref = job.ref /\ job'.owner \in {NoOwner, life.n}
        /\ \/ job'.state = "activation_requested"
           \/ job'.state = "activated" /\ Activated(q)
    <3>1. CASE job' \in {job, ClearClaim(job)}
      BY <1>0, <3>1, ClearedRow
    <3>2. CASE Activated(q) /\ job' = [RenewRow(job) EXCEPT !.state = "activated"]
      BY <1>0, <2>0, <3>2, Zenon DEF RenewRow, JobRow
    <3> QED
      BY <1>5, <3>1, <3>2
  <2>2. job'.state \in CredentialStates /\ job'.state # "running"
    BY <2>1 DEF CredentialStates
  <2>3. BootTyped' /\ BootAlone'
    BY <1>0, <1>1, <1>5, <2>1 DEF BootInv, BootTyped, BootAlone
  <2>4. BootPhases'
    BY <1>0, <1>1 DEF BootInv, BootPhases
  <2>5. BootRows' /\ LocalUsable'
    BY <1>0, <1>2, <1>3, <1>5, <2>1, <2>2 DEF BootInv, BootRows, LocalUsable
  <2>6. BootIssued' /\ BootRevokes'
    BY <1>0, <1>1, <1>2, <1>5, <2>1 DEF BootInv, BootIssued, BootRevokes
  <2> QED
    BY <2>3, <2>4, <2>5, <2>6 DEF BootInv
<1> QED
  BY <1>4, <1>5 DEF RescueActivates, FinishActivation, q

LEMMA UnrescuedTyped ==
  /\ Unrescued \in RescueRecord /\ Unrescued.pc = "idle" /\ Unrescued.boot = FALSE
  /\ Unrescued.snap = NoRow
  BY EmptyRow DEF Unrescued, RescueRecord

\* The tokens that are deleted are of an ended job, or of nothing.
LEMMA RescueSweepsKeeps == BootInv /\ RescueSweeps => BootInv'
<1> SUFFICES ASSUME BootInv, RescueSweeps PROVE BootInv'
  OBVIOUS
<1>0. /\ rescue.pc = "sweep" /\ rescue' = Unrescued /\ job \in JobRow
      /\ tokens \subseteq used /\ tokens \subseteq Creds /\ job.ref \in used \cup {NoRef}
      /\ UNCHANGED <<due, attempt, agent, used, wire, member, tries, life>>
  BY DEF RescueSweeps, BootInv, BootTyped, BootIssued
<1>1. PICK left \in SUBSET tokens :
        /\ IF job.state \in Terminal THEN Cleaned(job, job', left)
                                     ELSE job' = job /\ left = tokens
        /\ tokens' = IF rescue.boot THEN left \cap {job'.ref, member} ELSE left
  BY DEF RescueSweeps
<1>2. \/ job' = job /\ left = tokens
      \/ /\ job.state \in Terminal /\ job' = FinishCleanupRow(job)
         /\ left = tokens \ {job.ref}
  BY <1>1 DEF Cleaned
<1>3. /\ job' \in JobRow /\ job'.state = job.state /\ job'.ref \in {job.ref, NoRef}
      /\ job'.owner = job.owner /\ job'.rev = job.rev
      /\ job.state \notin Terminal => job' = job
  BY <1>0, <1>2, CleanedRow
<1>4. tokens' \subseteq tokens
  BY <1>1
<1>5. job.state \in CredentialStates => job' = job /\ job.state \notin Terminal
  BY <1>3 DEF CredentialStates, Terminal
<1>6. BootTyped' /\ BootAlone'
  BY <1>0, <1>3, <1>4, UnrescuedTyped DEF BootInv, BootTyped, BootAlone
<1>7. BootPhases'
  <2>1. job.state = "activation_requested" => job' = job
    BY <1>5 DEF CredentialStates
  <2> QED
    BY <1>0, <1>3, <2>1, UnrescuedTyped DEF BootInv, BootPhases
<1>8. BootRows'
  <2>1. job.state \in {"running", "activated"} => job' = job
    BY <1>3 DEF Terminal
  <2> QED
    BY <1>0, <1>3, <2>1 DEF BootInv, BootRows
<1>9. LocalUsable'
  <2>1. job.state \in CredentialStates => job.ref \in tokens'
    BY <1>0, <1>1, <1>2, <1>5 DEF BootInv, LocalUsable
  <2>2. ASSUME member # NoCred PROVE member \in tokens'
    <3>1. job.ref = NoRef /\ member \in tokens /\ member \in Creds
      BY <1>0, <2>2 DEF BootInv, BootRows, LocalUsable
    <3>2. member \in left
      BY <1>2, <3>1, BootstrapAssumption
    <3> QED
      BY <1>1, <3>2
  <2> QED
    BY <1>0, <1>3, <1>5, <2>1, <2>2 DEF BootInv, LocalUsable
<1>10. BootIssued'
  BY <1>0, <1>3, <1>4, UnrescuedTyped, EmptyRow DEF BootInv, BootIssued
<1>11. BootRevokes'
  <2>1. job'.state \in SavedStates => job' = job
    BY <1>3, <1>5 DEF SavedStates, CredentialStates
  <2> QED
    BY <1>0, <1>3, <2>1 DEF BootInv, BootRevokes
<1> QED
  BY <1>6, <1>7, <1>8, <1>9, <1>10, <1>11 DEF BootInv

-----------------------------------------------------------------------------
(* The Agent, time and crashes.                                            *)

\* A credential is issued over none, a revoked or a lapsed one, so never over the
\* registered one, and no request is under way for it.
LEMMA AgentIssueKeeps ==
  ASSUME BootInv, NEW m \in wire, AgentIssue(m)
  PROVE  BootInv'
<1>0. /\ wire' \subseteq wire
      /\ UNCHANGED <<job, due, rescue, tokens, member, tries, life>>
  BY DEF AgentIssue
<1>1. CASE UNCHANGED <<agent, used, attempt>>
  <2>1. BootTyped' /\ BootAlone' /\ BootPhases'
    BY <1>0, <1>1 DEF BootInv, BootTyped, BootAlone, BootPhases
  <2>2. BootRows' /\ BootIssued' /\ BootRevokes' /\ LocalUsable'
    BY <1>0, <1>1 DEF BootInv, BootRows, BootIssued, BootRevokes, LocalUsable
  <2> QED
    BY <2>1, <2>2 DEF BootInv
<1>2. CASE ~UNCHANGED <<agent, used, attempt>>
  <2>1. PICK c \in Creds \ used :
          /\ Issuable(m.kind) /\ used' = used \cup {c}
          /\ agent' = [cred |-> c, state |-> "pending"]
          /\ attempt' = IF attempt.pc = "issue" /\ m.of = tries
                        THEN [attempt EXCEPT !.pc = "publish", !.helper = c] ELSE attempt
    BY <1>2 DEF AgentIssue
  <2>2. agent.state # "active" /\ member = NoCred /\ job.state # "activated"
    BY <2>1 DEF Issuable, BootInv, BootRows, LocalUsable
  <2>3. agent' \in AgentRecord /\ agent'.cred = c
    BY <2>1 DEF AgentRecord
  <2>4. \/ attempt' = attempt
        \/ /\ attempt' \in AttemptRecord /\ attempt.pc = "issue" /\ attempt'.pc = "publish"
           /\ attempt'.helper = c /\ attempt'.snap = attempt.snap
    BY <2>1 DEF BootInv, BootTyped, AttemptRecord
  <2>5. BootTyped'
    BY <1>0, <2>1, <2>3, <2>4 DEF BootInv, BootTyped
  <2>6. BootAlone' /\ BootPhases'
    BY <1>0, <2>4 DEF BootInv, BootAlone, BootPhases
  <2>7. BootRows' /\ LocalUsable'
    BY <1>0, <2>2 DEF BootInv, BootRows, LocalUsable
  <2>8. BootIssued'
    BY <1>0, <2>1, <2>3, <2>4 DEF BootInv, BootIssued
  <2>9. BootRevokes'
    <3>1. \A r \in wire : r.kind = "revoke" => r.of # c
      BY DEF BootInv, BootIssued, Calls
    <3> QED
      BY <1>0, <2>4, <3>1 DEF BootInv, BootRevokes
  <2> QED
    BY <2>5, <2>6, <2>7, <2>8, <2>9 DEF BootInv
<1> QED
  BY <1>1, <1>2

LEMMA AgentCallKeeps ==
  ASSUME BootInv, NEW m \in wire, AgentCall(m)
  PROVE  BootInv'
<1>0. /\ wire' \subseteq wire /\ m.kind \in Calls
      /\ UNCHANGED <<job, due, attempt, rescue, used, tokens, member, tries, life>>
  BY DEF AgentCall
<1>1. \/ agent' = agent
      \/ /\ agent.cred = m.of
         /\ agent' = [agent EXCEPT !.state =
                        IF m.kind = "activate" THEN "active" ELSE "revoked"]
  BY DEF AgentCall, Accepts
<1>2. /\ agent' \in AgentRecord /\ agent'.cred = agent.cred
      /\ \/ agent' = agent
         \/ agent'.state = "active"
         \/ m.kind = "revoke" /\ agent.cred = m.of
  BY <1>0, <1>1 DEF BootInv, BootTyped, AgentRecord, Calls
<1>3. ASSUME NEW c, agent = [cred |-> c, state |-> "active"],
             m.kind = "revoke" => m.of # c
      PROVE  agent' = agent
  <2>1. agent.cred = c /\ agent.state = "active" /\ agent \in AgentRecord
    BY <1>3 DEF BootInv, BootTyped
  <2>2. agent'.state = agent.state
    BY <1>2, <1>3, <2>1
  <2> QED
    BY <1>1, <1>2, <2>1, <2>2 DEF AgentRecord
<1>4. BootTyped' /\ BootAlone' /\ BootPhases'
  BY <1>0, <1>2 DEF BootInv, BootTyped, BootAlone, BootPhases
<1>5. BootRows'
  BY <1>0, <1>3 DEF BootInv, BootRows, BootRevokes, SavedStates
<1>6. LocalUsable'
  BY <1>0, <1>3 DEF BootInv, BootRevokes, LocalUsable
<1>7. BootIssued' /\ BootRevokes'
  BY <1>0, <1>2 DEF BootInv, BootIssued, BootRevokes
<1> QED
  BY <1>4, <1>5, <1>6, <1>7 DEF BootInv

LEMMA CredentialLapsesKeeps == BootInv /\ CredentialLapses => BootInv'
<1> SUFFICES ASSUME BootInv, CredentialLapses PROVE BootInv'
  OBVIOUS
<1>0. /\ agent.state = "pending" /\ agent' = [agent EXCEPT !.state = "lapsed"]
      /\ UNCHANGED <<job, due, attempt, rescue, used, tokens, wire, member, tries, life>>
  BY DEF CredentialLapses
<1>1. agent' \in AgentRecord /\ agent'.cred = agent.cred
  BY <1>0 DEF BootInv, BootTyped, AgentRecord
<1>2. member = NoCred /\ job.state # "activated"
  BY <1>0 DEF BootInv, BootRows, LocalUsable
<1>3. BootTyped' /\ BootAlone' /\ BootPhases'
  BY <1>0, <1>1 DEF BootInv, BootTyped, BootAlone, BootPhases
<1>4. BootRows' /\ BootIssued' /\ BootRevokes' /\ LocalUsable'
  BY <1>0, <1>1, <1>2 DEF BootInv, BootRows, BootIssued, BootRevokes, LocalUsable
<1> QED
  BY <1>3, <1>4 DEF BootInv

LEMMA DeadlinePassesKeeps == BootInv /\ DeadlinePasses => BootInv'
<1> SUFFICES ASSUME BootInv, DeadlinePasses PROVE BootInv'
  OBVIOUS
<1>0. /\ due' = TRUE /\ attempt.pc \in {"idle", "activate"}
      /\ UNCHANGED <<job, attempt, rescue, agent, used, tokens, wire, member, tries, life>>
  BY DEF DeadlinePasses
<1>1. BootTyped' /\ BootAlone' /\ BootPhases'
  BY <1>0 DEF BootInv, BootTyped, BootAlone, BootPhases
<1>2. BootRows' /\ BootIssued' /\ BootRevokes' /\ LocalUsable'
  BY <1>0 DEF BootInv, BootRows, BootIssued, BootRevokes, LocalUsable
<1> QED
  BY <1>1, <1>2 DEF BootInv

LEMMA ClaimLapsesKeeps == BootInv /\ ClaimLapses => BootInv'
<1> SUFFICES ASSUME BootInv, ClaimLapses PROVE BootInv'
  OBVIOUS
<1>0. /\ attempt.pc # "activate" /\ rescue.pc # "activate"
      /\ job' = [job EXCEPT !.lease = "lapsed"]
      /\ UNCHANGED <<due, attempt, rescue, agent, used, tokens, wire, member, tries, life>>
  BY DEF ClaimLapses
<1>1. "lapsed" \in Leases
  BY DEF Leases
<1>2. /\ job' \in JobRow /\ job'.state = job.state /\ job'.ref = job.ref
      /\ job'.owner = job.owner
  BY <1>0, <1>1, Zenon DEF BootInv, BootTyped, JobRow
<1>3. BootTyped' /\ BootAlone' /\ BootPhases'
  BY <1>0, <1>2 DEF BootInv, BootTyped, BootAlone, BootPhases
<1>4. BootRows' /\ BootIssued' /\ BootRevokes' /\ LocalUsable'
  BY <1>0, <1>2 DEF BootInv, BootRows, BootIssued, BootRevokes, LocalUsable
<1> QED
  BY <1>3, <1>4 DEF BootInv

\* A crash loses the attempt and the other recover(), never a row or a token.
LEMMA ManagerCrashesKeeps == BootInv /\ ManagerCrashes => BootInv'
<1> SUFFICES ASSUME BootInv, ManagerCrashes PROVE BootInv'
  OBVIOUS
<1>0. /\ life.n < MaxLives /\ life' = [life EXCEPT !.up = FALSE]
      /\ attempt' = Resting /\ rescue' = Unrescued
      /\ UNCHANGED <<job, due, agent, used, wire, member, tries>>
  BY DEF ManagerCrashes
<1>1. tokens \subseteq tokens' /\ tokens' \subseteq used
  BY BootstrapAssumption DEF ManagerCrashes, BootInv, BootTyped, BootIssued
<1>2. life' \in [n: 1..MaxLives, up: BOOLEAN] /\ life'.n = life.n /\ life'.up = FALSE
  BY <1>0 DEF BootInv, BootTyped
<1>3. BootTyped'
  BY <1>0, <1>1, <1>2, RestingTyped, UnrescuedTyped DEF BootInv, BootTyped
<1>4. BootAlone' /\ BootPhases'
  BY <1>0, RestingTyped, UnrescuedTyped DEF BootAlone, BootPhases
<1>5. BootRows' /\ LocalUsable'
  BY <1>0, <1>1 DEF BootInv, BootRows, LocalUsable
<1>6. BootIssued' /\ BootRevokes'
  BY <1>0, <1>1, RestingTyped, UnrescuedTyped, EmptyRow DEF BootInv, BootIssued, BootRevokes
<1> QED
  BY <1>3, <1>4, <1>5, <1>6 DEF BootInv

LEMMA ManagerStartsKeeps == BootInv /\ ManagerStarts => BootInv'
<1> SUFFICES ASSUME BootInv, ManagerStarts PROVE BootInv'
  OBVIOUS
<1>0. /\ ~life.up /\ life' = [n |-> life.n + 1, up |-> TRUE]
      /\ rescue' = [Unrescued EXCEPT !.boot = TRUE]
      /\ UNCHANGED <<job, due, attempt, agent, used, tokens, wire, member, tries>>
  BY DEF ManagerStarts
<1>1. /\ rescue' \in RescueRecord /\ rescue'.pc = "idle" /\ rescue'.snap = NoRow
  BY <1>0, UnrescuedTyped DEF RescueRecord
<1>2. attempt.pc = "idle"
  BY <1>0 DEF BootInv, BootAlone
<1>3. life.n + 1 \in 1..MaxLives
  BY <1>0, BootstrapAssumption DEF BootInv, BootTyped
<1>4. life' \in [n: 1..MaxLives, up: BOOLEAN] /\ life'.up
  BY <1>0, <1>3
<1>5. BootTyped'
  BY <1>0, <1>1, <1>4 DEF BootInv, BootTyped
<1>6. BootAlone' /\ BootPhases'
  BY <1>0, <1>1, <1>2, <1>4 DEF BootAlone, BootPhases
<1>7. BootRows' /\ LocalUsable'
  BY <1>0 DEF BootInv, BootRows, LocalUsable
<1>8. BootIssued' /\ BootRevokes'
  BY <1>0, <1>1, EmptyRow DEF BootInv, BootIssued, BootRevokes
<1> QED
  BY <1>5, <1>6, <1>7, <1>8 DEF BootInv

LEMMA ManagerReadyKeeps == BootInv /\ ManagerReady => BootInv'
<1> SUFFICES ASSUME BootInv, ManagerReady PROVE BootInv'
  OBVIOUS
<1>0. /\ job.state = Absent /\ rescue' = Unrescued /\ tokens' = {}
      /\ UNCHANGED <<job, due, attempt, agent, used, wire, member, tries, life>>
  BY DEF ManagerReady
<1>1. member = NoCred /\ job.state \notin CredentialStates
  BY <1>0 DEF BootInv, BootRows, Absent, CredentialStates
<1>2. BootTyped' /\ BootAlone' /\ BootPhases'
  BY <1>0, UnrescuedTyped DEF BootInv, BootTyped, BootAlone, BootPhases
<1>3. BootRows' /\ BootIssued' /\ BootRevokes' /\ LocalUsable'
  BY <1>0, <1>1, UnrescuedTyped, EmptyRow
  DEF BootInv, BootRows, BootIssued, BootRevokes, LocalUsable
<1> QED
  BY <1>2, <1>3 DEF BootInv

LEMMA BootStepKeeps == BootInv /\ [BootstrapNext]_bootstrapVars => BootInv'
<1> SUFFICES ASSUME BootInv, [BootstrapNext]_bootstrapVars PROVE BootInv'
  OBVIOUS
<1>1. CASE UNCHANGED bootstrapVars
  <2>1. BootTyped' /\ BootAlone' /\ BootPhases'
    BY <1>1 DEF bootstrapVars, BootInv, BootTyped, BootAlone, BootPhases
  <2>2. BootRows' /\ BootIssued' /\ BootRevokes' /\ LocalUsable'
    BY <1>1 DEF bootstrapVars, BootInv, BootRows, BootIssued, BootRevokes, LocalUsable
  <2> QED
    BY <2>1, <2>2 DEF BootInv
<1>2. CASE BeginFirst \/ BeginRetry \/ IssueFails \/ Publish \/ ValidateAndSave
  BY <1>2, BeginFirstKeeps, BeginRetryKeeps, IssueFailsKeeps, PublishHelperKeeps,
     ValidateAndSaveKeeps
<1>3. CASE \/ ValidateFails \/ EndCompensation \/ RevokeFails \/ CancelActivation
           \/ ActivationAnswered
  BY <1>3, ValidateFailsKeeps, EndCompensationKeeps, RevokeFailsKeeps,
     CancelActivationKeeps, ActivationAnsweredKeeps
<1>4. CASE RescueClaims \/ RescueValidates \/ RescueActivates \/ RescueSweeps
  BY <1>4, RescueClaimsKeeps, RescueValidatesKeeps, RescueActivatesKeeps, RescueSweepsKeeps
<1>5. CASE CredentialLapses \/ DeadlinePasses \/ ClaimLapses
  BY <1>5, CredentialLapsesKeeps, DeadlinePassesKeeps, ClaimLapsesKeeps
<1>6. CASE ManagerCrashes \/ ManagerStarts \/ ManagerReady
  BY <1>6, ManagerCrashesKeeps, ManagerStartsKeeps, ManagerReadyKeeps
<1>7. CASE \E m \in wire : AgentIssue(m) \/ AgentCall(m)
  BY <1>7, AgentIssueKeeps, AgentCallKeeps
<1> QED
  BY <1>1, <1>2, <1>3, <1>4, <1>5, <1>6, <1>7 DEF BootstrapNext

LEMMA BootTypes == BootInv => BootstrapTypeOK
<1> SUFFICES ASSUME BootTyped PROVE BootstrapTypeOK
  BY DEF BootInv
<1>1. /\ job.state \in States \cup {Absent} /\ job.ref \in Creds \cup {NoRef}
      /\ job.rev \in Nat /\ job.owner \in 0..MaxLives
  BY DEF BootTyped, JobRow
<1>2. /\ attempt.pc \in {"idle", "issue", "publish", "validate", "activate", "revoke"}
      /\ attempt.helper \in Creds \cup {NoCred}
      /\ rescue.pc \in {"idle", "validate", "activate", "sweep"}
      /\ agent.cred \in Creds \cup {NoCred}
      /\ agent.state \in {"none", "pending", "lapsed", "active", "revoked"}
  BY DEF BootTyped, AttemptRecord, RescueRecord, AgentRecord
<1>3. wire \subseteq [kind: {"issue", "reissue"}, of: 1..MaxTries]
                     \cup [kind: Calls, of: Creds, by: {"attempt", "rescue"}]
  BY DEF BootTyped, WireRecord
<1> QED
  BY <1>1, <1>2, <1>3 DEF BootTyped, BootstrapTypeOK

LEMMA BootAlways == BootstrapSpec => []BootInv
  BY BootInitInv, BootStepKeeps, PTL DEF BootstrapSpec

\* The type invariant of the local enrollment: whatever attempt, recover() and late
\* request write, the row, the request's record and the Agent's row stay well formed.
THEOREM BootstrapTyped == BootstrapSpec => []BootstrapTypeOK
  BY BootAlways, BootTypes, PTL

\* bootstrap_local and recover(): the credential of the registered local Agent is the
\* one its row holds, active, and its token is kept; a saved activation has its token,
\* for any number of attempts, credentials, late requests and Manager incarnations.
THEOREM LocalAlwaysUsable == BootstrapSpec => []LocalUsable
<1>1. BootInv => LocalUsable
  BY DEF BootInv
<1> QED
  BY <1>1, BootAlways, PTL
=============================================================================
