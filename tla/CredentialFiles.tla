--------------------------- MODULE CredentialFiles ---------------------------
(***************************************************************************)
(* The credential directory below put, replace and delete: a temporary     *)
(* file, a hard link or a rename, and fsync, over power losses and failing *)
(* system calls.                                                           *)
(*                                                                         *)
(* A write names its inode and its temporary file.  The file system keeps  *)
(* directory operations in order: a power loss leaves the directory as it  *)
(* was after any of the operations since its last fsync, and the contents  *)
(* of a file that was not synchronized in any state.                       *)
(***************************************************************************)
EXTENDS Naturals, FiniteSets

CONSTANTS
  Writes,    \* calls of put, replace or delete
  Refs,      \* references a token may be published under
  NoInode,   \* a name that does not exist; nobody
  MaxLoss    \* bound: power losses

ASSUME FilesAssumption ==
  /\ NoInode \notin Writes \cup Refs \cup {"starting"} /\ "starting" \notin Writes
  /\ IsFiniteSet(Refs) /\ MaxLoss \in Nat

VARIABLES
  dir,      \* [tmp: temporary files, ref: [Refs -> inode]]: the directory
  after,    \* the directories a power loss may leave
  data,     \* [Writes -> {"none", "partial", "full"}]: contents of each inode
  synced,   \* inodes whose contents are on disk
  write,    \* [Writes -> [pc, op, ref]]
  holder,   \* who holds the lifecycle lease
  acked,    \* [Refs -> inode]: what callers were told the reference holds
  losses

filesVars == <<dir, after, data, synced, write, holder, acked, losses>>

-----------------------------------------------------------------------------
Dir == [tmp: SUBSET Writes, ref: [Refs -> Writes \cup {NoInode}]]
InProgress == {"open", "written", "linked", "moved", "unlinked"}

FilesTypeOK ==
  /\ dir \in Dir /\ after \subseteq Dir /\ dir \in after
  /\ data \in [Writes -> {"none", "partial", "full"}]
  /\ synced \subseteq Writes
  /\ write \in [Writes -> [pc: InProgress \cup {"new", "done", "failed"},
                           op: {"put", "replace", "delete"}, ref: Refs \cup {NoInode}]]
  /\ holder \in Writes \cup {NoInode, "starting"}
  /\ acked \in [Refs -> Writes \cup {NoInode}]
  /\ losses \in Nat

FilesInit ==
  /\ dir = [tmp |-> {}, ref |-> [r \in Refs |-> NoInode]]
  /\ after = {dir}
  /\ data = [w \in Writes |-> "none"]
  /\ synced = {}
  /\ write \in [Writes -> [pc: {"new"}, op: {"put", "replace", "delete"}, ref: {NoInode}]]
  /\ holder = NoInode
  /\ acked = [r \in Refs |-> NoInode]
  /\ losses = 0

\* An operation on the directory; fsync.
Change(d) == dir' = d /\ after' = after \cup {d}
\* Faulty variant: the directory is not synchronized.
SyncDirSkipped == UNCHANGED <<dir, after>>
SyncDir == after' = {dir} /\ UNCHANGED dir

Step(w, pc) == write' = [write EXCEPT ![w].pc = pc]
Untmp(w) == [dir EXCEPT !.tmp = @ \ {w}]

-----------------------------------------------------------------------------
\* The lease; replace and delete want an existing file.  _write_temporary.
BeginWrite(w, r) ==
  LET op == write[w].op IN
  /\ write[w].pc = "new" /\ holder = NoInode
  /\ op # "put" => dir.ref[r] # NoInode
  /\ holder' = w
  /\ \/ /\ op = "delete"
        /\ write' = [write EXCEPT ![w].pc = "moved", ![w].ref = r]
        /\ Change([dir EXCEPT !.ref[r] = NoInode])
        /\ UNCHANGED data
     \/ /\ op # "delete"
        /\ write' = [write EXCEPT ![w].pc = "open", ![w].ref = r]
        /\ Change([dir EXCEPT !.tmp = @ \cup {w}])
        /\ data' = [data EXCEPT ![w] = "partial"]
  /\ UNCHANGED <<synced, acked, losses>>

\* Faulty variant: closed without fsync.
WriteTemporaryUnsynced(w) ==
  /\ write[w].pc = "open"
  /\ Step(w, "written")
  /\ data' = [data EXCEPT ![w] = "full"]
  /\ UNCHANGED <<dir, after, synced, holder, acked, losses>>

\* Written in full, then fsync, then closed.
WriteTemporary(w) ==
  /\ write[w].pc = "open"
  /\ Step(w, "written")
  /\ data' = [data EXCEPT ![w] = "full"]
  /\ synced' = synced \cup {w}
  /\ UNCHANGED <<dir, after, holder, acked, losses>>

\* _publish_new: link, unless the reference exists (then the temporary file
\* goes and another reference is tried).
LinkTemporary(w) ==
  /\ write[w].pc = "written" /\ write[w].op = "put"
  /\ \/ /\ dir.ref[write[w].ref] = NoInode
        /\ Step(w, "linked")
        /\ Change([dir EXCEPT !.ref[write[w].ref] = w])
        /\ UNCHANGED <<data, synced, holder>>
     \/ /\ dir.ref[write[w].ref] # NoInode
        /\ Step(w, "new")
        /\ Change(Untmp(w))
        /\ data' = [data EXCEPT ![w] = "none"] /\ synced' = synced \ {w}
        /\ holder' = NoInode
  /\ UNCHANGED <<acked, losses>>

\* Faulty variant: a failing unlink is taken for a collision, and the temporary
\* file is linked again under another reference.
UnlinkTemporaryRetries(w) ==
  /\ write[w].pc = "linked"
  /\ \E r \in Refs :
       /\ dir.ref[r] = NoInode
       /\ write' = [write EXCEPT ![w].pc = "written", ![w].ref = r]
  /\ UNCHANGED <<dir, after, data, synced, holder, acked, losses>>

UnlinkTemporary(w) ==
  /\ write[w].pc = "linked"
  /\ Step(w, "moved")
  /\ Change(Untmp(w))
  /\ UNCHANGED <<data, synced, holder, acked, losses>>

\* _publish_replace: one rename.
RenameTemporary(w) ==
  /\ write[w].pc = "written" /\ write[w].op = "replace"
  /\ Step(w, "moved")
  /\ Change([Untmp(w) EXCEPT !.ref[write[w].ref] = w])
  /\ UNCHANGED <<data, synced, holder, acked, losses>>

\* _fsync_directory, and the caller is answered.
SyncDirectory(w) ==
  /\ write[w].pc = "moved"
  /\ SyncDir
  /\ Step(w, "done")
  /\ acked' = [acked EXCEPT ![write[w].ref] = IF write[w].op = "delete" THEN NoInode ELSE w]
  /\ holder' = NoInode
  /\ UNCHANGED <<data, synced, losses>>

\* A system call fails: the temporary file goes, the caller gets an error and
\* may not count on either contents of its reference.
WriteFails(w) ==
  /\ write[w].pc \in InProgress
  /\ Step(w, "failed")
  /\ Change(Untmp(w))
  /\ acked' = [acked EXCEPT ![write[w].ref] = IF write[w].op = "put" THEN @ ELSE NoInode]
  /\ holder' = NoInode
  /\ UNCHANGED <<data, synced, losses>>

-----------------------------------------------------------------------------
\* The machine or the process goes down; the interrupted callers get no answer.
Unanswered(r) == \E w \in Writes : write[w].pc \in InProgress /\ write[w].ref = r
                                   /\ write[w].op # "put"
PowerLoss ==
  /\ losses < MaxLoss
  /\ losses' = losses + 1
  /\ \E d \in after : dir' = d /\ after' = {d}
  /\ data' \in {f \in [Writes -> {"none", "partial", "full"}] :
                  \A w \in Writes : f[w] # data[w] => w \notin synced /\ f[w] = "partial"}
  /\ write' = [w \in Writes |-> IF write[w].pc \in InProgress
                                THEN [write[w] EXCEPT !.pc = "failed"] ELSE write[w]]
  /\ acked' = [r \in Refs |-> IF Unanswered(r) THEN NoInode ELSE acked[r]]
  /\ holder' = "starting"
  /\ UNCHANGED synced

\* The names of an inode, as _validate_temporary's link count tells.
Links(d, w) == Cardinality({r \in Refs : d.ref[r] = w}) + (IF w \in d.tmp THEN 1 ELSE 0)

\* _recover_temporary_files; it raises when a temporary file has other links
\* than one published name, and then the Manager does not start.
RecoverTemporaries ==
  /\ holder = "starting"
  /\ \A w \in dir.tmp : Links(dir, w) <= 2
  /\ dir' = [dir EXCEPT !.tmp = {}] /\ after' = {dir'}
  /\ holder' = NoInode
  /\ UNCHANGED <<data, synced, write, acked, losses>>

FilesNext ==
  \/ \E w \in Writes, r \in Refs : BeginWrite(w, r)
  \/ \E w \in Writes : WriteTemporary(w)
  \/ \E w \in Writes : LinkTemporary(w)
  \/ \E w \in Writes : UnlinkTemporary(w)
  \/ \E w \in Writes : RenameTemporary(w)
  \/ \E w \in Writes : SyncDirectory(w)
  \/ \E w \in Writes : WriteFails(w)
  \/ PowerLoss
  \/ RecoverTemporaries

FilesSpec == FilesInit /\ [][FilesNext]_filesVars

-----------------------------------------------------------------------------
(* Properties.                                                             *)

\* A reference that put or replace returned still holds the token it was given,
\* now and in every directory a power loss could leave, until a replace or a
\* delete of it is under way.
AckedDurable ==
  \A r \in Refs : acked[r] # NoInode /\ ~Unanswered(r) =>
    \A d \in after : d.ref[r] = acked[r]

\* No published name ever leads to a token that is not complete and on disk,
\* not even the ones nobody was told of (_write_temporary synchronizes before
\* _publish_new links).
NoTornToken ==
  \A d \in after, r \in Refs :
    d.ref[r] # NoInode => data[d.ref[r]] = "full" /\ d.ref[r] \in synced

\* The recovery at the next start finds only temporary files it accepts, at
\* whichever operation the power was lost, and the names it does not know are
\* never shared (_recover_temporary_files).
RecoveryAccepts ==
  \A d \in after, w \in Writes :
    /\ Links(d, w) <= 2
    /\ Cardinality({r \in Refs : d.ref[r] = w}) <= 1
=============================================================================
