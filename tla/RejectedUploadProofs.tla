------------------------- MODULE RejectedUploadProofs -------------------------
(***************************************************************************)
(* A file that a row still names is untouched, for any number of requests  *)
(* that bind or reject it and whatever maintenance does meanwhile.  The    *)
(* row lock carries the argument: a version is bound under the share lock, *)
(* a row is deleted under the update lock, the two exclude one another,    *)
(* and nothing is unlinked before the row is gone for good.                *)
(***************************************************************************)
EXTENDS RejectedUpload, TLAPS

USE Zenon

(*-------------------------- the inductive invariant ----------------------*)

Labels == {"idle", "received", "accepted", "rejected", "refused", "binding",
           "deleting", "written", "unlink", "unlinked", "done"}

TypeInv ==
    /\ bound \in SUBSET Requests
    /\ pc \in [Requests -> Labels]
    /\ lock \in [Requests -> {"none", "share", "update"}]
    /\ inflight \in SUBSET Requests
    /\ sweep \in Requests \cup {None}

\* The update lock is exclusive, and whoever has a lock found the row.
LocksExclude ==
    \A r \in Requests :
       /\ lock[r] = "update" => \A q \in Requests \ {r} : lock[q] = "none"
       /\ lock[r] # "none" => row
       /\ lock[r] = "update" => bound = {}

\* The steps that write the row are taken under their lock; a transaction
\* that lost its client has no step left.
LocksAreHeld ==
    \A r \in Requests :
       /\ pc[r] = "binding" => lock[r] = "share"
       /\ pc[r] \in {"deleting", "written"} => lock[r] = "update"
       /\ r \in inflight => pc[r] = "done"

\* Files are unlinked, by the request and by maintenance, only without a row.
UnlinksFollowCommit ==
    /\ \A r \in Requests : pc[r] \in {"unlink", "unlinked"} => ~row
    /\ sweep # None => ~row

RowKeepsFile ==
    /\ row => file = "original"
    /\ bound # {} => row

UploadInv ==
    /\ TypeInv
    /\ LocksExclude
    /\ LocksAreHeld
    /\ UnlinksFollowCommit
    /\ RowKeepsFile

(*------------------------------ preservation ------------------------------*)

\* The steps of a request.
LEMMA RequestKeeps ==
    ASSUME None \notin Requests, UploadInv,
           NEW r \in Requests, RequestStep(r)
    PROVE  UploadInv'
  <1>1. CASE _authoritative_binding_probe(r)
    <2>1. TypeInv'
      BY <1>1, SMTT(10)
      DEF UploadInv, TypeInv, Labels, Goto, _authoritative_binding_probe
    <2>2. LocksExclude' /\ LocksAreHeld' /\ UnlinksFollowCommit'
      BY <1>1, SMTT(10)
      DEF UploadInv, TypeInv, LocksAreHeld, Goto,
          _authoritative_binding_probe, UnlinksFollowCommit, LocksExclude
    <2>3. RowKeepsFile'
      BY <1>1, SMTT(10)
      DEF UploadInv, RowKeepsFile, _authoritative_binding_probe
    <2> QED
      BY <2>1, <2>2, <2>3
      DEF UploadInv
  <1>2. CASE _create_version(r)
    <2>1. TypeInv'
      BY <1>2, SMTT(10)
      DEF UploadInv, TypeInv, Labels, Goto, _create_version
    <2>2. LocksExclude' /\ LocksAreHeld' /\ UnlinksFollowCommit'
      BY <1>2, SMTT(10)
      DEF UploadInv, TypeInv, LocksExclude, MayShare, _create_version,
          LocksAreHeld, Goto, UnlinksFollowCommit
    <2>3. RowKeepsFile'
      BY <1>2, SMTT(10)
      DEF UploadInv, RowKeepsFile, _create_version
    <2> QED
      BY <2>1, <2>2, <2>3
      DEF UploadInv
  <1>3. CASE bind_commits(r)
    <2>1. TypeInv'
      BY <1>3, SMTT(10)
      DEF UploadInv, TypeInv, Labels, Goto, bind_commits
    <2>2. LocksExclude'
      BY <1>3, SMTT(10)
      DEF UploadInv, TypeInv, LocksExclude, bind_commits, LocksAreHeld
    <2>3. RowKeepsFile'
      BY <1>3, SMTT(10)
      DEF UploadInv, RowKeepsFile, bind_commits, LocksExclude, LocksAreHeld
    <2>4. LocksAreHeld' /\ UnlinksFollowCommit'
      BY <1>3, SMTT(10)
      DEF UploadInv, TypeInv, LocksAreHeld, Goto, bind_commits,
          UnlinksFollowCommit
    <2> QED
      BY <2>1, <2>2, <2>3, <2>4
      DEF UploadInv
  <1>4. CASE cleanup_unbound_uploaded_file(r)
    <2>1. TypeInv'
      BY <1>4, SMTT(10)
      DEF UploadInv, TypeInv, Labels, Goto,
          _delete_file_object_if_unreferenced, cleanup_unbound_uploaded_file
    <2>2. LocksExclude' /\ LocksAreHeld' /\ UnlinksFollowCommit'
      BY <1>4, SMTT(10)
      DEF UploadInv, TypeInv, LocksExclude,
          _delete_file_object_if_unreferenced, MayUpdate,
          cleanup_unbound_uploaded_file, LocksAreHeld, Goto,
          UnlinksFollowCommit
    <2>3. RowKeepsFile'
      BY <1>4, SMTT(10)
      DEF UploadInv, RowKeepsFile, cleanup_unbound_uploaded_file
    <2> QED
      BY <2>1, <2>2, <2>3
      DEF UploadInv
  <1>5. CASE _write_pending_file_delete(r)
    <2>1. TypeInv'
      BY <1>5, SMTT(10)
      DEF UploadInv, TypeInv, Labels, Goto, _write_pending_file_delete
    <2>2. LocksExclude' /\ LocksAreHeld' /\ UnlinksFollowCommit'
      BY <1>5, SMTT(10)
      DEF UploadInv, LocksAreHeld, Goto, _write_pending_file_delete,
          UnlinksFollowCommit, LocksExclude
    <2>3. RowKeepsFile'
      BY <1>5, SMTT(10)
      DEF UploadInv, RowKeepsFile, _write_pending_file_delete
    <2> QED
      BY <2>1, <2>2, <2>3
      DEF UploadInv
  <1>6. CASE cleanup_commits(r)
    <2>1. TypeInv'
      BY <1>6, SMTT(10)
      DEF UploadInv, TypeInv, Labels, Goto, cleanup_commits
    <2>2. LocksExclude'
      BY <1>6, SMTT(10)
      DEF UploadInv, TypeInv, LocksExclude, cleanup_commits, LocksAreHeld
    <2>3. RowKeepsFile'
      BY <1>6, SMTT(10)
      DEF UploadInv, RowKeepsFile, cleanup_commits, LocksExclude, LocksAreHeld
    <2>4. LocksAreHeld' /\ UnlinksFollowCommit'
      BY <1>6, SMTT(10)
      DEF UploadInv, TypeInv, LocksAreHeld, Goto, cleanup_commits,
          UnlinksFollowCommit
    <2> QED
      BY <2>1, <2>2, <2>3, <2>4
      DEF UploadInv
  <1>7. CASE run_post_commit_file_deletions(r)
    <2>1. TypeInv'
      BY <1>7, SMTT(10)
      DEF UploadInv, TypeInv, Labels, Goto, run_post_commit_file_deletions
    <2>2. RowKeepsFile'
      BY <1>7, SMTT(10)
      DEF UploadInv, RowKeepsFile, run_post_commit_file_deletions,
          UnlinksFollowCommit
    <2>3. LocksExclude' /\ LocksAreHeld' /\ UnlinksFollowCommit'
      BY <1>7, SMTT(10)
      DEF UploadInv, TypeInv, LocksAreHeld, Goto,
          run_post_commit_file_deletions, UnlinksFollowCommit, LocksExclude
    <2> QED
      BY <2>1, <2>2, <2>3
      DEF UploadInv
  <1>8. CASE unlink_tombstone(r)
    <2>1. TypeInv'
      BY <1>8, SMTT(10)
      DEF UploadInv, TypeInv, Labels, Goto, unlink_tombstone
    <2>2. LocksExclude' /\ LocksAreHeld' /\ UnlinksFollowCommit'
      BY <1>8, SMTT(10)
      DEF UploadInv, LocksAreHeld, Goto, unlink_tombstone,
          UnlinksFollowCommit, LocksExclude
    <2>3. RowKeepsFile'
      BY <1>8, SMTT(10)
      DEF UploadInv, RowKeepsFile, unlink_tombstone
    <2> QED
      BY <2>1, <2>2, <2>3
      DEF UploadInv
  <1> QED
    BY <1>1, <1>2, <1>3, <1>4, <1>5, <1>6, <1>7, <1>8
    DEF RequestStep

\* What happens to a request.
LEMMA ServerKeeps ==
    ASSUME None \notin Requests, UploadInv, NEW r \in Requests,
           server_resolves(r) \/ arrives(r) \/ dies(r) \/ grace_passes(r)
    PROVE  UploadInv'
  <1>1. CASE server_resolves(r)
    <2>1. TypeInv'
      BY <1>1, SMTT(10)
      DEF UploadInv, TypeInv, server_resolves
    <2>2. RowKeepsFile'
      BY <1>1, SMTT(10)
      DEF UploadInv, RowKeepsFile, server_resolves, LocksExclude
    <2>3. LocksExclude' /\ LocksAreHeld' /\ UnlinksFollowCommit'
      BY <1>1, SMTT(10)
      DEF UploadInv, TypeInv, LocksExclude, server_resolves, LocksAreHeld,
          UnlinksFollowCommit
    <2> QED
      BY <2>1, <2>2, <2>3
      DEF UploadInv
  <1>2. CASE arrives(r)
    <2>1. TypeInv'
      BY <1>2, SMTT(10)
      DEF UploadInv, TypeInv, Labels, Goto, arrives
    <2>2. LocksExclude' /\ LocksAreHeld' /\ UnlinksFollowCommit'
      BY <1>2, SMTT(10)
      DEF UploadInv, LocksAreHeld, Goto, arrives, UnlinksFollowCommit,
          LocksExclude
    <2>3. RowKeepsFile'
      BY <1>2, SMTT(10)
      DEF UploadInv, RowKeepsFile, arrives
    <2> QED
      BY <2>1, <2>2, <2>3
      DEF UploadInv
  <1>3. CASE dies(r)
    <2>1. TypeInv'
      BY <1>3, SMTT(10)
      DEF UploadInv, TypeInv, Labels, Goto, dies
    <2>2. LocksExclude' /\ LocksAreHeld' /\ UnlinksFollowCommit'
      BY <1>3, SMTT(10)
      DEF UploadInv, LocksExclude, dies, TypeInv, LocksAreHeld, Goto,
          UnlinksFollowCommit
    <2>3. RowKeepsFile'
      BY <1>3, SMTT(10)
      DEF UploadInv, RowKeepsFile, dies
    <2> QED
      BY <2>1, <2>2, <2>3
      DEF UploadInv
  <1>4. CASE grace_passes(r)
    <2>1. TypeInv'
      BY <1>4, SMTT(10)
      DEF UploadInv, TypeInv, grace_passes
    <2>2. LocksExclude' /\ LocksAreHeld' /\ UnlinksFollowCommit'
      BY <1>4, SMTT(10)
      DEF UploadInv, LocksExclude, LocksAreHeld, UnlinksFollowCommit,
          grace_passes
    <2>3. RowKeepsFile'
      BY <1>4, SMTT(10)
      DEF UploadInv, RowKeepsFile, grace_passes
    <2> QED
      BY <2>1, <2>2, <2>3
      DEF UploadInv
  <1> QED
    BY <1>1, <1>2, <1>3, <1>4
    DEF UploadInv

\* Maintenance.
LEMMA MaintenanceKeeps ==
    ASSUME None \notin Requests, UploadInv,
           Maintenance \/ _cleanup_orphan_managed_files
    PROVE  UploadInv'
  <1>1. ASSUME NEW t \in Requests, _cleanup_pending_deletes(t)
       PROVE  UploadInv'
    <2>1. TypeInv'
      BY <1>1, SMTT(10)
      DEF UploadInv, TypeInv, _cleanup_pending_deletes
    <2>2. LocksExclude' /\ LocksAreHeld' /\ UnlinksFollowCommit'
      BY <1>1, SMTT(10)
      DEF UploadInv, UnlinksFollowCommit,
          _pending_delete_has_database_reference, _cleanup_pending_deletes,
          LocksExclude, LocksAreHeld
    <2>3. RowKeepsFile'
      BY <1>1, SMTT(10)
      DEF UploadInv, RowKeepsFile, _cleanup_pending_deletes
    <2> QED
      BY <2>1, <2>2, <2>3
      DEF UploadInv
  <1>2. ASSUME NEW t \in Requests, sweep_unlinks(t)
       PROVE  UploadInv'
    <2>1. TypeInv'
      BY <1>2, SMTT(10)
      DEF UploadInv, TypeInv, sweep_unlinks
    <2>2. RowKeepsFile'
      BY <1>2, SMTT(10)
      DEF UploadInv, RowKeepsFile, sweep_unlinks, UnlinksFollowCommit
    <2>3. LocksExclude' /\ LocksAreHeld' /\ UnlinksFollowCommit'
      BY <1>2, SMTT(10)
      DEF UploadInv, UnlinksFollowCommit, sweep_unlinks, LocksExclude,
          LocksAreHeld
    <2> QED
      BY <2>1, <2>2, <2>3
      DEF UploadInv
  <1>3. CASE _cleanup_orphan_managed_files
    <2>1. TypeInv'
      BY <1>3, SMTT(10)
      DEF UploadInv, TypeInv, _cleanup_orphan_managed_files
    <2>2. LocksExclude' /\ LocksAreHeld' /\ UnlinksFollowCommit'
      BY <1>3, SMTT(10)
      DEF UploadInv, LocksExclude, LocksAreHeld, UnlinksFollowCommit,
          _cleanup_orphan_managed_files
    <2>3. RowKeepsFile'
      BY <1>3, SMTT(10)
      DEF UploadInv, RowKeepsFile, _cleanup_orphan_managed_files
    <2> QED
      BY <2>1, <2>2, <2>3
      DEF UploadInv
  <1> QED
    BY <1>1, <1>2, <1>3
    DEF Maintenance

(*------------------------------- the theorem ------------------------------*)

LEMMA InitKeeps == Init => UploadInv
  BY SMTT(10) DEF Init, UploadInv, TypeInv, Labels, LocksExclude, LocksAreHeld,
                  UnlinksFollowCommit, RowKeepsFile

LEMMA NextKeeps == None \notin Requests /\ UploadInv /\ [Next]_vars => UploadInv'
  <1> SUFFICES ASSUME None \notin Requests, UploadInv, [Next]_vars
               PROVE  UploadInv'
    OBVIOUS
  <1>1. CASE Next
    BY <1>1, RequestKeeps, ServerKeeps, MaintenanceKeeps DEF Next
  <1>2. CASE UNCHANGED vars
    BY <1>2 DEF vars, UploadInv, TypeInv, LocksExclude, LocksAreHeld,
                UnlinksFollowCommit, RowKeepsFile
  <1> QED
    BY <1>1, <1>2

\* A file that a committed version uses keeps its row and its bytes, and a row
\* has its file until its deletion is committed, whichever requests are
\* rejected, lose their answer or die, and whenever maintenance runs
\* (cleanup_rejected_unbound_upload, run_post_commit_file_deletions,
\* _cleanup_pending_deletes).
THEOREM NamedFilesStay ==
    ASSUME None \notin Requests
    PROVE  Spec => []RowsHaveFiles
  <1>1. UploadInv => RowsHaveFiles
    BY DEF UploadInv, RowKeepsFile, RowsHaveFiles, BoundFileStays, RowHasFile
  <1> QED
    BY <1>1, InitKeeps, NextKeeps, PTL DEF Spec
===============================================================================
