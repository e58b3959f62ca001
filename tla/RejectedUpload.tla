--------------------------- MODULE RejectedUpload ----------------------------
(***************************************************************************)
(* An uploaded file that no version uses yet.  A request binds it to a new *)
(* version or is rejected for good; a rejected request deletes the file in *)
(* a transaction of its own: a tombstone is written, the row is deleted,   *)
(* and after the commit the file and the tombstone are unlinked.  What     *)
(* fails on the way is left to maintenance, which may run at any moment.   *)
(***************************************************************************)
EXTENDS Naturals, FiniteSets

CONSTANTS
    Requests,   \* requests that name the same file
    MaxFaults,  \* failing unlinks, lost answers and processes that exit
    None

VARIABLES
    row,      \* whether the file's row is committed
    bound,    \* the requests whose version is committed
    file,     \* "original", "restored" (moved away and back) or "gone"
    tomb,     \* the tombstones, by the request that wrote them
    graced,   \* the tombstones older than the grace period
    pc,
    known,    \* the identity a request captured with its tombstone
    lock,     \* the row lock of a transaction: "share", "update" or none
    inflight, \* the transactions whose commit lost its client
    sweep,    \* the tombstone maintenance works on
    faults

vars == <<row, bound, file, tomb, graced, pc, known, lock, inflight, sweep, faults>>

\* The row can be locked: by the foreign key of a new version, or for update.
MayShare(r) == \A q \in Requests \ {r} : lock[q] # "update"
MayUpdate(r) == \A q \in Requests \ {r} : lock[q] = "none"

Goto(r, label) == pc' = [pc EXCEPT ![r] = label]
Fault == faults < MaxFaults /\ faults' = faults + 1

-----------------------------------------------------------------------------
(* The binding: create_review_item and upload_review_version *)

\* The file is read without a lock, then probed against the project.
_authoritative_binding_probe(r) ==
    /\ pc[r] = "received"
    /\ \/ row /\ file # "gone" /\ Goto(r, "accepted")
       \/ row /\ Goto(r, "rejected")
       \/ Goto(r, "refused")
    /\ UNCHANGED <<known, row, bound, file, tomb, graced, lock, inflight, sweep, faults>>

\* The foreign key locks the row of the file, or fails when it is gone.
_create_version(r) ==
    /\ pc[r] = "accepted" /\ MayShare(r)
    /\ IF row THEN Goto(r, "binding") /\ lock' = [lock EXCEPT ![r] = "share"]
              ELSE Goto(r, "refused") /\ UNCHANGED lock
    /\ UNCHANGED <<known, row, bound, file, tomb, graced, inflight, sweep, faults>>

bind_commits(r) ==
    /\ pc[r] = "binding"
    /\ \/ /\ bound' = bound \cup {r} /\ lock' = [lock EXCEPT ![r] = "none"]
          /\ Goto(r, "done") /\ UNCHANGED <<inflight, faults>>
       \/ /\ Fault /\ inflight' = inflight \cup {r}
          /\ Goto(r, "done") /\ UNCHANGED <<bound, lock>>
    /\ UNCHANGED <<known, row, file, tomb, graced, sweep>>

-----------------------------------------------------------------------------
(* cleanup_rejected_unbound_upload *)

\* The row is deleted, and its upload sessions are detached, in the
\* transaction that holds its lock.
_delete_file_object_if_unreferenced(r) ==
    Goto(r, "deleting") /\ lock' = [lock EXCEPT ![r] = "update"]

\* The row is locked before the versions are counted.
cleanup_unbound_uploaded_file(r) ==
    /\ pc[r] = "rejected" /\ MayUpdate(r)
    /\ IF row /\ bound = {}
       THEN _delete_file_object_if_unreferenced(r)
       ELSE Goto(r, "done") /\ UNCHANGED lock
    /\ UNCHANGED <<known, row, bound, file, tomb, graced, inflight, sweep, faults>>

\* The tombstone holds the identity of the file, when there is one.
_write_pending_file_delete(r) ==
    /\ pc[r] = "deleting"
    /\ LET identity == IF file = "gone" THEN "nofile" ELSE file IN
       tomb' = [tomb EXCEPT ![r] = identity] /\ known' = [known EXCEPT ![r] = identity]
    /\ Goto(r, "written")
    /\ UNCHANGED <<row, bound, file, graced, lock, inflight, sweep, faults>>

\* The commit succeeds, or its outcome is unknown and the tombstone is kept.
cleanup_commits(r) ==
    /\ pc[r] = "written"
    /\ \/ /\ row' = FALSE /\ lock' = [lock EXCEPT ![r] = "none"]
          /\ Goto(r, "unlink") /\ UNCHANGED <<inflight, faults>>
       \/ /\ Fault /\ inflight' = inflight \cup {r}
          /\ Goto(r, "done") /\ UNCHANGED <<row, lock>>
    /\ UNCHANGED <<known, bound, file, tomb, graced, sweep>>

server_resolves(r) ==
    /\ r \in inflight /\ inflight' = inflight \ {r}
    /\ \/ UNCHANGED <<row, bound>>
       \/ lock[r] = "share" /\ bound' = bound \cup {r} /\ UNCHANGED row
       \/ lock[r] = "update" /\ row' = FALSE /\ UNCHANGED bound
    /\ lock' = [lock EXCEPT ![r] = "none"]
    /\ UNCHANGED <<known, file, tomb, graced, pc, sweep, faults>>

\* unlink_regular_file_if_identity: the file is moved aside and unlinked; an
\* unlink that fails may put it back with another change time.
Unlinked(identity) ==
    \/ file = "gone" /\ UNCHANGED <<file, faults>>
    \/ file = identity /\ file' = "gone" /\ UNCHANGED faults
NotUnlinked(identity) ==
    \/ file \notin {identity, "gone"} /\ UNCHANGED <<file, faults>>
    \/ file = identity /\ Fault /\ file' \in {file, "restored"}

run_post_commit_file_deletions(r) ==
    /\ pc[r] = "unlink"
    /\ \/ Unlinked(known[r]) /\ Goto(r, "unlinked")
       \/ NotUnlinked(known[r]) /\ Goto(r, "done")
    /\ UNCHANGED <<known, row, bound, tomb, graced, lock, inflight, sweep>>

unlink_tombstone(r) ==
    /\ pc[r] = "unlinked" /\ Goto(r, "done")
    /\ \/ tomb' = [tomb EXCEPT ![r] = None] /\ UNCHANGED faults
       \/ Fault /\ UNCHANGED tomb
    /\ UNCHANGED <<known, row, bound, file, graced, lock, inflight, sweep>>

\* The process exits, or raises: an open transaction is rolled back and the
\* tombstone stays.
dies(r) ==
    /\ pc[r] \notin {"idle", "done"} /\ Fault
    /\ Goto(r, "done") /\ lock' = [lock EXCEPT ![r] = "none"]
    /\ UNCHANGED <<known, row, bound, file, tomb, graced, inflight, sweep>>

arrives(r) ==
    /\ pc[r] = "idle" /\ Goto(r, "received")
    /\ UNCHANGED <<known, row, bound, file, tomb, graced, lock, inflight, sweep, faults>>

-----------------------------------------------------------------------------
(* Maintenance *)

grace_passes(t) ==
    /\ tomb[t] # None /\ t \notin graced /\ graced' = graced \cup {t}
    /\ UNCHANGED <<known, row, bound, file, tomb, pc, lock, inflight, sweep, faults>>

_pending_delete_has_database_reference == row

\* A tombstone whose file has a reference goes after the grace period.
_cleanup_pending_deletes(t) ==
    /\ sweep = None /\ tomb[t] # None
    /\ IF _pending_delete_has_database_reference
       THEN /\ t \in graced /\ tomb' = [tomb EXCEPT ![t] = None]
            /\ UNCHANGED sweep
       ELSE sweep' = t /\ UNCHANGED tomb
    /\ UNCHANGED <<known, row, bound, file, graced, pc, lock, inflight, faults>>

sweep_unlinks(t) ==
    /\ sweep = t
    /\ \/ /\ Unlinked(tomb[t]) /\ tomb' = [tomb EXCEPT ![t] = None]
       \/ /\ NotUnlinked(tomb[t]) /\ UNCHANGED tomb
    /\ sweep' = None
    /\ UNCHANGED <<known, row, bound, graced, pc, lock, inflight>>

_cleanup_orphan_managed_files_untombed ==
    /\ file # "gone" /\ ~row /\ file' = "gone"
    /\ \A t \in Requests : tomb[t] = None
    /\ UNCHANGED <<known, row, bound, tomb, graced, pc, lock, inflight, sweep, faults>>

\* A stale file without a row goes whatever the tombstones say.
_cleanup_orphan_managed_files ==
    /\ file # "gone" /\ ~row /\ file' = "gone"
    /\ UNCHANGED <<known, row, bound, tomb, graced, pc, lock, inflight, sweep, faults>>

Init ==
    /\ row = TRUE /\ bound = {} /\ file = "original"
    /\ tomb = [r \in Requests |-> None] /\ graced = {}
    /\ pc = [r \in Requests |-> "idle"] /\ known = [r \in Requests |-> None]
    /\ lock = [r \in Requests |-> "none"]
    /\ inflight = {} /\ sweep = None /\ faults = 0

RequestStep(r) ==
    \/ _authoritative_binding_probe(r) \/ _create_version(r) \/ bind_commits(r)
    \/ cleanup_unbound_uploaded_file(r) \/ _write_pending_file_delete(r) \/ cleanup_commits(r)
    \/ run_post_commit_file_deletions(r) \/ unlink_tombstone(r)

Maintenance ==
    \E t \in Requests : _cleanup_pending_deletes(t) \/ sweep_unlinks(t)

Next ==
    \/ \E r \in Requests : RequestStep(r) \/ server_resolves(r) \/ arrives(r) \/ dies(r) \/ grace_passes(r)
    \/ Maintenance \/ _cleanup_orphan_managed_files

Spec == Init /\ [][Next]_vars

\* Requests run, the server ends every transaction, time passes, and each
\* pass of maintenance looks at every tombstone and at the files.
FairSpec ==
    /\ Spec
    /\ \A r \in Requests : /\ WF_vars(RequestStep(r)) /\ WF_vars(server_resolves(r))
                           /\ WF_vars(grace_passes(r)) /\ WF_vars(sweep_unlinks(r))
                           /\ SF_vars(_cleanup_pending_deletes(r))
    /\ WF_vars(_cleanup_orphan_managed_files)

-----------------------------------------------------------------------------

TypeOK ==
    /\ Cardinality({r \in Requests : lock[r] = "update"}) <= 1
    /\ graced \subseteq Requests /\ inflight \subseteq Requests
    /\ faults \in 0..MaxFaults

\* A file that a committed version uses keeps its row and its bytes, although
\* another request that named it was rejected and cleans up.
BoundFileStays == bound # {} => row /\ file = "original"

\* As long as the row is there, the file is there too: nothing is unlinked
\* before its deletion is committed.
RowHasFile == row => file # "gone"

\* No row names a file that is gone.
RowsHaveFiles == BoundFileStays /\ RowHasFile

\* Once the row is gone, the file goes, whatever failed on the way.
RowlessFileGoes == []<>(row \/ file = "gone")

\* No tombstone stays for ever.
TombstonesGo == \A r \in Requests : []<>(tomb[r] = None)
=============================================================================
