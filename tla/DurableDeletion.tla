--------------------------- MODULE DurableDeletion ---------------------------
(***************************************************************************)
(* Deleting items and projects for good.  The command removes the rows in  *)
(* one transaction and records an intent with an artifact for every file   *)
(* it found on disk; cleaners then claim the intent under a lease and      *)
(* unlink the files without a transaction.  Derivative workers, package    *)
(* leases and the sweep of orphan files run at the same time.              *)
(***************************************************************************)
EXTENDS Integers, FiniteSets

CONSTANTS
    Items,       \* review items of one project
    Files,       \* managed files and package archives
    Packages,    \* those of Files that are archives
    OwnersOf,    \* the items each file belongs to
    Derived,     \* files a derivative worker still has to make
    Statuses,    \* workflow states the items start in
    Cleaners,    \* request threads and maintenance, each with its own claim ids
    MaxFailures, \* unlinks that fail before the file is moved
    MaxRestores, \* unlinks that fail after it, so that the file is put back
    MaxExits,    \* cleaners and workers that exit
    Project, None

VARIABLES
    status,   \* workflow of each item; "gone" once it is deleted
    history,  \* items with an issue or a second version
    project,  \* the project row exists
    row,      \* files and packages with a row
    disk,     \* what is at the file's name: as written, put back, or nothing
    moved,    \* files in the delete quarantine, and who moved them
    task,     \* derivative task of each file of Derived
    leased,   \* packages with a build or download lease
    intent,   \* deletion intents, one for each subject
    artifact, \* the files each intent has captured
    op,       \* what each cleaner is doing
    failures, restores, exits

vars == <<status, history, project, row, disk, moved, task, leased, intent, artifact,
          op, failures, restores, exits>>
rows == <<status, history, project, row, task, leased>>
bounds == <<failures, restores, exits>>

Subjects == Items \cup {Project}
Media == Files \ Packages
Live == {i \in Items : status[i] # "gone"}

NoIntent == [status |-> "none", claim |-> None, live |-> FALSE]
NoOp == [pc |-> "idle", claims |-> {}, s |-> None, todo |-> {}, f |-> None, ok |-> FALSE]

-----------------------------------------------------------------------------
(* The commands *)

\* A file goes with the scope unless a row outside the scope refers to it; a
\* package goes when all its finalizations are in the scope.
_file_has_reference_outside_scope_never(f, scope) == FALSE
_file_has_reference_outside_scope(f, scope) == OwnersOf[f] \cap (Live \ scope) # {}

_scope_file_candidates(scope) == {f \in row \cap Media : OwnersOf[f] \cap scope # {}}
_capture_scope_files(scope) ==
    {f \in _scope_file_candidates(scope) : ~_file_has_reference_outside_scope(f, scope)}
_package_is_exclusive_to_finalizations(p, scope) == OwnersOf[p] \subseteq scope
DeletablePackages(scope, whole) ==
    {p \in row \cap Packages : whole \/ _package_is_exclusive_to_finalizations(p, scope)}

\* What is on disk is captured with its identity; what is not needs no cleaner.
_capture_artifacts(gone) ==
    [f \in {g \in gone : disk[g] # "absent"} |-> [status |-> "pending", ident |-> disk[f]]]
_finish_database_deletion(artifacts) ==
    [NoIntent EXCEPT !.status = IF DOMAIN artifacts = {} THEN "complete" ELSE "pending"]

_assert_cleanup_not_leased(scope, whole) ==
    /\ \A f \in Derived : OwnersOf[f] \subseteq scope => task[f] # "running"
    /\ \A p \in row \cap Packages :
          (whole \/ OwnersOf[p] \cap scope # {}) => p \notin leased

_assert_item_delete_eligible(i) ==
    status[i] \in {"pending_review", "revoked"} /\ i \notin history

\* For each subject s of the scopes, the rows gone[s] go and an intent is made.
_delete_scope(subjects, gone) ==
    LET captured == [s \in subjects |-> _capture_artifacts(gone[s])]
    IN /\ artifact' = [s \in Subjects |-> IF s \in subjects THEN captured[s] ELSE artifact[s]]
       /\ intent' = [s \in Subjects |-> IF s \in subjects
                                        THEN _finish_database_deletion(captured[s])
                                        ELSE intent[s]]
       /\ row' = row \ UNION {gone[s] : s \in subjects}

delete_review_item(i) ==
    /\ project /\ i \in Live
    /\ _assert_item_delete_eligible(i) /\ _assert_cleanup_not_leased({i}, FALSE)
    /\ _delete_scope({i}, [s \in {i} |-> _capture_scope_files({i})
                                        \cup DeletablePackages({i}, FALSE)])
    /\ status' = [status EXCEPT ![i] = "gone"]
    /\ task' = [f \in Derived |-> IF OwnersOf[f] = {i} THEN "gone" ELSE task[f]]
    /\ UNCHANGED <<history, project, leased, disk, moved, op, bounds>>

delete_project ==
    /\ project
    /\ \A i \in Live : status[i] # "finalized"
    /\ _assert_cleanup_not_leased(Live, TRUE)
    /\ _delete_scope({Project}, [s \in {Project} |-> _capture_scope_files(Live)
                                                    \cup DeletablePackages(Live, TRUE)])
    /\ status' = [i \in Items |-> "gone"]
    /\ task' = [f \in Derived |-> "gone"]
    /\ project' = FALSE
    /\ UNCHANGED <<history, leased, disk, moved, op, bounds>>

\* Each item of the batch is deleted in a savepoint of its own; what cannot be
\* deleted is reported and the others go.  (With one item left it is
\* delete_review_item.)
delete_review_items_batch(batch) ==
    LET chosen == {i \in batch \cap Live : /\ _assert_item_delete_eligible(i)
                                           /\ _assert_cleanup_not_leased({i}, FALSE)}
        last(f) == CHOOSE i \in OwnersOf[f] \cap chosen : TRUE
        gone(i) == {f \in _capture_scope_files(chosen) : i = last(f)}
                   \cup DeletablePackages({i}, FALSE)
    IN /\ project /\ Cardinality(chosen) > 1
       /\ _delete_scope(chosen, [i \in chosen |-> gone(i)])
       /\ status' = [i \in Items |-> IF i \in chosen THEN "gone" ELSE status[i]]
       /\ task' = [f \in Derived |-> IF OwnersOf[f] \subseteq chosen THEN "gone" ELSE task[f]]
       /\ UNCHANGED <<history, project, leased, disk, moved, op, bounds>>

-----------------------------------------------------------------------------
(* A cleaner: process_review_deletion_intents *)

Held(c, s) == intent[s].status = "cleaning" /\ intent[s].claim = c

Remaining(s) == {f \in DOMAIN artifact[s] : artifact[s][f].status # "deleted"}

Claimable(s) ==
    \/ intent[s].status \in {"pending", "failed"}
    \/ intent[s].status = "cleaning" /\ ~intent[s].live

\* recover_delete_quarantines, whose failure is passed over, then one claim for
\* each intent of the batch.
_claim_review_deletion_intents(c, batch) ==
    /\ op[c].pc = "idle" /\ batch # {} /\ \A s \in batch : Claimable(s)
    /\ \/ /\ moved' = [f \in Files |-> IF f \in Media /\ moved[f] = "left" THEN None
                                     ELSE moved[f]]
          /\ UNCHANGED failures
       \/ /\ \E f \in Media : moved[f] = "left"
          /\ failures < MaxFailures /\ failures' = failures + 1 /\ UNCHANGED moved
    /\ intent' = [s \in Subjects |-> IF s \notin batch THEN intent[s]
                    ELSE [status |-> "cleaning", claim |-> c, live |-> TRUE]]
    /\ op' = [op EXCEPT ![c] = [NoOp EXCEPT !.pc = "begin", !.claims = batch]]
    /\ UNCHANGED <<rows, disk, artifact, restores, exits>>

\* One intent after the other, unless its claim was lost meanwhile.
begin_intent(c) ==
    /\ op[c].pc = "begin"
    /\ IF op[c].claims = {} THEN op' = [op EXCEPT ![c] = NoOp]
       ELSE \E s \in op[c].claims :
              op' = [op EXCEPT ![c] =
                       [@ EXCEPT !.claims = @ \ {s}, !.s = s,
                                 !.pc = IF Held(c, s) THEN "next" ELSE "begin",
                                 !.todo = IF Held(c, s) THEN Remaining(s) ELSE {}]]
    /\ UNCHANGED <<rows, disk, moved, intent, artifact, bounds>>

\* The claim is looked at before each file; a claim that was lost ends the
\* loop without a trace.
next_artifact(c) ==
    /\ op[c].pc = "next" /\ op[c].todo # {}
    /\ \E f \in op[c].todo :
          op' = [op EXCEPT ![c].todo = @ \ {f}, ![c].f = f,
                           ![c].pc = IF Held(c, op[c].s) /\ artifact[op[c].s][f].status # "deleted"
                                     THEN "pin" ELSE "next"]
    /\ UNCHANGED <<rows, disk, moved, intent, artifact, bounds>>

\* Nothing at the name is success unless the file is in the quarantine;
\* another identity is a failure.  The journal of an archive is looked at when
\* it is deleted.
InQuarantine(f) == moved[f] # None

pin_artifact(c) ==
    LET f == op[c].f
        ident == artifact[op[c].s][f].ident
        goOn == disk[f] = ident \/ (disk[f] = "absent" /\ f \in Packages)
    IN /\ op[c].pc = "pin"
       /\ op' = [op EXCEPT ![c].pc = IF goOn THEN "unlink" ELSE "record",
                           ![c].ok = disk[f] = "absent" /\ ~InQuarantine(f)]
       /\ UNCHANGED <<rows, disk, moved, intent, artifact, bounds>>

\* PinnedRegularFile.unlink, in two halves; the package journal takes over
\* what a cleaner left in it, and fails while another holds its lock.
move_artifact(c) ==
    LET f == op[c].f IN
    /\ op[c].pc = "unlink"
    /\ \/ /\ disk[f] = artifact[op[c].s][f].ident
          /\ disk' = [disk EXCEPT ![f] = "absent"] /\ moved' = [moved EXCEPT ![f] = c]
          /\ op' = [op EXCEPT ![c].pc = "moved"]
       \/ /\ disk[f] = "absent" /\ f \in Packages /\ moved[f] = "left"
          /\ moved' = [moved EXCEPT ![f] = c] /\ UNCHANGED disk
          /\ op' = [op EXCEPT ![c].pc = "moved"]
       \/ /\ disk[f] # artifact[op[c].s][f].ident
          /\ f \in Packages => moved[f] # "left"
          /\ op' = [op EXCEPT ![c].pc = "record",
                              ![c].ok = /\ disk[f] = "absent"
                                        /\ f \in Packages => moved[f] = None]
          /\ UNCHANGED <<disk, moved>>
    /\ UNCHANGED <<rows, intent, artifact, bounds>>

unlink_artifact(c) ==
    /\ op[c].pc = "moved"
    /\ moved' = [moved EXCEPT ![op[c].f] = None]
    /\ op' = [op EXCEPT ![c].pc = "record", ![c].ok = TRUE]
    /\ UNCHANGED <<rows, disk, intent, artifact, bounds>>

\* It fails with the file untouched or already unlinked, or in between: then
\* the file is put back under its name, with another change time.
unlink_fails(c) ==
    /\ op[c].pc \in {"unlink", "moved"} /\ failures < MaxFailures
    /\ failures' = failures + 1
    /\ moved' = [f \in Files |-> IF moved[f] = c THEN None ELSE moved[f]]
    /\ op' = [op EXCEPT ![c].pc = "record", ![c].ok = FALSE]
    /\ UNCHANGED <<rows, disk, intent, artifact, restores, exits>>

unlink_restores(c) ==
    /\ op[c].pc = "moved" /\ op[c].f \in Media /\ restores < MaxRestores
    /\ restores' = restores + 1
    /\ disk' = [disk EXCEPT ![op[c].f] = "restored"]
    /\ moved' = [moved EXCEPT ![op[c].f] = None]
    /\ op' = [op EXCEPT ![c].pc = "record", ![c].ok = FALSE]
    /\ UNCHANGED <<rows, intent, artifact, failures, exits>>

record_artifact_deleted(c) ==
    /\ op[c].pc = "record"
    /\ artifact' = IF Held(c, op[c].s)
                   THEN [artifact EXCEPT ![op[c].s][op[c].f].status = "deleted"]
                   ELSE artifact
    /\ op' = [op EXCEPT ![c].pc = "next"]
    /\ UNCHANGED <<rows, disk, moved, intent, bounds>>

\* The outcome is recorded only under the claim.
record_artifact(c) ==
    /\ op[c].pc = "record"
    /\ artifact' = IF Held(c, op[c].s)
                   THEN [artifact EXCEPT ![op[c].s][op[c].f].status =
                           IF op[c].ok THEN "deleted" ELSE "failed"]
                   ELSE artifact
    /\ op' = [op EXCEPT ![c].pc = "next"]
    /\ UNCHANGED <<rows, disk, moved, intent, bounds>>

finish_intent(c) ==
    /\ op[c].pc = "next" /\ op[c].todo = {}
    /\ intent' = IF Held(c, op[c].s)
                 THEN [intent EXCEPT ![op[c].s] =
                         [NoIntent EXCEPT !.status =
                            IF Remaining(op[c].s) = {} THEN "complete" ELSE "failed"]]
                 ELSE intent
    /\ op' = [op EXCEPT ![c].pc = "begin"]
    /\ UNCHANGED <<rows, disk, moved, artifact, bounds>>

-----------------------------------------------------------------------------
(* The sweep of orphan files *)

Protected(f) ==
    \E s \in Subjects : /\ intent[s].status \in {"pending", "cleaning", "failed"}
                        /\ f \in DOMAIN artifact[s] /\ artifact[s][f].status # "deleted"

\* An active derivative task keeps the name of its output.
_cleanup_orphan_managed_files(f) ==
    /\ disk[f] # "absent" /\ f \notin row /\ ~Protected(f)
    /\ f \in Derived => task[f] \notin {"queued", "running", "late"}
    /\ disk' = [disk EXCEPT ![f] = "absent"]
    /\ UNCHANGED <<rows, moved, intent, artifact, op, bounds>>

-----------------------------------------------------------------------------
(* The rest of the system *)

review_goes_on(i) ==
    /\ project /\ i \in Live
    /\ \/ /\ status[i] = "pending_review" /\ status' = [status EXCEPT ![i] = "in_review"]
          /\ history' \in {history, history \cup {i}}
       \/ /\ status[i] \in {"in_review", "revoked"} /\ UNCHANGED history
          /\ status' = [status EXCEPT ![i] = "finalized"]
       \/ /\ status[i] = "finalized" /\ UNCHANGED history
          /\ status' = [status EXCEPT ![i] = "revoked"]
    /\ UNCHANGED <<project, row, task, leased, disk, moved, intent, artifact, op, bounds>>

package_lease(p) ==
    /\ p \in row
    /\ leased' = IF p \in leased THEN leased \ {p} ELSE leased \cup {p}
    /\ UNCHANGED <<status, history, project, row, task, disk, moved, intent, artifact, op,
                   bounds>>

\* A worker claims the task; its lease may run out; the file is linked under
\* its name before the row is written, and unlinked if the task has gone.
derivative_claim(f) ==
    /\ task[f] \in {"queued", "late"}
    /\ task' = [task EXCEPT ![f] = "running"]
    /\ UNCHANGED <<status, history, project, row, leased, disk, moved, intent, artifact, op,
                   bounds>>

derivative_lease_expires(f) ==
    /\ task[f] = "running"
    /\ task' = [task EXCEPT ![f] = "late"]
    /\ UNCHANGED <<status, history, project, row, leased, disk, moved, intent, artifact, op,
                   bounds>>

derivative_link(f) ==
    /\ task[f] \in {"running", "late"} /\ disk[f] = "absent"
    /\ disk' = [disk EXCEPT ![f] = "written"]
    /\ UNCHANGED <<rows, moved, intent, artifact, op, bounds>>

derivative_commit(f) ==
    /\ task[f] \in {"running", "late", "gone"} /\ disk[f] = "written" /\ f \notin row
    /\ IF task[f] = "gone"
       THEN disk' = [disk EXCEPT ![f] = "absent"] /\ UNCHANGED <<task, row>>
       ELSE /\ task' = [task EXCEPT ![f] = "ready"] /\ row' = row \cup {f}
            /\ UNCHANGED disk
    /\ UNCHANGED <<status, history, project, leased, moved, intent, artifact, op, bounds>>

\* The lease of a claim runs out while its cleaner still works.
claim_expires(s) ==
    /\ intent[s].status = "cleaning" /\ intent[s].live
    /\ intent' = [intent EXCEPT ![s].live = FALSE]
    /\ UNCHANGED <<rows, disk, moved, artifact, op, bounds>>

\* A cleaner exits: what it had moved stays in the quarantine.
cleaner_exits(c) ==
    /\ op[c].pc # "idle" /\ exits < MaxExits
    /\ exits' = exits + 1
    /\ moved' = [f \in Files |-> IF moved[f] = c THEN "left" ELSE moved[f]]
    /\ op' = [op EXCEPT ![c] = NoOp]
    /\ UNCHANGED <<rows, disk, intent, artifact, failures, restores>>

-----------------------------------------------------------------------------

Init ==
    /\ status \in [Items -> Statuses] /\ history = {} /\ project = TRUE
    /\ row = Files \ Derived
    /\ disk = [f \in Files |-> IF f \in Derived THEN "absent" ELSE "written"]
    /\ moved = [f \in Files |-> None]
    /\ task = [f \in Derived |-> "queued"] /\ leased = {}
    /\ intent = [s \in Subjects |-> NoIntent]
    /\ artifact = [s \in Subjects |-> << >>]
    /\ op = [c \in Cleaners |-> NoOp]
    /\ failures = 0 /\ restores = 0 /\ exits = 0

CleanerStep(c) ==
    \/ \E batch \in SUBSET Subjects : _claim_review_deletion_intents(c, batch)
    \/ begin_intent(c) \/ next_artifact(c) \/ pin_artifact(c) \/ move_artifact(c) \/ unlink_artifact(c)
    \/ record_artifact(c) \/ finish_intent(c)

Next ==
    \/ \E i \in Items : delete_review_item(i) \/ review_goes_on(i)
    \/ \E batch \in SUBSET Items : delete_review_items_batch(batch)
    \/ delete_project
    \/ \E c \in Cleaners : CleanerStep(c) \/ unlink_fails(c) \/ unlink_restores(c)
                           \/ cleaner_exits(c)
    \/ \E s \in Subjects : claim_expires(s)
    \/ \E f \in Media : _cleanup_orphan_managed_files(f)
    \/ \E p \in Packages : _cleanup_orphan_managed_files(p) \/ package_lease(p)
    \/ \E f \in Derived : derivative_claim(f) \/ derivative_lease_expires(f)
                          \/ derivative_link(f) \/ derivative_commit(f)

Spec == Init /\ [][Next]_vars

\* Maintenance claims what is left again and again and sweeps orphans; leases
\* run out.
FairSpec ==
    /\ Spec
    /\ \A c \in Cleaners : WF_vars(CleanerStep(c))
    /\ \A s \in Subjects : WF_vars(claim_expires(s))
    /\ \A f \in Files : WF_vars(_cleanup_orphan_managed_files(f))
    /\ \A f \in Derived : WF_vars(derivative_commit(f))

-----------------------------------------------------------------------------

TypeOK ==
    /\ \A i \in Items : status[i] \in {"pending_review", "in_review", "finalized", "revoked",
                                       "gone"}
    /\ \A f \in Files : disk[f] \in {"written", "restored", "absent"}
    /\ \A f \in Files : disk[f] # "absent" => moved[f] = None
    /\ \A s \in Subjects : DOMAIN artifact[s] \subseteq Files

\* No cleaner, sweep or late worker takes the file of a live row, and a live
\* item keeps its rows: a file shared by two items outlives the deletion of
\* one of them.
LiveRowsHaveFiles ==
    /\ \A f \in row : disk[f] = "written" /\ moved[f] = None
    /\ \A f \in Media \ Derived : OwnersOf[f] \cap Live # {} => f \in row

\* Every row of a file belongs to a live item, and every row of a package to
\* a live project, whatever worker publishes late.
RowsAreOwned ==
    \A f \in row : IF f \in Packages THEN project ELSE OwnersOf[f] \cap Live # {}

\* With one cleaner at a time an intent is complete only when all it has
\* captured has left both the disk and the quarantine, whatever exits and
\* failures came before.
CompleteMeansGone ==
    \A s \in Subjects : intent[s].status = "complete" =>
       \A f \in DOMAIN artifact[s] : disk[f] = "absent" /\ moved[f] = None

\* Even with a cleaner at work whose lease ran out, nothing is left at the
\* names of a complete intent.
CompleteLeavesNoName ==
    \A s \in Subjects : intent[s].status = "complete" =>
       \A f \in DOMAIN artifact[s] : disk[f] = "absent"

\* Every file that lost its row leaves the disk in the end.
DeletedFilesGo ==
    \A f \in Files : []<>(f \in row \/ (disk[f] = "absent" /\ moved[f] = None))

\* Every deletion is completed in the end, however often its files could not
\* be deleted.
IntentsComplete ==
    \A s \in Subjects : []<>(intent[s].status \in {"none", "complete"})
=============================================================================
