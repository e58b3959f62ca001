--------------------------- MODULE ReviewWorkflow ---------------------------
(***************************************************************************)
(* Projects, review items, their versions and issues: every command of     *)
(* SqlAlchemyReviewRepository that changes them, each one transaction      *)
(* under the project and item row locks, and the database triggers that    *)
(* freeze a finalized item.  A command passes the checks of the            *)
(* repository, writes its rows, and commits unless a trigger raises.       *)
(*                                                                         *)
(* An issue is either human or linked to a finding of the technical        *)
(* quality control; the identifier of a linked one is a digest of the      *)
(* version and the finding, so it is that pair here.                       *)
(***************************************************************************)
EXTENDS Naturals, FiniteSets

CONSTANTS Projects, Items, ProjectOf, MaxVersion, HumanIssues, Findings,
          LockModulus,   \* lock_version is kept modulo this
          Losable        \* numbers of the versions whose file the disk may lose

ReviewConstants ==
    /\ ProjectOf \in [Items -> Projects]
    /\ MaxVersion \in Nat \ {0}
    /\ LockModulus \in Nat \ {0}
    /\ Losable \subseteq 1 .. MaxVersion

Versions == Items \X (1 .. MaxVersion)
LinkedIssues == Versions \X Findings
IssueIds == HumanIssues \cup LinkedIssues

VARIABLES
    project,   \* lifecycle_status of each project
    item,      \* workflow status, current version, finalized version, lock
    playback,  \* state of each version's playback derivative and file
    issue,     \* rows of review_issues
    started,   \* review.session.started events per version (0, 1, 2 = more)
    refused    \* a trigger raised in a transaction the repository admitted

reviewVars == <<project, item, playback, issue, started, refused>>

NoVersion == 0
AbsentItem == [workflow |-> "absent", current |-> NoVersion,
               finalized |-> NoVersion, lock |-> 0]
AbsentIssue == [version |-> <<>>, status |-> "absent", deleted |-> FALSE,
                lock |-> 0]
OpenIssue(v) == [version |-> v, status |-> "unresolved", deleted |-> FALSE,
                 lock |-> 1 % LockModulus]
Bump(row) == [row EXCEPT !.lock = (@ + 1) % LockModulus]

Active(i) == project[ProjectOf[i]] = "active"
Current(i) == <<i, item[i].current>>
Exists(i) == item[i].workflow # "absent"
Finalized(i) == item[i].workflow = "finalized"
Live(rows, v) == {x \in IssueIds : rows[x].version = v /\ ~rows[x].deleted}
Unresolved(rows, v) == {x \in Live(rows, v) : rows[x].status = "unresolved"}
Linked(x) == x \in LinkedIssues

-----------------------------------------------------------------------------
(* The freeze triggers, on the row before and after an update. *)

\* fcr_check_review_item_refs_and_freeze: a finalized item only goes back to
\* in_review, its finalization cleared and the rest of the row kept.
FreezeAdmitsItem(old, new) ==
    \/ old.workflow # "finalized"
    \/ /\ new.workflow = "in_review"
       /\ new.finalized = NoVersion
       /\ new.current = old.current
       /\ new.lock = Bump(old).lock

\* fcr_check_identity_and_freeze on an update of review_issues.
FreezeAdmitsIssue(i, x, old, new) ==
    \/ ~Finalized(i)
    \/ /\ Linked(x)
       /\ Active(i)
       /\ ~old.deleted
       /\ new.version = old.version
       /\ new.status = old.status
            \/ (old.status = "unresolved" /\ new.status = "resolved")
       /\ new.lock = Bump(old).lock

Raise == refused' = TRUE /\ UNCHANGED <<project, item, playback, issue>>

\* The repository writes item i and issue x; the triggers have the last word.
Write(i, row, x, opinion) ==
    IF /\ row # item[i] => FreezeAdmitsItem(item[i], row)
       /\ opinion # issue[x] => FreezeAdmitsIssue(i, x, issue[x], opinion)
    THEN /\ item' = [item EXCEPT ![i] = row]
         /\ issue' = [issue EXCEPT ![x] = opinion]
         /\ UNCHANGED <<project, playback, refused>>
    ELSE Raise

WriteItem(i, row) ==
    IF row # item[i] => FreezeAdmitsItem(item[i], row)
    THEN /\ item' = [item EXCEPT ![i] = row]
         /\ UNCHANGED <<project, playback, issue, refused>>
    ELSE Raise

\* sync_item_workflow_for_current_issues on the issue rows of this transaction.
Synced(row, i, rows) ==
    Bump([row EXCEPT !.workflow =
            IF Unresolved(rows, <<i, row.current>>) # {}
            THEN "changes_requested" ELSE "in_review"])

StartSession(v, starts) ==
    started' = [started EXCEPT ![v] =
                  IF starts /\ @ < 2 THEN @ + 1 ELSE @]

-----------------------------------------------------------------------------
(* Projects *)

archive_project(p) ==
    /\ project[p] = "active"
    /\ project' = [project EXCEPT ![p] = "archived"]
    /\ UNCHANGED <<item, playback, issue, started, refused>>

restore_project(p) ==
    /\ project[p] = "archived"
    /\ project' = [project EXCEPT ![p] = "active"]
    /\ UNCHANGED <<item, playback, issue, started, refused>>

-----------------------------------------------------------------------------
(* Items and versions *)

create_review_item(i) ==
    /\ Active(i)
    /\ ~Exists(i)
    /\ item' = [item EXCEPT ![i] =
         [AbsentItem EXCEPT !.workflow = "pending_review", !.current = 1]]
    /\ UNCHANGED <<project, playback, issue, started, refused>>

update_review_item(i) ==
    /\ Active(i)
    /\ Exists(i)
    /\ ~Finalized(i)
    /\ WriteItem(i, Bump(item[i]))
    /\ UNCHANGED started

\* ensure_can_upload_version counts every live issue, resolved or not.
CanUploadVersion(i) == ~Finalized(i) /\ Live(issue, Current(i)) # {}

upload_review_version(i) ==
    /\ Active(i)
    /\ Exists(i)
    /\ CanUploadVersion(i)
    /\ item[i].current < MaxVersion
    /\ WriteItem(i, Bump([item[i] EXCEPT !.current = @ + 1,
                                          !.workflow = "pending_review"]))
    /\ UNCHANGED started

\* No event and no new lock version when the review has already started.
start_review(i) ==
    /\ Active(i)
    /\ Exists(i)
    /\ playback[Current(i)] = "ready"
    /\ item[i].workflow = "pending_review"
    /\ WriteItem(i, Bump([item[i] EXCEPT !.workflow = "in_review"]))
    /\ StartSession(Current(i), TRUE)

-----------------------------------------------------------------------------
(* Issues of the current version *)

create_review_issue(i, x) ==
    /\ Active(i)
    /\ Exists(i)
    /\ ~Finalized(i)
    /\ playback[Current(i)] = "ready"
    /\ x \in HumanIssues
    /\ issue[x].status = "absent"
    /\ LET rows == [issue EXCEPT ![x] = OpenIssue(Current(i))] IN
       Write(i, Synced(item[i], i, rows), x, rows[x])
    /\ StartSession(Current(i), item[i].workflow = "pending_review")

\* _get_issue on the current version (a deleted row is not found).
Addressed_any_version(i, x) ==
    /\ Active(i)
    /\ Exists(i)
    /\ issue[x].version \in Versions /\ issue[x].version[1] = i

Addressed(i, x) ==
    /\ Active(i)
    /\ Exists(i)
    /\ issue[x].version = Current(i)

Readable(i, x) == Addressed(i, x) /\ ~issue[x].deleted

\* _ensure_issue_writable: a linked issue stays writable once finalized.
EnsureIssueWritable(i, x) == ~Finalized(i) \/ Linked(x)

\* The item follows unless it is finalized.
Follow(i, rows) == IF Finalized(i) THEN item[i] ELSE Synced(item[i], i, rows)

\* A new revision (and annotation) of the text: the item row is not touched.
update_review_issue(i, x) ==
    /\ Readable(i, x)
    /\ EnsureIssueWritable(i, x)
    /\ Write(i, item[i], x, Bump(issue[x]))
    /\ UNCHANGED started

resolve_issue(i, x) ==
    /\ Readable(i, x)
    /\ EnsureIssueWritable(i, x)
    /\ issue[x].status = "unresolved"
    /\ LET rows == [issue EXCEPT ![x] = Bump([@ EXCEPT !.status = "resolved"])]
       IN  Write(i, Follow(i, rows), x, rows[x])
    /\ UNCHANGED started

reopen_issue_when_linked(i, x) ==
    /\ Readable(i, x)
    /\ EnsureIssueWritable(i, x)
    /\ issue[x].status = "resolved"
    /\ LET rows == [issue EXCEPT ![x] = Bump([@ EXCEPT !.status = "unresolved"])]
       IN  Write(i, Follow(i, rows), x, rows[x])
    /\ UNCHANGED started

reopen_issue(i, x) ==
    /\ Readable(i, x)
    /\ ~Finalized(i)
    /\ issue[x].status = "resolved"
    /\ LET rows == [issue EXCEPT ![x] = Bump([@ EXCEPT !.status = "unresolved"])]
       IN  Write(i, Follow(i, rows), x, rows[x])
    /\ UNCHANGED started

soft_delete_issue(i, x) ==
    /\ Addressed(i, x)
    /\ EnsureIssueWritable(i, x)
    /\ ~issue[x].deleted
    /\ LET rows == [issue EXCEPT ![x] = Bump([@ EXCEPT !.deleted = TRUE])]
       IN  Write(i, Follow(i, rows), x, rows[x])
    /\ UNCHANGED started

-----------------------------------------------------------------------------
(* Finalization, as far as the workflow sees it (the packages are in the   *)
(* module Finalization).                                                   *)

FinalizedRow(i) == Bump([item[i] EXCEPT !.workflow = "finalized",
                                        !.finalized = item[i].current])
RevokedRow(i) == Bump([item[i] EXCEPT !.workflow = "in_review",
                                      !.finalized = NoVersion])

CanFinalize(i) == Exists(i) /\ ~Finalized(i) /\ playback[Current(i)] = "ready"

ItemsOf(p) == {i \in Items : ProjectOf[i] = p /\ Exists(i)}

\* finalize_version and revoke_finalization take one item, finalize_project
\* and revoke_project_finalization all that remain, in one transaction.
FinalizeItems(set) ==
    /\ \A i \in set : Active(i) /\ CanFinalize(i)
    /\ item' = [i \in Items |-> IF i \in set THEN FinalizedRow(i) ELSE item[i]]
    /\ UNCHANGED <<project, playback, issue, started, refused>>

RevokeItems(set) ==
    /\ \A i \in set : Active(i) /\ Finalized(i)
    /\ IF \A i \in set : FreezeAdmitsItem(item[i], RevokedRow(i))
       THEN /\ item' = [i \in Items |->
                           IF i \in set THEN RevokedRow(i) ELSE item[i]]
            /\ UNCHANGED <<project, playback, issue, refused>>
       ELSE Raise
    /\ UNCHANGED started

finalize_version(i) == FinalizeItems({i})
revoke_finalization(i) == RevokeItems({i})

finalize_project(p) ==
    LET targets == {i \in ItemsOf(p) : ~Finalized(i)} IN
    targets # {} /\ FinalizeItems(targets)

revoke_project_finalization(p) ==
    LET targets == {i \in ItemsOf(p) : Finalized(i)} IN
    targets # {} /\ RevokeItems(targets)

-----------------------------------------------------------------------------
(* The playback derivative of a version: published by the media worker,    *)
(* lost from the disk, queued again by the request that misses it.         *)

publish_playback(v) ==
    /\ v[2] \in 1 .. item[v[1]].current
    /\ playback[v] = "pending"
    /\ playback' = [playback EXCEPT ![v] = "ready"]
    /\ UNCHANGED <<project, item, issue, started, refused>>

lose_playback_file(v) ==
    /\ v[2] \in Losable
    /\ playback[v] = "ready"
    /\ playback' = [playback EXCEPT ![v] = "missing"]
    /\ UNCHANGED <<project, item, issue, started, refused>>

requeue_missing_ready_derivative(v) ==
    /\ playback[v] = "missing"
    /\ playback' = [playback EXCEPT ![v] = "pending"]
    /\ UNCHANGED <<project, item, issue, started, refused>>

-----------------------------------------------------------------------------

ReviewInit ==
    /\ project = [p \in Projects |-> "active"]
    /\ item = [i \in Items |-> AbsentItem]
    /\ playback = [v \in Versions |-> "pending"]
    /\ issue = [x \in IssueIds |-> AbsentIssue]
    /\ started = [v \in Versions |-> 0]
    /\ refused = FALSE

ReviewNext ==
    \/ \E p \in Projects : \/ archive_project(p)
                           \/ restore_project(p)
                           \/ finalize_project(p)
                           \/ revoke_project_finalization(p)
    \/ \E i \in Items : \/ create_review_item(i)
                        \/ update_review_item(i)
                        \/ upload_review_version(i)
                        \/ start_review(i)
                        \/ finalize_version(i)
                        \/ revoke_finalization(i)
    \/ \E i \in Items, x \in IssueIds : \/ create_review_issue(i, x)
                                        \/ update_review_issue(i, x)
                                        \/ resolve_issue(i, x)
                                        \/ reopen_issue(i, x)
                                        \/ soft_delete_issue(i, x)
    \/ \E v \in Versions : \/ publish_playback(v)
                           \/ lose_playback_file(v)
                           \/ requeue_missing_ready_derivative(v)

ReviewTypeOK ==
    /\ project \in [Projects -> {"active", "archived"}]
    /\ item \in [Items -> [workflow : {"absent", "pending_review", "in_review",
                                       "changes_requested", "finalized"},
                           current : 0 .. MaxVersion,
                           finalized : 0 .. MaxVersion,
                           lock : 0 .. LockModulus - 1]]
    /\ playback \in [Versions -> {"pending", "ready", "missing"}]
    /\ issue \in [IssueIds ->
                    [version : Versions \cup {<<>>},
                     status : {"absent", "unresolved", "resolved"},
                     deleted : BOOLEAN, lock : 0 .. LockModulus - 1]]
    /\ started \in [Versions -> 0 .. 2]
    /\ refused \in BOOLEAN
=============================================================================
