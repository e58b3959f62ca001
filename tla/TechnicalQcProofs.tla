-------------------------- MODULE TechnicalQcProofs --------------------------
(***************************************************************************)
(* What the review workflow and the queue of technical quality control     *)
(* guarantee for any number of projects, items, versions, issues, findings,*)
(* workers and slots.  One inductive invariant holds the types, what a row *)
(* that is absent looks like and where a session may have been started;    *)
(* the invariants and the action properties follow from it.                *)
(***************************************************************************)
EXTENDS TechnicalQc, FiniteSetTheorems, TLAPS

USE Zenon

\* What the proofs need to know of the constants.
Configured == ReviewConstants /\ QcConstants

(*------------------------- rows and lock versions ------------------------*)

Workflows == {"absent", "pending_review", "in_review", "changes_requested", "finalized"}
ItemRow == [workflow : Workflows, current : 0 .. MaxVersion,
            finalized : 0 .. MaxVersion, lock : 0 .. LockModulus - 1]
IssueRow == [version : Versions \cup {<<>>},
             status : {"absent", "unresolved", "resolved"},
             deleted : BOOLEAN, lock : 0 .. LockModulus - 1]
TaskRow == [status : {"none", "queued", "running", "complete", "failed"},
            claim : Slots \cup {NoClaim}, leased : BOOLEAN,
            attempts : 0 .. MaxAttempts, retry : {"never", "later", "due"}]

\* A bumped lock version is a lock version; with more than one to choose from
\* it is another one.
LEMMA NextLock ==
    ASSUME Configured, NEW l \in 0 .. LockModulus - 1
    PROVE  /\ (l + 1) % LockModulus \in 0 .. LockModulus - 1
           /\ LockModulus # 1 => (l + 1) % LockModulus # l
  BY SMTT(20) DEF Configured, ReviewConstants

LEMMA BumpedItem ==
    ASSUME Configured, NEW row \in ItemRow
    PROVE  /\ Bump(row) \in ItemRow
           /\ Bump(row).workflow = row.workflow
           /\ Bump(row).current = row.current
           /\ Bump(row).finalized = row.finalized
           /\ LockModulus # 1 => Bump(row).lock # row.lock
  <1>1. row.lock \in 0 .. LockModulus - 1
    BY DEF ItemRow
  <1>2. (row.lock + 1) % LockModulus \in 0 .. LockModulus - 1
    BY <1>1, NextLock
  <1>3. LockModulus # 1 => (row.lock + 1) % LockModulus # row.lock
    BY <1>1, NextLock
  <1>4. QED
    BY <1>2, <1>3, SMT DEF Bump, ItemRow

\* One field of an item row is changed.
LEMMA ChangedWorkflow ==
    ASSUME NEW row \in ItemRow, NEW w \in Workflows
    PROVE  LET new == [row EXCEPT !.workflow = w] IN
           /\ new \in ItemRow /\ new.workflow = w
           /\ new.current = row.current /\ new.lock = row.lock
  BY SMT DEF ItemRow

LEMMA ChangedCurrent ==
    ASSUME NEW row \in ItemRow, NEW c \in 0 .. MaxVersion
    PROVE  LET new == [row EXCEPT !.current = c] IN
           /\ new \in ItemRow /\ new.workflow = row.workflow
           /\ new.current = c /\ new.lock = row.lock
  BY SMT DEF ItemRow

LEMMA ChangedFinalized ==
    ASSUME NEW row \in ItemRow, NEW c \in 0 .. MaxVersion
    PROVE  LET new == [row EXCEPT !.finalized = c] IN
           /\ new \in ItemRow /\ new.workflow = row.workflow
           /\ new.current = row.current /\ new.lock = row.lock /\ new.finalized = c
  BY SMT DEF ItemRow

LEMMA BumpedIssue ==
    ASSUME Configured, NEW row \in IssueRow
    PROVE  /\ Bump(row) \in IssueRow
           /\ Bump(row).version = row.version
           /\ Bump(row).status = row.status
           /\ Bump(row).deleted = row.deleted
  <1>1. row.lock \in 0 .. LockModulus - 1
    BY DEF IssueRow
  <1>2. (row.lock + 1) % LockModulus \in 0 .. LockModulus - 1
    BY <1>1, NextLock
  <1>3. QED
    BY <1>2, SMT DEF Bump, IssueRow

(*-------------------------- the inductive invariant ----------------------*)

\* An item has a current version from the start, and an issue without a row
\* has neither a version nor a mark of deletion.
RowsAreInitialised ==
    /\ \A i \in Items : Exists(i) <=> item[i].current # 0
    /\ \A x \in IssueIds : issue[x].status = "absent" =>
          issue[x].version = <<>> /\ ~issue[x].deleted

\* A session was started at most once, and only of a version whose review is
\* not pending any more.
SessionsAreOver ==
    \A v \in Versions :
       /\ started[v] <= 1
       /\ started[v] # 0 =>
             \/ v[2] < item[v[1]].current
             \/ v[2] = item[v[1]].current /\ item[v[1]].workflow # "pending_review"

ReviewInv == ReviewTypeOK /\ RowsAreInitialised /\ SessionsAreOver /\ TriggersAgree

\* Tasks of one item are ordered by their creation, and nothing else is.
TasksAreOrdered ==
    /\ older \subseteq Versions \X Versions
    /\ \A u, v \in Versions : <<u, v>> \in older =>
          /\ u[1] = v[1] /\ u # v /\ <<v, u>> \notin older
          /\ task[u].status # "none" /\ task[v].status # "none"
    /\ \A u, v \in Versions :
          u[1] = v[1] /\ u # v /\ task[u].status # "none" /\ task[v].status # "none"
             => <<u, v>> \in older \/ <<v, u>> \in older

\* A finding without an issue was never announced.
AnnouncedWithItsIssue ==
    \A x \in LinkedIssues :
       /\ reported[x] <= 1
       /\ issue[x].status = "absent" => reported[x] = 0

QueueInv ==
    /\ task \in [Versions -> TaskRow]
    /\ slot \in [Slots -> Versions \cup {NoClaim}]
    /\ snapshot \in [Workers -> SUBSET (Versions \cup {NoClaim})]
    /\ stopping \in [Workers -> BOOLEAN]
    /\ reported \in [LinkedIssues -> 0 .. 2]
    /\ TasksAreOrdered
    /\ AnnouncedWithItsIssue
    /\ OneRunningPerItem

IInv == ReviewInv /\ QueueInv

\* With a single worker: what runs under a lease is in its snapshot.
SnapshotCovers(w) ==
    snapshot[w] # NoSnapshot => {v \in RunningTasks : task[v].leased} \subseteq snapshot[w]

LEMMA ReviewTypes ==
    ReviewTypeOK <=>
       /\ project \in [Projects -> {"active", "archived"}]
       /\ item \in [Items -> ItemRow]
       /\ playback \in [Versions -> {"pending", "ready", "missing"}]
       /\ issue \in [IssueIds -> IssueRow]
       /\ started \in [Versions -> 0 .. 2]
       /\ refused \in BOOLEAN
  BY DEF ReviewTypeOK, ItemRow, IssueRow, Workflows

LEMMA ReviewInitial == Configured /\ ReviewInit => ReviewInv
  <1> SUFFICES ASSUME Configured, ReviewInit
               PROVE  ReviewInv
    OBVIOUS
  <1>1. AbsentItem \in ItemRow /\ AbsentIssue \in IssueRow
    BY SMT DEF AbsentItem, AbsentIssue, ItemRow, IssueRow, Workflows, NoVersion,
               Configured, ReviewConstants
  <1>2. 0 \in 0 .. 2
    BY SMT
  <1>t. ReviewTypeOK
    BY <1>1, <1>2, ReviewTypes DEF ReviewInit
  <1>3. RowsAreInitialised
    BY DEF RowsAreInitialised, ReviewInit, AbsentItem, AbsentIssue, Exists, NoVersion
  <1>4. SessionsAreOver
    BY SMT DEF SessionsAreOver, ReviewInit
  <1>5. QED
    BY <1>t, <1>3, <1>4 DEF ReviewInv, TriggersAgree, ReviewInit

(*------------------------- the kinds of review steps ---------------------*)

\* A step that leaves the rows of items and issues alone.
Unconcerned ==
    /\ project' \in [Projects -> {"active", "archived"}]
    /\ playback' \in [Versions -> {"pending", "ready", "missing"}]
    /\ UNCHANGED <<item, issue, started, refused>>

\* What may become of the row of an item without its issues.
ItemMoves(i) ==
    \/ item'[i] = item[i]
    \/ ~Exists(i) /\ item'[i].workflow = "pending_review" /\ item'[i].current = 1
    \/ /\ Exists(i) /\ item'[i].lock = Bump(item[i]).lock
       /\ \/ /\ item'[i].current = item[i].current
             /\ item'[i].workflow # "absent"
             /\ item'[i].workflow = "pending_review" => item[i].workflow = "pending_review"
          \/ /\ item'[i].current = item[i].current + 1
             /\ item'[i].workflow = "pending_review"

\* The items move, and a session starts at most where a review was pending.
ItemsMove ==
    /\ item' \in [Items -> ItemRow]
    /\ \A i \in Items : ItemMoves(i)
    /\ \/ started' = started
       \/ \E i \in Items :
            /\ StartSession(Current(i), TRUE)
            /\ item[i].workflow = "pending_review" /\ item'[i].workflow # "pending_review"
            /\ item'[i].current = item[i].current

MovesItems == ItemsMove /\ UNCHANGED <<project, playback, issue, refused>>

\* What may become of an issue in a step on the current version of item i.
IssueMoves(i, x) ==
    \/ issue'[x] = issue[x]
    \/ /\ issue'[x].version = Current(i) /\ issue'[x].status # "absent"
       /\ ~issue[x].deleted
       /\ issue[x].status = "absent" \/ issue[x].version = Current(i)

ReviewsItem(i) ==
    /\ i \in Items /\ Active(i) /\ Exists(i)
    /\ issue' \in [IssueIds -> IssueRow]
    /\ \A x \in IssueIds : IssueMoves(i, x)
    /\ UNCHANGED <<project, playback, refused>>
    /\ \/ /\ item' = item /\ started' = started
          /\ Finalized(i) \/ Unresolved(issue', Current(i)) = Unresolved(issue, Current(i))
       \/ /\ ~Finalized(i)
          /\ item' = [item EXCEPT ![i] = Synced(item[i], i, issue')]
          /\ \/ started' = started
             \/ StartSession(Current(i), item[i].workflow = "pending_review")

\* The repository finds the row it needs: a bumped row of an item that is not
\* finalized, or none at all, passes the trigger.
LEMMA WrittenItem ==
    ASSUME NEW i \in Items, NEW row, ~Finalized(i), WriteItem(i, row)
    PROVE  /\ item' = [item EXCEPT ![i] = row]
           /\ UNCHANGED <<project, playback, issue, refused>>
  BY DEF WriteItem, FreezeAdmitsItem, Finalized

LEMMA ItemStep ==
    ASSUME Configured, ReviewInv, NEW i \in Items, NEW row \in ItemRow,
           item' = [item EXCEPT ![i] = row],
           \/ ~Exists(i) /\ row.workflow = "pending_review" /\ row.current = 1
           \/ /\ Exists(i) /\ row.lock = Bump(item[i]).lock
              /\ \/ /\ row.current = item[i].current
                    /\ row.workflow # "absent"
                    /\ row.workflow = "pending_review" => item[i].workflow = "pending_review"
                 \/ /\ row.current = item[i].current + 1
                    /\ row.workflow = "pending_review"
    PROVE  /\ item' \in [Items -> ItemRow]
           /\ \A j \in Items : ItemMoves(j)
  <1>1. item \in [Items -> ItemRow]
    BY ReviewTypes DEF ReviewInv
  <1>2. item'[i] = row /\ \A j \in Items : j # i => item'[j] = item[j]
    BY <1>1
  <1>3. QED
    BY <1>1, <1>2 DEF ItemMoves

LEMMA ItemCommands ==
    ASSUME Configured, ReviewInv, NEW i \in Items,
           \/ create_review_item(i)
           \/ update_review_item(i)
           \/ upload_review_version(i)
           \/ start_review(i)
    PROVE  MovesItems
  <1>1. item[i] \in ItemRow
    BY ReviewTypes DEF ReviewInv
  <1>2. Bump(item[i]) \in ItemRow /\ Bump(item[i]).workflow = item[i].workflow
           /\ Bump(item[i]).current = item[i].current
    BY <1>1, BumpedItem
  <1>w. "pending_review" \in Workflows
    BY DEF Workflows
  <1>3. CASE create_review_item(i)
    <2> DEFINE one == [AbsentItem EXCEPT !.workflow = "pending_review"]
               row == [one EXCEPT !.current = 1]
    <2>1. 0 \in 0 .. MaxVersion /\ 1 \in 0 .. MaxVersion /\ 0 \in 0 .. LockModulus - 1
      BY SMT DEF Configured, ReviewConstants
    <2>2. AbsentItem \in ItemRow
      BY <2>1 DEF AbsentItem, ItemRow, Workflows, NoVersion
    <2>3. one \in ItemRow /\ one.workflow = "pending_review"
      BY <1>w, <2>2, ChangedWorkflow
    <2>4. item' = [item EXCEPT ![i] = row] /\ ~Exists(i)
             /\ UNCHANGED <<project, playback, issue, started, refused>>
      BY <1>3 DEF create_review_item
    <2> HIDE DEF one
    <2>5. row \in ItemRow /\ row.workflow = "pending_review" /\ row.current = 1
      BY <2>1, <2>3, ChangedCurrent
    <2> HIDE DEF row
    <2>6. QED
      BY <2>4, <2>5, ItemStep DEF MovesItems, ItemsMove
  <1>4. CASE update_review_item(i)
    <2>1. item' = [item EXCEPT ![i] = Bump(item[i])] /\ Exists(i)
             /\ UNCHANGED <<project, playback, issue, refused, started>>
      BY <1>4, WrittenItem DEF update_review_item
    <2>2. QED
      BY <1>2, <2>1, ItemStep DEF MovesItems, ItemsMove, Exists
  <1>5. CASE upload_review_version(i)
    <2> DEFINE one == [item[i] EXCEPT !.current = item[i].current + 1]
               next == [one EXCEPT !.workflow = "pending_review"]
    <2>1. item[i].current + 1 \in 0 .. MaxVersion
      BY <1>1, <1>5, SMT DEF upload_review_version, ItemRow, Configured, ReviewConstants
    <2>2. one \in ItemRow /\ one.current = item[i].current + 1 /\ one.lock = item[i].lock
      BY <1>1, <2>1, ChangedCurrent
    <2>3. item' = [item EXCEPT ![i] = Bump(next)] /\ Exists(i)
             /\ UNCHANGED <<project, playback, issue, refused, started>>
      BY <1>5, WrittenItem DEF upload_review_version, CanUploadVersion
    <2> HIDE DEF one
    <2>4. next \in ItemRow /\ next.workflow = "pending_review"
             /\ next.current = item[i].current + 1 /\ next.lock = item[i].lock
      BY <1>w, <2>2, ChangedWorkflow
    <2> HIDE DEF next
    <2>5. Bump(next) \in ItemRow /\ Bump(next).workflow = "pending_review"
             /\ Bump(next).current = item[i].current + 1
      BY <2>4, BumpedItem
    <2>6. Bump(next).lock = Bump(item[i]).lock
      BY <1>1, <2>4, SMT DEF Bump, ItemRow
    <2>7. QED
      BY <2>3, <2>5, <2>6, ItemStep DEF MovesItems, ItemsMove
  <1>6. CASE start_review(i)
    <2> DEFINE next == [item[i] EXCEPT !.workflow = "in_review"]
    <2>1. next \in ItemRow /\ next.workflow = "in_review"
             /\ next.current = item[i].current /\ next.lock = item[i].lock
      BY <1>1, SMT DEF ItemRow, Workflows
    <2>2. Bump(next) \in ItemRow /\ Bump(next).workflow = "in_review"
             /\ Bump(next).current = item[i].current
      BY <2>1, BumpedItem
    <2>3. Bump(next).lock = Bump(item[i]).lock
      BY <1>1, <2>1, SMT DEF Bump, ItemRow
    <2>4. item' = [item EXCEPT ![i] = Bump(next)] /\ Exists(i)
             /\ item[i].workflow = "pending_review"
             /\ UNCHANGED <<project, playback, issue, refused>>
             /\ StartSession(Current(i), TRUE)
      BY <1>6, WrittenItem DEF start_review, Finalized
    <2> HIDE DEF next
    <2>5. item' \in [Items -> ItemRow] /\ \A j \in Items : ItemMoves(j)
      BY <2>2, <2>3, <2>4, ItemStep
    <2>6. item'[i] = Bump(next)
      BY <2>4, ReviewTypes DEF ReviewInv
    <2>7. QED
      BY <2>2, <2>4, <2>5, <2>6 DEF MovesItems, ItemsMove
  <1>7. QED
    BY <1>3, <1>4, <1>5, <1>6

LEMMA FinalizedRows ==
    ASSUME Configured, ReviewInv, NEW i \in Items
    PROVE  /\ FinalizedRow(i) \in ItemRow /\ FinalizedRow(i).workflow = "finalized"
           /\ FinalizedRow(i).current = item[i].current
           /\ FinalizedRow(i).lock = Bump(item[i]).lock
           /\ RevokedRow(i) \in ItemRow /\ RevokedRow(i).workflow = "in_review"
           /\ RevokedRow(i).current = item[i].current /\ RevokedRow(i).finalized = NoVersion
           /\ RevokedRow(i).lock = Bump(item[i]).lock
  <1> DEFINE one == [item[i] EXCEPT !.workflow = "finalized"]
             two == [item[i] EXCEPT !.workflow = "in_review"]
             final == [one EXCEPT !.finalized = item[i].current]
             back == [two EXCEPT !.finalized = NoVersion]
  <1>1. item[i] \in ItemRow
    BY ReviewTypes DEF ReviewInv
  <1>2. "finalized" \in Workflows /\ "in_review" \in Workflows
    BY DEF Workflows
  <1>3. item[i].current \in 0 .. MaxVersion /\ NoVersion \in 0 .. MaxVersion
    BY <1>1, SMT DEF ItemRow, NoVersion, Configured, ReviewConstants
  <1>4. /\ one \in ItemRow /\ one.workflow = "finalized"
        /\ one.current = item[i].current /\ one.lock = item[i].lock
    BY <1>1, <1>2, ChangedWorkflow
  <1>5. /\ two \in ItemRow /\ two.workflow = "in_review"
        /\ two.current = item[i].current /\ two.lock = item[i].lock
    BY <1>1, <1>2, ChangedWorkflow
  <1>6. FinalizedRow(i) = Bump(final) /\ RevokedRow(i) = Bump(back)
    BY DEF FinalizedRow, RevokedRow
  <1> HIDE DEF one, two
  <1>7. /\ final \in ItemRow /\ final.workflow = "finalized"
        /\ final.current = item[i].current /\ final.lock = item[i].lock
    BY <1>3, <1>4, ChangedFinalized
  <1>8. /\ back \in ItemRow /\ back.workflow = "in_review" /\ back.finalized = NoVersion
        /\ back.current = item[i].current /\ back.lock = item[i].lock
    BY <1>3, <1>5, ChangedFinalized
  <1> HIDE DEF final, back
  <1>9. Bump(final).lock = Bump(item[i]).lock /\ Bump(back).lock = Bump(item[i]).lock
    BY <1>1, <1>7, <1>8, SMT DEF Bump, ItemRow
  <1>10. /\ Bump(final) \in ItemRow /\ Bump(final).workflow = final.workflow
         /\ Bump(final).current = final.current
    BY <1>7, BumpedItem
  <1>11. /\ Bump(back) \in ItemRow /\ Bump(back).workflow = back.workflow
         /\ Bump(back).current = back.current /\ Bump(back).finalized = back.finalized
    BY <1>8, BumpedItem
  <1>12. QED
    BY <1>6, <1>7, <1>8, <1>9, <1>10, <1>11

LEMMA Finalizations ==
    ASSUME Configured, ReviewInv, NEW set \in SUBSET Items,
           FinalizeItems(set) \/ RevokeItems(set)
    PROVE  MovesItems
  <1>1. item \in [Items -> ItemRow]
    BY ReviewTypes DEF ReviewInv
  <1>2. CASE FinalizeItems(set)
    <2>1. item' = [i \in Items |-> IF i \in set THEN FinalizedRow(i) ELSE item[i]]
             /\ UNCHANGED <<project, playback, issue, started, refused>>
             /\ \A i \in set : Exists(i)
      BY <1>2 DEF FinalizeItems, CanFinalize
    <2>2. item' \in [Items -> ItemRow]
      BY <1>1, <2>1, FinalizedRows
    <2>3. ASSUME NEW i \in Items
          PROVE  ItemMoves(i)
      BY <2>1, FinalizedRows DEF ItemMoves
    <2>4. QED
      BY <2>1, <2>2, <2>3 DEF MovesItems, ItemsMove
  <1>3. CASE RevokeItems(set)
    <2>1. \A i \in set : FreezeAdmitsItem(item[i], RevokedRow(i))
      BY FinalizedRows DEF FreezeAdmitsItem
    <2>2. item' = [i \in Items |-> IF i \in set THEN RevokedRow(i) ELSE item[i]]
             /\ UNCHANGED <<project, playback, issue, started, refused>>
             /\ \A i \in set : Exists(i)
      BY <1>3, <2>1 DEF RevokeItems, Finalized, Exists
    <2>3. item' \in [Items -> ItemRow]
      BY <1>1, <2>2, FinalizedRows
    <2>4. ASSUME NEW i \in Items
          PROVE  ItemMoves(i)
      BY <2>2, FinalizedRows DEF ItemMoves
    <2>5. QED
      BY <2>2, <2>3, <2>4 DEF MovesItems, ItemsMove
  <1>4. QED
    BY <1>2, <1>3

LEMMA SyncedItem ==
    ASSUME Configured, NEW row \in ItemRow, NEW i \in Items, NEW rows
    PROVE  /\ Synced(row, i, rows) \in ItemRow
           /\ Synced(row, i, rows).workflow =
                IF Unresolved(rows, <<i, row.current>>) # {}
                THEN "changes_requested" ELSE "in_review"
           /\ Synced(row, i, rows).current = row.current
           /\ Synced(row, i, rows).lock = Bump(row).lock
  <1> DEFINE w == IF Unresolved(rows, <<i, row.current>>) # {}
                  THEN "changes_requested" ELSE "in_review"
             next == [row EXCEPT !.workflow = w]
  <1>1. w \in Workflows
    BY DEF Workflows
  <1>2. Synced(row, i, rows) = Bump(next)
    BY DEF Synced
  <1> HIDE DEF w
  <1>3. /\ next \in ItemRow /\ next.workflow = w
        /\ next.current = row.current /\ next.lock = row.lock
    BY <1>1, ChangedWorkflow
  <1> HIDE DEF next
  <1>4. Bump(next).lock = Bump(row).lock
    BY <1>3, SMT DEF Bump, ItemRow
  <1>5. Bump(next) \in ItemRow /\ Bump(next).workflow = w
          /\ Bump(next).current = row.current
    BY <1>3, BumpedItem
  <1>6. QED
    BY <1>2, <1>4, <1>5 DEF w

\* Where the repository admits a write of an item and one of its issues, so do
\* the triggers: they only ask something of a finalized item.
LEMMA WrittenIssue ==
    ASSUME NEW i \in Items, NEW x \in IssueIds, NEW row, NEW opinion,
           Write(i, row, x, opinion),
           Finalized(i) => row = item[i] /\ FreezeAdmitsIssue(i, x, issue[x], opinion)
    PROVE  /\ item' = [item EXCEPT ![i] = row]
           /\ issue' = [issue EXCEPT ![x] = opinion]
           /\ UNCHANGED <<project, playback, refused>>
  BY DEF Write, FreezeAdmitsItem, FreezeAdmitsIssue, Finalized

LEMMA IssueStep ==
    ASSUME Configured, ReviewInv, NEW i \in Items, NEW x \in IssueIds,
           NEW opinion \in IssueRow, NEW row,
           Active(i), Exists(i), ~issue[x].deleted,
           issue[x].status = "absent" \/ issue[x].version = Current(i),
           opinion.version = Current(i), opinion.status # "absent",
           Write(i, row, x, opinion),
           Finalized(i) => row = item[i] /\ FreezeAdmitsIssue(i, x, issue[x], opinion),
           \/ /\ row = item[i] /\ started' = started
              /\ Finalized(i) \/ /\ opinion.status = issue[x].status
                                 /\ opinion.version = issue[x].version
                                 /\ opinion.deleted = issue[x].deleted
           \/ /\ ~Finalized(i) /\ row = Synced(item[i], i, [issue EXCEPT ![x] = opinion])
              /\ \/ started' = started
                 \/ StartSession(Current(i), item[i].workflow = "pending_review")
    PROVE  ReviewsItem(i)
  <1>1. item \in [Items -> ItemRow] /\ issue \in [IssueIds -> IssueRow]
    BY ReviewTypes DEF ReviewInv
  <1>2. /\ item' = [item EXCEPT ![i] = row]
        /\ issue' = [issue EXCEPT ![x] = opinion]
        /\ UNCHANGED <<project, playback, refused>>
    BY WrittenIssue
  <1>3. issue' \in [IssueIds -> IssueRow]
    BY <1>1, <1>2
  <1>4. issue'[x] = opinion /\ \A y \in IssueIds : y # x => issue'[y] = issue[y]
    BY <1>1, <1>2
  <1>5. \A y \in IssueIds : IssueMoves(i, y)
    BY <1>4 DEF IssueMoves
  <1>6. CASE /\ row = item[i] /\ started' = started
             /\ Finalized(i) \/ /\ opinion.status = issue[x].status
                                /\ opinion.version = issue[x].version
                                /\ opinion.deleted = issue[x].deleted
    <2>1. item' = item
      BY <1>1, <1>2, <1>6
    <2>2. Finalized(i) \/ Unresolved(issue', Current(i)) = Unresolved(issue, Current(i))
      BY <1>4, <1>6 DEF Unresolved, Live
    <2>3. QED
      BY <1>2, <1>3, <1>5, <1>6, <2>1, <2>2 DEF ReviewsItem
  <1>7. CASE /\ ~Finalized(i) /\ row = Synced(item[i], i, [issue EXCEPT ![x] = opinion])
             /\ \/ started' = started
                \/ StartSession(Current(i), item[i].workflow = "pending_review")
    <2>1. item' = [item EXCEPT ![i] = Synced(item[i], i, issue')]
      BY <1>2, <1>7
    <2>2. QED
      BY <1>2, <1>3, <1>5, <1>7, <2>1 DEF ReviewsItem
  <1>8. QED
    BY <1>6, <1>7

\* One field of an issue row is changed and the row bumped.
Statuses == {"absent", "unresolved", "resolved"}

LEMMA ChangedStatus ==
    ASSUME Configured, NEW row \in IssueRow, NEW st \in Statuses
    PROVE  LET new == Bump([row EXCEPT !.status = st]) IN
           /\ new \in IssueRow /\ new.status = st /\ new.version = row.version
           /\ new.deleted = row.deleted /\ new.lock = Bump(row).lock
  <1> DEFINE one == [row EXCEPT !.status = st]
  <1>1. /\ one \in IssueRow /\ one.status = st /\ one.version = row.version
        /\ one.deleted = row.deleted /\ one.lock = row.lock
    BY SMT DEF IssueRow, Statuses
  <1> HIDE DEF one
  <1>2. Bump(one).lock = Bump(row).lock
    BY <1>1, SMT DEF Bump, IssueRow
  <1>3. /\ Bump(one) \in IssueRow /\ Bump(one).status = one.status
        /\ Bump(one).version = one.version /\ Bump(one).deleted = one.deleted
    BY <1>1, BumpedIssue
  <1>4. QED
    BY <1>1, <1>2, <1>3 DEF one

LEMMA ChangedDeletion ==
    ASSUME Configured, NEW row \in IssueRow
    PROVE  LET new == Bump([row EXCEPT !.deleted = TRUE]) IN
           /\ new \in IssueRow /\ new.status = row.status /\ new.version = row.version
           /\ new.deleted = TRUE /\ new.lock = Bump(row).lock
  <1> DEFINE two == [row EXCEPT !.deleted = TRUE]
  <1>1. /\ two \in IssueRow /\ two.status = row.status /\ two.version = row.version
        /\ two.deleted = TRUE /\ two.lock = row.lock
    BY DEF IssueRow
  <1> HIDE DEF two
  <1>2. Bump(two).lock = Bump(row).lock
    BY <1>1, SMT DEF Bump, IssueRow
  <1>3. /\ Bump(two) \in IssueRow /\ Bump(two).status = two.status
        /\ Bump(two).version = two.version /\ Bump(two).deleted = two.deleted
    BY <1>1, BumpedIssue
  <1>4. QED
    BY <1>1, <1>2, <1>3 DEF two

LEMMA OpenedIssue ==
    ASSUME Configured, NEW v \in Versions
    PROVE  /\ OpenIssue(v) \in IssueRow /\ OpenIssue(v).version = v
           /\ OpenIssue(v).status = "unresolved" /\ ~OpenIssue(v).deleted
  <1>1. 0 \in 0 .. LockModulus - 1
    BY SMT DEF Configured, ReviewConstants
  <1>2. (0 + 1) % LockModulus \in 0 .. LockModulus - 1
    BY <1>1, NextLock
  <1>3. 0 + 1 = 1
    BY SMT
  <1>4. 1 % LockModulus \in 0 .. LockModulus - 1
    BY <1>2, <1>3
  <1>5. QED
    BY <1>4 DEF OpenIssue, IssueRow

\* The version an item is at is one of the versions.
LEMMA CurrentIsAVersion ==
    ASSUME Configured, ReviewInv, NEW i \in Items, Exists(i)
    PROVE  Current(i) \in Versions /\ item[i].current \in 1 .. MaxVersion
  <1>1. item[i].current \in 0 .. MaxVersion /\ item[i].current # 0
    BY ReviewTypes DEF ReviewInv, RowsAreInitialised, ItemRow
  <1>2. item[i].current \in 1 .. MaxVersion
    BY <1>1, SMT DEF Configured, ReviewConstants
  <1>3. QED
    BY <1>2 DEF Current, Versions

LEMMA IssueCommands ==
    ASSUME Configured, ReviewInv, NEW i \in Items, NEW x \in IssueIds,
           \/ create_review_issue(i, x)
           \/ update_review_issue(i, x)
           \/ resolve_issue(i, x)
           \/ reopen_issue(i, x)
           \/ soft_delete_issue(i, x)
    PROVE  ReviewsItem(i)
  <1>1. issue \in [IssueIds -> IssueRow] /\ issue[x] \in IssueRow
    BY ReviewTypes DEF ReviewInv
  <1>2. issue[x].version = Current(i) /\ Exists(i) => issue[x].status # "absent"
    <2>1. SUFFICES ASSUME issue[x].version = Current(i), issue[x].status = "absent"
                   PROVE  FALSE
      OBVIOUS
    <2>2. issue[x].version = <<>>
      BY <2>1 DEF ReviewInv, RowsAreInitialised
    <2>3. <<>> # <<i, item[i].current>>
      BY SMT
    <2>4. QED
      BY <2>1, <2>2, <2>3 DEF Current
  <1>3. CASE create_review_issue(i, x)
    <2> DEFINE opinion == OpenIssue(Current(i))
               row == Synced(item[i], i, [issue EXCEPT ![x] = opinion])
    <2>1. /\ Active(i) /\ Exists(i) /\ ~Finalized(i) /\ issue[x].status = "absent"
          /\ Write(i, row, x, [issue EXCEPT ![x] = opinion][x])
          /\ StartSession(Current(i), item[i].workflow = "pending_review")
      BY <1>3 DEF create_review_issue
    <2>2. ~issue[x].deleted
      BY <2>1 DEF ReviewInv, RowsAreInitialised
    <2>3. opinion \in IssueRow /\ opinion.version = Current(i) /\ opinion.status # "absent"
      BY <2>1, CurrentIsAVersion, OpenedIssue
    <2>4. [issue EXCEPT ![x] = opinion][x] = opinion
      BY <1>1
    <2>5. Write(i, row, x, opinion) /\ row = Synced(item[i], i, [issue EXCEPT ![x] = opinion])
      BY <2>1, <2>4
    <2> HIDE DEF opinion, row
    <2>6. QED
      BY <2>1, <2>2, <2>3, <2>5, IssueStep
  <1>4. CASE update_review_issue(i, x)
    <2> DEFINE opinion == Bump(issue[x])
    <2>1. /\ Active(i) /\ Exists(i) /\ issue[x].version = Current(i) /\ ~issue[x].deleted
          /\ ~Finalized(i) \/ Linked(x)
          /\ Write(i, item[i], x, opinion)
          /\ started' = started
      BY <1>4 DEF update_review_issue, Readable, Addressed, EnsureIssueWritable
    <2>2. /\ opinion \in IssueRow /\ opinion.version = issue[x].version
          /\ opinion.status = issue[x].status /\ opinion.deleted = issue[x].deleted
      BY <1>1, BumpedIssue
    <2>3. Finalized(i) => FreezeAdmitsIssue(i, x, issue[x], opinion)
      BY <2>1, <2>2 DEF FreezeAdmitsIssue
    <2> HIDE DEF opinion
    <2>4. QED
      BY <1>2, <2>1, <2>2, <2>3, IssueStep
  <1>5. ASSUME NEW st \in Statuses, st # "absent",
               Readable(i, x),
               ~Finalized(i) \/ (Linked(x) /\ st = "resolved" /\ issue[x].status = "unresolved"),
               started' = started,
               LET rows == [issue EXCEPT ![x] = Bump([@ EXCEPT !.status = st])]
               IN  Write(i, Follow(i, rows), x, rows[x])
        PROVE  ReviewsItem(i)
    <2> DEFINE opinion == Bump([issue[x] EXCEPT !.status = st])
               row == Follow(i, [issue EXCEPT ![x] = opinion])
    <2>1. Write(i, row, x, [issue EXCEPT ![x] = opinion][x])
      BY <1>5
    <2>2. /\ opinion \in IssueRow /\ opinion.status = st /\ opinion.version = issue[x].version
          /\ opinion.lock = Bump(issue[x]).lock
      BY <1>1, <1>5, ChangedStatus
    <2> HIDE DEF opinion
    <2>3. [issue EXCEPT ![x] = opinion][x] = opinion
      BY <1>1
    <2>4. Write(i, row, x, opinion)
      BY <2>1, <2>3
    <2>5. Active(i) /\ Exists(i) /\ issue[x].version = Current(i) /\ ~issue[x].deleted
      BY <1>5 DEF Readable, Addressed
    <2>6. Finalized(i) => row = item[i] /\ FreezeAdmitsIssue(i, x, issue[x], opinion)
      BY <1>5, <2>2, <2>5 DEF FreezeAdmitsIssue, Follow
    <2>7. ~Finalized(i) => row = Synced(item[i], i, [issue EXCEPT ![x] = opinion])
      BY DEF Follow
    <2>8. opinion.status # "absent" /\ opinion.version = Current(i)
      BY <1>5, <2>2, <2>5
    <2> HIDE DEF row
    <2>9. QED
      BY <1>5, <2>2, <2>4, <2>5, <2>6, <2>7, <2>8, IssueStep
  <1>6. CASE resolve_issue(i, x)
    BY <1>5, <1>6 DEF resolve_issue, EnsureIssueWritable, Statuses
  <1>7. CASE reopen_issue(i, x)
    BY <1>5, <1>7 DEF reopen_issue, Statuses
  <1>8. CASE soft_delete_issue(i, x)
    <2> DEFINE opinion == Bump([issue[x] EXCEPT !.deleted = TRUE])
               row == Follow(i, [issue EXCEPT ![x] = opinion])
    <2>1. /\ Active(i) /\ Exists(i) /\ issue[x].version = Current(i) /\ ~issue[x].deleted
          /\ ~Finalized(i) \/ Linked(x)
          /\ Write(i, row, x, [issue EXCEPT ![x] = opinion][x])
          /\ started' = started
      BY <1>8 DEF soft_delete_issue, Addressed, EnsureIssueWritable
    <2>2. /\ opinion \in IssueRow /\ opinion.status = issue[x].status
          /\ opinion.version = issue[x].version /\ opinion.lock = Bump(issue[x]).lock
      BY <1>1, ChangedDeletion
    <2> HIDE DEF opinion
    <2>3. [issue EXCEPT ![x] = opinion][x] = opinion
      BY <1>1
    <2>4. Finalized(i) => row = item[i] /\ FreezeAdmitsIssue(i, x, issue[x], opinion)
      BY <2>1, <2>2 DEF FreezeAdmitsIssue, Follow
    <2>5. ~Finalized(i) => row = Synced(item[i], i, [issue EXCEPT ![x] = opinion])
      BY DEF Follow
    <2>6. Write(i, row, x, opinion)
      BY <2>1, <2>3
    <2> HIDE DEF row
    <2>7. QED
      BY <1>2, <2>1, <2>2, <2>4, <2>5, <2>6, IssueStep
  <1>9. QED
    BY <1>3, <1>4, <1>6, <1>7, <1>8

\* Every command is of one of the three kinds, and none is refused.
LEMMA ReviewSteps ==
    ASSUME Configured, ReviewInv, ReviewNext
    PROVE  Unconcerned \/ MovesItems \/ \E i \in Items : ReviewsItem(i)
  <1>1. /\ project \in [Projects -> {"active", "archived"}]
        /\ playback \in [Versions -> {"pending", "ready", "missing"}]
    BY ReviewTypes DEF ReviewInv
  <1>2. ASSUME NEW p \in Projects, archive_project(p) \/ restore_project(p)
        PROVE  Unconcerned
    BY <1>1, <1>2 DEF archive_project, restore_project, Unconcerned
  <1>3. ASSUME NEW p \in Projects, finalize_project(p) \/ revoke_project_finalization(p)
        PROVE  MovesItems
    <2>1. \E set \in SUBSET Items : FinalizeItems(set) \/ RevokeItems(set)
      BY <1>3 DEF finalize_project, revoke_project_finalization, ItemsOf
    <2>2. QED
      BY <2>1, Finalizations
  <1>4. ASSUME NEW i \in Items,
               \/ create_review_item(i) \/ update_review_item(i)
               \/ upload_review_version(i) \/ start_review(i)
               \/ finalize_version(i) \/ revoke_finalization(i)
        PROVE  MovesItems
    <2>1. {i} \in SUBSET Items
      OBVIOUS
    <2>2. QED
      BY <1>4, <2>1, ItemCommands, Finalizations DEF finalize_version, revoke_finalization
  <1>5. ASSUME NEW v \in Versions,
               \/ publish_playback(v) \/ lose_playback_file(v)
               \/ requeue_missing_ready_derivative(v)
        PROVE  Unconcerned
    BY <1>1, <1>5 DEF publish_playback, lose_playback_file,
                      requeue_missing_ready_derivative, Unconcerned
  <1>6. QED
    BY <1>2, <1>3, <1>4, <1>5, IssueCommands DEF ReviewNext

(*------------------- the invariant of the review workflow ----------------*)

\* What the invariant says of one version, numbered n, of an item at version c.
SessionOver(s, n, c, w) == s <= 1 /\ (s # 0 => n < c \/ (n = c /\ w # "pending_review"))

LEMMA VersionParts ==
    ASSUME NEW v \in Versions
    PROVE  v[1] \in Items /\ v[2] \in 1 .. MaxVersion /\ v = <<v[1], v[2]>>
  BY SMT DEF Versions

LEMMA SessionsStay ==
    ASSUME Configured, ReviewInv, ItemsMove
    PROVE  SessionsAreOver' /\ started' \in [Versions -> 0 .. 2]
  <1>1. item \in [Items -> ItemRow] /\ started \in [Versions -> 0 .. 2]
    BY ReviewTypes DEF ReviewInv
  <1>2. ASSUME NEW v \in Versions, NEW s \in 0 .. 2,
               \/ s = started[v]
               \/ /\ v[2] = item[v[1]].current /\ item[v[1]].workflow = "pending_review"
                  /\ item'[v[1]].current = item[v[1]].current
                  /\ item'[v[1]].workflow # "pending_review"
                  /\ s = IF started[v] < 2 THEN started[v] + 1 ELSE started[v]
        PROVE  SessionOver(s, v[2], item'[v[1]].current, item'[v[1]].workflow)
    <2> DEFINE i == v[1]
    <2>1. i \in Items /\ v[2] \in 1 .. MaxVersion
      BY VersionParts
    <2>2. item[i].current \in Nat /\ item[i].lock \in Nat
      BY <1>1, <2>1, SMT DEF ItemRow, Configured, ReviewConstants
    <2>3. SessionOver(started[v], v[2], item[i].current, item[i].workflow)
      BY DEF SessionOver, ReviewInv, SessionsAreOver
    <2>4. ItemMoves(i)
      BY <2>1 DEF ItemsMove
    <2>5. ~Exists(i) => item[i].current = 0
      BY <2>1 DEF ReviewInv, RowsAreInitialised
    <2>6. started[v] \in 0 .. 2
      BY <1>1
    <2> DEFINE c == item[i].current
               w == item[i].workflow
               cc == item'[i].current
               ww == item'[i].workflow
    <2>7. \/ cc = c /\ ww = w
          \/ c = 0 /\ cc = 1 /\ ww = "pending_review"
          \/ cc = c /\ (ww = "pending_review" => w = "pending_review")
          \/ cc = c + 1 /\ ww = "pending_review"
      BY <2>4, <2>5 DEF ItemMoves
    <2>8. \/ s = started[v]
          \/ /\ v[2] = c /\ w = "pending_review" /\ cc = c /\ ww # "pending_review"
             /\ s = IF started[v] < 2 THEN started[v] + 1 ELSE started[v]
      BY <1>2
    <2>9. c \in Nat /\ v[2] \in 1 .. MaxVersion
      BY <2>1, <2>2
    <2>10. SessionOver(started[v], v[2], c, w)
      BY <2>3
    <2> HIDE DEF c, w, cc, ww
    <2>11. SessionOver(s, v[2], cc, ww)
      BY <2>6, <2>7, <2>8, <2>9, <2>10, SMT DEF SessionOver, Configured, ReviewConstants
    <2>12. QED
      BY <2>11 DEF cc, ww
  <1>3. CASE started' = started
    <2>1. started' \in [Versions -> 0 .. 2]
      BY <1>1, <1>3
    <2>2. \A v \in Versions :
             SessionOver(started'[v], v[2], item'[v[1]].current, item'[v[1]].workflow)
      BY <1>2, <1>3, <2>1
    <2>3. QED
      BY <2>1, <2>2 DEF SessionsAreOver, SessionOver
  <1>4. ASSUME NEW i \in Items,
               StartSession(Current(i), TRUE), item[i].workflow = "pending_review",
               item'[i].workflow # "pending_review", item'[i].current = item[i].current
        PROVE  SessionsAreOver' /\ started' \in [Versions -> 0 .. 2]
    <2> DEFINE u == Current(i)
               n == IF started[u] < 2 THEN started[u] + 1 ELSE started[u]
    <2>1. u \in Versions /\ u[1] = i /\ u[2] = item[i].current
      BY <1>4, CurrentIsAVersion DEF Current, Exists
    <2>2. started' = [started EXCEPT ![u] = n]
      BY <1>4 DEF StartSession
    <2>3. n \in 0 .. 2
      BY <1>1, <2>1, SMT
    <2> HIDE DEF n, u
    <2>4. started' \in [Versions -> 0 .. 2]
      BY <1>1, <2>1, <2>2, <2>3
    <2>5. ASSUME NEW v \in Versions
          PROVE  SessionOver(started'[v], v[2], item'[v[1]].current, item'[v[1]].workflow)
      <3>1. CASE v = u
        <4>1. started'[v] = n
          BY <1>1, <2>1, <2>2, <3>1
        <4>2. n = IF started[v] < 2 THEN started[v] + 1 ELSE started[v]
          BY <3>1 DEF n
        <4>3. QED
          BY <1>2, <1>4, <2>1, <2>3, <3>1, <4>1, <4>2
      <3>2. CASE v # u
        <4>1. started'[v] = started[v]
          BY <1>1, <2>1, <2>2, <3>2
        <4>2. started[v] \in 0 .. 2
          BY <1>1
        <4>3. QED
          BY <1>2, <4>1, <4>2
      <3>3. QED
        BY <3>1, <3>2
    <2>6. QED
      BY <2>4, <2>5 DEF SessionsAreOver, SessionOver
  <1>5. QED
    BY <1>3, <1>4 DEF ItemsMove

LEMMA ReviewMoves ==
    ASSUME Configured, ReviewInv, NEW i \in Items, ReviewsItem(i)
    PROVE  ItemsMove
  <1>1. item \in [Items -> ItemRow] /\ started \in [Versions -> 0 .. 2]
    BY ReviewTypes DEF ReviewInv
  <1>2. CASE item' = item /\ started' = started
    BY <1>1, <1>2 DEF ItemsMove, ItemMoves
  <1>3. CASE /\ item' = [item EXCEPT ![i] = Synced(item[i], i, issue')]
             /\ \/ started' = started
                \/ StartSession(Current(i), item[i].workflow = "pending_review")
    <2> DEFINE row == Synced(item[i], i, issue')
    <2>0. item[i] \in ItemRow
      BY <1>1
    <2>1. /\ row \in ItemRow /\ row.workflow \in {"changes_requested", "in_review"}
          /\ row.current = item[i].current /\ row.lock = Bump(item[i]).lock
      BY <2>0, SyncedItem
    <2> HIDE DEF row
    <2>2. item' = [item EXCEPT ![i] = row]
      BY <1>3 DEF row
    <2>3. Exists(i)
      BY DEF ReviewsItem
    <2>4. item' \in [Items -> ItemRow] /\ \A j \in Items : ItemMoves(j)
      BY <2>1, <2>2, <2>3, ItemStep
    <2>5. item'[i] = row
      BY <1>1, <2>2
    <2>6. item[i].workflow # "pending_review" /\ started' # started
             => ~StartSession(Current(i), item[i].workflow = "pending_review")
      <3>1. SUFFICES ASSUME item[i].workflow # "pending_review",
                            StartSession(Current(i), item[i].workflow = "pending_review")
                     PROVE  started' = started
        OBVIOUS
      <3>2. started' = [started EXCEPT ![Current(i)] = started[Current(i)]]
        BY <3>1 DEF StartSession
      <3>3. QED
        BY <1>1, <3>2
    <2>7. item[i].workflow = "pending_review"
            /\ StartSession(Current(i), item[i].workflow = "pending_review")
             => StartSession(Current(i), TRUE)
      BY DEF StartSession
    <2>8. QED
      BY <1>3, <2>1, <2>4, <2>5, <2>6, <2>7 DEF ItemsMove
  <1>4. QED
    BY <1>2, <1>3 DEF ReviewsItem

\* Each kind of step keeps the invariant of the review workflow.
LEMMA ReviewInvStep ==
    ASSUME Configured, ReviewInv,
           Unconcerned \/ MovesItems \/ \E i \in Items : ReviewsItem(i)
    PROVE  ReviewInv'
  <1>1. /\ project \in [Projects -> {"active", "archived"}]
        /\ item \in [Items -> ItemRow]
        /\ playback \in [Versions -> {"pending", "ready", "missing"}]
        /\ issue \in [IssueIds -> IssueRow]
        /\ started \in [Versions -> 0 .. 2]
        /\ refused \in BOOLEAN
    BY ReviewTypes DEF ReviewInv
  <1>2. RowsAreInitialised /\ SessionsAreOver /\ TriggersAgree
    BY DEF ReviewInv
  <1>3. CASE Unconcerned
    <2>1. ReviewTypeOK'
      BY <1>1, <1>3 DEF Unconcerned, ReviewTypeOK, ItemRow, IssueRow, Workflows
    <2>2. RowsAreInitialised' /\ SessionsAreOver' /\ TriggersAgree'
      BY <1>2, <1>3 DEF Unconcerned, RowsAreInitialised, SessionsAreOver, TriggersAgree, Exists
    <2>3. QED
      BY <2>1, <2>2 DEF ReviewInv
  <1>4. ASSUME ItemsMove, UNCHANGED <<project, playback, refused>>,
               issue' \in [IssueIds -> IssueRow],
               \A x \in IssueIds : issue'[x] = issue[x] \/ issue'[x].status # "absent"
        PROVE  ReviewInv'
    <2>1. SessionsAreOver' /\ started' \in [Versions -> 0 .. 2]
      BY <1>4, SessionsStay
    <2>2. ReviewTypeOK'
      BY <1>1, <1>4, <2>1 DEF ItemsMove, ReviewTypeOK, ItemRow, IssueRow, Workflows
    <2>3. ASSUME NEW i \in Items
          PROVE  item'[i].workflow # "absent" <=> item'[i].current # 0
      <3>1. ItemMoves(i)
        BY <1>4 DEF ItemsMove
      <3>2. item[i].workflow # "absent" <=> item[i].current # 0
        BY <1>2 DEF RowsAreInitialised, Exists
      <3>3. item[i].current + 1 # 0 /\ 1 # 0
        BY <1>1, SMT DEF ItemRow
      <3>4. QED
        BY <3>1, <3>2, <3>3 DEF ItemMoves, Exists
    <2>4. RowsAreInitialised'
      BY <1>2, <1>4, <2>3 DEF RowsAreInitialised, Exists
    <2>5. QED
      BY <1>2, <1>4, <2>1, <2>2, <2>4 DEF ReviewInv, TriggersAgree
  <1>5. CASE MovesItems
    BY <1>1, <1>4, <1>5 DEF MovesItems
  <1>6. CASE \E i \in Items : ReviewsItem(i)
    <2>1. PICK i \in Items : ReviewsItem(i)
      BY <1>6
    <2>2. QED
      BY <1>4, <2>1, ReviewMoves DEF ReviewsItem, IssueMoves
  <1>7. QED
    BY <1>3, <1>5, <1>6

(*------------------------------ the task rows ----------------------------*)

LEMMA TaskRows ==
    ASSUME Configured, NEW t \in TaskRow
    PROVE  /\ NewTask \in TaskRow /\ NewTask.status = "queued" /\ NewTask.attempts = 0
           /\ \A st \in {"queued", "complete", "failed"}, r \in {"never", "later", "due"} :
                 Released(t, st, r) \in TaskRow /\ Released(t, st, r).status = st
           /\ \A r \in {"never", "later", "due"} :
                 /\ [t EXCEPT !.retry = r] \in TaskRow
                 /\ [t EXCEPT !.retry = r].status = t.status
                 /\ [t EXCEPT !.retry = r].claim = t.claim
           /\ [t EXCEPT !.leased = FALSE] \in TaskRow
           /\ [t EXCEPT !.leased = FALSE].status = t.status
           /\ [t EXCEPT !.leased = FALSE].claim = t.claim
  <1>1. 0 \in 0 .. MaxAttempts
    BY SMT DEF Configured, QcConstants
  <1>2. NoTask \in TaskRow /\ NoTask.attempts = 0
    BY <1>1 DEF NoTask, TaskRow
  <1>3. NewTask \in TaskRow /\ NewTask.status = "queued" /\ NewTask.attempts = 0
    BY <1>2 DEF NewTask, TaskRow
  <1>4. \A st \in {"queued", "complete", "failed"}, r \in {"never", "later", "due"} :
           Released(t, st, r) \in TaskRow /\ Released(t, st, r).status = st
    BY DEF Released, TaskRow
  <1>5. \A r \in {"never", "later", "due"} :
           /\ [t EXCEPT !.retry = r] \in TaskRow
           /\ [t EXCEPT !.retry = r].status = t.status
           /\ [t EXCEPT !.retry = r].claim = t.claim
    BY DEF TaskRow
  <1>6. /\ [t EXCEPT !.leased = FALSE] \in TaskRow
        /\ [t EXCEPT !.leased = FALSE].status = t.status
        /\ [t EXCEPT !.leased = FALSE].claim = t.claim
    BY DEF TaskRow
  <1>7. QED
    BY <1>3, <1>4, <1>5, <1>6

\* The row of version v when the claim transaction has opened: what is under a
\* lease is left alone, and nothing else is running.
LEMMA OpenedRow ==
    ASSUME Configured, QueueInv, NEW v \in Versions
    PROVE  /\ Opened(v) \in TaskRow
           /\ Opened(v).status = "none" <=> task[v].status = "none" /\ v \notin Discovered
           /\ Opened(v).status = "running" <=> task[v].status = "running" /\ task[v].leased
           /\ task[v].status = "running" /\ task[v].leased => Opened(v) = task[v]
  <1>1. task[v] \in TaskRow
    BY DEF QueueInv
  <1>2. CASE v \in Discovered
    <2>1. task[v].status = "none" /\ Opened(v) = NewTask
      BY <1>2 DEF Discovered, Opened
    <2>2. QED
      BY <1>1, <1>2, <2>1, TaskRows
  <1>3. CASE v \notin Discovered
    <2>1. Opened(v) = Reconciled(task[v])
      BY <1>3 DEF Opened
    <2>2. CASE task[v].status # "running" \/ task[v].leased
      <3>1. Opened(v) = task[v]
        BY <2>1, <2>2 DEF Reconciled
      <3>2. QED
        BY <1>1, <1>3, <2>2, <3>1
    <2>3. CASE ~(task[v].status # "running" \/ task[v].leased)
      <3>1. \/ Opened(v) = Released(task[v], "failed", "never")
            \/ Opened(v) = Released(task[v], "queued", "never")
        BY <2>1, <2>3 DEF Reconciled
      <3>a. /\ Released(task[v], "failed", "never") \in TaskRow
            /\ Released(task[v], "failed", "never").status = "failed"
        BY <1>1, TaskRows
      <3>b. /\ Released(task[v], "queued", "never") \in TaskRow
            /\ Released(task[v], "queued", "never").status = "queued"
        BY <1>1, TaskRows
      <3>2. Opened(v) \in TaskRow /\ Opened(v).status \in {"failed", "queued"}
        BY <3>1, <3>a, <3>b
      <3>3. QED
        BY <2>3, <3>2
    <2>4. QED
      BY <2>2, <2>3
  <1>4. QED
    BY <1>2, <1>3

\* A step that neither creates a task nor sets one to running.
LEMMA TasksStay ==
    ASSUME QueueInv, older' = older,
           \A v \in Versions : /\ task'[v].status = "none" <=> task[v].status = "none"
                               /\ task'[v].status = "running" => task[v].status = "running"
    PROVE  TasksAreOrdered' /\ OneRunningPerItem'
  <1>1. TasksAreOrdered'
    BY DEF QueueInv, TasksAreOrdered
  <1>2. OneRunningPerItem'
    BY DEF QueueInv, OneRunningPerItem, RunningTasks
  <1>3. QED
    BY <1>1, <1>2

LEMMA QueueInitial == Configured /\ Init => QueueInv
  <1> SUFFICES ASSUME Configured, Init
               PROVE  QueueInv
    OBVIOUS
  <1>1. 0 \in 0 .. MaxAttempts /\ 0 \in 0 .. 2 /\ 0 <= 1
    BY SMT DEF Configured, QcConstants
  <1>2. NoTask \in TaskRow /\ NoTask.status = "none"
    BY <1>1 DEF NoTask, TaskRow
  <1>3. /\ task \in [Versions -> TaskRow]
        /\ slot \in [Slots -> Versions \cup {NoClaim}]
        /\ snapshot \in [Workers -> SUBSET (Versions \cup {NoClaim})]
        /\ stopping \in [Workers -> BOOLEAN]
        /\ reported \in [LinkedIssues -> 0 .. 2]
    BY <1>1, <1>2 DEF Init, NoSnapshot
  <1>4. TasksAreOrdered
    BY <1>2 DEF Init, TasksAreOrdered
  <1>5. AnnouncedWithItsIssue
    BY <1>1 DEF Init, AnnouncedWithItsIssue
  <1>6. OneRunningPerItem
    BY <1>2 DEF Init, OneRunningPerItem, RunningTasks
  <1>7. QED
    BY <1>3, <1>4, <1>5, <1>6 DEF QueueInv

(*---------------------------- the steps of the queue ---------------------*)

\* A scan that completes acts on the current version of its item as the
\* commands do, and announces exactly the findings that had no issue.
LEMMA ScanCompletes ==
    ASSUME Configured, IInv, NEW s \in Slots, NEW found \in SUBSET Findings,
           complete_scan(s, found)
    PROVE  /\ slot[s] \in Versions
           /\ ReviewsItem(slot[s][1])
           /\ task' = [task EXCEPT ![slot[s]] = Released(task[slot[s]], "complete", "never")]
           /\ slot' = [slot EXCEPT ![s] = NoClaim]
           /\ reported' \in [LinkedIssues -> 0 .. 2]
           /\ \A x \in LinkedIssues :
                 \/ /\ reported'[x] = reported[x]
                    /\ issue'[x] = issue[x]
                 \/ /\ issue[x].status = "absent" /\ issue'[x].status # "absent"
                    /\ reported'[x] <= 1
           /\ UNCHANGED <<older, snapshot, stopping>>
  <1> DEFINE v == slot[s]
             i == v[1]
             new == Unreported(v, found)
             rows == [x \in IssueIds |-> IF x \in new THEN OpenIssue(v) ELSE issue[x]]
  <1>1. /\ item \in [Items -> ItemRow] /\ issue \in [IssueIds -> IssueRow]
        /\ started \in [Versions -> 0 .. 2]
    BY ReviewTypes DEF IInv, ReviewInv
  <1>2. /\ slot \in [Slots -> Versions \cup {NoClaim}]
        /\ reported \in [LinkedIssues -> 0 .. 2] /\ AnnouncedWithItsIssue
    BY DEF IInv, QueueInv
  <1>3. /\ v # NoClaim /\ task[v].status = "running" /\ task[v].claim = s /\ task[v].leased
        /\ Active(i) /\ Current(i) = v /\ PlaybackPublished(v)
    BY DEF complete_scan, ActiveClaim
  <1>4. v \in Versions
    BY <1>2, <1>3
  <1>5. i \in Items /\ v[2] \in 1 .. MaxVersion /\ v = <<i, v[2]>>
    BY <1>4, VersionParts
  <1>6. Exists(i)
    <2>1. item[i].current = v[2]
      <3>1. <<i, item[i].current>> = v
        BY <1>3 DEF Current
      <3>2. <<i, item[i].current>>[2] = item[i].current
        OBVIOUS
      <3>3. QED
        BY <3>1, <3>2
    <2>2. v[2] # 0
      BY <1>5, SMT
    <2>3. QED
      BY <1>5, <2>1, <2>2 DEF IInv, ReviewInv, RowsAreInitialised
  <1>7. task[v].claim # NoClaim
    BY <1>3 DEF Configured, QcConstants
  <1>8. new \subseteq LinkedIssues /\ new \subseteq IssueIds
    <2>1. \A f \in found : <<v, f>> \in LinkedIssues
      BY <1>4 DEF LinkedIssues
    <2> HIDE DEF v
    <2>2. QED
      BY <2>1 DEF Unreported, IssueIds
  <1>9. \A x \in new : issue[x].status = "absent" /\ ~issue[x].deleted
    BY <1>8 DEF Unreported, IInv, ReviewInv, RowsAreInitialised
  <1>10. /\ OpenIssue(v) \in IssueRow /\ OpenIssue(v).version = v
         /\ OpenIssue(v).status = "unresolved"
    BY <1>4, OpenedIssue
  <1>11. new # {} /\ Finalized(i) => IssueAuthority(v)
    BY <1>3, <1>7 DEF IssueAuthority
  <1>12. /\ slot' = [slot EXCEPT ![s] = NoClaim]
         /\ issue' = rows
         /\ item' = [item EXCEPT ![i] = IF new # {} /\ ~Finalized(i)
                                        THEN Synced(item[i], i, rows) ELSE item[i]]
         /\ reported' = [x \in LinkedIssues |-> IF x \in new /\ reported[x] < 2
                                                THEN reported[x] + 1 ELSE reported[x]]
         /\ task' = [task EXCEPT ![v] = Released(task[v], "complete", "never")]
         /\ UNCHANGED <<project, playback, refused>>
         /\ StartSession(v, new # {} /\ item[i].workflow = "pending_review")
         /\ UNCHANGED <<older, snapshot, stopping>>
    BY <1>11 DEF complete_scan, Free
  <1>13. issue' \in [IssueIds -> IssueRow]
    BY <1>1, <1>10, <1>12
  <1>14. \A x \in IssueIds : issue'[x] = IF x \in new THEN OpenIssue(v) ELSE issue[x]
    BY <1>12
  <1> HIDE DEF new, rows
  <1>15. \A x \in IssueIds : IssueMoves(i, x)
    BY <1>3, <1>9, <1>10, <1>14 DEF IssueMoves
  <1>16. ASSUME new = {} \/ Finalized(i)
         PROVE  ReviewsItem(i)
    <2>1. item' = item
      BY <1>1, <1>12, <1>16
    <2>2. started' = started
      <3>1. started' = [started EXCEPT ![v] = started[v]]
        BY <1>12, <1>16 DEF StartSession, Finalized
      <3>2. QED
        BY <1>1, <3>1
    <2>3. Finalized(i) \/ Unresolved(issue', Current(i)) = Unresolved(issue, Current(i))
      BY <1>14, <1>16 DEF Unresolved, Live
    <2>4. QED
      BY <1>3, <1>5, <1>6, <1>12, <1>13, <1>15, <2>1, <2>2, <2>3 DEF ReviewsItem
  <1>17. ReviewsItem(i)
    <2>1. CASE ~(new = {} \/ Finalized(i))
      <3>1. item' = [item EXCEPT ![i] = Synced(item[i], i, issue')]
        BY <1>12, <2>1
      <3>2. StartSession(Current(i), item[i].workflow = "pending_review")
        BY <1>3, <1>12, <2>1 DEF StartSession
      <3>3. QED
        BY <1>3, <1>5, <1>6, <1>12, <1>13, <1>15, <2>1, <3>1, <3>2 DEF ReviewsItem
    <2>2. QED
      BY <1>16, <2>1
  <1>18. ASSUME NEW x \in LinkedIssues
         PROVE  /\ reported'[x] \in 0 .. 2
                /\ \/ reported'[x] = reported[x] /\ issue'[x] = issue[x]
                   \/ /\ issue[x].status = "absent" /\ issue'[x].status # "absent"
                      /\ reported'[x] <= 1
    <2>1. reported[x] \in 0 .. 2 /\ x \in IssueIds
      BY <1>2 DEF IssueIds
    <2>2. CASE x \in new
      <3>1. reported[x] = 0
        BY <1>2, <1>9, <2>2 DEF AnnouncedWithItsIssue
      <3>2. reported'[x] = IF reported[x] < 2 THEN reported[x] + 1 ELSE reported[x]
        BY <1>12, <2>2
      <3>3. reported'[x] \in 0 .. 2 /\ reported'[x] <= 1
        BY <3>1, <3>2, SMT
      <3>4. QED
        BY <1>9, <1>10, <1>14, <2>1, <2>2, <3>3
    <2>3. CASE x \notin new
      BY <1>12, <1>14, <2>1, <2>3
    <2>4. QED
      BY <2>2, <2>3
  <1>19. reported' \in [LinkedIssues -> 0 .. 2]
    BY <1>12, <1>18
  <1>20. QED
    BY <1>4, <1>12, <1>17, <1>18, <1>19

LEMMA OrderedPairs ==
    ASSUME QueueInv, NEW digests \in DigestOrders, NEW u \in Versions, NEW v \in Versions
    PROVE  /\ <<u, v>> \in Tied <=> u \in Discovered /\ v \in Discovered /\ u[1] = v[1] /\ u # v
           /\ <<u, v>> \in digests => <<u, v>> \in Tied
           /\ <<u, v>> \in Tied => (<<u, v>> \in digests <=> <<v, u>> \notin digests)
           /\ <<u, v>> \in Ordered(digests) <=>
                 \/ <<u, v>> \in older \/ <<u, v>> \in digests
                 \/ v \in Discovered /\ u[1] = v[1] /\ task[u].status # "none"
  <1>1. <<u, v>>[1] = u /\ <<u, v>>[2] = v
    OBVIOUS
  <1>2. <<u, v>> \in Tied <=> u \in Discovered /\ v \in Discovered /\ u[1] = v[1] /\ u # v
    BY <1>1 DEF Tied
  <1>3. <<u, v>> \in digests => <<u, v>> \in Tied
    BY DEF DigestOrders
  <1>4. <<u, v>> \in Tied => (<<u, v>> \in digests <=> <<v, u>> \notin digests)
    BY <1>1 DEF DigestOrders
  <1>5. <<u, v>> \in Ordered(digests) <=>
           \/ <<u, v>> \in older \/ <<u, v>> \in digests
           \/ v \in Discovered /\ u[1] = v[1] /\ task[u].status # "none"
    BY <1>1 DEF Ordered
  <1>6. QED
    BY <1>2, <1>3, <1>4, <1>5

LEMMA OrderedTasks ==
    ASSUME QueueInv, NEW digests \in DigestOrders
    PROVE  /\ Ordered(digests) \subseteq Versions \X Versions
           /\ \A u, v \in Versions : <<u, v>> \in Ordered(digests) =>
                 /\ u[1] = v[1] /\ u # v /\ <<v, u>> \notin Ordered(digests)
                 /\ task[u].status # "none" \/ u \in Discovered
                 /\ task[v].status # "none" \/ v \in Discovered
           /\ \A u, v \in Versions :
                 /\ u[1] = v[1] /\ u # v
                 /\ task[u].status # "none" \/ u \in Discovered
                 /\ task[v].status # "none" \/ v \in Discovered
                 => <<u, v>> \in Ordered(digests) \/ <<v, u>> \in Ordered(digests)
  <1>1. TasksAreOrdered
    BY DEF QueueInv
  <1>2. \A v \in Discovered : v \in Versions /\ task[v].status = "none"
    BY DEF Discovered
  <1>3. Ordered(digests) \subseteq Versions \X Versions
    <2>1. older \subseteq Versions \X Versions /\ Discovered \subseteq Versions
      BY <1>1, <1>2 DEF TasksAreOrdered
    <2>2. digests \subseteq Versions \X Versions
      BY <2>1 DEF DigestOrders, Tied
    <2>3. QED
      BY <2>1, <2>2 DEF Ordered
  <1>4. ASSUME NEW u \in Versions, NEW v \in Versions, <<u, v>> \in Ordered(digests)
        PROVE  /\ u[1] = v[1] /\ u # v /\ <<v, u>> \notin Ordered(digests)
               /\ task[u].status # "none" \/ u \in Discovered
               /\ task[v].status # "none" \/ v \in Discovered
    <2>1. /\ <<u, v>> \in Tied <=> u \in Discovered /\ v \in Discovered /\ u[1] = v[1] /\ u # v
          /\ <<u, v>> \in digests => <<u, v>> \in Tied
          /\ <<u, v>> \in Tied => (<<u, v>> \in digests <=> <<v, u>> \notin digests)
          /\ <<u, v>> \in Ordered(digests) <=>
                \/ <<u, v>> \in older \/ <<u, v>> \in digests
                \/ v \in Discovered /\ u[1] = v[1] /\ task[u].status # "none"
      BY OrderedPairs
    <2>2. /\ <<v, u>> \in Tied <=> u \in Discovered /\ v \in Discovered /\ u[1] = v[1] /\ u # v
          /\ <<v, u>> \in digests => <<v, u>> \in Tied
          /\ <<v, u>> \in Ordered(digests) <=>
                \/ <<v, u>> \in older \/ <<v, u>> \in digests
                \/ u \in Discovered /\ u[1] = v[1] /\ task[v].status # "none"
      BY OrderedPairs
    <2>3. /\ <<u, v>> \in older =>
                u[1] = v[1] /\ u # v /\ <<v, u>> \notin older
                  /\ task[u].status # "none" /\ task[v].status # "none"
          /\ <<v, u>> \in older => task[u].status # "none" /\ task[v].status # "none"
      BY <1>1 DEF TasksAreOrdered
    <2>4. QED
      BY <1>2, <1>4, <2>1, <2>2, <2>3
  <1>5. ASSUME NEW u \in Versions, NEW v \in Versions,
               u[1] = v[1], u # v,
               task[u].status # "none" \/ u \in Discovered,
               task[v].status # "none" \/ v \in Discovered
        PROVE  <<u, v>> \in Ordered(digests) \/ <<v, u>> \in Ordered(digests)
    <2>1. /\ <<u, v>> \in Tied <=> u \in Discovered /\ v \in Discovered /\ u[1] = v[1] /\ u # v
          /\ <<u, v>> \in digests => <<u, v>> \in Tied
          /\ <<u, v>> \in Tied => (<<u, v>> \in digests <=> <<v, u>> \notin digests)
          /\ <<u, v>> \in Ordered(digests) <=>
                \/ <<u, v>> \in older \/ <<u, v>> \in digests
                \/ v \in Discovered /\ u[1] = v[1] /\ task[u].status # "none"
      BY OrderedPairs
    <2>2. /\ <<v, u>> \in Tied <=> u \in Discovered /\ v \in Discovered /\ u[1] = v[1] /\ u # v
          /\ <<v, u>> \in digests => <<v, u>> \in Tied
          /\ <<v, u>> \in Ordered(digests) <=>
                \/ <<v, u>> \in older \/ <<v, u>> \in digests
                \/ u \in Discovered /\ u[1] = v[1] /\ task[v].status # "none"
      BY OrderedPairs
    <2>3. task[u].status # "none" /\ task[v].status # "none"
             => <<u, v>> \in older \/ <<v, u>> \in older
      BY <1>1, <1>5 DEF TasksAreOrdered
    <2>4. QED
      BY <1>5, <2>1, <2>2, <2>3
  <1>6. QED
    BY <1>3, <1>4, <1>5

\* What a claim transaction commits: every row is the opened one, or was
\* eligible, the only one of its item, and is now running under a lease.
LEMMA ClaimCommits ==
    ASSUME Configured, IInv, NEW w \in Workers, commit_claim(w)
    PROVE  /\ \E digests \in DigestOrders : older' = Ordered(digests)
           /\ \E chosen \in SUBSET Versions :
                /\ \A p \in Projects : InProject(chosen, p) # {} => Room(w, p, chosen) >= 0
                /\ \A v \in Versions :
                     \/ task'[v] = Opened(v)
                     \/ /\ v \in chosen
                        /\ RunningItemUnique(v) /\ Opened(v).status \notin {"none", "running"}
                        /\ task'[v].status = "running"
                        /\ \A u \in Versions :
                              u[1] = v[1] /\ u # v => task'[u] = Opened(u)
           /\ task' \in [Versions -> TaskRow]
           /\ slot' \in [Slots -> Versions \cup {NoClaim}]
           /\ snapshot' = [snapshot EXCEPT ![w] = NoSnapshot]
           /\ UNCHANGED <<reviewVars, stopping, reported>>
  <1>1. PICK digests \in DigestOrders :
          /\ older' = Ordered(digests)
          /\ \E chosen \in SUBSET Candidates(w, Ordered(digests)) :
               /\ Selection(w, chosen, Cardinality(FreeSlots(w)), Ordered(digests))
               /\ LET taken == {v \in chosen : RunningItemUnique(v)} IN
                  \E f \in [taken -> FreeSlots(w)] :
                    /\ IsInjective(f)
                    /\ task' = [v \in Versions |->
                                  IF v \in taken THEN Claimed(Opened(v), f[v])
                                  ELSE Opened(v)]
                    /\ slot' = [s \in Slots |->
                                  IF \E v \in taken : f[v] = s
                                  THEN CHOOSE v \in taken : f[v] = s ELSE slot[s]]
    BY DEF commit_claim
  <1>2. PICK chosen \in SUBSET Candidates(w, Ordered(digests)) :
               /\ Selection(w, chosen, Cardinality(FreeSlots(w)), Ordered(digests))
               /\ LET taken == {v \in chosen : RunningItemUnique(v)} IN
                  \E f \in [taken -> FreeSlots(w)] :
                    /\ IsInjective(f)
                    /\ task' = [v \in Versions |->
                                  IF v \in taken THEN Claimed(Opened(v), f[v])
                                  ELSE Opened(v)]
                    /\ slot' = [s \in Slots |->
                                  IF \E v \in taken : f[v] = s
                                  THEN CHOOSE v \in taken : f[v] = s ELSE slot[s]]
    BY <1>1
  <1> DEFINE taken == {v \in chosen : RunningItemUnique(v)}
  <1>3. PICK f \in [taken -> FreeSlots(w)] :
          /\ task' = [v \in Versions |-> IF v \in taken THEN Claimed(Opened(v), f[v])
                                         ELSE Opened(v)]
          /\ slot' = [s \in Slots |->
                        IF \E v \in taken : f[v] = s
                        THEN CHOOSE v \in taken : f[v] = s ELSE slot[s]]
    BY <1>2
  <1>4. chosen \in SUBSET Versions /\ \A v \in chosen : Eligible(v) /\ Oldest(v, Ordered(digests))
    BY <1>2 DEF Candidates
  <1>5. taken \subseteq chosen /\ \A v \in taken : RunningItemUnique(v)
    OBVIOUS
  <1>6. \A v \in taken : f[v] \in Slots
    BY <1>3 DEF FreeSlots
  <1> HIDE DEF taken
  <1>7. ASSUME NEW v \in taken
        PROVE  /\ v \in Versions /\ Claimed(Opened(v), f[v]) \in TaskRow
               /\ Claimed(Opened(v), f[v]).status = "running"
               /\ Opened(v).status \notin {"none", "running"}
    <2>1. v \in Versions /\ Eligible(v)
      BY <1>4, <1>5
    <2>2. Opened(v) \in TaskRow
      BY <2>1, OpenedRow DEF IInv
    <2>3. Opened(v).attempts + 1 \in 0 .. MaxAttempts
      BY <2>1, <2>2, SMT DEF Eligible, TaskRow, Configured, QcConstants
    <2>4. Claimed(Opened(v), f[v]) \in TaskRow /\ Claimed(Opened(v), f[v]).status = "running"
      BY <1>6, <2>2, <2>3 DEF Claimed, TaskRow
    <2>5. QED
      BY <2>1, <2>4 DEF Eligible
  <1>8. task' \in [Versions -> TaskRow]
    BY <1>3, <1>7, OpenedRow DEF IInv
  <1>9. slot' \in [Slots -> Versions \cup {NoClaim}]
    <2>1. slot \in [Slots -> Versions \cup {NoClaim}]
      BY DEF IInv, QueueInv
    <2>2. ASSUME NEW s \in Slots
          PROVE  slot'[s] \in Versions \cup {NoClaim}
      <3>1. CASE \E v \in taken : f[v] = s
        <4>1. (CHOOSE v \in taken : f[v] = s) \in taken
          BY <3>1
        <4>2. QED
          BY <1>3, <1>7, <3>1, <4>1
      <3>2. CASE ~ \E v \in taken : f[v] = s
        BY <1>3, <2>1, <3>2
      <3>3. QED
        BY <3>1, <3>2
    <2>3. QED
      BY <1>3, <2>2
  <1>10. ASSUME NEW v \in taken, NEW u \in taken, u[1] = v[1]
         PROVE  u = v
    <2>1. SUFFICES ASSUME u # v PROVE FALSE
      OBVIOUS
    <2>2. u \in Versions /\ v \in Versions /\ Eligible(u) /\ Eligible(v)
             /\ Oldest(u, Ordered(digests)) /\ Oldest(v, Ordered(digests))
      BY <1>4, <1>5
    <2>3. <<u, v>> \in Ordered(digests) /\ <<v, u>> \in Ordered(digests)
      BY <1>10, <2>1, <2>2 DEF Oldest
    <2>4. QED
      BY <2>2, <2>3, OrderedTasks DEF IInv
  <1>11. \A v \in Versions :
           \/ task'[v] = Opened(v)
           \/ /\ v \in chosen /\ RunningItemUnique(v) /\ Opened(v).status \notin {"none", "running"}
              /\ task'[v].status = "running"
              /\ \A u \in Versions : u[1] = v[1] /\ u # v => task'[u] = Opened(u)
    BY <1>3, <1>5, <1>7, <1>10
  <1>12. \A p \in Projects : InProject(chosen, p) # {} => Room(w, p, chosen) >= 0
    BY <1>2 DEF Selection
  <1>13. snapshot' = [snapshot EXCEPT ![w] = NoSnapshot]
           /\ UNCHANGED <<reviewVars, stopping, reported>>
    BY DEF commit_claim
  <1>14. QED
    BY <1>1, <1>4, <1>8, <1>9, <1>11, <1>12, <1>13

LEMMA Claims ==
    ASSUME Configured, IInv, NEW w \in Workers, commit_claim(w)
    PROVE  QueueInv'
  <1>1. PICK digests \in DigestOrders : older' = Ordered(digests)
    BY ClaimCommits
  <1>2. \A v \in Versions :
           \/ task'[v] = Opened(v)
           \/ /\ RunningItemUnique(v) /\ Opened(v).status \notin {"none", "running"}
              /\ task'[v].status = "running"
              /\ \A u \in Versions : u[1] = v[1] /\ u # v => task'[u] = Opened(u)
    BY ClaimCommits
  <1>3. /\ task' \in [Versions -> TaskRow]
        /\ slot' \in [Slots -> Versions \cup {NoClaim}]
        /\ snapshot' = [snapshot EXCEPT ![w] = NoSnapshot]
        /\ UNCHANGED <<reviewVars, stopping, reported>>
    BY ClaimCommits
  <1>4. snapshot' \in [Workers -> SUBSET (Versions \cup {NoClaim})]
    BY <1>3 DEF IInv, QueueInv, NoSnapshot
  <1>5. \A v \in Versions : task'[v].status # "none" <=>
                               task[v].status # "none" \/ v \in Discovered
    <2>1. TAKE v \in Versions
    <2>2. Opened(v).status = "none" <=> task[v].status = "none" /\ v \notin Discovered
      BY OpenedRow DEF IInv
    <2>3. CASE task'[v] = Opened(v)
      BY <2>2, <2>3
    <2>4. CASE Opened(v).status # "none" /\ task'[v].status = "running"
      BY <2>2, <2>4
    <2>5. QED
      BY <1>2, <2>3, <2>4
  <1>6. TasksAreOrdered'
    BY <1>1, <1>5, OrderedTasks DEF IInv, TasksAreOrdered
  <1>7. ASSUME NEW u \in Versions, NEW v \in Versions, u[1] = v[1], u # v,
               task'[u].status = "running", task'[v].status = "running"
        PROVE  FALSE
    <2>1. Opened(v).status = "running" => task[v].status = "running"
      BY OpenedRow DEF IInv
    <2>2. Opened(u).status = "running" => task[u].status = "running"
      BY OpenedRow DEF IInv
    <2>3. CASE task'[u] = Opened(u) /\ task'[v] = Opened(v)
      BY <1>7, <2>1, <2>2, <2>3 DEF IInv, QueueInv, OneRunningPerItem, RunningTasks
    <2>4. CASE task'[u] # Opened(u)
      <3>1. RunningItemUnique(u) /\ task'[v] = Opened(v)
        BY <1>2, <1>7, <2>4
      <3>2. QED
        BY <1>7, <3>1 DEF RunningItemUnique
    <2>5. CASE task'[v] # Opened(v)
      <3>1. RunningItemUnique(v) /\ task'[u] = Opened(u)
        BY <1>2, <1>7, <2>5
      <3>2. QED
        BY <1>7, <3>1 DEF RunningItemUnique
    <2>6. QED
      BY <2>3, <2>4, <2>5
  <1>8. OneRunningPerItem'
    BY <1>7 DEF OneRunningPerItem, RunningTasks
  <1>9. AnnouncedWithItsIssue'
    BY <1>3 DEF IInv, QueueInv, AnnouncedWithItsIssue, reviewVars
  <1>10. QED
    BY <1>3, <1>4, <1>6, <1>8, <1>9 DEF IInv, QueueInv

\* A target of a rerun is the current version of its item.
LEMMA Reruns ==
    ASSUME Configured, IInv, NEW p \in Projects, rerun_project_technical_qc(p)
    PROVE  QueueInv'
  <1> DEFINE targets == {Current(i) : i \in ItemsOf(p)}
  <1>1. /\ task' = [v \in Versions |-> IF v \in targets THEN NewTask ELSE task[v]]
        /\ older' = {pair \in older : pair[1] \notin targets}
                      \cup {pair \in Versions \X targets :
                              /\ pair[1][1] = pair[2][1] /\ pair[1] # pair[2]
                              /\ task[pair[1]].status # "none"}
        /\ UNCHANGED <<reviewVars, slot, snapshot, stopping, reported>>
    BY DEF rerun_project_technical_qc
  <1>2. \A v \in targets : v \in Versions /\ v = Current(v[1])
    <2>1. \A i \in ItemsOf(p) : Current(i) \in Versions
      BY CurrentIsAVersion DEF ItemsOf, IInv
    <2>2. \A i \in ItemsOf(p) : Current(i)[1] = i
      BY DEF Current
    <2>3. QED
      BY <2>1, <2>2
  <1> HIDE DEF targets
  <1>3. task \in [Versions -> TaskRow] /\ TasksAreOrdered
    BY DEF IInv, QueueInv
  <1>4. /\ NewTask \in TaskRow /\ NewTask.status = "queued"
    <2>1. CASE Versions = {}
      <3>1. 0 \in 0 .. MaxAttempts
        BY SMT DEF Configured, QcConstants
      <3>2. NoTask \in TaskRow
        BY <3>1 DEF NoTask, TaskRow
      <3>3. QED
        BY <3>2, TaskRows
    <2>2. QED
      BY <1>3, <2>1, TaskRows
  <1>5. task' \in [Versions -> TaskRow]
    BY <1>1, <1>3, <1>4
  <1>6. \A v \in Versions : /\ v \in targets => task'[v].status = "queued"
                            /\ v \notin targets => task'[v] = task[v]
    BY <1>1, <1>4
  <1>7. ASSUME NEW u \in Versions, NEW v \in Versions
        PROVE  <<u, v>> \in older' <=>
                  \/ <<u, v>> \in older /\ u \notin targets
                  \/ v \in targets /\ u[1] = v[1] /\ u # v /\ task[u].status # "none"
    <2>1. <<u, v>>[1] = u /\ <<u, v>>[2] = v
      OBVIOUS
    <2>2. QED
      BY <1>1, <2>1
  <1>8. older' \subseteq Versions \X Versions
    BY <1>1, <1>2, <1>3 DEF TasksAreOrdered
  <1>9. ASSUME NEW u \in Versions, NEW v \in Versions, <<u, v>> \in older'
        PROVE  /\ u[1] = v[1] /\ u # v /\ <<v, u>> \notin older'
               /\ task'[u].status # "none" /\ task'[v].status # "none"
    <2>0. \/ <<u, v>> \in older /\ u \notin targets
          \/ v \in targets /\ u[1] = v[1] /\ u # v /\ task[u].status # "none"
      BY <1>7, <1>9
    <2>1. <<v, u>> \in older' =>
             \/ <<v, u>> \in older /\ v \notin targets
             \/ u \in targets /\ v[1] = u[1] /\ v # u /\ task[v].status # "none"
      BY <1>7
    <2>2. <<u, v>> \in older =>
             /\ u[1] = v[1] /\ u # v /\ <<v, u>> \notin older
             /\ task[u].status # "none" /\ task[v].status # "none"
      BY <1>3 DEF TasksAreOrdered
    <2>3. ASSUME u \in targets, v \in targets, u[1] = v[1]
          PROVE  u = v
      <3>1. u = Current(u[1]) /\ v = Current(v[1])
        BY <1>2, <2>3
      <3>2. Current(u[1]) = Current(v[1])
        BY <2>3
      <3>3. QED
        BY <3>1, <3>2
    <2>4. task[u].status # "none" => task'[u].status # "none"
      BY <1>6
    <2>5. task[v].status # "none" \/ v \in targets => task'[v].status # "none"
      BY <1>6
    <2>6. QED
      BY <2>0, <2>1, <2>2, <2>3, <2>4, <2>5
  <1>10. ASSUME NEW u \in Versions, NEW v \in Versions, u[1] = v[1], u # v,
                task'[u].status # "none", task'[v].status # "none"
         PROVE  <<u, v>> \in older' \/ <<v, u>> \in older'
    <2>1. u \in targets /\ v \in targets => FALSE
      BY <1>2, <1>10
    <2>2. /\ u \notin targets => task[u].status # "none"
          /\ v \notin targets => task[v].status # "none"
      BY <1>6, <1>10
    <2>3. task[u].status # "none" /\ task[v].status # "none"
             => <<u, v>> \in older \/ <<v, u>> \in older
      BY <1>3, <1>10 DEF TasksAreOrdered
    <2>4. QED
      BY <1>7, <1>10, <2>1, <2>2, <2>3
  <1>11. TasksAreOrdered'
    BY <1>8, <1>9, <1>10 DEF TasksAreOrdered
  <1>12. OneRunningPerItem'
    <2>1. \A v \in Versions : task'[v].status = "running" => task[v].status = "running"
      BY <1>6
    <2>2. QED
      BY <2>1 DEF IInv, QueueInv, OneRunningPerItem, RunningTasks
  <1>13. AnnouncedWithItsIssue'
    BY <1>1 DEF IInv, QueueInv, AnnouncedWithItsIssue, reviewVars
  <1>14. QED
    BY <1>1, <1>5, <1>11, <1>12, <1>13 DEF IInv, QueueInv

\* A command of the review workflow leaves the queue alone, and an issue that
\* has a row keeps having one.
LEMMA CommandsKeepQueue ==
    ASSUME Configured, IInv, ReviewNext, UNCHANGED qcVars
    PROVE  ReviewInv' /\ QueueInv'
  <1>1. Unconcerned \/ MovesItems \/ \E i \in Items : ReviewsItem(i)
    BY ReviewSteps DEF IInv
  <1>2. ReviewInv'
    BY <1>1, ReviewInvStep DEF IInv
  <1>3. \A x \in IssueIds : issue'[x].status = "absent" => issue[x].status = "absent"
    BY <1>1 DEF Unconcerned, MovesItems, ReviewsItem, IssueMoves
  <1>4. \A x \in LinkedIssues : x \in IssueIds
    BY DEF IssueIds
  <1>5. AnnouncedWithItsIssue'
    BY <1>3, <1>4 DEF qcVars, IInv, QueueInv, AnnouncedWithItsIssue
  <1>6. TasksAreOrdered' /\ OneRunningPerItem'
    BY TasksStay DEF qcVars, IInv
  <1>7. QED
    BY <1>2, <1>5, <1>6 DEF qcVars, IInv, QueueInv

LEMMA ScansKeepQueue ==
    ASSUME Configured, IInv, NEW s \in Slots, NEW found \in SUBSET Findings,
           complete_scan(s, found)
    PROVE  ReviewInv' /\ QueueInv'
  <1>1. /\ slot[s] \in Versions
        /\ task' = [task EXCEPT ![slot[s]] = Released(task[slot[s]], "complete", "never")]
        /\ slot' = [slot EXCEPT ![s] = NoClaim]
        /\ UNCHANGED <<older, snapshot, stopping>>
    BY ScanCompletes
  <1>2. ReviewsItem(slot[s][1]) /\ slot[s][1] \in Items
    BY ScanCompletes DEF ReviewsItem
  <1>3. ReviewInv'
    BY <1>2, ReviewInvStep DEF IInv
  <1>4. /\ reported' \in [LinkedIssues -> 0 .. 2]
        /\ \A x \in LinkedIssues :
              \/ reported'[x] = reported[x] /\ issue'[x] = issue[x]
              \/ issue'[x].status # "absent" /\ reported'[x] <= 1
    BY ScanCompletes
  <1>5. AnnouncedWithItsIssue'
    BY <1>4 DEF IInv, QueueInv, AnnouncedWithItsIssue
  <1>6. PICK v \in Versions : v = slot[s]
    BY <1>1
  <1>7. task[v] \in TaskRow /\ task[v].status = "running"
    BY <1>6 DEF IInv, QueueInv, complete_scan, ActiveClaim
  <1>8. /\ Released(task[v], "complete", "never") \in TaskRow
        /\ Released(task[v], "complete", "never").status = "complete"
    BY <1>7, TaskRows
  <1>9. task' \in [Versions -> TaskRow]
    BY <1>1, <1>6, <1>8 DEF IInv, QueueInv
  <1>10. \A u \in Versions : /\ task'[u].status = "none" <=> task[u].status = "none"
                             /\ task'[u].status = "running" => task[u].status = "running"
    BY <1>1, <1>6, <1>7, <1>8 DEF IInv, QueueInv
  <1>11. TasksAreOrdered' /\ OneRunningPerItem'
    BY <1>1, <1>10, TasksStay DEF IInv
  <1>12. slot' \in [Slots -> Versions \cup {NoClaim}]
    BY <1>1 DEF IInv, QueueInv
  <1>13. QED
    BY <1>1, <1>3, <1>4, <1>5, <1>9, <1>11, <1>12 DEF IInv, QueueInv

\* A step that changes one task and does not set it to running.
LEMMA OneTask ==
    ASSUME Configured, IInv, NEW v \in Versions, NEW t \in TaskRow,
           task' = [task EXCEPT ![v] = t], t.status # "none", task[v].status # "none",
           t.status = "running" => task[v].status = "running",
           slot' \in [Slots -> Versions \cup {NoClaim}],
           UNCHANGED <<reviewVars, older, snapshot, stopping, reported>>
    PROVE  QueueInv'
  <1>1. task' \in [Versions -> TaskRow]
    BY DEF IInv, QueueInv
  <1>2. \A u \in Versions : /\ task'[u].status = "none" <=> task[u].status = "none"
                            /\ task'[u].status = "running" => task[u].status = "running"
    BY DEF IInv, QueueInv
  <1>3. TasksAreOrdered' /\ OneRunningPerItem'
    BY <1>2, TasksStay DEF IInv
  <1>4. AnnouncedWithItsIssue'
    BY DEF IInv, QueueInv, AnnouncedWithItsIssue, reviewVars
  <1>5. QED
    BY <1>1, <1>3, <1>4 DEF IInv, QueueInv

\* A step that changes no task.
LEMMA NoTaskChanges ==
    ASSUME Configured, IInv,
           slot' \in [Slots -> Versions \cup {NoClaim}],
           snapshot' \in [Workers -> SUBSET (Versions \cup {NoClaim})],
           stopping' \in [Workers -> BOOLEAN],
           UNCHANGED <<reviewVars, task, older, reported>>
    PROVE  QueueInv'
  <1>1. TasksAreOrdered' /\ OneRunningPerItem'
    BY TasksStay DEF IInv
  <1>2. AnnouncedWithItsIssue'
    BY DEF IInv, QueueInv, AnnouncedWithItsIssue, reviewVars
  <1>3. QED
    BY <1>1, <1>2 DEF IInv, QueueInv

LEMMA ReviewUnchanged ==
    ASSUME ReviewInv, UNCHANGED reviewVars
    PROVE  ReviewInv'
  <1>1. ReviewTypeOK'
    BY DEF reviewVars, ReviewInv, ReviewTypeOK
  <1>2. RowsAreInitialised' /\ SessionsAreOver' /\ TriggersAgree'
    BY DEF reviewVars, ReviewInv, RowsAreInitialised, SessionsAreOver, TriggersAgree, Exists
  <1>3. QED
    BY <1>1, <1>2 DEF ReviewInv

LEMMA WorkerSteps ==
    ASSUME Configured, IInv, WorkerNext
    PROVE  IInv'
  <1>1. /\ task \in [Versions -> TaskRow]
        /\ slot \in [Slots -> Versions \cup {NoClaim}]
        /\ snapshot \in [Workers -> SUBSET (Versions \cup {NoClaim})]
        /\ stopping \in [Workers -> BOOLEAN]
    BY DEF IInv, QueueInv
  <1>2. ASSUME NEW w \in Workers, begin_claim(w)
        PROVE  IInv'
    <2>1. /\ UNCHANGED <<reviewVars, task, older, slot, stopping, reported>>
          /\ snapshot' = [snapshot EXCEPT ![w] = {v \in RunningTasks : task[v].leased}]
      BY <1>2 DEF begin_claim
    <2>2. snapshot' \in [Workers -> SUBSET (Versions \cup {NoClaim})]
      BY <1>1, <2>1 DEF RunningTasks
    <2>3. QED
      BY <1>1, <2>1, <2>2, NoTaskChanges, ReviewUnchanged DEF IInv
  <1>3. ASSUME NEW w \in Workers, commit_claim(w)
        PROVE  IInv'
    BY <1>3, Claims, ReviewUnchanged DEF commit_claim, IInv
  <1>4. ASSUME NEW w \in Workers, abandon_claim(w)
        PROVE  IInv'
    <2>1. /\ UNCHANGED <<reviewVars, task, older, slot, stopping, reported>>
          /\ snapshot' = [snapshot EXCEPT ![w] = NoSnapshot]
      BY <1>4 DEF abandon_claim
    <2>2. snapshot' \in [Workers -> SUBSET (Versions \cup {NoClaim})]
      BY <1>1, <2>1 DEF NoSnapshot
    <2>3. QED
      BY <1>1, <2>1, <2>2, NoTaskChanges, ReviewUnchanged DEF IInv
  <1>5. ASSUME NEW s \in Slots, NEW found \in SUBSET Findings, complete_scan(s, found)
        PROVE  IInv'
    BY <1>5, ScansKeepQueue DEF IInv
  <1>6. ASSUME NEW s \in Slots, NEW retryable \in BOOLEAN, fail_scan(s, retryable)
        PROVE  IInv'
    <2>1. PICK v \in Versions : v = slot[s]
      BY <1>1, <1>6 DEF fail_scan, ActiveClaim
    <2>2. /\ task[v].status = "running" /\ task' = [task EXCEPT ![v] = Failed(task[v], retryable)]
          /\ slot' = [slot EXCEPT ![s] = NoClaim]
          /\ UNCHANGED <<reviewVars, older, snapshot, stopping, reported>>
      BY <1>6, <2>1 DEF fail_scan, ActiveClaim, Free
    <2>3. \/ Failed(task[v], retryable) = Released(task[v], "failed", "later")
          \/ Failed(task[v], retryable) = Released(task[v], "failed", "never")
      BY DEF Failed
    <2>a. /\ Released(task[v], "failed", "later") \in TaskRow
          /\ Released(task[v], "failed", "later").status = "failed"
      BY <1>1, TaskRows
    <2>b. /\ Released(task[v], "failed", "never") \in TaskRow
          /\ Released(task[v], "failed", "never").status = "failed"
      BY <1>1, TaskRows
    <2>4. Failed(task[v], retryable) \in TaskRow /\ Failed(task[v], retryable).status = "failed"
      BY <2>3, <2>a, <2>b
    <2>5. slot' \in [Slots -> Versions \cup {NoClaim}]
      BY <1>1, <2>2
    <2>6. QueueInv'
      BY <2>2, <2>4, <2>5, OneTask
    <2>7. QED
      BY <2>2, <2>6, ReviewUnchanged DEF IInv
  <1>7. ASSUME NEW s \in Slots, skip_scan(s)
        PROVE  IInv'
    <2>1. /\ slot' = [slot EXCEPT ![s] = NoClaim]
          /\ UNCHANGED <<reviewVars, task, older, snapshot, stopping, reported>>
      BY <1>7 DEF skip_scan, Free
    <2>2. slot' \in [Slots -> Versions \cup {NoClaim}]
      BY <1>1, <2>1
    <2>3. QED
      BY <1>1, <2>1, <2>2, NoTaskChanges, ReviewUnchanged DEF IInv
  <1>8. QED
    BY <1>2, <1>3, <1>4, <1>5, <1>6, <1>7 DEF WorkerNext

LEMMA EnvironmentSteps ==
    ASSUME Configured, IInv, Environment
    PROVE  IInv'
  <1>1. /\ task \in [Versions -> TaskRow]
        /\ slot \in [Slots -> Versions \cup {NoClaim}]
        /\ snapshot \in [Workers -> SUBSET (Versions \cup {NoClaim})]
        /\ stopping \in [Workers -> BOOLEAN] /\ TasksAreOrdered
    BY DEF IInv, QueueInv
  <1>2. ASSUME NEW v \in Versions, lease_expires(v)
        PROVE  IInv'
    <2>1. /\ task[v].status = "running" /\ task' = [task EXCEPT ![v] = [task[v] EXCEPT !.leased = FALSE]]
          /\ UNCHANGED <<reviewVars, older, slot, snapshot, stopping, reported>>
      BY <1>2 DEF lease_expires
    <2> DEFINE t == [task[v] EXCEPT !.leased = FALSE]
    <2>2. t \in TaskRow /\ t.status = "running"
      BY <1>1, <2>1, TaskRows
    <2> HIDE DEF t
    <2>3. task' = [task EXCEPT ![v] = t]
      BY <2>1 DEF t
    <2>4. QueueInv'
      BY <1>1, <2>1, <2>2, <2>3, OneTask
    <2>5. QED
      BY <2>1, <2>4, ReviewUnchanged DEF IInv
  <1>3. ASSUME NEW v \in Versions, retry_falls_due(v)
        PROVE  IInv'
    <2>1. /\ task' = [task EXCEPT ![v] = [task[v] EXCEPT !.retry = "due"]]
          /\ UNCHANGED <<reviewVars, older, slot, snapshot, stopping, reported>>
      BY <1>3 DEF retry_falls_due
    <2> DEFINE t == [task[v] EXCEPT !.retry = "due"]
    <2>2. t \in TaskRow /\ t.status = task[v].status
      BY <1>1, TaskRows
    <2> HIDE DEF t
    <2>3. task' = [task EXCEPT ![v] = t]
      BY <2>1 DEF t
    <2>4. task' \in [Versions -> TaskRow]
      BY <1>1, <2>2, <2>3
    <2>5. \A u \in Versions : /\ task'[u].status = "none" <=> task[u].status = "none"
                              /\ task'[u].status = "running" => task[u].status = "running"
      BY <1>1, <2>2, <2>3
    <2>6. TasksAreOrdered' /\ OneRunningPerItem'
      BY <2>1, <2>5, TasksStay DEF IInv
    <2>7. AnnouncedWithItsIssue'
      BY <2>1 DEF IInv, QueueInv, AnnouncedWithItsIssue, reviewVars
    <2>8. QueueInv'
      BY <2>1, <2>4, <2>6, <2>7 DEF IInv, QueueInv
    <2>9. QED
      BY <2>1, <2>8, ReviewUnchanged DEF IInv
  <1>4. ASSUME NEW w \in Workers, stop_worker(w) \/ start_worker(w)
        PROVE  IInv'
    <2>1. UNCHANGED <<reviewVars, task, older, slot, snapshot, reported>>
      BY <1>4 DEF stop_worker, start_worker
    <2>2. stopping' \in [Workers -> BOOLEAN]
      BY <1>1, <1>4 DEF stop_worker, start_worker
    <2>3. QED
      BY <1>1, <2>1, <2>2, NoTaskChanges, ReviewUnchanged DEF IInv
  <1>5. ASSUME NEW w \in Workers, worker_crashes(w)
        PROVE  IInv'
    <2>1. /\ UNCHANGED <<reviewVars, task, older, reported>>
          /\ slot' = [s \in Slots |-> IF WorkerOf[s] = w THEN NoClaim ELSE slot[s]]
          /\ snapshot' = [snapshot EXCEPT ![w] = NoSnapshot]
          /\ stopping' = [stopping EXCEPT ![w] = FALSE]
      BY <1>5 DEF worker_crashes
    <2>2. /\ slot' \in [Slots -> Versions \cup {NoClaim}]
          /\ snapshot' \in [Workers -> SUBSET (Versions \cup {NoClaim})]
          /\ stopping' \in [Workers -> BOOLEAN]
      BY <1>1, <2>1 DEF NoSnapshot
    <2>3. QED
      BY <2>1, <2>2, NoTaskChanges, ReviewUnchanged DEF IInv
  <1>6. QED
    BY <1>2, <1>3, <1>4, <1>5 DEF Environment

LEMMA InvInductive ==
    ASSUME Configured, IInv, [Next]_vars
    PROVE  IInv'
  <1>1. CASE ReviewNext /\ UNCHANGED qcVars
    BY <1>1, CommandsKeepQueue DEF IInv
  <1>2. CASE \E p \in Projects : rerun_project_technical_qc(p)
    BY <1>2, Reruns, ReviewUnchanged DEF IInv, rerun_project_technical_qc
  <1>3. CASE UNCHANGED vars
    <2>1. UNCHANGED <<reviewVars, task, older, reported>> /\ UNCHANGED <<slot, snapshot, stopping>>
      BY <1>3 DEF vars, qcVars
    <2>2. QED
      BY <2>1, NoTaskChanges, ReviewUnchanged DEF IInv, QueueInv
  <1>4. QED
    BY <1>1, <1>2, <1>3, WorkerSteps, EnvironmentSteps DEF Next

LEMMA Invariance ==
    ASSUME Configured
    PROVE  Spec => []IInv
  <1>1. Init => IInv
    BY ReviewInitial, QueueInitial DEF IInv, Init
  <1>2. IInv /\ [Next]_vars => IInv'
    BY InvInductive
  <1>3. QED
    BY <1>1, <1>2, PTL DEF Spec

(*------------------------------ the invariants ---------------------------*)

\* Every variable keeps its type, and the tasks of an item stay in the order of
\* their creation, whichever of discovery and rerun made them.
THEOREM TypeCorrectness ==
    ASSUME Configured
    PROVE  Spec => []TypeOK
  <1>1. IInv => TypeOK
    BY DEF IInv, ReviewInv, QueueInv, TasksAreOrdered, TypeOK, TaskRow
  <1>2. QED
    BY <1>1, Invariance, PTL

\* No command that the checks of the repository admit, and no scan that still
\* holds its claim, is refused by a freeze trigger: for any number of items,
\* versions and issues the two layers agree on what a finalized item allows.
THEOREM TriggersNeverRefuse ==
    ASSUME Configured
    PROVE  Spec => []TriggersAgree
  <1>1. IInv => TriggersAgree
    BY DEF IInv, ReviewInv
  <1>2. QED
    BY <1>1, Invariance, PTL

\* Two tasks of one item never run at once, however many workers open their
\* claim transactions at the same time (claim_technical_qc_tasks).
THEOREM OneScanPerItem ==
    ASSUME Configured
    PROVE  Spec => []OneRunningPerItem
  <1>1. IInv => OneRunningPerItem
    BY DEF IInv, QueueInv
  <1>2. QED
    BY <1>1, Invariance, PTL

\* A finding is announced once and a version's review starts once, through
\* retries, lost leases, crashes, reruns and whoever opens the first issue.
THEOREM EventsAreAnnouncedOnce ==
    ASSUME Configured
    PROVE  Spec => []AnnouncedOnce
  <1>1. IInv => AnnouncedOnce
    BY DEF IInv, ReviewInv, QueueInv, SessionsAreOver, AnnouncedWithItsIssue, AnnouncedOnce
  <1>2. QED
    BY <1>1, Invariance, PTL

(*--------------------------- the action properties -----------------------*)

LEMMA StepKinds ==
    ASSUME Configured, IInv, [Next]_vars
    PROVE  Unconcerned \/ MovesItems \/ \E i \in Items : ReviewsItem(i)
  <1>1. UNCHANGED reviewVars => Unconcerned
    BY ReviewTypes DEF IInv, ReviewInv, reviewVars, Unconcerned
  <1>2. CASE ReviewNext /\ UNCHANGED qcVars
    BY <1>2, ReviewSteps DEF IInv
  <1>3. CASE \E s \in Slots, found \in SUBSET Findings : complete_scan(s, found)
    BY <1>3, ScanCompletes DEF ReviewsItem
  <1>4. CASE UNCHANGED reviewVars
    BY <1>1, <1>4
  <1>5. CASE WorkerNext
    BY <1>3, <1>4, <1>5 DEF WorkerNext, begin_claim, commit_claim, abandon_claim,
                            fail_scan, skip_scan
  <1>6. CASE Environment
    BY <1>4, <1>6 DEF Environment, lease_expires, retry_falls_due, stop_worker,
                      start_worker, worker_crashes
  <1>7. CASE \E p \in Projects : rerun_project_technical_qc(p)
    BY <1>4, <1>7 DEF rerun_project_technical_qc
  <1>8. CASE UNCHANGED vars
    BY <1>4, <1>8 DEF vars
  <1>9. QED
    BY <1>2, <1>5, <1>6, <1>7, <1>8 DEF Next

\* What happens to the issues of one item leaves the others as they were.
LEMMA OtherItems ==
    ASSUME Configured, IInv, NEW i \in Items, NEW j \in Items, j # i, ReviewsItem(j)
    PROVE  /\ item'[i] = item[i]
           /\ Unresolved(issue', Current(i)) = Unresolved(issue, Current(i))
  <1>1. item \in [Items -> ItemRow]
    BY ReviewTypes DEF IInv, ReviewInv
  <1>2. item'[i] = item[i]
    BY <1>1 DEF ReviewsItem
  <1>3. Current(i) # Current(j)
    <2>1. Current(i)[1] = i /\ Current(j)[1] = j
      BY DEF Current
    <2>2. QED
      BY <2>1
  <1>4. Current(i) # <<>>
    BY SMT DEF Current
  <1>5. ASSUME NEW x \in IssueIds, issue'[x] # issue[x]
        PROVE  issue'[x].version # Current(i) /\ issue[x].version # Current(i)
    <2>1. IssueMoves(j, x)
      BY DEF ReviewsItem
    <2>2. issue[x].status = "absent" => issue[x].version = <<>>
      BY DEF IInv, ReviewInv, RowsAreInitialised
    <2>3. QED
      BY <1>3, <1>4, <1>5, <2>1, <2>2 DEF IssueMoves
  <1>6. Unresolved(issue', Current(i)) = Unresolved(issue, Current(i))
    <2>1. \A x \in IssueIds : issue'[x] # issue[x] =>
             issue'[x].version # Current(i) /\ issue[x].version # Current(i)
      BY <1>5
    <2> QED
      BY <2>1 DEF Unresolved, Live
  <1>7. QED
    BY <1>2, <1>6

\* Whatever changes the set of open issues of a version under review, a command
\* or a scan, leaves the item with the status that goes with the new set
\* (sync_item_workflow_for_current_issues).
THEOREM IssuesDriveTheStatus ==
    ASSUME Configured
    PROVE  Spec => [][IssuesDrive]_vars
  <1>1. IInv /\ [Next]_vars => IssuesDrive
    <2> SUFFICES ASSUME IInv, [Next]_vars, NEW i \in Items, ~Finalized(i),
                        Unresolved(issue, Current(i)) # Unresolved(issue', Current(i))
                 PROVE  item'[i].workflow =
                           IF Unresolved(issue', Current(i)) = {} THEN "in_review"
                           ELSE "changes_requested"
      BY DEF IssuesDrive
    <2>1. issue' # issue
      OBVIOUS
    <2>2. PICK j \in Items : ReviewsItem(j)
      BY <2>1, StepKinds DEF Unconcerned, MovesItems
    <2>3. j = i
      BY <2>2, OtherItems
    <2>4. item \in [Items -> ItemRow]
      BY ReviewTypes DEF IInv, ReviewInv
    <2>5. item' = [item EXCEPT ![i] = Synced(item[i], i, issue')]
      BY <2>2, <2>3 DEF ReviewsItem
    <2>6. item'[i] = Synced(item[i], i, issue')
      BY <2>4, <2>5
    <2>7. Synced(item[i], i, issue').workflow =
             IF Unresolved(issue', <<i, item[i].current>>) # {}
             THEN "changes_requested" ELSE "in_review"
      BY <2>4, SyncedItem
    <2>8. QED
      BY <2>6, <2>7 DEF Current
  <1>2. QED
    BY <1>1, Invariance, PTL DEF Spec

\* If-Match is worth its name: with more than one lock version, no step changes
\* the status, the current version or, before finalization, the open issues of
\* an item and leaves its lock version alone.
THEOREM LockCoversTheItem ==
    ASSUME Configured, LockModulus # 1
    PROVE  Spec => [][LockCovers]_vars
  <1>1. IInv /\ [Next]_vars => LockCovers
    <2> SUFFICES ASSUME IInv, [Next]_vars, NEW i \in Items, Exists(i)
                 PROVE  \/ item'[i].lock # item[i].lock
                        \/ /\ item'[i] = item[i]
                           /\ \/ Finalized(i)
                              \/ Unresolved(issue, Current(i))
                                   = Unresolved(issue', Current(i))
      BY DEF LockCovers
    <2>1. item \in [Items -> ItemRow]
      BY ReviewTypes DEF IInv, ReviewInv
    <2>2. Bump(item[i]).lock # item[i].lock
      BY <2>1, BumpedItem
    <2>3. CASE Unconcerned
      BY <2>3 DEF Unconcerned
    <2>4. CASE MovesItems
      BY <2>2, <2>4 DEF MovesItems, ItemsMove, ItemMoves
    <2>5. ASSUME NEW j \in Items, ReviewsItem(j), j # i
          PROVE  /\ item'[i] = item[i]
                 /\ Unresolved(issue', Current(i)) = Unresolved(issue, Current(i))
      BY <2>5, OtherItems
    <2>6. CASE ReviewsItem(i)
      <3>1. CASE /\ item' = item
                 /\ Finalized(i) \/ Unresolved(issue', Current(i)) = Unresolved(issue, Current(i))
        BY <3>1
      <3>2. CASE item' = [item EXCEPT ![i] = Synced(item[i], i, issue')]
        <4>1. item'[i] = Synced(item[i], i, issue')
          BY <2>1, <3>2
        <4>2. Synced(item[i], i, issue').lock = Bump(item[i]).lock
          BY <2>1, SyncedItem
        <4>3. QED
          BY <2>2, <4>1, <4>2
      <3>3. QED
        BY <2>6, <3>1, <3>2 DEF ReviewsItem
    <2>7. QED
      BY <2>3, <2>4, <2>5, <2>6, StepKinds
  <1>2. QED
    BY <1>1, Invariance, PTL DEF Spec

\* Issues of a superseded version and deleted issues never change again, and
\* nothing is added to a superseded version or in an archived project.
THEOREM HistoryIsKept ==
    ASSUME Configured
    PROVE  Spec => [][HistoryKept]_vars
  <1>1. IInv /\ [Next]_vars => HistoryKept
    <2> SUFFICES ASSUME IInv, [Next]_vars, NEW x \in IssueIds, issue'[x] # issue[x]
                 PROVE  LET v == issue'[x].version IN
                        v = Current(v[1]) /\ ~issue[x].deleted /\ Active(v[1])
      BY DEF HistoryKept
    <2>1. issue' # issue
      OBVIOUS
    <2>2. PICK j \in Items : ReviewsItem(j)
      BY <2>1, StepKinds DEF Unconcerned, MovesItems
    <2>3. issue'[x].version = Current(j) /\ ~issue[x].deleted /\ Active(j)
      BY <2>2 DEF ReviewsItem, IssueMoves
    <2>4. Current(j)[1] = j
      BY DEF Current
    <2>5. QED
      BY <2>3, <2>4
  <1>2. QED
    BY <1>1, Invariance, PTL DEF Spec

\* A claim in force is never taken from its slot: neither a rerun nor the
\* reconciliation of another worker resets a row whose lease is live.
THEOREM ClaimsAreKept ==
    ASSUME Configured
    PROVE  Spec => [][ClaimKept]_vars
  <1>1. IInv /\ [Next]_vars => ClaimKept
    <2> SUFFICES ASSUME IInv, [Next]_vars, NEW s \in Slots, ActiveClaim(s), slot'[s] = slot[s]
                 PROVE  task'[slot[s]].claim = s
      BY DEF ClaimKept
    <2>1. /\ task \in [Versions -> TaskRow]
          /\ slot \in [Slots -> Versions \cup {NoClaim}]
      BY DEF IInv, QueueInv
    <2>2. /\ slot[s] # NoClaim /\ slot[s] \in Versions
          /\ task[slot[s]].status = "running" /\ task[slot[s]].claim = s
          /\ task[slot[s]].leased
      BY <2>1 DEF ActiveClaim
    <2>3. PICK v \in Versions : v = slot[s]
      BY <2>2
    <2>4. CASE UNCHANGED task
      BY <2>2, <2>4
    <2>5. ASSUME NEW r \in Slots, NEW t, ActiveClaim(r), slot' = [slot EXCEPT ![r] = NoClaim],
                 task' = [task EXCEPT ![slot[r]] = t]
          PROVE  task'[v] = task[v]
      <3>1. r # s
        BY <2>1, <2>2, <2>5
      <3>2. task[slot[r]].claim = r
        BY <2>5 DEF ActiveClaim
      <3>3. slot[r] # v
        BY <2>2, <2>3, <3>1, <3>2
      <3>4. QED
        BY <2>1, <2>5, <3>3
    <2>6. ASSUME NEW r \in Slots, NEW found \in SUBSET Findings, complete_scan(r, found)
          PROVE  task'[v] = task[v]
      <3>1. ActiveClaim(r)
        BY <2>6 DEF complete_scan
      <3>2. QED
        BY <2>5, <2>6, <3>1, ScanCompletes
    <2>7. ASSUME NEW r \in Slots, NEW retryable \in BOOLEAN, fail_scan(r, retryable)
          PROVE  task'[v] = task[v]
      BY <2>5, <2>7 DEF fail_scan, Free
    <2>8. ASSUME NEW w \in Workers, commit_claim(w)
          PROVE  task'[v] = task[v]
      <3>1. Opened(v) = task[v] /\ Opened(v).status = "running"
        BY <2>2, <2>3, OpenedRow DEF IInv
      <3>2. QED
        BY <2>8, <3>1, ClaimCommits
    <2>9. ASSUME NEW u \in Versions, lease_expires(u) \/ retry_falls_due(u)
          PROVE  task'[v].claim = task[v].claim
      <3>1. task[v] \in TaskRow
        BY <2>1
      <3>2. \/ task'[v] = task[v]
            \/ task'[v] = [task[v] EXCEPT !.leased = FALSE]
            \/ task'[v] = [task[v] EXCEPT !.retry = "due"]
        BY <2>1, <2>9 DEF lease_expires, retry_falls_due
      <3>3. [task[v] EXCEPT !.leased = FALSE].claim = task[v].claim
        BY <3>1, TaskRows
      <3>4. [task[v] EXCEPT !.retry = "due"].claim = task[v].claim
        BY <3>1, TaskRows
      <3>5. QED
        BY <3>2, <3>3, <3>4
    <2>10. ASSUME NEW p \in Projects, rerun_project_technical_qc(p)
           PROVE  task'[v] = task[v]
      <3> DEFINE targets == {Current(i) : i \in ItemsOf(p)}
      <3>1. task' = [u \in Versions |-> IF u \in targets THEN NewTask ELSE task[u]]
        BY <2>10 DEF rerun_project_technical_qc
      <3>2. v \notin InProject(Versions, p)
        BY <2>2, <2>3, <2>10 DEF rerun_project_technical_qc, NothingInProgress
      <3>3. \A i \in ItemsOf(p) : Current(i)[1] = i /\ ProjectOf[i] = p
        BY DEF Current, ItemsOf
      <3>4. v \notin targets
        BY <3>2, <3>3 DEF InProject
      <3>5. QED
        BY <3>1, <3>4
    <2>11. UNCHANGED task \/ task'[v].claim = task[v].claim
      <3>1. CASE WorkerNext
        BY <2>6, <2>7, <2>8, <3>1 DEF WorkerNext, begin_claim, abandon_claim, skip_scan
      <3>2. CASE Environment
        BY <2>9, <3>2 DEF Environment, stop_worker, start_worker, worker_crashes
      <3>3. CASE UNCHANGED vars
        BY <3>3 DEF vars, qcVars
      <3>4. CASE ReviewNext /\ UNCHANGED qcVars
        BY <3>4 DEF qcVars
      <3>5. QED
        BY <2>10, <3>1, <3>2, <3>3, <3>4 DEF Next
    <2>12. QED
      BY <2>2, <2>3, <2>11
  <1>2. QED
    BY <1>1, Invariance, PTL DEF Spec

(*---------------------- the limit of a single worker ---------------------*)

LEMMA VersionsAreFinite ==
    ASSUME Configured, IsFiniteSet(Items)
    PROVE  IsFiniteSet(Versions \cup {NoClaim})
  <1>1. 1 \in Int /\ MaxVersion \in Int
    BY SMT DEF Configured, ReviewConstants
  <1>2. IsFiniteSet(1 .. MaxVersion)
    BY <1>1, FS_Interval
  <1>3. IsFiniteSet(Versions)
    BY <1>2, FS_Product DEF Versions
  <1>4. QED
    BY <1>3, FS_AddElement

\* Fewer running tasks stay within the limit.
LEMMA FewerRun ==
    ASSUME Configured, IsFiniteSet(Items), NEW S \in SUBSET (Versions \cup {NoClaim}),
           NEW T \in SUBSET S, Cardinality(S) <= PerProjectLimit
    PROVE  Cardinality(T) <= PerProjectLimit
  <1>1. IsFiniteSet(S)
    BY VersionsAreFinite, FS_Subset
  <1>2. IsFiniteSet(T) /\ Cardinality(T) <= Cardinality(S)
    BY <1>1, FS_Subset
  <1>3. Cardinality(S) \in Nat /\ Cardinality(T) \in Nat /\ PerProjectLimit \in Nat
    BY <1>1, <1>2, FS_CardinalityType DEF Configured, QcConstants
  <1>4. QED
    BY <1>2, <1>3, SMT

LimitInv(w) == SnapshotCovers(w) /\ WithinProjectLimit

\* A step that sets no task to running and gives no lease.
LEMMA NothingStarts ==
    ASSUME Configured, IsFiniteSet(Items), NEW w \in Workers, LimitInv(w),
           \A v \in Versions :
              /\ task'[v].status = "running" => task[v].status = "running"
              /\ task'[v].status = "running" /\ task'[v].leased => task[v].leased,
           snapshot'[w] \in {snapshot[w], NoSnapshot}
    PROVE  LimitInv(w)'
  <1>1. RunningTasks' \subseteq RunningTasks
    BY DEF RunningTasks
  <1>2. SnapshotCovers(w)'
    BY DEF LimitInv, SnapshotCovers, RunningTasks, NoSnapshot
  <1>3. ASSUME NEW p \in Projects
        PROVE  Cardinality(InProject(RunningTasks', p)) <= PerProjectLimit
    <2>1. InProject(RunningTasks', p) \in SUBSET InProject(RunningTasks, p)
      BY <1>1 DEF InProject
    <2>2. InProject(RunningTasks, p) \in SUBSET (Versions \cup {NoClaim})
      BY DEF InProject, RunningTasks
    <2>3. QED
      BY <2>1, <2>2, FewerRun DEF LimitInv, WithinProjectLimit
  <1>4. QED
    BY <1>2, <1>3 DEF LimitInv, WithinProjectLimit

LEMMA ClaimsWithinTheLimit ==
    ASSUME Configured, IsFiniteSet(Items), NEW w \in Workers, IInv, LimitInv(w),
           commit_claim(w)
    PROVE  LimitInv(w)'
  <1>1. PICK chosen \in SUBSET Versions :
          /\ \A p \in Projects : InProject(chosen, p) # {} => Room(w, p, chosen) >= 0
          /\ \A v \in Versions : task'[v] = Opened(v) \/ v \in chosen
    BY ClaimCommits
  <1>2. snapshot[w] # NoSnapshot /\ snapshot[w] \in SUBSET (Versions \cup {NoClaim})
    BY DEF commit_claim, IInv, QueueInv
  <1>3. snapshot'[w] = NoSnapshot
    BY ClaimCommits DEF IInv, QueueInv
  <1>4. \A v \in Versions : Opened(v).status = "running" =>
           v \in RunningTasks /\ v \in snapshot[w]
    <2>1. \A v \in Versions : Opened(v).status = "running" =>
             task[v].status = "running" /\ task[v].leased
      BY OpenedRow DEF IInv
    <2>2. QED
      BY <1>2, <2>1 DEF LimitInv, SnapshotCovers, RunningTasks
  <1>5. ASSUME NEW p \in Projects
        PROVE  Cardinality(InProject(RunningTasks', p)) <= PerProjectLimit
    <2>1. CASE InProject(chosen, p) = {}
      <3>1. InProject(RunningTasks', p) \in SUBSET InProject(RunningTasks, p)
        BY <1>1, <1>4, <2>1 DEF InProject, RunningTasks
      <3>2. InProject(RunningTasks, p) \in SUBSET (Versions \cup {NoClaim})
        BY DEF InProject, RunningTasks
      <3>3. QED
        BY <3>1, <3>2, FewerRun DEF LimitInv, WithinProjectLimit
    <2>2. CASE InProject(chosen, p) # {}
      <3> DEFINE S == InProject(snapshot[w] \cup chosen, p)
      <3>1. InProject(RunningTasks', p) \in SUBSET S
        BY <1>1, <1>4 DEF InProject, RunningTasks
      <3>2. S \in SUBSET (Versions \cup {NoClaim})
        BY <1>1, <1>2 DEF InProject
      <3>3. PerProjectLimit - Cardinality(S) >= 0
        BY <1>1, <2>2 DEF Room
      <3>4. Cardinality(S) \in Nat /\ PerProjectLimit \in Nat
        BY <3>2, VersionsAreFinite, FS_Subset, FS_CardinalityType DEF Configured, QcConstants
      <3> HIDE DEF S
      <3>5. Cardinality(S) <= PerProjectLimit
        BY <3>3, <3>4, SMT
      <3>6. QED
        BY <3>1, <3>2, <3>5, FewerRun
    <2>3. QED
      BY <2>1, <2>2
  <1>6. QED
    BY <1>3, <1>5 DEF LimitInv, SnapshotCovers, WithinProjectLimit, NoSnapshot

LEMMA LimitInductive ==
    ASSUME Configured, IsFiniteSet(Items), NEW w, Workers = {w}, IInv, LimitInv(w), [Next]_vars
    PROVE  LimitInv(w)'
  <1>1. w \in Workers /\ \A u \in Workers : u = w
    OBVIOUS
  <1>2. /\ task \in [Versions -> TaskRow]
        /\ snapshot \in [Workers -> SUBSET (Versions \cup {NoClaim})]
    BY DEF IInv, QueueInv
  <1>3. CASE UNCHANGED <<task, snapshot>>
    BY <1>1, <1>3, NothingStarts
  <1>4. CASE begin_claim(w)
    <2>1. task' = task /\ snapshot'[w] = {v \in RunningTasks : task[v].leased}
      BY <1>1, <1>2, <1>4 DEF begin_claim
    <2>2. QED
      BY <2>1 DEF LimitInv, SnapshotCovers, WithinProjectLimit, RunningTasks
  <1>5. CASE commit_claim(w)
    BY <1>1, <1>5, ClaimsWithinTheLimit
  <1>6. CASE abandon_claim(w) \/ worker_crashes(w)
    <2>1. task' = task /\ snapshot'[w] = NoSnapshot
      BY <1>1, <1>2, <1>6 DEF abandon_claim, worker_crashes
    <2>2. QED
      BY <1>1, <2>1, NothingStarts
  <1>7. ASSUME NEW v \in Versions, NEW t, task' = [task EXCEPT ![v] = t], snapshot' = snapshot,
               t.status = "running" => task[v].status = "running" /\ ~t.leased
        PROVE  LimitInv(w)'
    BY <1>1, <1>2, <1>7, NothingStarts
  <1>8. \A v \in Versions, r \in {"never", "later"}, st \in {"complete", "failed"} :
           Released(task[v], st, r).status # "running"
    BY <1>2, TaskRows
  <1>9. ASSUME NEW s \in Slots, NEW found \in SUBSET Findings, complete_scan(s, found)
        PROVE  LimitInv(w)'
    BY <1>7, <1>8, <1>9, ScanCompletes
  <1>10. ASSUME NEW s \in Slots, NEW retryable \in BOOLEAN, fail_scan(s, retryable)
         PROVE  LimitInv(w)'
    <2>1. slot[s] \in Versions
      BY <1>10 DEF fail_scan, ActiveClaim, IInv, QueueInv
    <2>2. Failed(task[slot[s]], retryable).status # "running"
      BY <1>8, <2>1 DEF Failed
    <2>3. QED
      BY <1>7, <1>10, <2>1, <2>2 DEF fail_scan
  <1>11. ASSUME NEW v \in Versions, lease_expires(v)
         PROVE  LimitInv(w)'
    <2>1. ~[task[v] EXCEPT !.leased = FALSE].leased /\ task[v].status = "running"
      BY <1>2, <1>11 DEF lease_expires, TaskRow
    <2>2. QED
      BY <1>7, <1>11, <2>1 DEF lease_expires
  <1>12. ASSUME NEW v \in Versions, retry_falls_due(v)
         PROVE  LimitInv(w)'
    <2> DEFINE t == [task[v] EXCEPT !.retry = "due"]
    <2>1. t.status = task[v].status /\ t.leased = task[v].leased
      BY <1>2 DEF TaskRow
    <2>2. task' = [task EXCEPT ![v] = t] /\ snapshot' = snapshot
      BY <1>12 DEF retry_falls_due
    <2> HIDE DEF t
    <2>3. \A u \in Versions : task'[u].status = task[u].status /\ task'[u].leased = task[u].leased
      BY <1>2, <2>1, <2>2
    <2>4. QED
      BY <1>1, <2>2, <2>3, NothingStarts
  <1>13. ASSUME NEW p \in Projects, rerun_project_technical_qc(p)
         PROVE  LimitInv(w)'
    <2>1. NewTask.status # "running"
      BY SMT DEF NewTask, NoTask
    <2>2. snapshot' = snapshot /\ \A u \in Versions : task'[u] = NewTask \/ task'[u] = task[u]
      BY <1>13 DEF rerun_project_technical_qc
    <2>3. QED
      BY <1>1, <2>1, <2>2, NothingStarts
  <1>14. CASE WorkerNext
    BY <1>1, <1>3, <1>4, <1>5, <1>6, <1>9, <1>10, <1>14 DEF WorkerNext, skip_scan
  <1>15. CASE Environment
    BY <1>1, <1>3, <1>6, <1>11, <1>12, <1>15 DEF Environment, stop_worker, start_worker
  <1>16. CASE UNCHANGED qcVars
    BY <1>3, <1>16 DEF qcVars
  <1>17. QED
    BY <1>13, <1>14, <1>15, <1>16 DEF Next, vars

\* One worker process keeps every project within its limit, although running
\* rows outlive the slots that scan them and the transaction that counts them
\* is not the one that claims (claim_slots, _claim_candidates).
THEOREM OneWorkerKeepsTheLimit ==
    ASSUME Configured, IsFiniteSet(Items), NEW CONSTANT w, Workers = {w}
    PROVE  Spec => []WithinProjectLimit
  <1>1. Init => LimitInv(w)
    <2> SUFFICES ASSUME Init PROVE LimitInv(w)
      OBVIOUS
    <2>1. RunningTasks = {}
      BY DEF Init, RunningTasks, NoTask
    <2>2. \A p \in Projects : InProject(RunningTasks, p) = {}
      BY <2>1 DEF InProject
    <2>3. Cardinality({}) = 0 /\ 0 <= PerProjectLimit
      BY FS_EmptySet, SMT DEF Configured, QcConstants
    <2>4. WithinProjectLimit
      BY <2>2, <2>3 DEF WithinProjectLimit
    <2>5. SnapshotCovers(w)
      BY DEF Init, SnapshotCovers
    <2>6. QED
      BY <2>4, <2>5 DEF LimitInv
  <1>2. IInv /\ LimitInv(w) /\ [Next]_vars => LimitInv(w)'
    BY LimitInductive
  <1>3. LimitInv(w) => WithinProjectLimit
    BY DEF LimitInv
  <1>4. QED
    BY <1>1, <1>2, <1>3, Invariance, PTL DEF Spec

==============================================================================
