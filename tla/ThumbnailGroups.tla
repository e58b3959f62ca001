-------------------------- MODULE ThumbnailGroups --------------------------
(***************************************************************************)
(* Which frame a thumbnail shows (thumbnail_similarity.py).  The current   *)
(* versions of a project whose first frames look alike form groups; the    *)
(* members of a group show a later frame instead.  A signature becomes     *)
(* known when the first frame is published, and every publication, upload  *)
(* and deletion reconciles the groups in its own transaction, under the    *)
(* project lock.  A publication compares only the new signature with the   *)
(* others; the other two recompute the components.                         *)
(***************************************************************************)
EXTENDS Naturals, FiniteSets, Relation

CONSTANTS Items, MaxVersion,
          Alike,      \* pairs of versions whose signatures are similar
          Reuploaded, \* items that may get further versions
          Backfills,  \* concurrent runs of the backfill
          MaxRepairs  \* bound on thumbnails found missing

Versions == Items \X (1 .. MaxVersion)
Zero == 0
Fallback == 3
Frames == {Zero, Fallback}
NoFrame == 9

GroupConstants ==
    /\ MaxVersion \in Nat \ {0}
    /\ Alike \subseteq {{u, v} : u, v \in Versions}
    /\ \A pair \in Alike : Cardinality(pair) = 2

VARIABLES
    current,  \* number of the current version per item, 0 once deleted
    task,     \* thumbnail task of each version
    shown,    \* thumbnail_asset_id: the frame it shows, or NoFrame
    repairs,  \* thumbnails found missing so far
    found     \* the batch that a backfill has read, per backfill

vars == <<current, task, shown, repairs, found>>

NoTask == [status |-> "none", signed |-> FALSE, variants |-> {}, desired |-> Zero,
           output |-> NoFrame, frame |-> NoFrame]
Queued == [NoTask EXCEPT !.status = "queued"]
\* A task of the time before signatures: ready, its only output the first frame.
Legacy == [NoTask EXCEPT !.status = "ready", !.output = Zero]

\* normalize_thumbnail_result_details
Normal(t, existing) ==
    IF t.variants = {} /\ existing # NoFrame THEN [t EXCEPT !.variants = {Zero}] ELSE t

Similar(u, v) == {u, v} \in Alike
Members(cur) == {<<i, cur[i]>> : i \in {j \in Items : cur[j] # 0}}
Signed(cur, tasks) == {v \in Members(cur) : tasks[v].signed}

-----------------------------------------------------------------------------
(* reconcile_project_thumbnail_groups *)

\* Union-find over all pairs.
Components(nodes) ==
    LET linked == ReflexiveTransitiveClosure(
                    [u, v \in nodes |-> Similar(u, v)], nodes)
    IN  [v \in nodes |-> {u \in nodes : linked[v, u]}]

DesiredByGroup(group) == IF Cardinality(group) > 1 THEN Fallback ELSE Zero

\* One new signature: the rest of the graph is taken as reconciled.
DesiredAfter_one_sided(tasks, nodes, new, v) ==
    CASE v = new /\ (\E u \in nodes \ {new} : Similar(new, u)) -> Fallback
      [] v = new /\ ~(\E u \in nodes \ {new} : Similar(new, u)) -> Zero
      [] OTHER -> tasks[v].desired

DesiredAfter(tasks, nodes, new, v) ==
    CASE v = new /\ (\E u \in nodes \ {new} : Similar(new, u)) -> Fallback
      [] v = new /\ ~(\E u \in nodes \ {new} : Similar(new, u)) -> Zero
      [] v # new /\ Similar(new, v) -> Fallback
      [] OTHER -> tasks[v].desired

Requeued(t) == [t EXCEPT !.status = "queued"]

\* A known variant is shown at once, a missing one queued, a claim left alone.
Selected(t, desired) ==
    LET changed == desired # t.desired
        new == [t EXCEPT !.desired = desired]
        idle == t.status # "running"
    IN  CASE desired \in t.variants /\ idle /\ (t.status = "ready" \/ changed) ->
               [new EXCEPT !.status = "ready", !.output = desired]
          [] desired \notin t.variants /\ idle /\ changed -> Requeued(new)
          [] OTHER -> new

Unsigned(t, discover) ==
    IF discover /\ t.status = "ready" /\ Zero \in t.variants
    THEN [Requeued(t) EXCEPT !.desired = Zero] ELSE t

\* The rows after reconciliation; `desired` gives the frame of signed members.
Reconciled(cur, tasks, old, desired, discover) ==
    LET existing(v) == IF tasks[v].output = old[v] THEN old[v] ELSE NoFrame
        normal == [v \in Versions |-> Normal(tasks[v], existing(v))]
    IN  [v \in Versions |->
           CASE v \notin Members(cur) \/ tasks[v].status = "none" -> tasks[v]
             [] v \in Signed(cur, tasks) -> Selected(normal[v], desired[v])
             [] OTHER -> Unsigned(normal[v], discover)]

\* Pointers follow the tasks that are ready afterwards.
Pointed(cur, tasks, old) ==
    [v \in Versions |->
       IF v \in Signed(cur, tasks) /\ tasks[v].status = "ready"
       THEN tasks[v].output ELSE old[v]]

ReconcileAll(cur, tasks, old) ==
    LET groups == Components(Signed(cur, tasks))
        desired == [v \in Signed(cur, tasks) |-> DesiredByGroup(groups[v])]
        new == Reconciled(cur, tasks, old, desired, FALSE)
    IN  task' = new /\ shown' = Pointed(cur, new, old)

-----------------------------------------------------------------------------
(* The worker *)

Current(v) == current[v[1]] = v[2]

\* A thumbnail of a superseded version is not made.
claim(v) ==
    /\ task[v].status = "queued"
    /\ task' = [task EXCEPT ![v] =
                  IF Current(v)
                  THEN [@ EXCEPT !.status = "running", !.frame = task[v].desired]
                  ELSE [@ EXCEPT !.status = "failed"]]
    /\ UNCHANGED <<current, shown, repairs, found>>

\* The variant that was asked for at the time of the claim is kept; what is
\* shown is what is desired now.
Published(t) ==
    LET new == [Normal(t, t.output) EXCEPT !.variants = @ \cup {t.frame},
                                           !.signed = @ \/ t.frame = Zero,
                                           !.frame = NoFrame]
    IN  IF t.desired \in new.variants
        THEN [new EXCEPT !.status = "ready", !.output = t.desired]
        ELSE Requeued(new)

publish(v) ==
    LET done == [task EXCEPT ![v] = Published(@)]
        pointed == [shown EXCEPT ![v] = IF done[v].status = "ready"
                                        THEN done[v].output ELSE @]
        nodes == Signed(current, done)
        desired == [u \in nodes |-> DesiredAfter(done, nodes, v, u)]
        new == Reconciled(current, done, pointed, desired, TRUE)
    IN
    /\ task[v].status = "running"
    /\ Current(v)
    /\ IF task[v].frame = Zero
       THEN task' = new /\ shown' = Pointed(current, new, pointed)
       ELSE task' = done /\ shown' = pointed
    /\ UNCHANGED <<current, repairs, found>>

\* A failure, retried or final; a lease that ran out has the same effect.
fail(v, status) ==
    /\ task[v].status = "running"
    /\ status \in {"queued", "failed"}
    /\ task' = [task EXCEPT ![v].status = status, ![v].frame = NoFrame]
    /\ UNCHANGED <<current, shown, repairs, found>>

-----------------------------------------------------------------------------
(* The rest of the system *)

upload_review_version(i) ==
    /\ i \in Reuploaded /\ current[i] \in 1 .. MaxVersion - 1
    /\ current' = [current EXCEPT ![i] = @ + 1]
    /\ ReconcileAll(current', [task EXCEPT ![<<i, current[i] + 1>>] = Queued], shown)
    /\ UNCHANGED <<repairs, found>>

delete_review_item(i) ==
    LET rest == {v \in Versions : v[1] # i} IN
    /\ current[i] # 0
    /\ current' = [current EXCEPT ![i] = 0]
    /\ ReconcileAll(current',
                    [v \in Versions |-> IF v \in rest THEN task[v] ELSE NoTask],
                    [v \in Versions |-> IF v \in rest THEN shown[v] ELSE NoFrame])
    /\ UNCHANGED <<repairs, found>>

requeue_missing_ready_derivative(v) ==
    /\ task[v].status = "ready" /\ shown[v] = task[v].output
    /\ repairs < MaxRepairs
    /\ repairs' = repairs + 1
    /\ task' = [task EXCEPT ![v] = Requeued(@)]
    /\ UNCHANGED <<current, shown, found>>

(* thumbnail_backfill.py *)

Candidate(v) == Current(v) /\ task[v].status = "none" /\ shown[v] = NoFrame

\* A batch is read without locks, ...
find_thumbnail_backfill_candidates(b) ==
    LET candidates == {v \in Versions : Candidate(v)} IN
    /\ found[b] = {}
    /\ \E batch \in SUBSET candidates \ {{}} : found' = [found EXCEPT ![b] = batch]
    /\ UNCHANGED <<current, task, shown, repairs>>

\* ... and every candidate is looked at again under the locks.
Enqueued_unchecked(v) == Queued
Enqueued(v) == IF Candidate(v) THEN Queued ELSE task[v]

enqueue_thumbnail_backfill_candidates(b) ==
    /\ found[b] # {}
    /\ task' = [v \in Versions |-> IF v \in found[b] THEN Enqueued(v) ELSE task[v]]
    /\ found' = [found EXCEPT ![b] = {}]
    /\ UNCHANGED <<current, shown, repairs>>

run_thumbnail_backfill(b) == find_thumbnail_backfill_candidates(b)
                             \/ enqueue_thumbnail_backfill_candidates(b)

-----------------------------------------------------------------------------

\* First versions may be older than thumbnails, or than signatures.
Init ==
    /\ current = [i \in Items |-> 1]
    /\ \E first \in [Items -> {NoTask, Queued, Legacy}] :
         task = [v \in Versions |-> IF v[2] = 1 THEN first[v[1]] ELSE NoTask]
    /\ shown = [v \in Versions |-> task[v].output]
    /\ repairs = 0
    /\ found = [b \in Backfills |-> {}]

Worker(v) == \/ claim(v) \/ publish(v)
             \/ \E status \in {"queued", "failed"} : fail(v, status)

Next ==
    \/ \E v \in Versions : \/ Worker(v)
                           \/ requeue_missing_ready_derivative(v)
    \/ \E i \in Items : upload_review_version(i) \/ delete_review_item(i)
    \/ \E b \in Backfills : run_thumbnail_backfill(b)

Spec == Init /\ [][Next]_vars

\* The worker runs on, and the attempts of a task are bounded: failing and
\* retrying is not for ever.
FairSpec == Spec /\ \A v \in Versions : WF_vars(claim(v)) /\ SF_vars(publish(v))

-----------------------------------------------------------------------------

TypeOK ==
    /\ current \in [Items -> 0 .. MaxVersion]
    /\ task \in [Versions -> [status : {"none", "queued", "running", "ready",
                                        "failed"},
                              signed : BOOLEAN, variants : SUBSET Frames,
                              desired : Frames, output : Frames \cup {NoFrame},
                              frame : Frames \cup {NoFrame}]]
    /\ shown \in [Versions -> Frames \cup {NoFrame}]
    /\ found \in [Backfills -> SUBSET Versions]

\* The incremental reconciliation of a publication is as good as the full one:
\* a current version wants the later frame exactly if another current version
\* looks like it, whatever happened in whatever order.
GroupsAreReconciled ==
    LET nodes == Signed(current, task) IN
    \A v \in nodes : (task[v].desired = Fallback)
                       <=> (\E u \in nodes \ {v} : Similar(u, v))

\* What a ready current version shows is the frame its group asks for.
ReadyShowsDesired ==
    \A v \in Members(current) :
        task[v].status = "ready" /\ task[v].signed
            => shown[v] = task[v].desired /\ task[v].output = task[v].desired

\* A thumbnail that was shown stays until another replaces it.
ThumbnailKept ==
    \A v \in Versions : shown[v] # NoFrame /\ current'[v[1]] # 0
                           => shown'[v] # NoFrame

\* A frame that was made is not forgotten: a backfill that read its batch before
\* another one, or an upload, got there does not start the version over.
VariantsKept ==
    \A v \in Versions : current'[v[1]] # 0
                           => task[v].variants \subseteq task'[v].variants

\* A version is given a task only while it is the current one.
TasksForCurrent ==
    \A v \in Versions : task[v].status = "none" /\ task'[v].status # "none"
                           => current'[v[1]] = v[2]

\* A reconciliation leaves a running claim to its worker.
ClaimsLeft ==
    \A v \in Versions :
       task[v].status = "running" /\ task'[v].status # "running"
         => task'[v].frame = NoFrame /\ task[v].frame # NoFrame

\* The frames settle: a version that stays current ends up showing what its
\* group asks for, unless its task has failed for good.
FramesSettle ==
    \A v \in Versions :
        []<>(\/ task[v].status \in {"none", "failed"} \/ ~Current(v)
             \/ task[v].status = "ready" /\ shown[v] = task[v].desired)
=============================================================================
