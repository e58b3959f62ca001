---------------------------- MODULE TechnicalQc ----------------------------
(***************************************************************************)
(* The queue of technical quality control (technical_qc.py) composed with  *)
(* the review workflow: one task per version, claimed under a lease by the *)
(* slots of one or more worker processes, retried, given up, run again on  *)
(* request; the findings of a scan become issues of the version.           *)
(*                                                                         *)
(* A claim is the slot that holds it: a slot has one claim at a time.      *)
(* Deadlines are flags that the environment lowers.                        *)
(***************************************************************************)
EXTENDS ReviewWorkflow, Functions

CONSTANTS Workers, Slots, WorkerOf, MaxAttempts, PerProjectLimit, NoClaim

QcConstants ==
    /\ WorkerOf \in [Slots -> Workers]
    /\ MaxAttempts \in Nat \ {0}
    /\ PerProjectLimit \in Nat \ {0}
    /\ NoClaim \notin Slots \cup Versions

VARIABLES
    task,      \* rows of technical_qc_tasks
    older,     \* pairs of versions of an item whose tasks were created in this order
    slot,      \* the version each slot is scanning, or NoClaim
    snapshot,  \* per worker, the running tasks its open claim transaction read
    stopping,  \* _WORKER_STOP of each worker
    reported   \* review.issue.created events per linked issue (2 = more)

qcVars == <<task, older, slot, snapshot, stopping, reported>>
vars == <<reviewVars, qcVars>>

NoTask == [status |-> "none", claim |-> NoClaim, leased |-> FALSE,
           attempts |-> 0, retry |-> "never"]
NewTask == [NoTask EXCEPT !.status = "queued"]
Released(t, status, retry) ==
    [t EXCEPT !.status = status, !.claim = NoClaim, !.leased = FALSE,
              !.retry = retry]

NoSnapshot == {NoClaim}
RunningTasks == {v \in Versions : task[v].status = "running"}
InProject(vs, p) == {v \in vs : ProjectOf[v[1]] = p}

\* The database says the playback file is published (it may be gone).
PlaybackPublished(v) == playback[v] \in {"ready", "missing"}

-----------------------------------------------------------------------------
(* One claim transaction of a worker: claim_slots. *)

\* discover_ready_technical_qc_tasks: any version, superseded ones included.
Discovered == {v \in Versions : /\ v[2] \in 1 .. item[v[1]].current
                                /\ Active(v[1])
                                /\ PlaybackPublished(v)
                                /\ task[v].status = "none"}

\* reconcile_expired_technical_qc_tasks
Reconciled_forever(t) ==
    IF t.status = "running" /\ ~t.leased THEN Released(t, "queued", "never")
    ELSE t

Reconciled(t) ==
    IF t.status # "running" \/ t.leased THEN t
    ELSE Released(t, IF t.attempts >= MaxAttempts THEN "failed" ELSE "queued", "never")

\* The rows of the transaction: new tasks, and expired claims released.
Opened_again(v) == IF PlaybackPublished(v) /\ task[v].retry = "due"
                   THEN NewTask ELSE Reconciled(task[v])

Opened(v) == IF v \in Discovered THEN NewTask ELSE Reconciled(task[v])

\* Rows created together tie on created_at: their digests decide.
Tied == {pair \in Discovered \X Discovered : pair[1][1] = pair[2][1] /\ pair[1] # pair[2]}
DigestOrders ==
    {order \in SUBSET Tied :
       /\ \A pair \in Tied : pair \in order <=> <<pair[2], pair[1]>> \notin order
       /\ \A a, b \in order : a[2] = b[1] => <<a[1], b[2]>> \in order}

\* The order of created_at once the new rows follow those of before.
Ordered(digests) ==
    older \cup digests \cup {pair \in Versions \X Discovered :
                              /\ pair[1][1] = pair[2][1]
                              /\ task[pair[1]].status # "none"}

\* What the transaction finds running; another may be open at the same time.
begin_claim(w) ==
    /\ ~stopping[w]
    /\ snapshot[w] = NoSnapshot
    /\ \E s \in Slots : WorkerOf[s] = w /\ slot[s] = NoClaim
    /\ snapshot' = [snapshot EXCEPT ![w] =
                      {v \in RunningTasks : task[v].leased}]
    /\ UNCHANGED <<reviewVars, task, older, slot, stopping, reported>>

Eligible(v) ==
    /\ Active(v[1])
    /\ PlaybackPublished(v)
    /\ Opened(v).attempts < MaxAttempts
    /\ \/ Opened(v).status = "queued"
       \/ Opened(v).status = "failed" /\ Opened(v).retry = "due"

\* _claim_candidates ranks the tasks of an item and keeps the oldest.
Oldest(v, order) == \A u \in Versions :
    u[1] = v[1] /\ Eligible(u) /\ u # v => <<v, u>> \in order

Candidates(w, order) == {v \in Versions : /\ Eligible(v)
                                          /\ Oldest(v, order)
                                          /\ \A r \in snapshot[w] : r[1] # v[1]}

\* How many more tasks of project p the round robin may take.
Room(w, p, chosen) ==
    PerProjectLimit - Cardinality(InProject(snapshot[w] \cup chosen, p))

Exhausted(w, p, chosen, order) ==
    Room(w, p, chosen) <= 0 \/ InProject(Candidates(w, order) \ chosen, p) = {}

\* The round robin over projects: within the limits, maximal, and no project
\* is two ahead of another that still has something to offer.
Selection(w, chosen, free, order) ==
    /\ chosen \subseteq Candidates(w, order)
    /\ Cardinality(chosen) <= free
    /\ \A p \in Projects : InProject(chosen, p) # {} => Room(w, p, chosen) >= 0
    /\ Cardinality(chosen) = free \/ \A p \in Projects : Exhausted(w, p, chosen, order)
    /\ \A p, q \in Projects :
         Cardinality(InProject(chosen, p)) > Cardinality(InProject(chosen, q)) + 1
            => Exhausted(w, q, chosen, order)

FreeSlots(w) == {s \in Slots : WorkerOf[s] = w /\ slot[s] = NoClaim}

\* uq_technical_qc_tasks_running_item: the row of an item that another
\* transaction has set to running since is skipped.
RunningItemUnique(v) ==
    \A r \in Versions : Opened(r).status = "running" => r[1] # v[1]

Claimed(t, s) == [t EXCEPT !.status = "running", !.claim = s, !.leased = TRUE,
                           !.attempts = @ + 1, !.retry = "never"]

\* New rows, expired claims, then the chosen rows become running, each for a
\* free slot; a stop request seen before the commit rolls it all back.
commit_claim(w) ==
    /\ snapshot[w] # NoSnapshot
    /\ snapshot' = [snapshot EXCEPT ![w] = NoSnapshot]
    /\ ~stopping[w]
    /\ \E digests \in DigestOrders :
         /\ older' = Ordered(digests)
         /\ \E chosen \in SUBSET Candidates(w, Ordered(digests)) :
              /\ Selection(w, chosen, Cardinality(FreeSlots(w)), Ordered(digests))
              /\ LET taken == {v \in chosen : RunningItemUnique(v)} IN
                 \E f \in [taken -> FreeSlots(w)] :
                   /\ IsInjective(f)
                   /\ task' = [v \in Versions |->
                                 IF v \in taken THEN Claimed(Opened(v), f[v])
                                 ELSE Opened(v)]
                   /\ slot' = [s \in Slots |->
                                 IF \E v \in taken : f[v] = s
                                 THEN CHOOSE v \in taken : f[v] = s ELSE slot[s]]
    /\ UNCHANGED <<reviewVars, stopping, reported>>

abandon_claim(w) ==
    /\ snapshot[w] # NoSnapshot
    /\ stopping[w]
    /\ snapshot' = [snapshot EXCEPT ![w] = NoSnapshot]
    /\ UNCHANGED <<reviewVars, task, older, slot, stopping, reported>>

-----------------------------------------------------------------------------
(* A slot at work: _process_technical_qc_claim. *)

\* _lock_active_technical_qc_claim: the claim, its lease, and the authority of
\* the version, all under the row locks of the transaction that uses it.
ActiveClaim(s) ==
    LET v == slot[s] IN
    /\ v # NoClaim
    /\ task[v].status = "running" /\ task[v].claim = s /\ task[v].leased
    /\ Active(v[1])
    /\ Current(v[1]) = v
    /\ PlaybackPublished(v)

Free(s) == slot' = [slot EXCEPT ![s] = NoClaim]

\* The findings that have no row yet (looked up by identity).
Unreported(v, found) ==
    {x \in {<<v, f>> : f \in found} : issue[x].status = "absent"}

\* Migration 0030: what the triggers ask of an issue that is inserted into a
\* finalized item, and of its finding.
IssueAuthority(v) ==
    /\ task[v].status = "running" /\ task[v].claim # NoClaim /\ task[v].leased
    /\ PlaybackPublished(v)
    /\ Active(v[1])
    /\ Current(v[1]) = v

\* persist_technical_qc_findings and complete_technical_qc_task: one
\* transaction.  On a finalized item the issues are inserted, which the
\* triggers allow under the claim, and the item row is left alone.
complete_scan(s, found) ==
    LET v == slot[s]
        new == Unreported(v, found)
        rows == [x \in IssueIds |-> IF x \in new THEN OpenIssue(v)
                                    ELSE issue[x]]
    IN
    /\ ActiveClaim(s)
    /\ Free(s)
    /\ IF new # {} /\ Finalized(v[1]) => IssueAuthority(v)
       THEN /\ issue' = rows
            /\ item' = [item EXCEPT ![v[1]] =
                          IF new # {} /\ ~Finalized(v[1])
                          THEN Synced(@, v[1], rows) ELSE @]
            /\ reported' = [x \in LinkedIssues |->
                              IF x \in new /\ reported[x] < 2
                              THEN reported[x] + 1 ELSE reported[x]]
            /\ task' = [task EXCEPT ![v] = Released(@, "complete", "never")]
            /\ UNCHANGED <<project, playback, refused>>
       ELSE Raise /\ UNCHANGED <<task, reported>>
    /\ StartSession(v, new # {} /\ item[v[1]].workflow = "pending_review")
    /\ UNCHANGED <<older, snapshot, stopping>>

\* fail_technical_qc_task
Failed(t, retryable) ==
    Released(t, "failed",
             IF retryable /\ t.attempts < MaxAttempts THEN "later" ELSE "never")

fail_scan(s, retryable) ==
    /\ ActiveClaim(s)
    /\ task' = [task EXCEPT ![slot[s]] = Failed(@, retryable)]
    /\ Free(s)
    /\ UNCHANGED <<reviewVars, older, snapshot, stopping, reported>>

\* Any transaction of the slot, a heartbeat included, finds the claim lost: the
\* slot gives up and leaves the row as it is.  So it does when cancelled.
skip_scan(s) ==
    /\ slot[s] # NoClaim
    /\ ~ActiveClaim(s) \/ stopping[WorkerOf[s]]
    /\ Free(s)
    /\ UNCHANGED <<reviewVars, task, older, snapshot, stopping, reported>>

-----------------------------------------------------------------------------
(* Time, shutdown and crashes. *)

lease_expires(v) ==
    /\ task[v].status = "running" /\ task[v].leased
    /\ task' = [task EXCEPT ![v].leased = FALSE]
    /\ UNCHANGED <<reviewVars, older, slot, snapshot, stopping, reported>>

retry_falls_due(v) ==
    /\ task[v].retry = "later"
    /\ task' = [task EXCEPT ![v].retry = "due"]
    /\ UNCHANGED <<reviewVars, older, slot, snapshot, stopping, reported>>

stop_worker(w) ==
    /\ ~stopping[w]
    /\ stopping' = [stopping EXCEPT ![w] = TRUE]
    /\ UNCHANGED <<reviewVars, task, older, slot, snapshot, reported>>

Quiet(w) == /\ snapshot[w] = NoSnapshot
            /\ \A s \in Slots : WorkerOf[s] = w => slot[s] = NoClaim

start_worker(w) ==
    /\ stopping[w] /\ Quiet(w)
    /\ stopping' = [stopping EXCEPT ![w] = FALSE]
    /\ UNCHANGED <<reviewVars, task, older, slot, snapshot, reported>>

\* hard_exit, or the process is killed; its container starts it again.
worker_crashes(w) ==
    /\ ~Quiet(w)
    /\ slot' = [s \in Slots |-> IF WorkerOf[s] = w THEN NoClaim ELSE slot[s]]
    /\ snapshot' = [snapshot EXCEPT ![w] = NoSnapshot]
    /\ stopping' = [stopping EXCEPT ![w] = FALSE]
    /\ UNCHANGED <<reviewVars, task, older, reported>>

-----------------------------------------------------------------------------
(* rerun_project_technical_qc: refused while anything of the project is    *)
(* queued or running; every item's current version is queued afresh.       *)

NothingInProgress(p) ==
    \A v \in InProject(Versions, p) : task[v].status \notin {"queued", "running"}

rerun_project_technical_qc(p) ==
    LET targets == {Current(i) : i \in ItemsOf(p)} IN
    /\ project[p] = "active"
    /\ NothingInProgress(p)
    /\ targets # {}
    /\ \A v \in targets : playback[v] = "ready"
    /\ task' = [v \in Versions |-> IF v \in targets THEN NewTask ELSE task[v]]
    /\ older' = {pair \in older : pair[1] \notin targets}
                  \cup {pair \in Versions \X targets :
                          /\ pair[1][1] = pair[2][1] /\ pair[1] # pair[2]
                          /\ task[pair[1]].status # "none"}
    /\ UNCHANGED <<reviewVars, slot, snapshot, stopping, reported>>

-----------------------------------------------------------------------------

Init ==
    /\ ReviewInit
    /\ task = [v \in Versions |-> NoTask]
    /\ older = {}
    /\ slot = [s \in Slots |-> NoClaim]
    /\ snapshot = [w \in Workers |-> NoSnapshot]
    /\ stopping = [w \in Workers |-> FALSE]
    /\ reported = [x \in LinkedIssues |-> 0]

WorkerNext ==
    \/ \E w \in Workers : begin_claim(w) \/ commit_claim(w) \/ abandon_claim(w)
    \/ \E s \in Slots : \/ \E found \in SUBSET Findings : complete_scan(s, found)
                        \/ \E retryable \in BOOLEAN : fail_scan(s, retryable)
                        \/ skip_scan(s)

Environment ==
    \/ \E v \in Versions : lease_expires(v) \/ retry_falls_due(v)
    \/ \E w \in Workers : stop_worker(w) \/ start_worker(w) \/ worker_crashes(w)

Next ==
    \/ ReviewNext /\ UNCHANGED qcVars
    \/ WorkerNext
    \/ Environment
    \/ \E p \in Projects : rerun_project_technical_qc(p)

Spec == Init /\ [][Next]_vars

\* What the scheduling of the code guarantees.  Slots finish, failed attempts
\* fall due and leases nobody renews run out.  A worker is restarted, and not
\* killed over and over between the two steps of its claim; the people stop
\* asking for another run.
Progress ==
    /\ \A w \in Workers : /\ SF_vars(begin_claim(w))
                          /\ SF_vars(commit_claim(w))
                          /\ WF_vars(abandon_claim(w))
                          /\ WF_vars(start_worker(w))
    /\ \A s \in Slots :
         /\ WF_vars(skip_scan(s))
         /\ WF_vars(\/ \E found \in SUBSET Findings : complete_scan(s, found)
                    \/ \E retryable \in BOOLEAN : fail_scan(s, retryable))
    /\ \A v \in Versions :
         /\ WF_vars(retry_falls_due(v))
         /\ WF_vars(lease_expires(v) /\ \A s \in Slots : slot[s] # v)
    /\ <>[][\A p \in Projects : ~rerun_project_technical_qc(p)]_vars

FairSpec == Spec /\ Progress

-----------------------------------------------------------------------------
(* Properties *)

TypeOK ==
    /\ ReviewTypeOK
    /\ task \in [Versions -> [status : {"none", "queued", "running", "complete",
                                        "failed"},
                              claim : Slots \cup {NoClaim}, leased : BOOLEAN,
                              attempts : 0 .. MaxAttempts,
                              retry : {"never", "later", "due"}]]
    /\ older \subseteq Versions \X Versions
    /\ \A u, v \in Versions :
          u[1] = v[1] /\ u # v /\ task[u].status # "none" /\ task[v].status # "none"
             <=> ~(<<u, v>> \in older <=> <<v, u>> \in older)
    /\ slot \in [Slots -> Versions \cup {NoClaim}]
    /\ snapshot \in [Workers -> SUBSET (Versions \cup {NoClaim})]
    /\ stopping \in [Workers -> BOOLEAN]
    /\ reported \in [LinkedIssues -> 0 .. 2]

\* No command that passes the checks of the repository is then refused by a
\* freeze trigger: the two layers agree on what a finalized item allows, the
\* exceptions for linked issues (migration 0030) included.
TriggersAgree == ~refused

\* Two tasks of one item never run at once, whatever the two workers read
\* before their claims: claim_technical_qc_tasks and its unique index.
OneRunningPerItem ==
    \A u, v \in RunningTasks : u[1] = v[1] => u = v

\* One worker process keeps each project within its limit although running
\* rows outlive their slots (crash, supersession, archived project).
WithinProjectLimit ==
    \A p \in Projects : Cardinality(InProject(RunningTasks, p)) <= PerProjectLimit

\* A finding is announced once, and a version's review starts once, through
\* retries, lost leases, crashes, reruns and whoever opens the first issue.
AnnouncedOnce ==
    /\ \A x \in LinkedIssues : reported[x] <= 1
    /\ \A v \in Versions : started[v] <= 1

\* Whatever changes the set of open issues of a version under review, a
\* command or the worker, leaves the status that goes with the new set.
IssuesDrive ==
    \A i \in Items :
       LET v == Current(i) IN
       /\ Unresolved(issue, v) # Unresolved(issue', v)
       /\ ~Finalized(i)
       => item'[i].workflow = IF Unresolved(issue', v) = {} THEN "in_review"
                              ELSE "changes_requested"

\* If-Match on an item is worth its name: no step changes the status, the
\* current version or, before finalization, the open issues of an item and
\* leaves its lock version alone.
LockCovers ==
    \A i \in Items :
       \/ Exists(i) /\ item'[i].lock # item[i].lock
       \/ ~Exists(i)
       \/ /\ item'[i] = item[i]
          /\ Finalized(i) \/ Unresolved(issue, Current(i))
                              = Unresolved(issue', Current(i))

\* Issues of a superseded version and deleted issues never change again, and
\* nothing is added to a superseded version: a late scan included.
HistoryKept ==
    \A x \in IssueIds :
       \/ issue'[x] = issue[x]
       \/ LET v == issue'[x].version IN
          /\ v = Current(v[1])
          /\ ~issue[x].deleted
          /\ Active(v[1])

\* A claim in force is never taken from its slot: neither a rerun nor another
\* worker's reconciliation resets a row whose lease is live.
ClaimKept ==
    \A s \in Slots : ActiveClaim(s) /\ slot'[s] = slot[s]
                        => task'[slot[s]].claim = s

Settled(v) == \/ task[v].status = "complete"
              \/ task[v].status = "failed" /\ task[v].retry = "never"

Suspended(v) == ~Active(v[1]) \/ playback[v] # "ready"

\* Every task comes to an end, that of a superseded version included, unless
\* its project is archived or its playback file is lost.
TasksSettle ==
    \A v \in Versions : []<>(task[v].status = "none" \/ Settled(v) \/ Suspended(v))
=============================================================================
