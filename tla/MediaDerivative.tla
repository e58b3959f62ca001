-------------------------- MODULE MediaDerivative --------------------------
(***************************************************************************)
(* One task of the media worker (media_derivatives.py): a derivative file  *)
(* made from the source of a version, published under a name that only     *)
(* depends on the task, and recorded in the database.  Workers hold the    *)
(* task under a lease; each step below is a transaction or one access to   *)
(* the directory, so two workers can meet between any two of them when a   *)
(* lease runs out under its holder.                                        *)
(*                                                                         *)
(* A claim is numbered and makes at most one file, whose inode has the     *)
(* number of the claim.                                                    *)
(***************************************************************************)
EXTENDS Naturals, FiniteSets

CONSTANTS Workers, MaxAttempts, Digests, NoFile,
          MaxClaims,   \* bound on claims
          MaxRepairs,  \* bound on files lost from the disk
          Withdrawable \* may the project be deleted or the version superseded

MediaConstants ==
    /\ MaxAttempts \in Nat \ {0}
    /\ MaxClaims \in Nat
    /\ MaxRepairs \in Nat
    /\ Withdrawable \in BOOLEAN
    /\ NoFile \notin Digests \cup {"partial"} /\ "partial" \notin Digests

Claims == 1 .. MaxClaims

VARIABLES
    task,       \* row of media_derivative_tasks
    fileRow,    \* digest in the row of file_objects, or NoFile
    pointer,    \* the version names the file
    staging,    \* claim whose file has the staging name, 0 if none
    dest,       \* claim whose file has the published name, 0 if none
    content,    \* bytes of the file of each claim
    job,        \* what each worker process is doing
    claims,     \* claims so far
    withdrawn,  \* project deleted, or a newer version for a thumbnail
    lost        \* files lost from the disk so far

files == <<staging, dest, content>>
rows == <<task, fileRow, pointer>>
env == <<withdrawn, lost>>
vars == <<rows, files, job, claims, env>>

NoName == 0
Idle == [pc |-> "idle", claim |-> 0, inode |-> 0, new |-> FALSE,
         outcome |-> "none"]

Holds(w) == /\ task.status = "running"
            /\ task.lease = job[w].claim
            /\ task.leased

\* _renew_lease; a renewed lease is a live one.
Renews(w) == Holds(w) /\ ~withdrawn

Goto(w, pc) == job' = [job EXCEPT ![w].pc = pc]
Stop(w) == job' = [job EXCEPT ![w] = Idle]
Fail(w, pc, outcome) ==
    job' = [job EXCEPT ![w].pc = pc, ![w].outcome = outcome]

\* unlink_regular_file_if_identity on either name.
Without(name, c) == IF name = c THEN NoName ELSE name

-----------------------------------------------------------------------------
(* Claim *)

Eligible(t) == \/ t.status = "queued" /\ t.due
               \/ t.status = "running" /\ ~t.leased

Ended(t, status) == [t EXCEPT !.status = status, !.lease = 0, !.leased = FALSE]

_claim_task(w) ==
    /\ job[w].pc = "idle"
    /\ Eligible(task)
    /\ IF withdrawn \/ task.attempts >= MaxAttempts
       THEN /\ task' = Ended(task, "failed")
            /\ UNCHANGED <<job, claims>>
       ELSE /\ claims < MaxClaims
            /\ claims' = claims + 1
            /\ task' = [status |-> "running", lease |-> claims', leased |-> TRUE,
                        attempts |-> task.attempts + 1, due |-> TRUE]
            /\ job' = [job EXCEPT ![w] = [Idle EXCEPT !.pc = "looking",
                                                      !.claim = claims']]
    /\ UNCHANGED <<fileRow, pointer, files, env>>

-----------------------------------------------------------------------------
(* _prepare_derivative *)

\* The published name is taken: its file is used again if it is whole.
_reuse_published_derivative_unvalidated(w) ==
    /\ job[w].pc = "looking"
    /\ dest # NoName
    /\ job' = [job EXCEPT ![w].pc = "made", ![w].inode = dest]
    /\ UNCHANGED <<rows, files, claims, env>>

_reuse_published_derivative(w) ==
    /\ job[w].pc = "looking"
    /\ dest # NoName
    /\ IF content[dest] \in Digests
       THEN job' = [job EXCEPT ![w].pc = "made", ![w].inode = dest]
       ELSE Fail(w, "failing", "fatal")
    /\ UNCHANGED <<rows, files, claims, env>>

\* A stale staging file goes, whoever made it, and a new one is created.
create_staging(w) ==
    /\ job[w].pc = "looking"
    /\ dest = NoName
    /\ staging' = job[w].claim
    /\ content' = [content EXCEPT ![job[w].claim] = "partial"]
    /\ job' = [job EXCEPT ![w].pc = "making", ![w].inode = job[w].claim]
    /\ UNCHANGED <<rows, dest, claims, env>>

\* The encoder ends, the name still belongs to the descriptor.
transform_ends(w) ==
    /\ job[w].pc = "making"
    /\ \E digest \in Digests :
         content' = [content EXCEPT ![job[w].claim] = digest]
    /\ IF staging = job[w].claim THEN Goto(w, "made")
       ELSE Fail(w, "failing", "fatal")
    /\ UNCHANGED <<rows, staging, dest, claims, env>>

\* The source is missing or changed, the encoder or the validation fails.
transform_fails(w, outcome) ==
    /\ job[w].pc \in {"looking", "making"}
    /\ outcome \in {"retry", "fatal"}
    /\ staging' = IF job[w].pc = "making" THEN Without(staging, job[w].claim)
                  ELSE staging
    /\ Fail(w, "failing", outcome)
    /\ UNCHANGED <<rows, dest, content, claims, env>>

\* A renewal inside the hash and encoder loops is refused.
lose_lease(w) ==
    /\ job[w].pc \in {"looking", "making"}
    /\ ~Renews(w)
    /\ staging' = IF job[w].pc = "making" THEN Without(staging, job[w].claim)
                  ELSE staging
    /\ Stop(w)
    /\ UNCHANGED <<rows, dest, content, claims, env>>

Reused(w) == job[w].inode # job[w].claim

\* _lease_is_current, then the renewal that opens _publish_file.
_lease_is_current(w) ==
    /\ job[w].pc = "made"
    /\ IF Reused(w)
       THEN /\ IF Holds(w) THEN Goto(w, "committing") ELSE Stop(w)
            /\ UNCHANGED staging
       ELSE IF Renews(w)
            THEN Goto(w, "linking") /\ UNCHANGED staging
            ELSE Stop(w) /\ staging' = Without(staging, job[w].inode)
    /\ UNCHANGED <<rows, dest, content, claims, env>>

-----------------------------------------------------------------------------
(* _publish_file *)

\* os.link takes whatever file has the staging name.
link_free_name(w) ==
    /\ job[w].pc = "linking"
    /\ dest = NoName
    /\ dest' = staging
    /\ CASE staging = NoName -> Fail(w, "failing", "retry")
         [] staging = job[w].inode ->
              job' = [job EXCEPT ![w].pc = "linked", ![w].new = TRUE]
         [] OTHER -> Fail(w, "failing", "fatal")
    /\ UNCHANGED <<rows, staging, content, claims, env>>

\* FileExistsError: the same bytes are accepted.
link_taken_name(w) ==
    /\ job[w].pc = "linking"
    /\ dest # NoName
    /\ IF content[dest] = content[job[w].inode]
       THEN Goto(w, "linked") /\ UNCHANGED staging
       ELSE /\ Fail(w, "failing", "fatal")
            /\ staging' = Without(staging, job[w].inode)
    /\ UNCHANGED <<rows, dest, content, claims, env>>

\* The exception handler takes back a name it has just given.
TakenBack(w) == IF job[w].new THEN Without(dest, job[w].inode) ELSE dest

\* The lease is renewed before the name goes and while the result is hashed.
unlink_staging(w) ==
    /\ job[w].pc = "linked"
    /\ IF Renews(w)
       THEN /\ staging' = NoName
            /\ CASE staging # NoName /\ dest = job[w].inode ->
                      Goto(w, "committing") /\ UNCHANGED dest
                 [] staging # NoName /\ dest \notin {NoName, job[w].inode} ->
                      Fail(w, "failing", "fatal") /\ dest' = TakenBack(w)
                 [] OTHER -> Fail(w, "failing", "retry") /\ dest' = TakenBack(w)
       ELSE Stop(w) /\ dest' = TakenBack(w) /\ staging' \in {staging, NoName}
    /\ UNCHANGED <<rows, content, claims, env>>

-----------------------------------------------------------------------------
(* _publish_database_with_reconciliation *)

Commit(w) ==
    /\ task' = Ended(task, "ready")
    /\ fileRow' = content[job[w].inode]
    /\ pointer' = TRUE

Conflicts(w) == fileRow \notin {NoFile, content[job[w].inode]}

Skips(w) == withdrawn \/ (task.status # "ready" /\ ~Holds(w))

_publish_database(w) ==
    /\ job[w].pc = "committing"
    /\ CASE Skips(w) -> Fail(w, "discarding", "skipped") /\ UNCHANGED rows
         [] ~Skips(w) /\ task.status = "ready" -> Stop(w) /\ UNCHANGED rows
         [] OTHER -> IF Conflicts(w)
                     THEN Fail(w, "unsure", "fatal") /\ UNCHANGED rows
                     ELSE Stop(w) /\ Commit(w)
    /\ UNCHANGED <<files, claims, env>>

\* The connection breaks in the commit, which may have taken effect.
commit_unknown(w) ==
    /\ job[w].pc = "committing"
    /\ Fail(w, "unsure", "retry")
    /\ \/ UNCHANGED rows
       \/ Holds(w) /\ ~withdrawn /\ ~Conflicts(w) /\ Commit(w)
    /\ UNCHANGED <<files, claims, env>>

Committed(w) == /\ fileRow = content[job[w].inode]
                /\ task.status = "ready"
                /\ pointer

\* _publication_database_state: yes, no, or no answer.
_publication_database_state(w) ==
    /\ job[w].pc = "unsure"
    /\ \/ IF Committed(w) THEN Stop(w) ELSE Goto(w, "discarding")
       \/ Goto(w, "failing")
    /\ UNCHANGED <<rows, files, claims, env>>

_discard_uncommitted_publication(w) ==
    /\ job[w].pc = "discarding"
    /\ dest' = TakenBack(w)
    /\ IF job[w].outcome = "skipped" THEN Stop(w) ELSE Goto(w, "failing")
    /\ UNCHANGED <<rows, staging, content, claims, env>>

Retries(w) == job[w].outcome = "retry" /\ task.attempts < MaxAttempts

_record_failure_unleased(w) ==
    /\ job[w].pc = "failing"
    /\ Stop(w)
    /\ task' = IF Retries(w) THEN [Ended(task, "queued") EXCEPT !.due = FALSE]
               ELSE Ended(task, "failed")
    /\ UNCHANGED <<fileRow, pointer, files, claims, env>>

_record_failure(w) ==
    /\ job[w].pc = "failing"
    /\ Stop(w)
    /\ task' = CASE ~Holds(w) -> task
                 [] Holds(w) /\ Retries(w) ->
                      [Ended(task, "queued") EXCEPT !.due = FALSE]
                 [] OTHER -> Ended(task, "failed")
    /\ UNCHANGED <<fileRow, pointer, files, claims, env>>

-----------------------------------------------------------------------------
(* Time, crashes, and the rest of the system *)

lease_expires ==
    /\ task.leased
    /\ task' = [task EXCEPT !.leased = FALSE]
    /\ UNCHANGED <<fileRow, pointer, files, job, claims, env>>

retry_falls_due ==
    /\ ~task.due
    /\ task' = [task EXCEPT !.due = TRUE]
    /\ UNCHANGED <<fileRow, pointer, files, job, claims, env>>

worker_dies(w) ==
    /\ job[w].pc # "idle"
    /\ Stop(w)
    /\ UNCHANGED <<rows, files, claims, env>>

withdraw ==
    /\ Withdrawable /\ ~withdrawn
    /\ withdrawn' = TRUE
    /\ UNCHANGED <<rows, files, job, claims, lost>>

\* _cleanup_orphan_managed_files spares files with a row and active tasks.
Orphaned == fileRow = NoFile /\ task.status \notin {"queued", "running"}

_cleanup_orphan_managed_files ==
    /\ dest # NoName
    /\ Orphaned
    /\ dest' = NoName
    /\ UNCHANGED <<rows, staging, content, job, claims, env>>

lose_file ==
    /\ dest # NoName
    /\ task.status = "ready"
    /\ lost < MaxRepairs
    /\ lost' = lost + 1
    /\ dest' = NoName
    /\ UNCHANGED <<rows, staging, content, job, claims, withdrawn>>

\* A request for the file misses it and queues the task again.
requeue_missing_ready_derivative ==
    /\ task.status = "ready" /\ pointer
    /\ dest = NoName
    /\ ~withdrawn
    /\ task' = [Ended(task, "queued") EXCEPT !.attempts = 0, !.due = TRUE]
    /\ UNCHANGED <<fileRow, pointer, files, job, claims, env>>

-----------------------------------------------------------------------------

Init ==
    /\ task = [status |-> "queued", lease |-> 0, leased |-> FALSE,
               attempts |-> 0, due |-> TRUE]
    /\ fileRow = NoFile
    /\ pointer = FALSE
    /\ staging = NoName
    /\ dest = NoName
    /\ content = [c \in Claims |-> NoFile]
    /\ job = [w \in Workers |-> Idle]
    /\ claims = 0
    /\ withdrawn = FALSE
    /\ lost = 0

Step(w) ==
    \/ _claim_task(w)
    \/ _reuse_published_derivative(w) \/ create_staging(w)
    \/ transform_ends(w) \/ lose_lease(w) \/ _lease_is_current(w)
    \/ link_free_name(w) \/ link_taken_name(w) \/ unlink_staging(w)
    \/ _publish_database(w) \/ _publication_database_state(w)
    \/ _discard_uncommitted_publication(w) \/ _record_failure(w)

Fault(w) == \/ worker_dies(w) \/ commit_unknown(w)
            \/ \E outcome \in {"retry", "fatal"} : transform_fails(w, outcome)

Environment ==
    \/ lease_expires \/ retry_falls_due \/ withdraw
    \/ _cleanup_orphan_managed_files \/ lose_file
    \/ requeue_missing_ready_derivative

Next == \/ \E w \in Workers : Step(w) \/ Fault(w)
        \/ Environment

Spec == Init /\ [][Next]_vars

\* The loop of a worker, the clock, and clients that ask for a ready file.
FairSpec ==
    /\ Spec
    /\ \A w \in Workers : WF_vars(Step(w))
    /\ WF_vars(lease_expires /\ \A w \in Workers : ~Holds(w))
    /\ WF_vars(retry_falls_due)
    /\ WF_vars(requeue_missing_ready_derivative)

-----------------------------------------------------------------------------

Pcs == {"idle", "looking", "making", "made", "linking", "linked", "committing",
        "unsure", "discarding", "failing"}

TypeOK ==
    /\ task \in [status : {"queued", "running", "ready", "failed"},
                 lease : 0 .. MaxClaims, leased : BOOLEAN,
                 attempts : 0 .. MaxAttempts, due : BOOLEAN]
    /\ fileRow \in Digests \cup {"partial", NoFile}
    /\ pointer \in BOOLEAN
    /\ staging \in 0 .. MaxClaims
    /\ dest \in 0 .. MaxClaims
    /\ content \in [Claims -> Digests \cup {NoFile, "partial"}]
    /\ job \in [Workers -> [pc : Pcs, claim : 0 .. MaxClaims,
                            inode : 0 .. MaxClaims, new : BOOLEAN,
                            outcome : {"none", "skipped", "retry", "fatal"}]]
    /\ claims \in 0 .. MaxClaims
    /\ withdrawn \in BOOLEAN
    /\ lost \in 0 .. MaxRepairs

\* With one worker at a time, a ready task has its file, whole, through
\* crashes, lost leases and commits of unknown outcome, whatever the orphan
\* cleanup does, as long as the disk loses nothing.
ReadyHasFile ==
    task.status = "ready" /\ lost = 0
        => dest # NoName /\ content[dest] = fileRow

\* With two workers, a ready task never names bytes other than the ones its row
\* describes: a partial file, or another encoding.
ReadyBytesVerified ==
    task.status = "ready" => /\ fileRow \in Digests
                             /\ dest # NoName => content[dest] = fileRow

\* The row of the task belongs to the claim that holds its lease: whatever
\* else a worker that lost it still does, it does not touch the row.
StaleIsHarmless ==
    \A w \in Workers :
       job[w].pc # "idle" /\ job'[w] # job[w] /\ ~Holds(w) => task' = task

\* A pointer, once given, names a row that never changes; the freeze of
\* finalized versions rests on it.
PointerKept == pointer => pointer' /\ fileRow' = fileRow

\* Every task ends, and a ready one whose file is gone is made again or fails.
TaskSettles == []<>(task.status \in {"ready", "failed"})

MissingFileIsRepaired ==
    []<>(task.status # "ready" \/ dest # NoName \/ withdrawn)
=============================================================================
