--------------------------- MODULE UploadSession ---------------------------
(***************************************************************************)
(* One chunked upload (review_http/upload_routes.py,                       *)
(* review_media/service.py): parts are streamed into candidate files and   *)
(* bound to the session row, a completion claims the row, assembles the    *)
(* parts without a transaction, links the result and publishes it, and an  *)
(* abort or the maintenance ends a session that leads nowhere.  A database *)
(* transaction is one action; what the code does outside of one, and every *)
(* commit whose answer may be lost, is an action of its own.               *)
(*                                                                         *)
(* A candidate file is named after the request that wrote it, a lease and  *)
(* a file id after the completion that made them up.                       *)
(***************************************************************************)
EXTENDS Integers, FiniteSets, FiniteSetsExt

CONSTANTS
    Puts, Completes, Aborts, \* requests
    PartNos, PartOf,         \* the part a put carries
    SizeOf, Declared,        \* its size; the declared size of the file
    Corrupt,                 \* puts whose bytes do not make a valid file
    Keys, KeyOf,             \* idempotency key of a completion
    Processes, ProcessOf,    \* API process that serves a request
    MaxInflight,             \* max_inflight_upload_parts_per_session
    MaxFaults,               \* bound on crashes, lost answers and I/O errors
    None

Ops == Completes \cup Aborts
Requests == Puts \cup Ops

UploadConstants ==
    /\ PartOf \in [Puts -> PartNos] /\ SizeOf \in [Puts -> Nat \ {0}]
    /\ KeyOf \in [Completes -> Keys] /\ ProcessOf \in [Requests -> Processes]
    /\ Corrupt \subseteq Puts /\ Declared \in Nat \ {0} /\ Puts \cap Ops = {}
    /\ {None, "pending"} \cap Requests = {} /\ None # "pending"

VARIABLES
    row,     \* the upload_sessions row
    idem,    \* per key: None, "pending" (102) or the file answered (200)
    disk,    \* candidate files under uploads/
    files,   \* per file id: the parts it was made of, or None
    put,     \* the put requests
    op,      \* the completions and aborts
    leases,  \* requests that hold a lease of their process's limiter
    claimed, \* the maintenance has taken the row to clean it
    faults

vars == <<row, idem, disk, files, put, op, leases, claimed, faults>>

NoParts == [n \in PartNos |-> None]
Fresh == [present |-> TRUE, status |-> "initiated", parts |-> NoParts, lease |-> None,
          file |-> None, key |-> None, expired |-> FALSE, output |-> None,
          confirmed |-> FALSE, stale |-> FALSE]
NoPut == [pc |-> "idle", max |-> 0, old |-> None]
NoOp == [pc |-> "idle", pending |-> FALSE, lease |-> None, file |-> None,
         paths |-> {}, expect |-> None, answer |-> None]

Recorded == {row.parts[n] : n \in PartNos} \ {None}
Made(parts) == {parts[n] : n \in PartNos} \ {None}
Size(candidates) == MapThenSumSet(LAMBDA p : SizeOf[p], candidates)

\* The sizes of candidates add up.
SizesAdd ==
    /\ Size({}) = 0
    /\ \A set \in SUBSET Puts :
        /\ Size(set) \in Nat
        /\ \A p \in Puts \ set : Size(set \cup {p}) = Size(set) + SizeOf[p]
        /\ \A part \in SUBSET set : Size(part) <= Size(set)

Receives == row.present /\ row.status \in {"initiated", "receiving"}

\* _inspect_final_descriptor: size, hash, type and probe of the assembled file
Valid(parts) == Size(Made(parts)) = Declared /\ Made(parts) \cap Corrupt = {}

\* A fault that the code has to live with: one of a bounded number.
Fault == faults < MaxFaults /\ faults' = faults + 1
NoFault == faults' = faults

\* unlink_regular_file: gone, or an I/O error that is only logged
Unlink(candidates) == \/ disk' = disk \ candidates /\ NoFault
                      \/ disk' = disk /\ candidates \cap disk # {} /\ Fault

-----------------------------------------------------------------------------
(* PUT /uploads/{id}/parts/{n} *)

\* _max_part_write_bytes
Remaining(n) == Declared - Size(Recorded \ {row.parts[n]})

At(p, pc) == put[p].pc = pc
Goto(p, pc) == put' = [put EXCEPT ![p].pc = pc]
Release(r) == leases' = leases \ {r}

validate_upload_before_stream(p) ==
    /\ At(p, "idle")
    /\ IF Receives /\ Remaining(PartOf[p]) > 0
       THEN /\ put' = [put EXCEPT ![p].pc = "validated", ![p].max = Remaining(PartOf[p])]
            /\ row' = [row EXCEPT !.stale = FALSE]
       ELSE Goto(p, "done") /\ row' = row
    /\ UNCHANGED <<idem, disk, files, op, leases, claimed, faults>>

Peers(r, set) == {s \in set \cap leases : ProcessOf[s] = ProcessOf[r]}

\* The limiter of the process, then the candidate file.
try_acquire(p) ==
    /\ At(p, "validated")
    /\ IF Peers(p, Ops) = {} /\ Cardinality(Peers(p, Puts)) < MaxInflight
       THEN leases' = leases \cup {p} /\ disk' = disk \cup {p} /\ Goto(p, "open")
       ELSE Goto(p, "done") /\ UNCHANGED <<leases, disk>>
    /\ UNCHANGED <<row, idem, files, op, claimed, faults>>

write_limited_body(p) ==
    /\ At(p, "open") /\ SizeOf[p] <= put[p].max
    /\ Goto(p, "written")
    /\ UNCHANGED <<row, idem, disk, files, op, leases, claimed, faults>>

\* The body is too long or breaks off.
body_fails(p) ==
    /\ At(p, "open")
    /\ Unlink({p}) /\ Release(p) /\ Goto(p, "done")
    /\ UNCHANGED <<row, idem, files, op, claimed>>

\* The request is answered; the lease stays with the cleanup in the background.
body_timeout(p) ==
    /\ At(p, "open")
    /\ Goto(p, "cleaning")
    /\ UNCHANGED <<row, idem, disk, files, op, leases, claimed, faults>>

_finish_timed_out_body(p) ==
    /\ At(p, "cleaning")
    /\ Unlink({p}) /\ Release(p) /\ Goto(p, "done")
    /\ UNCHANGED <<row, idem, files, op, claimed>>

Bound(p) == [row EXCEPT !.parts[PartOf[p]] = p, !.status = "receiving",
                        !.stale = FALSE]

\* put_part_file under the row lock: everything is checked once more.
Bindable(p) == Receives /\ p \in disk /\ SizeOf[p] <= Remaining(PartOf[p])

\* The commit is answered, or its answer is lost.
bind_and_commit_part(p) ==
    /\ At(p, "written") /\ Bindable(p)
    /\ \/ /\ row' = Bound(p) /\ NoFault
          /\ put' = [put EXCEPT ![p].pc = "bound", ![p].old = row.parts[PartOf[p]]]
       \/ /\ row' \in {row, Bound(p)} /\ Fault
          /\ put' = [put EXCEPT ![p].pc = "unsure", ![p].old = row.parts[PartOf[p]]]
    /\ UNCHANGED <<idem, disk, files, op, leases, claimed>>

bind_refused(p) ==
    /\ At(p, "written") /\ ~Bindable(p)
    /\ Unlink({p}) /\ Release(p) /\ Goto(p, "done")
    /\ UNCHANGED <<row, idem, files, op, claimed>>

discard_superseded_part(p) ==
    /\ At(p, "bound")
    /\ Unlink({put[p].old}) /\ Release(p) /\ Goto(p, "done")
    /\ UNCHANGED <<row, idem, files, op, claimed>>

\* _part_commit_outcome: the row tells whether the commit took place; if it
\* cannot be read the candidate is left to the maintenance.
Doomed(p) == IF row.present /\ row.parts[PartOf[p]] = p THEN {put[p].old} ELSE {p}

commit_prepared_part(p) ==
    /\ At(p, "unsure")
    /\ Unlink(Doomed(p)) \/ (disk' = disk /\ Fault)
    /\ Release(p) /\ Goto(p, "done")
    /\ UNCHANGED <<row, idem, files, op, claimed>>

-----------------------------------------------------------------------------
(* POST /uploads/{id}/complete *)

OpAt(o, pc) == op[o].pc = pc
OpGoto(o, pc) == op' = [op EXCEPT ![o].pc = pc]
\* The request ends and gives the exclusive lease back.
End(o) == OpGoto(o, "done") /\ Release(o)

exclusive_upload_operation(o) ==
    /\ OpAt(o, "idle")
    /\ IF Peers(o, Requests) = {}
       THEN leases' = leases \cup {o} /\ OpGoto(o, "admitted")
       ELSE OpGoto(o, "done") /\ UNCHANGED leases
    /\ UNCHANGED <<row, idem, disk, files, put, claimed, faults>>

\* Read before the row is locked.
is_pending_completion_replay(c) ==
    /\ OpAt(c, "admitted")
    /\ op' = [op EXCEPT ![c].pc = "keyed", ![c].pending = (idem[KeyOf[c]] = "pending")]
    /\ UNCHANGED <<row, idem, disk, files, put, leases, claimed, faults>>

\* claim_completion on a row that takes parts, or whose lease has run out
Recovers(c) == row.status = "finalizing" /\ row.key = KeyOf[c] /\ row.expired
Resumes(c) == row.status = "finalizing" /\ row.key = KeyOf[c] /\ ~row.expired
              /\ op[c].pending
Claimable(c) == row.present /\ Recorded # {}
                /\ (Receives \/ Recovers(c) \/ Resumes(c))

\* reserve_completion_idempotency
Reservable(c) == \/ idem[KeyOf[c]] = None
                 \/ idem[KeyOf[c]] = "pending" /\ ~Receives

Claim(c) ==
    LET lease == IF Resumes(c) THEN row.lease ELSE c
        file == IF row.status = "finalizing" THEN row.file ELSE c
    IN  [op EXCEPT ![c].pc = "claimed", ![c].lease = lease, ![c].file = file,
                   ![c].paths = Recorded]

ClaimedRow(c) ==
    IF Resumes(c) THEN row
    ELSE [row EXCEPT !.status = "finalizing", !.lease = c, !.expired = FALSE,
                     !.file = Claim(c)[c].file, !.key = KeyOf[c], !.stale = FALSE]

\* A lost answer is looked up; a claim that cannot be confirmed is not used.
claim_completion(c) ==
    LET reserved == [idem EXCEPT ![KeyOf[c]] = IF @ = None THEN "pending" ELSE @] IN
    /\ OpAt(c, "keyed") /\ Claimable(c) /\ Reservable(c)
    /\ \/ /\ row' = ClaimedRow(c) /\ idem' = reserved /\ op' = Claim(c)
          /\ UNCHANGED leases /\ NoFault
       \/ /\ \/ row' = ClaimedRow(c) /\ idem' = reserved
             \/ UNCHANGED <<row, idem>>
          /\ Fault /\ End(c)
    /\ UNCHANGED <<disk, files, put, claimed>>

\* The upload is complete already: only what is left of it is cleaned up.
complete_again(c) ==
    LET file == IF idem[KeyOf[c]] \in {None, "pending"} THEN row.output
                ELSE idem[KeyOf[c]]
    IN
    /\ OpAt(c, "keyed")
    /\ row.present /\ row.status = "completed"
    /\ idem' = [idem EXCEPT ![KeyOf[c]] = file]
    /\ op' = [op EXCEPT ![c].pc = "cleaning", ![c].paths = Recorded,
                        ![c].expect = "completed", ![c].answer = file]
    /\ UNCHANGED <<row, disk, files, put, leases, claimed, faults>>

\* An error, or the replay of an answer that the key has already had.
complete_refused(c) ==
    LET had == idem[KeyOf[c]] IN
    /\ OpAt(c, "keyed")
    /\ ~(row.present /\ row.status = "completed")
    /\ ~(Claimable(c) /\ Reservable(c))
    /\ op' = [op EXCEPT ![c].pc = "done",
                        ![c].answer = IF Claimable(c) /\ had # "pending" THEN had ELSE None]
    /\ Release(c)
    /\ UNCHANGED <<row, idem, disk, files, put, claimed, faults>>

\* _reuse_finalized_file
Reuses(c) == files[op[c].file] # None

\* finalize_claim: the parts are read, and the result is inspected.
assemble(c) ==
    LET parts == [n \in PartNos |-> IF \E p \in op[c].paths : PartOf[p] = n
                                    THEN CHOOSE p \in op[c].paths : PartOf[p] = n
                                    ELSE None]
    IN
    /\ OpAt(c, "claimed")
    /\ CASE Reuses(c) -> OpGoto(c, "linked")
         [] ~Reuses(c) /\ op[c].paths \subseteq disk /\ Valid(parts) ->
              OpGoto(c, "assembled")
         [] OTHER -> op' = [op EXCEPT ![c].pc = "failing", ![c].expect = "aborted"]
    /\ UNCHANGED <<row, idem, disk, files, put, leases, claimed, faults>>

\* The name may have been taken by a predecessor with the same claim.
link(c) ==
    /\ OpAt(c, "assembled")
    /\ files' = IF Reuses(c) THEN files
                ELSE [files EXCEPT ![op[c].file] = op[c].paths]
    /\ OpGoto(c, "linked")
    /\ UNCHANGED <<row, idem, disk, put, leases, claimed, faults>>

\* Any other error, before or after the link.
finalize_fails(c) ==
    /\ op[c].pc \in {"claimed", "assembled", "linked"}
    /\ op' = [op EXCEPT ![c].pc = "failing", ![c].expect = None]
    /\ Fault
    /\ UNCHANGED <<row, idem, disk, files, put, leases, claimed>>

Unleased_kept(r) == [r EXCEPT !.file = None, !.key = None, !.expired = FALSE]
Unleased(r) == [r EXCEPT !.lease = None, !.file = None, !.key = None, !.expired = FALSE]

\* release_failed_finalization and the deletion of the idempotency record
release_failed_completion(c) ==
    LET aborts == op[c].expect = "aborted"
        mine == row.present /\ row.status = "finalizing" /\ row.lease = op[c].lease
        freed == [Unleased(row) EXCEPT
                    !.status = IF aborts THEN "aborted" ELSE "receiving",
                    !.confirmed = IF aborts THEN FALSE ELSE @, !.stale = FALSE]
        completed == row.present /\ row.status = "completed"
    IN
    /\ OpAt(c, "failing")
    /\ row' = IF mine THEN freed ELSE row
    /\ idem' = IF (mine \/ completed) /\ idem[KeyOf[c]] = "pending"
               THEN [idem EXCEPT ![KeyOf[c]] = None] ELSE idem
    /\ IF mine /\ aborts
       THEN /\ op' = [op EXCEPT ![c].pc = "cleaning", ![c].paths = Recorded]
            /\ UNCHANGED leases
       ELSE End(c)
    /\ UNCHANGED <<disk, files, put, claimed, faults>>

Done(c) == row.present /\ row.status = "completed" /\ row.output = op[c].file

Publishable(c) ==
    /\ row.present /\ row.status = "finalizing"
    /\ row.lease = op[c].lease /\ row.file = op[c].file

\* The row lock does not keep the maintenance out of the directory: the file is
\* looked at before the commit.
pin_finalized_file(c) ==
    /\ OpAt(c, "linked")
    /\ IF Done(c) \/ files[op[c].file] # None
       THEN OpGoto(c, "pinned") /\ UNCHANGED leases
       ELSE End(c)
    /\ UNCHANGED <<row, idem, disk, files, put, claimed, faults>>

\* publish_completion; a lost answer is looked up.
publish_completion(c) ==
    LET output == [Unleased(row) EXCEPT !.status = "completed", !.output = op[c].file,
                                        !.stale = FALSE]
        answered == [idem EXCEPT ![KeyOf[c]] = op[c].file]
        answer == op' = [op EXCEPT ![c].pc = "cleaning", ![c].expect = "completed",
                                   ![c].paths = IF Done(c) THEN Recorded ELSE @,
                                   ![c].answer = op[c].file]
        new == IF Done(c) THEN row ELSE output
    IN
    /\ OpAt(c, "pinned") /\ (Done(c) \/ Publishable(c))
    /\ idem[KeyOf[c]] # None
    /\ \/ row' = new /\ idem' = answered /\ answer /\ UNCHANGED leases /\ NoFault
       \/ /\ \/ row' = new /\ idem' = answered
             \/ UNCHANGED <<row, idem>>
          /\ Fault /\ End(c)
    /\ UNCHANGED <<disk, files, put, claimed>>

publish_refused(c) ==
    /\ OpAt(c, "pinned")
    /\ ~(Done(c) \/ Publishable(c)) \/ idem[KeyOf[c]] = None
    /\ End(c)
    /\ UNCHANGED <<row, idem, disk, files, put, claimed, faults>>

-----------------------------------------------------------------------------
(* POST /uploads/{id}/abort, and the cleanup that ends both operations *)

Abortable == row.present /\ row.output = None /\ row.status # "finalizing"

prepare_abort(a) ==
    /\ OpAt(a, "admitted")
    /\ IF Abortable
       THEN /\ row' = [row EXCEPT !.status = "aborted", !.confirmed = FALSE,
                                  !.stale = FALSE]
            /\ op' = [op EXCEPT ![a].pc = "cleaning", ![a].paths = Recorded,
                                ![a].expect = "aborted"]
            /\ UNCHANGED leases
       ELSE row' = row /\ End(a)
    /\ UNCHANGED <<idem, disk, files, put, claimed, faults>>

cleanup_committed_parts(o) ==
    /\ OpAt(o, "cleaning")
    /\ \/ disk' = disk \ op[o].paths /\ NoFault /\ OpGoto(o, "confirming")
          /\ UNCHANGED leases
       \/ /\ \E left \in (SUBSET (op[o].paths \cap disk)) \ {{}} :
               disk' = disk \ (op[o].paths \ left)
          /\ Fault /\ End(o)
    /\ UNCHANGED <<row, idem, files, put, claimed>>

confirm_part_cleanup(o) ==
    /\ OpAt(o, "confirming")
    /\ row' = IF row.present /\ row.status = op[o].expect
              THEN [row EXCEPT !.parts = NoParts, !.confirmed = TRUE, !.stale = FALSE]
              ELSE row
    /\ End(o)
    /\ UNCHANGED <<idem, disk, files, put, claimed, faults>>

-----------------------------------------------------------------------------
(* maintenance_cleanup.py *)

Terminal == {"completed", "aborted"}

Reapable == row.stale /\ (row.status = "finalizing" => row.expired)
            /\ (row.status = "completed" => ~row.confirmed)

Reaped == IF row.status \in Terminal THEN [row EXCEPT !.stale = FALSE]
          ELSE [Unleased(row) EXCEPT !.status = "aborted", !.stale = FALSE]

_claim_terminal_or_stale_uploads ==
    /\ ~claimed /\ row.present /\ Reapable
    /\ claimed' = TRUE
    /\ row' = Reaped
    /\ UNCHANGED <<idem, disk, files, put, op, leases, faults>>

\* _confirm_or_remove_cleaned_upload
Cleaned == IF row.output = None THEN [row EXCEPT !.present = FALSE, !.parts = NoParts]
           ELSE [row EXCEPT !.parts = NoParts, !.confirmed = TRUE, !.stale = FALSE]

\* Parts that cannot be removed stay on the row.
_cleanup_claimed_upload_parts ==
    /\ claimed /\ claimed' = FALSE
    /\ \/ /\ ~(row.present /\ row.status \in Terminal)
          /\ UNCHANGED <<row, disk, faults>>
       \/ /\ row.present /\ row.status \in Terminal
          /\ disk' = disk \ Recorded /\ row' = Cleaned /\ NoFault
       \/ /\ row.present /\ row.status \in Terminal
          /\ \E left \in (SUBSET (Recorded \cap disk)) \ {{}} :
               /\ disk' = disk \ (Recorded \ left)
               /\ row' = IF left = Recorded THEN row
                         ELSE [row EXCEPT !.stale = FALSE,
                                 !.parts = [n \in PartNos |-> IF @[n] \in left
                                                             THEN @[n] ELSE None]]
          /\ Fault
    /\ UNCHANGED <<idem, files, put, op, leases>>

\* A candidate is old enough only when its request is long over.
Old(p) == put[p].pc = "done"

Orphaned(p) == row.present => p \notin Recorded

_cleanup_orphan_upload_parts(p) ==
    /\ p \in disk /\ Old(p) /\ Orphaned(p)
    /\ disk' = disk \ {p}
    /\ UNCHANGED <<row, idem, files, put, op, leases, claimed, faults>>

Referenced_published(f) == row.present /\ row.output = f
Referenced(f) == row.present /\ f \in {row.output, row.file}

_cleanup_orphan_managed_files(f) ==
    /\ files[f] # None /\ ~Referenced(f)
    /\ files' = [files EXCEPT ![f] = None]
    /\ UNCHANGED <<row, idem, disk, put, op, leases, claimed, faults>>

-----------------------------------------------------------------------------
(* The clock, and the end of a process *)

lease_expires ==
    /\ row.present /\ row.status = "finalizing" /\ ~row.expired
    /\ row' = [row EXCEPT !.expired = TRUE]
    /\ UNCHANGED <<idem, disk, files, put, op, leases, claimed, faults>>

grows_stale ==
    /\ row.present /\ ~row.stale
    /\ row' = [row EXCEPT !.stale = TRUE]
    /\ UNCHANGED <<idem, disk, files, put, op, leases, claimed, faults>>

\* Requests in flight are lost, with their leases; those to come are not.
process_dies(x) ==
    LET lost(r, pc) == ProcessOf[r] = x /\ pc # "idle" IN
    /\ \E r \in leases : ProcessOf[r] = x
    /\ put' = [p \in Puts |-> IF lost(p, put[p].pc)
                             THEN [put[p] EXCEPT !.pc = "done"] ELSE put[p]]
    /\ op' = [o \in Ops |-> IF lost(o, op[o].pc)
                           THEN [op[o] EXCEPT !.pc = "done"] ELSE op[o]]
    /\ leases' = {r \in leases : ProcessOf[r] # x}
    /\ Fault
    /\ UNCHANGED <<row, idem, disk, files, claimed>>

-----------------------------------------------------------------------------

Init ==
    /\ row = Fresh
    /\ idem = [k \in Keys |-> None]
    /\ disk = {}
    /\ files = [c \in Completes |-> None]
    /\ put = [p \in Puts |-> NoPut]
    /\ op = [o \in Ops |-> NoOp]
    /\ leases = {} /\ claimed = FALSE /\ faults = 0

PutStep(p) ==
    \/ validate_upload_before_stream(p) \/ try_acquire(p)
    \/ write_limited_body(p) \/ body_fails(p) \/ body_timeout(p)
    \/ _finish_timed_out_body(p) \/ bind_and_commit_part(p) \/ bind_refused(p)
    \/ discard_superseded_part(p) \/ commit_prepared_part(p)

CleanupStep(o) == cleanup_committed_parts(o) \/ confirm_part_cleanup(o)

complete_upload(c) ==
    \/ exclusive_upload_operation(c) \/ is_pending_completion_replay(c)
    \/ claim_completion(c) \/ complete_again(c) \/ complete_refused(c)
    \/ assemble(c) \/ link(c) \/ finalize_fails(c)
    \/ release_failed_completion(c)
    \/ pin_finalized_file(c) \/ publish_completion(c) \/ publish_refused(c)
    \/ CleanupStep(c)

abort_upload(a) ==
    exclusive_upload_operation(a) \/ prepare_abort(a) \/ CleanupStep(a)

Maintenance ==
    \/ _claim_terminal_or_stale_uploads \/ _cleanup_claimed_upload_parts
    \/ \E p \in Puts : _cleanup_orphan_upload_parts(p)
    \/ \E f \in Completes : _cleanup_orphan_managed_files(f)

Next ==
    \/ \E p \in Puts : PutStep(p)
    \/ \E c \in Completes : complete_upload(c)
    \/ \E a \in Aborts : abort_upload(a)
    \/ Maintenance \/ lease_expires \/ grows_stale
    \/ \E x \in Processes : process_dies(x)

Spec == Init /\ [][Next]_vars

Started(r) == IF r \in Puts THEN put[r].pc # "idle" ELSE op[r].pc # "idle"

\* Requests that were started go on, the maintenance is run again and again, and
\* the clock does not stop.
FairSpec ==
    /\ Spec
    /\ \A p \in Puts : WF_vars(Started(p) /\ PutStep(p))
    /\ \A c \in Completes : WF_vars(Started(c) /\ complete_upload(c))
    /\ \A a \in Aborts : WF_vars(Started(a) /\ abort_upload(a))
    /\ WF_vars(_claim_terminal_or_stale_uploads)
    /\ WF_vars(_cleanup_claimed_upload_parts)
    /\ \A p \in Puts : WF_vars(_cleanup_orphan_upload_parts(p))
    /\ \A f \in Completes : WF_vars(_cleanup_orphan_managed_files(f))
    /\ WF_vars(lease_expires) /\ WF_vars(grows_stale)

-----------------------------------------------------------------------------

TypeOK ==
    /\ row \in [present : BOOLEAN,
                status : {"initiated", "receiving", "finalizing", "completed", "aborted"},
                parts : [PartNos -> Puts \cup {None}],
                lease : Completes \cup {None}, file : Completes \cup {None},
                key : Keys \cup {None}, expired : BOOLEAN,
                output : Completes \cup {None}, confirmed : BOOLEAN, stale : BOOLEAN]
    /\ idem \in [Keys -> Completes \cup {None, "pending"}]
    /\ disk \subseteq Puts
    /\ files \in [Completes -> (SUBSET Puts) \cup {None}]
    /\ leases \subseteq Requests
    /\ (row.status = "finalizing") <=> (row.lease # None)
    /\ row.confirmed => row.status \in Terminal

\* What was published is there and is the whole file: neither a stale
\* completion nor the maintenance takes it away, and nobody publishes parts
\* other than those that the row held when it was claimed.
CompletedIsWhole ==
    row.present /\ row.status = "completed" =>
        /\ files[row.output] # None
        /\ Size(files[row.output]) = Declared /\ files[row.output] \cap Corrupt = {}
        /\ row.confirmed \/ Recorded \subseteq files[row.output]

\* A part that the row counts on is on the disk as long as the upload can
\* still be completed: a superseded candidate, one whose commit went
\* unanswered and one that a late cleanup removes are never the recorded one.
RecordedPartsExist ==
    row.present /\ row.status \notin Terminal => Recorded \subseteq disk

\* The parts never exceed the declared size, although the room that a put is
\* promised when it starts is shared by the puts that run beside it.
PartsWithinDeclared == Size(Recorded) <= Declared

\* Candidates that no row knows of are bounded by the limiter: unless something
\* went wrong, each is that of a request that still holds its lease, or the one
\* that such a request has just superseded.
StrayCandidatesBounded ==
    LET stray == disk \ (IF row.present THEN Recorded ELSE {})
        held == leases \cap Puts
    IN  faults = 0 => stray \subseteq held \cup {put[p].old : p \in held}

\* Every completion that is answered names the file that the upload has.
AnswersAgree ==
    \A c \in Completes : op[c].answer # None =>
        row.present /\ row.status = "completed" /\ row.output = op[c].answer

\* A completed upload stays completed, with its file.
StaysCompleted ==
    row.present /\ row.status = "completed" =>
       row'.present /\ row'.status = "completed" /\ row'.output = row.output

\* An upload ends: it is completed, or it is removed with its reservation.
UploadEnds ==
    <>[](~row.present \/ (row.status = "completed" /\ row.confirmed))

\* No part file outlives its upload.
PartsAreReclaimed ==
    \A p \in Puts : []<>(put[p].pc # "done" \/ p \notin disk)

\* No assembled file without an owner stays on the disk.
OrphansAreReclaimed ==
    \A f \in Completes : []<>(files[f] = None \/ row.output = f)
=============================================================================
