------------------------------- MODULE QcScan --------------------------------
(***************************************************************************)
(* One technical QC scan and the processes it runs.  The scanning thread   *)
(* pins its input, then runs a chain of children (the hash helper,         *)
(* ffprobe, ffmpeg) under one deadline.  Each child is spawned by a thread *)
(* of its own, because spawning may block: the two threads hand the child  *)
(* over under a lock, and the one that ends up owning it must reap it.     *)
(* Readers drain the child's pipes meanwhile.                              *)
(***************************************************************************)
EXTENDS Naturals, Sequences

CONSTANTS
    Stages,           \* the chain of children: a sequence of "hash", "probe", "ffmpeg"
    MaxChanges,       \* writes to the input file by others
    ReadersLag,       \* whether a join of the readers may time out
    DeadlineAnywhere  \* whether the deadline may pass while a spawner is started

QcScanAssumption ==
    /\ Stages \in Seq({"hash", "probe", "ffmpeg"}) /\ Len(Stages) > 0
    /\ MaxChanges \in Nat
    /\ {ReadersLag, DeadlineAnywhere} \subseteq BOOLEAN

Runs == 1 .. Len(Stages)

VARIABLES
    pc,        \* of the scanning thread
    stage,     \* the child it is at
    failure,   \* why it is ending the child, or "none"
    answer,    \* what the scan returned
    pinned,    \* the change time it pinned
    launcher,  \* the spawning threads
    boxed,     \* the children published to the scanning thread
    timed_out, \* the spawns it gave up
    child,     \* the processes: their life, their exit code and what they read
    output,    \* what the readers made of each child's pipes
    input,     \* the file: its content and its change time
    deadline, cancelled,
    lease,     \* what a heartbeat meets: "held", "lost" or "unreachable"
    fatal      \* whether the host process was told to exit

control == <<pc, stage, failure, answer, pinned>>
world == <<input, deadline, cancelled, lease>>
vars == <<control, launcher, boxed, timed_out, child, output, world, fatal>>

Identity == "INPUT_IDENTITY_INVALID"
Living == {"running", "termed", "killed"}

Goto(label) == pc' = label /\ UNCHANGED <<stage, failure, answer, pinned>>
End(code) == pc' = "ended" /\ answer' = code /\ UNCHANGED <<stage, failure, pinned>>
Life(r, life) == child' = [child EXCEPT ![r].life = life]

-----------------------------------------------------------------------------
(* The spawning thread of _popen_with_deadline *)

popen(r) ==
    /\ launcher[r] = "popen"
    /\ \/ /\ child' = [child EXCEPT ![r].life = "running", ![r].seen = {input.content}]
          /\ launcher' = [launcher EXCEPT ![r] = "spawned"]
       \/ launcher' = [launcher EXCEPT ![r] = "failed"] /\ UNCHANGED child
    /\ UNCHANGED <<control, boxed, timed_out, output, world, fatal>>

\* Under the ownership lock the child is published, or kept by the spawner
\* when the scanning thread has given it up.
publish(r) ==
    /\ launcher[r] = "spawned"
    /\ IF r \in timed_out
       THEN launcher' = [launcher EXCEPT ![r] = "terminate"] /\ UNCHANGED boxed
       ELSE launcher' = [launcher EXCEPT ![r] = "publishing"] /\ boxed' = boxed \cup {r}
    /\ UNCHANGED <<control, timed_out, child, output, world, fatal>>

complete(r) ==
    /\ launcher[r] = "publishing"
    /\ launcher' = [launcher EXCEPT ![r] = "done"]
    /\ UNCHANGED <<control, boxed, timed_out, child, output, world, fatal>>

-----------------------------------------------------------------------------
(* _terminate_and_reap_process, by either thread: SIGTERM, a short wait,   *)
(* SIGKILL, a longer wait, and then the failure that ends the host.        *)

\* A process that was polled as ended is not signalled.
_signal_process_group(r, life) ==
    IF child[r].life \in Living THEN Life(r, life) ELSE UNCHANGED child

\* The step that is next, or how it ends: "reaped" or "failed".
_terminate_and_reap_process(at, r, next) ==
    \/ /\ at = "terminate" /\ next = "terminating"
       /\ _signal_process_group(r, "termed")
    \/ /\ at \in {"terminating", "killing"} /\ child[r].life = "exited"
       /\ next = "reaped" /\ Life(r, "reaped")
    \/ /\ at = "terminating" /\ child[r].life \in Living /\ next = "killing"
       /\ _signal_process_group(r, "killed")
    \/ /\ at = "killing" /\ child[r].life = "killed"
       /\ next = "failed" /\ UNCHANGED child
Ends == {"reaped", "failed"}

reap_late(r) ==
    \E next \in {"terminating", "killing"} \cup Ends :
       /\ _terminate_and_reap_process(launcher[r], r, next)
       /\ launcher' = [launcher EXCEPT ![r] = IF next \in Ends THEN "done" ELSE next]
       /\ fatal' = (fatal \/ next = "failed")
       /\ UNCHANGED <<control, boxed, timed_out, output, world>>

\* A child ended for a failure is followed by the join of its readers; one
\* taken from the box on a spawn timeout is not.
reap_owned ==
    \E next \in {"terminating", "killing"} \cup Ends :
       /\ pc # "ended"
       /\ _terminate_and_reap_process(pc, stage, next)
       /\ CASE next = "reaped" -> IF stage \in timed_out THEN End(failure) ELSE Goto("joining")
            [] next = "failed" -> End("REAP_FAILED")
            [] OTHER -> Goto(next)
       /\ fatal' = (fatal \/ next = "failed")
       /\ UNCHANGED <<launcher, boxed, timed_out, output, world>>

-----------------------------------------------------------------------------
(* The scanning thread *)

\* A file of another size is refused here; one of the same size is hashed.
pin_regular_file ==
    /\ pc = "pin"
    /\ \/ pc' = "open" /\ pinned' = input.ctime /\ UNCHANGED <<stage, failure, answer>>
       \/ input.content = "other" /\ End(Identity)
    /\ UNCHANGED <<launcher, boxed, timed_out, child, output, world, fatal>>

open_readonly ==
    /\ pc = "open"
    /\ IF input.ctime = pinned THEN Goto("launch") ELSE End(Identity)
    /\ UNCHANGED <<launcher, boxed, timed_out, child, output, world, fatal>>

\* ffprobe and ffmpeg are not started once the scan is over time or cancelled.
_check_lifecycle ==
    /\ pc = "launch"
    /\ CASE Stages[stage] # "hash" /\ deadline -> End("SCAN_TIMEOUT")
         [] Stages[stage] # "hash" /\ ~deadline /\ cancelled -> End("SCAN_CANCELLED")
         [] OTHER -> Goto("start")
    /\ UNCHANGED <<launcher, boxed, timed_out, child, output, world, fatal>>

start_spawner ==
    /\ pc = "start"
    /\ launcher' = [launcher EXCEPT ![stage] = "popen"]
    /\ Goto("remaining")
    /\ UNCHANGED <<boxed, timed_out, child, output, world, fatal>>

\* The time to wait is computed after the spawner was started.
_remaining_seconds ==
    /\ pc = "remaining"
    /\ IF deadline THEN End("SCAN_TIMEOUT") ELSE Goto("waiting")
    /\ UNCHANGED <<launcher, boxed, timed_out, child, output, world, fatal>>

spawn_completed ==
    /\ pc = "waiting"
    /\ \/ launcher[stage] = "failed" /\ End("PROCESS_UNAVAILABLE") /\ UNCHANGED output
       \/ /\ launcher[stage] = "done" /\ Goto("polling")
          /\ output' = [output EXCEPT ![stage] = "reading"]
    /\ UNCHANGED <<launcher, boxed, timed_out, child, world, fatal>>

spawn_times_out_blind ==
    /\ pc = "waiting" /\ deadline /\ launcher[stage] \notin {"done", "failed"}
    /\ timed_out' = timed_out \cup {stage}
    /\ End("SCAN_TIMEOUT")
    /\ UNCHANGED <<launcher, boxed, child, output, world, fatal>>
spawn_times_out ==
    /\ pc = "waiting" /\ deadline /\ launcher[stage] \notin {"done", "failed"}
    /\ timed_out' = timed_out \cup {stage}
    /\ IF stage \in boxed
       THEN pc' = "terminate" /\ failure' = "SCAN_TIMEOUT" /\ UNCHANGED <<stage, answer, pinned>>
       ELSE End("SCAN_TIMEOUT")
    /\ UNCHANGED <<launcher, boxed, child, output, world, fatal>>

\* The failures one pass of the supervision loop may find, in its order.  A
\* heartbeat falls due in some of the passes only; ffprobe has none.
Interruptions(r) ==
    CASE output[r] = "over" -> {"OUTPUT_LIMIT"}
      [] output[r] = "failed" -> {"SCAN_FAILED"}
      [] output[r] = "reading" /\ (deadline \/ cancelled) ->
             {IF deadline /\ (Stages[r] # "ffmpeg" \/ ~cancelled)
              THEN "SCAN_TIMEOUT" ELSE "SCAN_CANCELLED"}
      [] OTHER -> CASE Stages[r] = "probe" \/ lease = "held" -> {}
                    [] Stages[r] # "probe" /\ lease = "lost" -> {"LEASE_LOST"}
                    [] OTHER -> {"SCAN_FAILED"}

poll ==
    /\ pc = "polling"
    /\ \/ /\ child[stage].life = "exited"
          /\ Life(stage, "reaped") /\ Goto("exited")
       \/ \E code \in Interruptions(stage) :
             /\ child[stage].life \in Living
             /\ pc' = "terminate" /\ failure' = code
             /\ UNCHANGED <<child, stage, answer, pinned>>
    /\ UNCHANGED <<launcher, boxed, timed_out, output, world, fatal>>

exited ==
    /\ pc = "exited"
    /\ IF deadline THEN End("SCAN_TIMEOUT") ELSE Goto("joining")
    /\ UNCHANGED <<launcher, boxed, timed_out, child, output, world, fatal>>

\* What the scanning thread makes of a child that was reaped and of what its
\* readers had read by then; "next" goes on to the next stage.
Drained(r) == output[r] = "drained"
Hashed(r) ==
    IF child[r].code # "ok" \/ ~Drained(r) THEN {Identity}
    ELSE {"next" : c \in child[r].seen \cap {"claimed"}} \cup {Identity : c \in child[r].seen \ {"claimed"}}
Probed(r) ==
    CASE child[r].code # "ok" -> {"MEDIA_INVALID", "SCAN_FAILED"}
      [] child[r].code = "ok" /\ ~Drained(r) -> {"MEDIA_INVALID"}
      [] OTHER -> {"next"}
Scanned(r) ==
    CASE output[r] = "failed" -> {"SCAN_FAILED"}
      [] output[r] # "failed" /\ child[r].code = "bad" ->
             {"MEDIA_INVALID", "FILTER_UNAVAILABLE", "SCAN_FAILED"}
      [] output[r] # "failed" /\ child[r].code = "short" -> {"INCOMPLETE_SCAN"}
      [] OTHER -> IF Drained(r) THEN {"next"} ELSE {"next", "INCOMPLETE_SCAN"}

Verdicts(r) ==
    CASE failure # "none" -> {failure}
      [] failure = "none" /\ output[r] = "over" -> {"OUTPUT_LIMIT"}
      [] OTHER -> CASE Stages[r] = "hash" -> Hashed(r)
                    [] Stages[r] = "probe" -> Probed(r)
                    [] OTHER -> Scanned(r)

join_readers ==
    /\ pc = "joining" /\ (output[stage] # "reading" \/ ReadersLag)
    /\ \E v \in Verdicts(stage) :
          CASE v # "next" -> End(v)
            [] v = "next" /\ stage = Len(Stages) -> Goto("finished")
            [] OTHER -> pc' = "launch" /\ stage' = stage + 1 /\ UNCHANGED <<failure, answer, pinned>>
    /\ UNCHANGED <<launcher, boxed, timed_out, child, output, world, fatal>>

\* The open handle, then the name again: neither may have changed.
finish_scan ==
    /\ pc \in {"finished", "reopened"}
    /\ CASE input.ctime # pinned -> End(Identity)
         [] input.ctime = pinned /\ pc = "finished" -> Goto("reopened")
         [] OTHER -> End("report")
    /\ UNCHANGED <<launcher, boxed, timed_out, child, output, world, fatal>>

-----------------------------------------------------------------------------
(* The children, the readers and the rest of the world *)

child_exits(r) ==
    /\ child[r].life \in Living
    /\ \E code \in IF child[r].life = "running" THEN {"ok", "short", "bad"} ELSE {"bad"} :
          /\ code = "short" => Stages[r] = "ffmpeg"
          /\ child' = [child EXCEPT ![r].life = "exited", ![r].code = code]
    /\ UNCHANGED <<control, launcher, boxed, timed_out, output, world, fatal>>

\* _read_stdout, _read_stderr and _read_progress append to one bounded buffer.
append_output(r) ==
    /\ output[r] = "reading"
    /\ \E made \in {"over", "failed", "drained"} :
          /\ made = "drained" => child[r].life \in {"exited", "reaped"}
          /\ output' = [output EXCEPT ![r] = made]
    /\ UNCHANGED <<control, launcher, boxed, timed_out, child, world, fatal>>

\* Between the last look at the clock and the wait for the spawner.
Window ==
    \/ pc \in {"start", "remaining"}
    \/ Stages[stage] = "hash" /\ pc \in {"pin", "open", "launch"}

deadline_passes ==
    /\ ~deadline /\ pc # "ended" /\ (Window => DeadlineAnywhere)
    /\ deadline' = TRUE
    /\ UNCHANGED <<control, launcher, boxed, timed_out, child, output, input, cancelled, lease, fatal>>

interrupt ==
    /\ \/ ~cancelled /\ cancelled' = TRUE /\ UNCHANGED lease
       \/ lease = "held" /\ lease' \in {"lost", "unreachable"} /\ UNCHANGED cancelled
    /\ UNCHANGED <<control, launcher, boxed, timed_out, child, output, input, deadline, fatal>>

\* Someone writes to the file: its change time moves, whatever the content.
input_changes ==
    /\ input.ctime < MaxChanges
    /\ \E content \in {"claimed", "other"} :
          /\ input' = [content |-> content, ctime |-> input.ctime + 1]
          /\ child' = [r \in Runs |-> IF child[r].life \in Living
                                      THEN [child[r] EXCEPT !.seen = @ \cup {content}] ELSE child[r]]
    /\ UNCHANGED <<control, launcher, boxed, timed_out, output, deadline, cancelled, lease, fatal>>

-----------------------------------------------------------------------------

Init ==
    /\ pc = "pin" /\ stage = 1 /\ failure = "none" /\ answer = "none" /\ pinned = 0
    /\ launcher = [r \in Runs |-> "idle"] /\ boxed = {} /\ timed_out = {}
    /\ child = [r \in Runs |-> [life |-> "none", code |-> "none", seen |-> {}]]
    /\ output = [r \in Runs |-> "none"]
    /\ input \in [content : {"claimed", "other"}, ctime : {0}]
    /\ deadline = FALSE /\ cancelled = FALSE /\ lease = "held" /\ fatal = FALSE

Scanner ==
    \/ pin_regular_file \/ open_readonly \/ _check_lifecycle \/ start_spawner
    \/ _remaining_seconds \/ spawn_completed \/ spawn_times_out \/ poll \/ exited
    \/ reap_owned \/ join_readers \/ finish_scan
Spawner(r) == publish(r) \/ complete(r) \/ reap_late(r)

Next ==
    \/ Scanner \/ deadline_passes \/ interrupt \/ input_changes
    \/ \E r \in Runs : popen(r) \/ Spawner(r) \/ child_exits(r) \/ append_output(r)

Spec == Init /\ [][Next]_vars

\* Threads are scheduled, the deadline passes and the pipes of a dead child
\* are drained.  A spawn may block and a child may never end.
FairSpec ==
    /\ Spec /\ WF_vars(Scanner) /\ WF_vars(deadline_passes)
    /\ \A r \in Runs : WF_vars(Spawner(r)) /\ WF_vars(append_output(r))

-----------------------------------------------------------------------------

\* The type of every variable.
TypeOK ==
    /\ pc \in {"pin", "open", "launch", "start", "remaining", "waiting", "polling", "terminate",
               "terminating", "killing", "exited", "joining", "finished", "reopened", "ended"}
    /\ stage \in Runs /\ failure \in STRING /\ answer \in STRING /\ pinned \in 0 .. MaxChanges
    /\ launcher \in [Runs -> {"idle", "popen", "spawned", "publishing", "terminate",
                              "terminating", "killing", "done", "failed"}]
    /\ boxed \subseteq Runs /\ timed_out \subseteq Runs
    /\ child \in [Runs -> [life : {"none", "exited", "reaped"} \cup Living,
                           code : {"none", "ok", "short", "bad"}, seen : SUBSET {"claimed", "other"}]]
    /\ output \in [Runs -> {"none", "reading", "over", "failed", "drained"}]
    /\ input \in [content : {"claimed", "other"}, ctime : 0 .. MaxChanges]
    /\ {deadline, cancelled, fatal} \subseteq BOOLEAN /\ lease \in {"held", "lost", "unreachable"}

\* Once the scan has returned and its spawners are done, every child it ever
\* spawned has been reaped, or the host was told to exit (_popen_with_deadline
\* and its callers): no ffmpeg is left running behind a scan that gave up.
NoChildLeft ==
    pc = "ended" /\ (\A r \in Runs : launcher[r] \in {"idle", "done", "failed"})
        => fatal \/ \A r \in Runs : child[r].life \in {"none", "reaped"}

\* The two threads never both own a child (the ownership lock of
\* _popen_with_deadline): a second waitpid would steal the exit status, and a
\* second signal could reach a process group that reuses the number.
OneReaper ==
    \A r \in Runs : launcher[r] \in {"terminate", "terminating", "killing"} => r \notin boxed

\* A report was computed from the claimed bytes and from nothing else, by
\* children that all ran to their end and whose output was read whole
\* (scan_technical_qc_claim hashes, scans, and then compares the identity).
ReportIsOfClaimedInput ==
    answer = "report" => \A r \in Runs : /\ child[r].seen = {"claimed"} /\ child[r].code = "ok"
                                         /\ output[r] = "drained"

\* Whatever blocks, a scan ends: a hanging spawn, a child that never ends or
\* that ignores its signals (the deadline and the bounded waits).
ScanEnds == []<>(pc = "ended")

\* A child that is spawned is reaped in the end, or the host is told to exit.
ChildrenGo ==
    \A r \in Runs : []<>(child[r].life \in {"none", "reaped"} \/ fatal)
==============================================================================
