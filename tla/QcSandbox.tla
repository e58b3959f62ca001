------------------------------ MODULE QcSandbox ------------------------------
(***************************************************************************)
(* The process that scans media for the technical QC worker.  Its main     *)
(* thread accepts connections into a bounded pool of scan threads, a       *)
(* second listener answers health checks, and a signal handler, run by the *)
(* main thread between any two of its steps, stops it all.  A client sends *)
(* its request with an open file, and believes only a probe, progress that *)
(* never goes back, and a result, in that order.  What a scan does with    *)
(* its children is QcScan.                                                 *)
(***************************************************************************)
EXTENDS Naturals, Sequences, FiniteSets

CONSTANTS
    Conns,        \* the scan connections
    Checks,       \* the health connections
    Slots,        \* MAX_SCAN_CONNECTIONS
    Threads,      \* the concurrency of the pool
    MaxPending,   \* MAX_PENDING_HEALTH_CONNECTIONS
    Total,        \* the positions a scan reports
    MaxFailures,  \* accepts, submits and reaps that fail
    MaxSignals,   \* SIGTERM and SIGINT
    SignalInLock, \* whether a signal may arrive while main holds _ACTIVE_LOCK
    None

QcSandboxAssumption ==
    /\ {Slots, Threads, MaxPending, Total} \subseteq Nat \ {0}
    /\ {MaxFailures, MaxSignals} \subseteq Nat /\ SignalInLock \in BOOLEAN

VARIABLES
    main, cur,     \* the main thread, and the connection it admits
    handler,       \* the signal handler on top of it
    lock,          \* the owner of _ACTIVE_LOCK: None or "main"
    stop, fatal, status,
    free, active,  \* the slots left, and _ACTIVE_CONNECTIONS
    thread,        \* the scan threads, by connection
    wire,          \* the connections: the server's end, the request, the replies
    client,        \* the scanning clients: where they are and what they accepted
    check,         \* the health connections
    failures, signals

server == <<main, cur, handler, lock, stop, fatal, status, free, active>>
vars == <<server, thread, wire, client, check, failures, signals>>

Running(c) == thread[c] \notin {"none", "queued", "gone"}
Step(c, label) == thread' = [thread EXCEPT ![c] = label]
Fails == failures < MaxFailures /\ failures' = failures + 1

\* A send fails once either end of the connection is closed.
Sendable(c) == wire[c].server = "open" /\ client[c].pc # "done"
Send(c, kind, at) == wire' = [wire EXCEPT ![c].down = Append(@, [kind |-> kind, at |-> at])]

\* The peer reads what was sent, then the end of the stream.
Shut(conns) ==
    wire' = [c \in Conns |-> IF c \in conns THEN [wire[c] EXCEPT !.server = "shut"] ELSE wire[c]]

\* Any other thread takes _ACTIVE_LOCK for one step.
_shutdown_scan_connections == lock = None /\ Shut(active)

_mark_fatal == fatal' = TRUE /\ stop' = TRUE /\ status' = "fatal"

-----------------------------------------------------------------------------
(* serve_forever *)

Main(from, to) == main = from /\ handler = "off" /\ main' = to

\* The flag is read between two accepts, so one more may follow it.
loop ==
    /\ Main("top", IF stop THEN "leaving" ELSE "accepting")
    /\ UNCHANGED <<cur, handler, lock, stop, fatal, status, free, active, thread, wire, client, check,
                   failures, signals>>

accept(c) ==
    /\ wire[c].server = "backlog" /\ Main("accepting", "admitting") /\ cur' = c
    /\ wire' = [wire EXCEPT ![c].server = "open"]
    /\ UNCHANGED <<handler, lock, stop, fatal, status, free, active, thread, client, check,
                   failures, signals>>

accept_times_out ==
    /\ Main("accepting", "top") /\ \A c \in Conns : wire[c].server # "backlog"
    /\ UNCHANGED <<cur, handler, lock, stop, fatal, status, free, active, thread, wire, client, check,
                   failures, signals>>

accept_fails ==
    /\ Main("accepting", "leaving") /\ Fails
    /\ IF stop THEN UNCHANGED <<stop, fatal, status>> ELSE _mark_fatal
    /\ UNCHANGED <<cur, handler, lock, free, active, thread, wire, client, check, signals>>

\* A connection beyond the slots is closed at once.
admit ==
    /\ Main("admitting", IF free = 0 THEN "top" ELSE "adding")
    /\ IF free = 0 THEN Shut({cur}) /\ UNCHANGED free ELSE free' = free - 1 /\ UNCHANGED wire
    /\ UNCHANGED <<cur, handler, lock, stop, fatal, status, active, thread, client, check,
                   failures, signals>>

\* The main thread holds the lock over several of its steps.
take_lock ==
    /\ lock = None /\ lock' = "main"
    /\ \/ Main("adding", "added") \/ Main("undoing", "undone") \/ Main("leaving", "shutting")
    /\ UNCHANGED <<cur, handler, stop, fatal, status, free, active, thread, wire, client, check,
                   failures, signals>>

add ==
    /\ Main("added", "submitting") /\ lock' = None
    /\ active' = active \cup {cur}
    /\ UNCHANGED <<cur, handler, stop, fatal, status, free, thread, wire, client, check,
                   failures, signals>>

submit ==
    /\ \/ Main("submitting", "top") /\ Step(cur, "queued") /\ UNCHANGED failures
       \/ Main("submitting", "undoing") /\ Fails /\ UNCHANGED thread
    /\ UNCHANGED <<cur, handler, lock, stop, fatal, status, free, active, wire, client, check, signals>>

undo_submit_kept ==
    /\ Main("undone", "leaving") /\ lock' = None
    /\ active' = active \ {cur} /\ Shut({cur})
    /\ IF stop THEN UNCHANGED <<stop, fatal, status>> ELSE _mark_fatal
    /\ UNCHANGED <<cur, handler, free, thread, client, check, failures, signals>>
undo_submit ==
    /\ Main("undone", "leaving") /\ lock' = None
    /\ active' = active \ {cur} /\ Shut({cur}) /\ free' = free + 1
    /\ IF stop THEN UNCHANGED <<stop, fatal, status>> ELSE _mark_fatal
    /\ UNCHANGED <<cur, handler, thread, client, check, failures, signals>>

leave ==
    /\ Main("shutting", "draining") /\ lock' = None
    /\ stop' = TRUE /\ Shut(active)
    /\ UNCHANGED <<cur, handler, fatal, status, free, active, thread, client, check, failures, signals>>

\* The pool is waited for, both listeners are closed, and the state is written.
end_service ==
    /\ Main("draining", "ended")
    /\ \A c \in Conns : thread[c] \in {"none", "gone"}
    /\ status' = IF fatal THEN "fatal" ELSE "stopped"
    /\ Shut({c \in Conns : wire[c].server = "backlog"})
    /\ check' = [h \in Checks |-> IF check[h] \in {"backlog", "pending"} THEN "closed" ELSE check[h]]
    /\ UNCHANGED <<cur, handler, lock, stop, fatal, free, active, thread, client, failures, signals>>

-----------------------------------------------------------------------------
(* The signal handler *)

signal ==
    /\ signals < MaxSignals /\ signals' = signals + 1
    /\ handler = "off" /\ main # "ended" /\ (lock = "main" => SignalInLock)
    /\ handler' = "stopping"
    /\ UNCHANGED <<main, cur, lock, stop, fatal, status, free, active, thread, wire, client, check,
                   failures>>

set_stop_over_fatal ==
    /\ handler = "stopping" /\ handler' = "shutting"
    /\ stop' = TRUE /\ status' = "stopping"
    /\ UNCHANGED <<main, cur, lock, fatal, free, active, thread, wire, client, check, failures, signals>>
set_stop ==
    /\ handler = "stopping" /\ handler' = "shutting"
    /\ stop' = TRUE /\ status' = IF fatal THEN status ELSE "stopping"
    /\ UNCHANGED <<main, cur, lock, fatal, free, active, thread, wire, client, check, failures, signals>>

handler_shuts ==
    /\ handler = "shutting" /\ handler' = "off"
    /\ _shutdown_scan_connections
    /\ UNCHANGED <<main, cur, lock, stop, fatal, status, free, active, thread, client, check,
                   failures, signals>>

-----------------------------------------------------------------------------
(* The scan threads: _run_scan_connection and _handle_connection *)

\* The deadline of the request runs from the accept, so it may have passed.
start_scan_lost(c) ==
    /\ thread[c] = "queued" /\ Cardinality({b \in Conns : Running(b)}) < Threads
    /\ Step(c, "receiving") \/ Step(c, "gone")
    /\ UNCHANGED <<server, wire, client, check, failures, signals>>
start_scan(c) ==
    /\ thread[c] = "queued" /\ Cardinality({b \in Conns : Running(b)}) < Threads
    /\ Step(c, "receiving") \/ Step(c, "closing")
    /\ UNCHANGED <<server, wire, client, check, failures, signals>>

\* A request that is late is dropped; one that is cut off is refused.
_receive_request_and_fd(c) ==
    /\ thread[c] = "receiving"
    /\ \/ wire[c].request /\ wire[c].server = "open" /\ Step(c, "probing")
       \/ ~wire[c].request /\ Step(c, "closing")
       \/ ~Sendable(c) /\ Step(c, "failing")
    /\ UNCHANGED <<server, wire, client, check, failures, signals>>

probe_media(c) ==
    /\ thread[c] = "probing"
    /\ \/ Sendable(c) /\ Send(c, "probe", 0) /\ Step(c, "scanning")
       \/ ~Sendable(c) /\ Step(c, "closing") /\ UNCHANGED wire
    /\ UNCHANGED <<server, client, check, failures, signals>>

\* The progress reader sends a position beyond the last one it reported.
Reported(c) == wire[c].at
report_progress(c) ==
    /\ thread[c] = "scanning" /\ Reported(c) < Total
    /\ \E at \in (Reported(c) + 1) .. Total :
          IF Sendable(c)
          THEN /\ wire' = [wire EXCEPT ![c].down = Append(@, [kind |-> "progress", at |-> at]),
                                       ![c].at = at]
               /\ UNCHANGED thread
          ELSE Step(c, "failing") /\ UNCHANGED wire
    /\ UNCHANGED <<server, client, check, failures, signals>>

\* The scan is complete: what the reader has not reported is reported now.
finish_scan(c) ==
    /\ thread[c] = "scanning"
    /\ CASE Reported(c) = Total -> Step(c, "replying") /\ UNCHANGED wire
         [] Reported(c) < Total /\ Sendable(c) -> Send(c, "progress", Total) /\ Step(c, "replying")
         [] OTHER -> Step(c, "closing") /\ UNCHANGED wire
    /\ UNCHANGED <<server, client, check, failures, signals>>

reply(c) ==
    /\ thread[c] = "replying" /\ Step(c, "closing")
    /\ wire' = IF ~Sendable(c) THEN wire
               ELSE [wire EXCEPT ![c].down = Append(@, [kind |-> "result", at |-> Total]),
                                 ![c].replied = TRUE]
    /\ UNCHANGED <<server, client, check, failures, signals>>

\* Any error of the scan, the cancellation of one whose client is gone included.
scan_fails(c) ==
    /\ thread[c] \in {"probing", "scanning"} /\ Step(c, "failing")
    /\ UNCHANGED <<server, wire, client, check, failures, signals>>

answer_error(c) ==
    /\ thread[c] = "failing" /\ Step(c, "closing")
    /\ IF Sendable(c) THEN Send(c, "error", 0) ELSE UNCHANGED wire
    /\ UNCHANGED <<server, client, check, failures, signals>>

\* A child could not be reaped.
scan_is_fatal(c) ==
    /\ thread[c] \in {"probing", "scanning"} /\ Fails /\ _mark_fatal
    /\ Step(c, "shutting")
    /\ UNCHANGED <<main, cur, handler, lock, free, active, wire, client, check, signals>>

shut_connections(c) ==
    /\ thread[c] = "shutting" /\ _shutdown_scan_connections /\ Step(c, "closing")
    /\ UNCHANGED <<server, client, check, failures, signals>>

close_connection(c) ==
    /\ thread[c] = "closing" /\ Shut({c}) /\ Step(c, "discarding")
    /\ UNCHANGED <<server, client, check, failures, signals>>

discard(c) ==
    /\ thread[c] = "discarding" /\ lock = None
    /\ active' = active \ {c} /\ Step(c, "releasing")
    /\ UNCHANGED <<main, cur, handler, lock, stop, fatal, status, free, wire, client, check,
                   failures, signals>>

release(c) ==
    /\ thread[c] = "releasing" /\ free' = free + 1 /\ Step(c, "gone")
    /\ UNCHANGED <<main, cur, handler, lock, stop, fatal, status, active, wire, client, check,
                   failures, signals>>

\* A child of a spawn that timed out could not be reaped by its spawner.
late_fatal ==
    /\ main \notin {"draining", "ended"} /\ Fails
    /\ _mark_fatal /\ _shutdown_scan_connections
    /\ UNCHANGED <<main, cur, handler, lock, free, active, thread, client, check, signals>>

-----------------------------------------------------------------------------
(* The health listener: _serve_health_connections *)

health_connects(h) ==
    /\ check[h] = "none" /\ main # "ended"
    /\ check' = [check EXCEPT ![h] = "backlog"]
    /\ UNCHANGED <<server, thread, wire, client, failures, signals>>

health_accepts(h) ==
    /\ check[h] = "backlog" /\ ~stop
    /\ check' = [check EXCEPT ![h] = IF Cardinality({g \in Checks : check[g] = "pending"}) < MaxPending
                                     THEN "pending" ELSE "closed"]
    /\ UNCHANGED <<server, thread, wire, client, failures, signals>>

health_answers(h) ==
    /\ check[h] = "pending" /\ ~stop
    /\ check' = [check EXCEPT ![h] = IF status = "ready" THEN "ready" ELSE "not_ready"]
    /\ UNCHANGED <<server, thread, wire, client, failures, signals>>

\* A check that sends nothing is closed at its deadline, all of them at the end.
health_expires(h) ==
    /\ check[h] = "pending"
    /\ check' = [check EXCEPT ![h] = "closed"]
    /\ UNCHANGED <<server, thread, wire, client, failures, signals>>

health_fails ==
    /\ ~stop /\ Fails /\ _mark_fatal /\ _shutdown_scan_connections
    /\ check' = [h \in Checks |-> IF check[h] = "pending" THEN "closed" ELSE check[h]]
    /\ UNCHANGED <<main, cur, handler, lock, free, active, thread, client, signals>>

-----------------------------------------------------------------------------
(* scan_via_sandbox *)

Client(c, pc, answer) == client' = [client EXCEPT ![c].pc = pc, ![c].answer = answer]

connect(c) ==
    /\ client[c].pc = "idle"
    /\ IF main = "ended"
       THEN Client(c, "done", "UNAVAILABLE") /\ UNCHANGED wire
       ELSE Client(c, "connected", "none") /\ wire' = [wire EXCEPT ![c].server = "backlog"]
    /\ UNCHANGED <<server, thread, check, failures, signals>>

send_request(c) ==
    /\ client[c].pc = "connected"
    /\ IF wire[c].server = "shut"
       THEN Client(c, "done", "UNAVAILABLE") /\ UNCHANGED wire
       ELSE Client(c, "waiting", "none") /\ wire' = [wire EXCEPT ![c].request = TRUE]
    /\ UNCHANGED <<server, thread, check, failures, signals>>

\* One message, checked against those accepted before it.
Accepted(c, m) ==
    CASE m.kind = "probe" -> ~client[c].probed
      [] m.kind = "progress" -> client[c].probed /\ m.at >= client[c].last
      [] m.kind = "result" -> client[c].probed /\ client[c].last > 0
      [] OTHER -> TRUE

receive(c) ==
    /\ client[c].pc = "waiting" /\ wire[c].down # <<>>
    /\ wire' = [wire EXCEPT ![c].down = Tail(@)]
    /\ LET m == Head(wire[c].down)
       IN CASE ~Accepted(c, m) -> Client(c, "done", "PROTOCOL_INVALID")
            [] Accepted(c, m) /\ m.kind \in {"result", "error"} -> Client(c, "done", m.kind)
            [] OTHER -> client' = [client EXCEPT ![c].probed = TRUE, ![c].last = m.at]
    /\ UNCHANGED <<server, thread, check, failures, signals>>

end_of_stream(c) ==
    /\ client[c].pc = "waiting" /\ wire[c].down = <<>> /\ wire[c].server = "shut"
    /\ Client(c, "done", IF client[c].probed THEN "PROTOCOL_INVALID" ELSE "UNAVAILABLE")
    /\ UNCHANGED <<server, thread, wire, check, failures, signals>>

\* Its deadline, its cancellation or the loss of its lease.
give_up(c) ==
    /\ client[c].pc = "waiting" /\ Client(c, "done", "gave_up")
    /\ UNCHANGED <<server, thread, wire, check, failures, signals>>

-----------------------------------------------------------------------------

Init ==
    /\ main = "top" /\ cur = None /\ handler = "off" /\ lock = None
    /\ stop = FALSE /\ fatal = FALSE /\ status = "ready" /\ free = Slots /\ active = {}
    /\ thread = [c \in Conns |-> "none"]
    /\ wire = [c \in Conns |-> [server |-> "none", request |-> FALSE, down |-> <<>>,
                                at |-> 0, replied |-> FALSE]]
    /\ client = [c \in Conns |-> [pc |-> "idle", probed |-> FALSE, last |-> 0, answer |-> "none"]]
    /\ check = [h \in Checks |-> "none"] /\ failures = 0 /\ signals = 0

serve_forever ==
    \/ loop \/ (\E c \in Conns : accept(c)) \/ accept_times_out \/ accept_fails \/ admit
    \/ take_lock \/ add \/ submit \/ undo_submit \/ leave \/ end_service
_handle_connection(c) ==
    \/ start_scan(c) \/ _receive_request_and_fd(c) \/ probe_media(c) \/ report_progress(c)
    \/ finish_scan(c) \/ reply(c) \/ scan_fails(c) \/ answer_error(c) \/ scan_is_fatal(c)
    \/ shut_connections(c) \/ close_connection(c) \/ discard(c) \/ release(c)
health(h) == health_accepts(h) \/ health_expires(h)
scan_via_sandbox(c) == send_request(c) \/ receive(c) \/ end_of_stream(c)

Next ==
    \/ serve_forever \/ signal \/ set_stop \/ handler_shuts \/ late_fatal \/ health_fails
    \/ \E c \in Conns : _handle_connection(c) \/ connect(c) \/ scan_via_sandbox(c) \/ give_up(c)
    \/ \E h \in Checks : health_connects(h) \/ health(h) \/ health_answers(h)

Spec == Init /\ [][Next]_vars

\* The threads and the handler are scheduled; a scan ends, as QcScan shows.  A
\* check need not send its request.
FairSpec ==
    /\ Spec /\ WF_vars(serve_forever) /\ WF_vars(set_stop \/ handler_shuts)
    /\ \A c \in Conns : WF_vars(_handle_connection(c)) /\ WF_vars(scan_via_sandbox(c))
    /\ \A h \in Checks : WF_vars(health(h))

-----------------------------------------------------------------------------

\* The type of every variable.
TypeOK ==
    /\ main \in {"top", "accepting", "admitting", "adding", "added", "submitting", "undoing",
                 "undone", "leaving", "shutting", "draining", "ended"}
    /\ cur \in Conns \cup {None} /\ handler \in {"off", "stopping", "shutting"}
    /\ lock \in {None, "main"} /\ {stop, fatal} \subseteq BOOLEAN
    /\ status \in {"ready", "stopping", "stopped", "fatal"}
    /\ free \in 0 .. Slots /\ active \subseteq Conns
    /\ thread \in [Conns -> {"none", "queued", "receiving", "probing", "scanning", "replying",
                             "failing", "shutting", "closing", "discarding", "releasing", "gone"}]
    /\ \A c \in Conns : /\ wire[c].server \in {"none", "backlog", "open", "shut"}
                        /\ wire[c].at \in 0 .. Total /\ client[c].last \in 0 .. Total
    /\ check \in [Checks -> {"none", "backlog", "pending", "ready", "not_ready", "closed"}]

\* No slot is lost or given back twice, on any way out of a connection
\* (serve_forever takes one, _run_scan_connection or a failed submit returns
\* it): a lost slot would in the end refuse every scan.
SlotsAreKept ==
    free + Cardinality({c \in Conns : \/ thread[c] \notin {"none", "gone"}
                                      \/ c = cur /\ main \in {"adding", "added", "submitting",
                                                              "undoing", "undone"}}) = Slots

\* A scan whose result was sent is believed: whatever the reader had reported,
\* however the service stops meanwhile, the client returns the result unless it
\* gives up itself (_default_handler against the checks of scan_via_sandbox).
FinishedScansAreBelieved ==
    \A c \in Conns : wire[c].replied => client[c].answer \in {"none", "result", "gave_up"}

\* A service that met a fatal error never tells otherwise: no later signal, stop
\* or end of the service overwrites the state (_mark_fatal, stop, serve_forever).
FatalIsKept == fatal => status = "fatal"

\* A service told to stop, by a signal or by an error, ends (serve_forever).
StopEnds == []<>(~stop \/ main = "ended")

\* Every connection the service is given is closed by it in the end, so no
\* client waits for its own deadline (_run_scan_connection, the listeners).
ConnectionsEnd == \A c \in Conns : []<>(wire[c].server \in {"none", "shut"})

==============================================================================
