---------------------------- MODULE RuntimeFence -----------------------------
(***************************************************************************)
(* One backend owns the database and its managed roots at a time.  A       *)
(* backend holds the writer lock and the lock of its roots on a connection *)
(* of its own; workers hold the fence in shared mode while they work; and  *)
(* every commit takes the fence in shared mode first.  A new backend needs *)
(* the fence exclusively for a moment.  Connections break at any time and  *)
(* PostgreSQL drops their advisory locks.                                  *)
(***************************************************************************)
EXTENDS Naturals

CONSTANTS
    Backends, Workers,
    RootOf,      \* the managed roots each process is configured with
    Txns,        \* transactions that may be open at the same time
    OwnerOf,     \* the process of each transaction
    MaxEras,     \* acquisitions of the writer lock
    MaxBreaks,   \* connections that break
    None

\* Processes and transactions are told apart, and every transaction has the
\* process that opened it.
FenceConstants ==
    /\ Backends \cap Workers = {}
    /\ (Backends \cup Workers) \cap Txns = {}
    /\ None \notin Backends \cup Workers \cup Txns
    /\ OwnerOf \in [Txns -> Backends \cup Workers]
    /\ MaxEras \in Nat /\ MaxBreaks \in Nat

VARIABLES
    writer,    \* who holds the writer lock
    contract,  \* who holds the lock of each pair of roots
    exclusive, \* who holds the fence exclusively
    shared,    \* processes and transactions that hold it in shared mode
    proc,      \* what each process does with its lock or lease
    txn,       \* what each transaction does
    era,       \* how many times the writer lock was acquired
    eraOf,     \* under which acquisition each process works
    breaks

vars == <<writer, contract, exclusive, shared, proc, txn, era, eraOf, breaks>>

Processes == Backends \cup Workers
Roots == {RootOf[p] : p \in Processes}

-----------------------------------------------------------------------------
(* acquire_runtime_writer_lock: three locks are tried in turn and the fence *)
(* is given back; whatever fails, all is unlocked.                          *)

acquire_fence(b) ==
    /\ proc[b] = "down" /\ era < MaxEras
    /\ exclusive = None /\ shared = {}
    /\ exclusive' = b /\ proc' = [proc EXCEPT ![b] = "fenced"]
    /\ UNCHANGED <<writer, contract, shared, txn, era, eraOf, breaks>>

acquire_writer(b) ==
    /\ proc[b] = "fenced"
    /\ IF writer = None
       THEN writer' = b /\ proc' = [proc EXCEPT ![b] = "writer"] /\ UNCHANGED exclusive
       ELSE exclusive' = None /\ proc' = [proc EXCEPT ![b] = "down"] /\ UNCHANGED writer
    /\ UNCHANGED <<contract, shared, txn, era, eraOf, breaks>>

acquire_contract(b) ==
    /\ proc[b] = "writer"
    /\ IF contract[RootOf[b]] = None
       THEN /\ contract' = [contract EXCEPT ![RootOf[b]] = b]
            /\ proc' = [proc EXCEPT ![b] = "both"] /\ UNCHANGED <<writer, exclusive>>
       ELSE /\ writer' = None /\ exclusive' = None
            /\ proc' = [proc EXCEPT ![b] = "down"] /\ UNCHANGED contract
    /\ UNCHANGED <<shared, txn, era, eraOf, breaks>>

release_fence(b) ==
    /\ proc[b] = "both"
    /\ exclusive' = None /\ proc' = [proc EXCEPT ![b] = "held"]
    /\ era' = era + 1 /\ eraOf' = [eraOf EXCEPT ![b] = era + 1]
    /\ UNCHANGED <<writer, contract, shared, txn, breaks>>

\* RuntimeWriterLock.release: from the first assignment on, no assertion of the
\* lock passes.
release_begins(b) ==
    /\ proc[b] = "held"
    /\ proc' = [proc EXCEPT ![b] = "released"]
    /\ UNCHANGED <<writer, contract, exclusive, shared, txn, era, eraOf, breaks>>

Unlocked(b) ==
    /\ writer' = IF writer = b THEN None ELSE writer
    /\ contract' = [r \in Roots |-> IF contract[r] = b THEN None ELSE contract[r]]

release_ends(b) ==
    /\ proc[b] = "released" /\ Unlocked(b)
    /\ proc' = [proc EXCEPT ![b] = "stopped"]
    /\ UNCHANGED <<exclusive, shared, txn, era, eraOf, breaks>>

\* The process is restarted once its transactions are gone.
restart(b) ==
    /\ proc[b] = "stopped" /\ \A t \in Txns : OwnerOf[t] = b => txn[t] = "idle"
    /\ proc' = [proc EXCEPT ![b] = "down"]
    /\ UNCHANGED <<writer, contract, exclusive, shared, txn, era, eraOf, breaks>>

-----------------------------------------------------------------------------
(* acquire_runtime_participant_lease: the fence first, then the owner.      *)

lease_fence(w) ==
    /\ proc[w] = "down" /\ exclusive = None
    /\ shared' = shared \cup {w} /\ proc' = [proc EXCEPT ![w] = "fenced"]
    /\ UNCHANGED <<writer, contract, exclusive, txn, era, eraOf, breaks>>

\* One backend holds both the writer lock and the lock of these roots.
OwnerIsActive(w) == writer # None /\ contract[RootOf[w]] = writer

lease_owner(w) ==
    /\ proc[w] = "fenced"
    /\ IF OwnerIsActive(w)
       THEN /\ proc' = [proc EXCEPT ![w] = "held"] /\ eraOf' = [eraOf EXCEPT ![w] = era]
            /\ UNCHANGED shared
       ELSE /\ proc' = [proc EXCEPT ![w] = "down"] /\ shared' = shared \ {w}
            /\ UNCHANGED eraOf
    /\ UNCHANGED <<writer, contract, exclusive, txn, era, breaks>>

lease_release(w) ==
    /\ proc[w] \in {"held", "stopped"}
    /\ \A t \in Txns : OwnerOf[t] = w => txn[t] = "idle"
    /\ shared' = shared \ {w} /\ proc' = [proc EXCEPT ![w] = "down"]
    /\ UNCHANGED <<writer, contract, exclusive, txn, era, eraOf, breaks>>

-----------------------------------------------------------------------------
(* A transaction: bound to the lock or lease of its process, fenced by the  *)
(* hook before the commit.                                                  *)

\* assert_held: not released, the connection is the same and holds its locks.
writer_assert_held(b) == proc[b] = "held" /\ writer = b /\ contract[RootOf[b]] = b
lease_assert_held(w) == proc[w] = "held" /\ w \in shared
assert_held(p) == IF p \in Backends THEN writer_assert_held(p) ELSE lease_assert_held(p)

begin(t) ==
    /\ txn[t] = "idle" /\ assert_held(OwnerOf[t])
    /\ txn' = [txn EXCEPT ![t] = "open"]
    /\ UNCHANGED <<writer, contract, exclusive, shared, proc, era, eraOf, breaks>>

\* A request waits for the fence, a worker gives up when it is taken.
fence_request_transaction_unfenced(t) ==
    /\ txn[t] = "open" /\ exclusive = None
    /\ txn' = [txn EXCEPT ![t] = "fenced"]
    /\ UNCHANGED <<writer, contract, exclusive, shared, proc, era, eraOf, breaks>>

fence_request_transaction(t) ==
    /\ txn[t] = "open" /\ exclusive = None
    /\ shared' = shared \cup {t} /\ txn' = [txn EXCEPT ![t] = "fenced"]
    /\ UNCHANGED <<writer, contract, exclusive, proc, era, eraOf, breaks>>

assert_transaction_held(t) ==
    /\ txn[t] = "fenced" /\ assert_held(OwnerOf[t])
    /\ txn' = [txn EXCEPT ![t] = "committing"]
    /\ UNCHANGED <<writer, contract, exclusive, shared, proc, era, eraOf, breaks>>

commit(t) ==
    /\ txn[t] = "committing"
    /\ txn' = [txn EXCEPT ![t] = "idle"] /\ shared' = shared \ {t}
    /\ UNCHANGED <<writer, contract, exclusive, proc, era, eraOf, breaks>>

\* RuntimeWriterFenceUnavailable, or any other failure before the commit.
rollback(t) ==
    /\ txn[t] \in {"open", "fenced"}
    /\ txn' = [txn EXCEPT ![t] = "idle"] /\ shared' = shared \ {t}
    /\ UNCHANGED <<writer, contract, exclusive, proc, era, eraOf, breaks>>

-----------------------------------------------------------------------------

\* The connection of the lock breaks under a process that goes on working; a
\* backend finds out when it next asserts its lock.
connection_breaks(p) ==
    /\ proc[p] \notin {"down", "stopped"} /\ breaks < MaxBreaks
    /\ breaks' = breaks + 1
    /\ Unlocked(p)
    /\ exclusive' = IF exclusive = p THEN None ELSE exclusive
    /\ shared' = shared \ {p}
    /\ proc' = [proc EXCEPT ![p] = IF @ = "held" THEN "held"
                                   ELSE IF @ = "released" THEN "stopped" ELSE "down"]
    /\ UNCHANGED <<txn, era, eraOf>>

\* It is stopped at the latest by its readiness probe.
broken_stops(p) ==
    /\ proc[p] = "held" /\ ~assert_held(p)
    /\ proc' = [proc EXCEPT ![p] = "stopped"]
    /\ UNCHANGED <<writer, contract, exclusive, shared, txn, era, eraOf, breaks>>

Init ==
    /\ writer = None /\ contract = [r \in Roots |-> None]
    /\ exclusive = None /\ shared = {}
    /\ proc = [p \in Processes |-> "down"] /\ txn = [t \in Txns |-> "idle"]
    /\ era = 0 /\ eraOf = [p \in Processes |-> 0] /\ breaks = 0

BackendStep(b) ==
    \/ acquire_fence(b) \/ acquire_writer(b) \/ acquire_contract(b) \/ release_fence(b)
    \/ release_ends(b) \/ restart(b) \/ broken_stops(b)
WorkerStep(w) == lease_owner(w) \/ lease_release(w) \/ broken_stops(w)
TxnStep(t) ==
    fence_request_transaction(t) \/ assert_transaction_held(t) \/ commit(t) \/ rollback(t)

Next ==
    \/ \E b \in Backends : BackendStep(b) \/ release_begins(b)
    \/ \E w \in Workers : WorkerStep(w) \/ lease_fence(w)
    \/ \E t \in Txns : begin(t) \/ TxnStep(t)
    \/ \E p \in Processes : connection_breaks(p)

Spec == Init /\ [][Next]_vars

\* Backends are started again until one succeeds; transactions end; workers
\* end their cycle; and, as a worker without an owner exits and is restarted,
\* there are moments when no worker is looking for the owner.
FairSpec ==
    /\ Spec
    /\ []<>(\A w \in Workers : proc[w] # "fenced")
    /\ \A b \in Backends : SF_vars(acquire_fence(b))
    /\ \A b \in Backends : WF_vars(BackendStep(b))
    /\ \A w \in Workers : WF_vars(WorkerStep(w)) /\ SF_vars(lease_release(w))
    /\ \A t \in Txns : WF_vars(TxnStep(t))

-----------------------------------------------------------------------------

TypeOK ==
    /\ writer \in Backends \cup {None} /\ exclusive \in Backends \cup {None}
    /\ \A r \in Roots : contract[r] \in Backends \cup {None}
    /\ shared \subseteq Workers \cup Txns
    /\ exclusive # None => shared = {}
    /\ era \in 0..MaxEras /\ breaks \in 0..MaxBreaks

\* No transaction of a process commits after another backend took over from
\* the one it works under, though its own lock may have been lost unnoticed.
CommitsAreFenced ==
    \A t \in Txns : txn[t] = "committing" => eraOf[OwnerOf[t]] = era

\* Whoever may commit works on the roots of the backend that serves.
OneStorageContract ==
    \A t \in Txns, b \in Backends :
       (txn[t] = "committing" /\ writer = b /\ proc[b] = "held") =>
          RootOf[OwnerOf[t]] = RootOf[b]

\* When the owner is lost, a backend takes over in the end: workers can start
\* only under an owner, so that the fence drains.
OwnerReturns == []<>(writer # None \/ era = MaxEras)
=============================================================================
