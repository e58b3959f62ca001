-------------------------- MODULE RuntimeFenceProofs --------------------------
(***************************************************************************)
(* Commits are fenced: for any number of backends, workers and open        *)
(* transactions, whatever connections break.  The argument is about the    *)
(* fence: a transaction that may commit holds it in shared mode, whoever   *)
(* becomes the owner holds it exclusively, and an owner counts a new era   *)
(* only at the moment it gives the exclusive fence back.                   *)
(***************************************************************************)
EXTENDS RuntimeFence, TLAPS

USE Zenon

(*-------------------------- the inductive invariant ----------------------*)

ProcStates == {"down", "fenced", "writer", "both", "held", "released", "stopped"}
TxnStates == {"idle", "open", "fenced", "committing"}

TypeInv ==
    /\ writer \in Backends \cup {None}
    /\ exclusive \in Backends \cup {None}
    /\ contract \in [Roots -> Backends \cup {None}]
    /\ shared \in SUBSET (Workers \cup Txns)
    /\ proc \in [Processes -> ProcStates]
    /\ txn \in [Txns -> TxnStates]
    /\ era \in 0..MaxEras
    /\ eraOf \in [Processes -> Nat]
    /\ breaks \in 0..MaxBreaks

\* The modes of the fence exclude one another.
Exclusion == exclusive # None => shared = {}

\* A backend that is on its way to the lock holds the fence, and an era is
\* left for it; from the second step on it holds the writer lock too.
Candidates ==
    \A b \in Backends :
       /\ proc[b] \in {"fenced", "writer", "both"} => exclusive = b /\ era < MaxEras
       /\ proc[b] \in {"writer", "both"} => writer = b

\* What passes assert_held belongs to the present era.
HeldIsCurrent ==
    /\ \A b \in Backends : proc[b] = "held" /\ writer = b => eraOf[b] = era
    /\ \A w \in Workers : proc[w] = "held" /\ w \in shared => eraOf[w] = era

\* A transaction past the hook holds the fence.
FencedIsShared == \A t \in Txns : txn[t] \in {"fenced", "committing"} => t \in shared

\* A pair of roots is locked by a backend that is configured with it.
ContractsMatch == \A r \in Roots : contract[r] # None => RootOf[contract[r]] = r

\* A worker whose lease holds works on the roots of the backend that serves.
LeasesMatch ==
    \A w \in Workers, b \in Backends :
       proc[w] = "held" /\ w \in shared /\ writer = b /\ proc[b] = "held" =>
          RootOf[w] = RootOf[b]

FenceInv ==
    /\ TypeInv
    /\ Exclusion
    /\ Candidates
    /\ HeldIsCurrent
    /\ FencedIsShared
    /\ CommitsAreFenced
    /\ ContractsMatch
    /\ LeasesMatch
    /\ OneStorageContract

(*------------------------------ preservation ------------------------------*)

\* acquire_runtime_writer_lock.
LEMMA AcquisitionKeeps ==
    ASSUME FenceConstants, FenceInv, NEW b \in Backends,
           \/ acquire_fence(b) \/ acquire_writer(b) \/ acquire_contract(b)
           \/ release_fence(b)
    PROVE  FenceInv'
  <1>1. CASE acquire_fence(b)
    <2>1. TypeInv'
      BY <1>1, SMTT(10)
      DEF FenceInv, TypeInv, Processes, acquire_fence, ProcStates
    <2>2. Exclusion' /\ Candidates' /\ HeldIsCurrent'
      BY <1>1, SMTT(10)
      DEF FenceInv, Exclusion, acquire_fence, Candidates, FenceConstants,
          HeldIsCurrent
    <2>3. FencedIsShared' /\ CommitsAreFenced' /\ ContractsMatch'
      BY <1>1, SMTT(10)
      DEF FenceInv, FencedIsShared, CommitsAreFenced, ContractsMatch,
          acquire_fence
    <2>4. LeasesMatch' /\ OneStorageContract'
      BY <1>1, SMTT(10)
      DEF FenceInv, LeasesMatch, acquire_fence, OneStorageContract
    <2> QED
      BY <2>1, <2>2, <2>3, <2>4
      DEF FenceInv
  <1>2. CASE acquire_writer(b)
    <2>1. TypeInv'
      BY <1>2, SMTT(10)
      DEF FenceInv, TypeInv, acquire_writer, ProcStates
    <2>2. Exclusion' /\ Candidates' /\ HeldIsCurrent'
      BY <1>2, SMTT(10)
      DEF FenceInv, Exclusion, acquire_writer, TypeInv, Processes, Candidates,
          HeldIsCurrent
    <2>3. FencedIsShared' /\ CommitsAreFenced' /\ ContractsMatch'
      BY <1>2, SMTT(10)
      DEF FenceInv, FencedIsShared, CommitsAreFenced, ContractsMatch,
          acquire_writer
    <2>4. LeasesMatch' /\ OneStorageContract'
      BY <1>2, SMTT(10)
      DEF FenceInv, TypeInv, Processes, LeasesMatch, acquire_writer,
          OneStorageContract
    <2> QED
      BY <2>1, <2>2, <2>3, <2>4
      DEF FenceInv
  <1>3. CASE acquire_contract(b)
    <2>1. TypeInv'
      BY <1>3, SMTT(10)
      DEF FenceInv, TypeInv, acquire_contract, ProcStates
    <2>2. LeasesMatch'
      BY <1>3, SMTT(10)
      DEF FenceInv, TypeInv, LeasesMatch, acquire_contract, Exclusion,
          Candidates
    <2>3. OneStorageContract'
      BY <1>3, SMTT(10)
      DEF FenceInv, TypeInv, OneStorageContract, acquire_contract, Exclusion,
          Candidates, FencedIsShared
    <2>4. Exclusion' /\ Candidates' /\ HeldIsCurrent'
      BY <1>3, SMTT(10)
      DEF FenceInv, Exclusion, acquire_contract, TypeInv, Processes,
          Candidates, HeldIsCurrent, FenceConstants
    <2>5. FencedIsShared' /\ CommitsAreFenced' /\ ContractsMatch'
      BY <1>3, SMTT(10)
      DEF FenceInv, TypeInv, ContractsMatch, acquire_contract, FencedIsShared,
          CommitsAreFenced
    <2> QED
      BY <2>1, <2>2, <2>3, <2>4, <2>5
      DEF FenceInv
  <1>4. CASE release_fence(b)
    <2>1. TypeInv'
      BY <1>4, SMTT(10)
      DEF FenceInv, TypeInv, Processes, release_fence, FenceConstants,
          Candidates, ProcStates
    <2>2. HeldIsCurrent'
      BY <1>4, SMTT(10)
      DEF FenceInv, TypeInv, HeldIsCurrent, release_fence, FenceConstants,
          Exclusion, Candidates
    <2>3. CommitsAreFenced'
      BY <1>4, SMTT(10)
      DEF FenceInv, CommitsAreFenced, release_fence, FenceConstants,
          Exclusion, Candidates, FencedIsShared
    <2>4. LeasesMatch'
      BY <1>4, SMTT(10)
      DEF FenceInv, LeasesMatch, release_fence, FenceConstants, Exclusion,
          Candidates
    <2>5. OneStorageContract'
      BY <1>4, SMTT(10)
      DEF FenceInv, OneStorageContract, release_fence, FenceConstants,
          Exclusion, Candidates, FencedIsShared
    <2>6. Exclusion' /\ Candidates' /\ FencedIsShared'
      BY <1>4, SMTT(10)
      DEF FenceInv, Exclusion, release_fence, TypeInv, Processes, Candidates,
          FencedIsShared
    <2>7. ContractsMatch'
      BY <1>4, SMTT(10)
      DEF FenceInv, ContractsMatch, release_fence
    <2> QED
      BY <2>1, <2>2, <2>3, <2>4, <2>5, <2>6, <2>7
      DEF FenceInv
  <1> QED
    BY <1>1, <1>2, <1>3, <1>4
    DEF FenceInv

\* RuntimeWriterLock.release, and the next start.
LEMMA ReleaseKeeps ==
    ASSUME FenceConstants, FenceInv, NEW b \in Backends,
           release_begins(b) \/ release_ends(b) \/ restart(b)
    PROVE  FenceInv'
  <1>1. CASE release_begins(b)
    <2>1. TypeInv'
      BY <1>1, SMTT(10)
      DEF FenceInv, TypeInv, Processes, release_begins, ProcStates
    <2>2. Exclusion' /\ Candidates' /\ HeldIsCurrent'
      BY <1>1, SMTT(10)
      DEF FenceInv, Candidates, release_begins, HeldIsCurrent, Exclusion
    <2>3. FencedIsShared' /\ CommitsAreFenced' /\ ContractsMatch'
      BY <1>1, SMTT(10)
      DEF FenceInv, FencedIsShared, CommitsAreFenced, ContractsMatch,
          release_begins
    <2>4. LeasesMatch' /\ OneStorageContract'
      BY <1>1, SMTT(10)
      DEF FenceInv, LeasesMatch, release_begins, OneStorageContract
    <2> QED
      BY <2>1, <2>2, <2>3, <2>4
      DEF FenceInv
  <1>2. CASE release_ends(b)
    <2>1. TypeInv'
      BY <1>2, SMTT(10)
      DEF FenceInv, TypeInv, Processes, Unlocked, release_ends, ProcStates
    <2>2. Exclusion' /\ Candidates' /\ HeldIsCurrent'
      BY <1>2, SMTT(10)
      DEF FenceInv, Candidates, Unlocked, release_ends, HeldIsCurrent,
          FenceConstants, Exclusion
    <2>3. FencedIsShared' /\ CommitsAreFenced' /\ ContractsMatch'
      BY <1>2, SMTT(10)
      DEF FenceInv, ContractsMatch, Unlocked, release_ends, FencedIsShared,
          CommitsAreFenced
    <2>4. LeasesMatch' /\ OneStorageContract'
      BY <1>2, SMTT(10)
      DEF FenceInv, LeasesMatch, Unlocked, release_ends, FenceConstants,
          OneStorageContract
    <2> QED
      BY <2>1, <2>2, <2>3, <2>4
      DEF FenceInv
  <1>3. CASE restart(b)
    <2>1. TypeInv'
      BY <1>3, SMTT(10)
      DEF FenceInv, TypeInv, Processes, restart, ProcStates
    <2>2. Exclusion' /\ Candidates' /\ HeldIsCurrent'
      BY <1>3, SMTT(10)
      DEF FenceInv, Candidates, restart, HeldIsCurrent, Exclusion
    <2>3. FencedIsShared' /\ CommitsAreFenced' /\ ContractsMatch'
      BY <1>3, SMTT(10)
      DEF FenceInv, FencedIsShared, CommitsAreFenced, ContractsMatch, restart
    <2>4. LeasesMatch' /\ OneStorageContract'
      BY <1>3, SMTT(10)
      DEF FenceInv, LeasesMatch, restart, OneStorageContract
    <2> QED
      BY <2>1, <2>2, <2>3, <2>4
      DEF FenceInv
  <1> QED
    BY <1>1, <1>2, <1>3
    DEF FenceInv

\* acquire_runtime_participant_lease.
LEMMA LeaseKeeps ==
    ASSUME FenceConstants, FenceInv, NEW w \in Workers,
           lease_fence(w) \/ lease_owner(w) \/ lease_release(w)
    PROVE  FenceInv'
  <1>1. CASE lease_fence(w)
    <2>1. TypeInv'
      BY <1>1, SMTT(10)
      DEF FenceInv, TypeInv, Processes, lease_fence, ProcStates
    <2>2. Exclusion' /\ Candidates' /\ HeldIsCurrent'
      BY <1>1, SMTT(10)
      DEF FenceInv, Exclusion, lease_fence, Candidates, FenceConstants,
          HeldIsCurrent
    <2>3. FencedIsShared' /\ CommitsAreFenced' /\ ContractsMatch'
      BY <1>1, SMTT(10)
      DEF FenceInv, FencedIsShared, lease_fence, CommitsAreFenced,
          ContractsMatch
    <2>4. LeasesMatch' /\ OneStorageContract'
      BY <1>1, SMTT(10)
      DEF FenceInv, LeasesMatch, lease_fence, OneStorageContract
    <2> QED
      BY <2>1, <2>2, <2>3, <2>4
      DEF FenceInv
  <1>2. CASE lease_owner(w)
    <2>1. TypeInv'
      BY <1>2, SMTT(10)
      DEF FenceInv, TypeInv, OwnerIsActive, lease_owner, ProcStates
    <2>2. LeasesMatch'
      BY <1>2, SMTT(10)
      DEF FenceInv, TypeInv, Processes, LeasesMatch, OwnerIsActive,
          lease_owner, Exclusion, Candidates, ContractsMatch, Roots
    <2>3. OneStorageContract'
      BY <1>2, SMTT(10)
      DEF FenceInv, TypeInv, Processes, OneStorageContract, OwnerIsActive,
          lease_owner, Exclusion, Candidates, FencedIsShared
    <2>4. Exclusion' /\ Candidates' /\ HeldIsCurrent'
      BY <1>2, SMTT(10)
      DEF FenceInv, Exclusion, OwnerIsActive, lease_owner, TypeInv, Processes,
          Candidates, HeldIsCurrent
    <2>5. FencedIsShared' /\ CommitsAreFenced' /\ ContractsMatch'
      BY <1>2, SMTT(10)
      DEF FenceInv, FencedIsShared, OwnerIsActive, lease_owner,
          FenceConstants, TypeInv, Processes, CommitsAreFenced, ContractsMatch
    <2> QED
      BY <2>1, <2>2, <2>3, <2>4, <2>5
      DEF FenceInv
  <1>3. CASE lease_release(w)
    <2>1. TypeInv'
      BY <1>3, SMTT(10)
      DEF FenceInv, TypeInv, Processes, lease_release, ProcStates
    <2>2. Exclusion' /\ Candidates' /\ HeldIsCurrent'
      BY <1>3, SMTT(10)
      DEF FenceInv, Exclusion, lease_release, Candidates, HeldIsCurrent
    <2>3. FencedIsShared' /\ CommitsAreFenced' /\ ContractsMatch'
      BY <1>3, SMTT(10)
      DEF FenceInv, FencedIsShared, lease_release, FenceConstants,
          CommitsAreFenced, ContractsMatch
    <2>4. LeasesMatch' /\ OneStorageContract'
      BY <1>3, SMTT(10)
      DEF FenceInv, LeasesMatch, lease_release, OneStorageContract
    <2> QED
      BY <2>1, <2>2, <2>3, <2>4
      DEF FenceInv
  <1> QED
    BY <1>1, <1>2, <1>3
    DEF FenceInv

\* A transaction, and the hook before its commit.
LEMMA TransactionKeeps ==
    ASSUME FenceConstants, FenceInv, NEW t \in Txns,
           begin(t) \/ TxnStep(t)
    PROVE  FenceInv'
  <1>1. CASE begin(t)
    <2>1. TypeInv'
      BY <1>1, SMTT(10)
      DEF FenceInv, TypeInv, begin, TxnStates
    <2>2. Exclusion' /\ Candidates' /\ HeldIsCurrent'
      BY <1>1, SMTT(10)
      DEF FenceInv, Exclusion, Candidates, HeldIsCurrent, begin
    <2>3. FencedIsShared' /\ CommitsAreFenced' /\ ContractsMatch'
      BY <1>1, SMTT(10)
      DEF FenceInv, FencedIsShared, begin, CommitsAreFenced, ContractsMatch
    <2>4. LeasesMatch' /\ OneStorageContract'
      BY <1>1, SMTT(10)
      DEF FenceInv, OneStorageContract, begin, LeasesMatch
    <2> QED
      BY <2>1, <2>2, <2>3, <2>4
      DEF FenceInv
  <1>2. CASE fence_request_transaction(t)
    <2>1. TypeInv'
      BY <1>2, SMTT(10)
      DEF FenceInv, TypeInv, fence_request_transaction, TxnStates
    <2>2. Exclusion' /\ Candidates' /\ HeldIsCurrent'
      BY <1>2, SMTT(10)
      DEF FenceInv, Exclusion, fence_request_transaction, HeldIsCurrent,
          FenceConstants, Candidates
    <2>3. FencedIsShared' /\ CommitsAreFenced' /\ ContractsMatch'
      BY <1>2, SMTT(10)
      DEF FenceInv, FencedIsShared, fence_request_transaction,
          CommitsAreFenced, ContractsMatch
    <2>4. LeasesMatch' /\ OneStorageContract'
      BY <1>2, SMTT(10)
      DEF FenceInv, LeasesMatch, fence_request_transaction, FenceConstants,
          OneStorageContract
    <2> QED
      BY <2>1, <2>2, <2>3, <2>4
      DEF FenceInv
  <1>3. CASE assert_transaction_held(t)
    <2>1. TypeInv'
      BY <1>3, SMTT(10)
      DEF FenceInv, TypeInv, assert_held, writer_assert_held,
          lease_assert_held, assert_transaction_held, TxnStates
    <2>2. CommitsAreFenced'
      BY <1>3, SMTT(10)
      DEF FenceInv, CommitsAreFenced, assert_held, writer_assert_held,
          lease_assert_held, assert_transaction_held, FenceConstants,
          HeldIsCurrent
    <2>3. OneStorageContract'
      BY <1>3, SMTT(10)
      DEF FenceInv, OneStorageContract, assert_held, writer_assert_held,
          lease_assert_held, assert_transaction_held, FenceConstants,
          LeasesMatch
    <2>4. Exclusion' /\ Candidates' /\ HeldIsCurrent'
      BY <1>3, SMTT(10)
      DEF FenceInv, Exclusion, Candidates, HeldIsCurrent,
          assert_transaction_held
    <2>5. FencedIsShared' /\ ContractsMatch' /\ LeasesMatch'
      BY <1>3, SMTT(10)
      DEF FenceInv, FencedIsShared, assert_held, writer_assert_held,
          lease_assert_held, assert_transaction_held, ContractsMatch,
          LeasesMatch
    <2> QED
      BY <2>1, <2>2, <2>3, <2>4, <2>5
      DEF FenceInv
  <1>4. CASE commit(t)
    <2>1. TypeInv'
      BY <1>4, SMTT(10)
      DEF FenceInv, TypeInv, commit, TxnStates
    <2>2. Exclusion' /\ Candidates' /\ HeldIsCurrent'
      BY <1>4, SMTT(10)
      DEF FenceInv, Exclusion, commit, HeldIsCurrent, Candidates
    <2>3. FencedIsShared' /\ CommitsAreFenced' /\ ContractsMatch'
      BY <1>4, SMTT(10)
      DEF FenceInv, TypeInv, FencedIsShared, commit, CommitsAreFenced,
          ContractsMatch
    <2>4. LeasesMatch' /\ OneStorageContract'
      BY <1>4, SMTT(10)
      DEF FenceInv, LeasesMatch, commit, OneStorageContract
    <2> QED
      BY <2>1, <2>2, <2>3, <2>4
      DEF FenceInv
  <1>5. CASE rollback(t)
    <2>1. TypeInv'
      BY <1>5, SMTT(10)
      DEF FenceInv, TypeInv, rollback, TxnStates
    <2>2. Exclusion' /\ Candidates' /\ HeldIsCurrent'
      BY <1>5, SMTT(10)
      DEF FenceInv, Exclusion, rollback, HeldIsCurrent, Candidates
    <2>3. FencedIsShared' /\ CommitsAreFenced' /\ ContractsMatch'
      BY <1>5, SMTT(10)
      DEF FenceInv, TypeInv, FencedIsShared, rollback, CommitsAreFenced,
          ContractsMatch
    <2>4. LeasesMatch' /\ OneStorageContract'
      BY <1>5, SMTT(10)
      DEF FenceInv, LeasesMatch, rollback, OneStorageContract
    <2> QED
      BY <2>1, <2>2, <2>3, <2>4
      DEF FenceInv
  <1> QED
    BY <1>1, <1>2, <1>3, <1>4, <1>5
    DEF TxnStep

\* A connection that breaks, and the process that finds out.
LEMMA LossKeeps ==
    ASSUME FenceConstants, FenceInv, NEW p \in Processes,
           connection_breaks(p) \/ broken_stops(p)
    PROVE  FenceInv'
  <1>1. CASE connection_breaks(p)
    <2>1. TypeInv'
      BY <1>1, SMTT(10)
      DEF FenceInv, TypeInv, Unlocked, connection_breaks, FenceConstants,
          ProcStates
    <2>2. Exclusion' /\ Candidates' /\ HeldIsCurrent'
      BY <1>1, SMTT(10)
      DEF FenceInv, Exclusion, Unlocked, connection_breaks, TypeInv,
          Candidates, HeldIsCurrent, FenceConstants
    <2>3. FencedIsShared' /\ CommitsAreFenced' /\ ContractsMatch'
      BY <1>1, SMTT(10)
      DEF FenceInv, Processes, FencedIsShared, Unlocked, connection_breaks,
          FenceConstants, ContractsMatch, CommitsAreFenced
    <2>4. LeasesMatch' /\ OneStorageContract'
      BY <1>1, SMTT(10)
      DEF FenceInv, LeasesMatch, Unlocked, connection_breaks, FenceConstants,
          OneStorageContract
    <2> QED
      BY <2>1, <2>2, <2>3, <2>4
      DEF FenceInv
  <1>2. CASE broken_stops(p)
    <2>1. TypeInv'
      BY <1>2, SMTT(10)
      DEF FenceInv, TypeInv, broken_stops, ProcStates
    <2>2. Exclusion' /\ Candidates' /\ HeldIsCurrent'
      BY <1>2, SMTT(10)
      DEF FenceInv, Candidates, broken_stops, HeldIsCurrent, Exclusion
    <2>3. FencedIsShared' /\ CommitsAreFenced' /\ ContractsMatch'
      BY <1>2, SMTT(10)
      DEF FenceInv, FencedIsShared, CommitsAreFenced, ContractsMatch,
          broken_stops
    <2>4. LeasesMatch' /\ OneStorageContract'
      BY <1>2, SMTT(10)
      DEF FenceInv, LeasesMatch, broken_stops, OneStorageContract
    <2> QED
      BY <2>1, <2>2, <2>3, <2>4
      DEF FenceInv
  <1> QED
    BY <1>1, <1>2
    DEF FenceInv

(*------------------------------ the theorems ------------------------------*)

LEMMA InitKeeps == ASSUME FenceConstants, Init PROVE FenceInv
  BY SMTT(10) DEF FenceConstants, Init, FenceInv, TypeInv, ProcStates, TxnStates, Exclusion,
                  Candidates, HeldIsCurrent, FencedIsShared, CommitsAreFenced,
                  ContractsMatch, LeasesMatch, OneStorageContract, Processes

LEMMA NextKeeps == ASSUME FenceConstants, FenceInv, [Next]_vars PROVE FenceInv'
  <1>1. ASSUME NEW b \in Backends, BackendStep(b) \/ release_begins(b)
        PROVE  FenceInv'
    BY <1>1, AcquisitionKeeps, ReleaseKeeps, LossKeeps DEF BackendStep, Processes
  <1>2. ASSUME NEW w \in Workers, WorkerStep(w) \/ lease_fence(w)
        PROVE  FenceInv'
    BY <1>2, LeaseKeeps, LossKeeps DEF WorkerStep, Processes
  <1>3. CASE UNCHANGED vars
    BY <1>3 DEF vars, FenceInv, TypeInv, Exclusion, Candidates, HeldIsCurrent,
                FencedIsShared, CommitsAreFenced, ContractsMatch, LeasesMatch,
                OneStorageContract
  <1> QED
    BY <1>1, <1>2, <1>3, TransactionKeeps, LossKeeps DEF Next

LEMMA Kept == ASSUME FenceConstants PROVE Spec => []FenceInv
  <1>1. FenceInv /\ [Next]_vars => FenceInv'
    BY NextKeeps
  <1>2. Init => FenceInv
    BY InitKeeps
  <1> QED
    BY <1>1, <1>2, PTL DEF Spec

\* A transaction commits only while the backend that its process works under
\* is still the last one that took the database over
\* (fence_request_transaction, assert_transaction_held).
THEOREM NoCommitAfterTakeover ==
    ASSUME FenceConstants
    PROVE  Spec => []CommitsAreFenced
  <1>1. FenceInv => CommitsAreFenced
    BY DEF FenceInv
  <1> QED
    BY <1>1, Kept, PTL

\* Whoever may commit is configured with the managed roots of the backend that
\* serves (acquire_runtime_participant_lease).
THEOREM CommitsShareTheRoots ==
    ASSUME FenceConstants
    PROVE  Spec => []OneStorageContract
  <1>1. FenceInv => OneStorageContract
    BY DEF FenceInv
  <1> QED
    BY <1>1, Kept, PTL
===============================================================================
