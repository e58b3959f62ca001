----------------------- MODULE PackageLifecycleProofs -----------------------
(***************************************************************************)
(* Proofs about the rows of PackageLifecycle, for every number of items,   *)
(* packages, workers, clients, attempts and faults: type correctness, the  *)
(* three invariants about what is offered, revoked and cleaned up, and the *)
(* refinement of PackageContract.                                          *)
(***************************************************************************)
EXTENDS PackageLifecycle, TLAPS

\* Most leaves are first-order reasoning about sets and functions, which is
\* Zenon's; those that need arithmetic name the SMT solver.
USE Zenon

(*--------------------------------- frames --------------------------------*)
(* What each actor leaves alone. *)

LEMMA FinalizingFrame ==
    Finalizing => UNCHANGED <<identityVars, attempts, sha, cooling, reclaimed,
                              diskVars, backendVars, workerVars, streamVars>>
  BY DEF Finalizing, finalize_version, finalize_project, FinalizeLockedItems,
         revoke_finalization, revoke_project_finalization,
         RevokeLockedFinalizations, retry_finalization_cleanup, rowVars,
         buildVars, leaseVars, sessionVars

LEMMA PreparingFrame ==
    Preparing => UNCHANGED <<finVars, attempts, buildLease, cooling,
                             invalidation, diskVars, postAccount, workerVars,
                             streamVars>>
  BY DEF Preparing, prepare_scan, prepare_returns, prepare_queues, rowVars,
         buildVars, sessionVars

LEMMA PostCommitFrame ==
    PostCommit => UNCHANGED <<finVars, status, identityVars, expired,
                              buildVars, sha, leaseVars, sessionVars,
                              invalidation, quarantined, staging, faults,
                              scan, workerVars, streamVars>>
  BY DEF PostCommit, post_commit_unlink, post_commit_unlink_lost,
         post_commit_account, post_commit_account_lost, rowVars, diskVars

LEMMA BuildFrame ==
    ASSUME NEW w \in Workers, BuildStep(w)
    PROVE  UNCHANGED <<finVars, identityVars, expired, leaseVars,
                       sessionVars, invalidation, quarantined, faults,
                       backendVars, streamVars>>
  BY DEF BuildStep, skip_builds, claim_package_build, claim_exhausted,
         build_prepared_package, build_fails, publish_prepared_package,
         publish_skipped, publish_rejected, publish_lost, discard_skipped,
         discard_failed, record_package_build_failure, DiscardArtifact,
         RenameToCanonical, rowVars, diskVars

LEMMA CleanupFrame ==
    ASSUME NEW w \in Workers, CleanupStep(w)
    PROVE  UNCHANGED <<finVars, identityVars, buildVars, sha, cooling,
                       staging, faults, backendVars, buildLock, streamVars>>
  BY DEF CleanupStep, claim_expired_packages, nothing_to_clean,
         cleanup_reads_digest, cleanup_deletes, cleanup_delete_raises,
         cleanup_accounts, cleanup_violates_check, cleanup_records_failure,
         cleanup_claim_lost, rowVars, diskVars, sessionVars

LEMMA StreamFrame ==
    ASSUME NEW c \in Clients, StreamStep(c)
    PROVE  UNCHANGED <<finVars, status, identityVars, expired, buildVars, sha,
                       reclaimed, invalidation, diskVars, backendVars,
                       workerVars>>
  BY DEF StreamStep, authorize_package_download_session,
         begin_package_download, open_verified_archive,
         mark_package_download_session_verified, renew_package_download_lease,
         release_package_download_lease, stream_dies, rowVars

LEMMA EnvironmentFrame ==
    Environment => UNCHANGED <<finVars, status, identityVars, attempts,
                               buildLease, sha, lease, reclaimed,
                               invalidation, quarantined, staging,
                               backendVars, workerVars, streamVars>>
  BY DEF Environment, package_expires, build_falls_due, lease_lapses,
         session_lapses, cooldown_ends, archive_fault, DeadlineFrame, rowVars,
         diskVars, buildVars, leaseVars

(*--------------------------------- typing --------------------------------*)

\* The locals of a busy process, and the digest of a ready package.
BusyWorkers ==
    \A w \in Workers :
       /\ wpc[w] \in BuildSteps \cup CleanupSteps => job[w] \in Packages
       /\ wpc[w] \in BuildSteps => token[w] \in Attempts

BusyStreams ==
    \A c \in Clients : dpc[c] # "idle" => target[c] \in Packages

ReadyHasDigest ==
    \A p \in Packages : status[p] = "ready" => sha[p] # 0

TypeInv == TypeOK /\ BusyWorkers /\ BusyStreams /\ ReadyHasDigest

LEMMA NoFileTyped == <<0, FALSE>> \in FileIdentities
  <1>1. 0 \in 0..MaxAttempts
    BY SMTT(20), BoundsAssumption
  <1> QED
    BY <1>1, Zenon DEF FileIdentities

LEMMA InitTyped == Init => TypeInv
  <1> SUFFICES ASSUME Init PROVE TypeInv
    OBVIOUS
  <1> USE BoundsAssumption DEF Init, Packages, Attempts
  <1>1. FinTypeOK
    BY SMTT(20) DEF FinTypeOK
  <1>2. RowTypeOK
    <2>1. (CHOOSE n \in Names : TRUE) \in Names
      OBVIOUS
    <2> QED
      BY SMTT(20), <2>1 DEF RowTypeOK, Statuses
  <1>3. BuildTypeOK
    BY SMTT(20) DEF BuildTypeOK
  <1>4. LeaseTypeOK
    BY DEF LeaseTypeOK
  <1>5. DiskTypeOK
    BY SMTT(20) DEF DiskTypeOK
  <1>6. BackendTypeOK
    BY DEF BackendTypeOK
  <1>7. WorkerTypeOK
    BY SMTT(20) DEF WorkerTypeOK, NoVerdict, Verdicts
  <1>8. StreamTypeOK
    BY SMTT(20), NoFileTyped DEF StreamTypeOK
  <1>9. BusyWorkers /\ BusyStreams /\ ReadyHasDigest
    BY DEF BusyWorkers, BusyStreams, ReadyHasDigest, BuildSteps, CleanupSteps
  <1> QED
    BY <1>1, <1>2, <1>3, <1>4, <1>5, <1>6, <1>7, <1>8, <1>9
    DEF TypeInv, TypeOK

LEMMA FinalizingTyped ==
    ASSUME TypeInv, Finalizing
    PROVE  TypeInv'
  <1> USE BoundsAssumption DEF TypeInv, TypeOK
  <1>1. /\ (/\ DiskTypeOK /\ BackendTypeOK /\ WorkerTypeOK /\ StreamTypeOK
            /\ BusyWorkers /\ BusyStreams)'
        /\ UNCHANGED <<identityVars, attempts, sha, cooling, reclaimed>>
    BY FinalizingFrame
    DEF DiskTypeOK, BackendTypeOK, WorkerTypeOK, StreamTypeOK, BusyWorkers,
        BusyStreams, diskVars, backendVars, workerVars, streamVars
  <1>2. ASSUME NEW S \in SUBSET Items, FinalizeLockedItems(S)
        PROVE  TypeInv'
    <2>1. FinTypeOK'
      BY SMTT(20), <1>2 DEF FinTypeOK, FinalizeLockedItems
    <2>2. (RowTypeOK /\ BuildTypeOK /\ LeaseTypeOK /\ ReadyHasDigest)'
      BY <1>2 DEF FinalizeLockedItems, RowTypeOK, BuildTypeOK, LeaseTypeOK,
                  ReadyHasDigest, rowVars, identityVars, buildVars,
                  leaseVars, sessionVars
    <2> QED
      BY <1>1, <2>1, <2>2
  <1>3. ASSUME NEW S \in SUBSET Items, RevokeLockedFinalizations(S)
        PROVE  TypeInv'
    <2>1. FinTypeOK'
      <3>1. /\ finCount' = finCount
            /\ activeFin' = [i \in Items |-> IF i \in S THEN 0 ELSE activeFin[i]]
        BY <1>3 DEF RevokeLockedFinalizations
      <3> QED
        BY SMTT(20), <3>1 DEF FinTypeOK
    <2>2. RowTypeOK'
      BY <1>1, <1>3 DEF RowTypeOK, RevokeLockedFinalizations, Statuses,
                        CleanupStatuses, identityVars
    <2>3. BuildTypeOK'
      <3>1. \A p \in Packages : buildLease'[p] \in {0, buildLease[p]}
        BY <1>3 DEF RevokeLockedFinalizations
      <3>2. /\ buildLease' = [p \in Packages |-> buildLease'[p]]
            /\ notDue' \in [Packages -> BOOLEAN]
        BY <1>3 DEF RevokeLockedFinalizations
      <3>3. \A p \in Packages : buildLease'[p] \in 0..MaxAttempts
        BY SMTT(20), <3>1 DEF BuildTypeOK
      <3> QED
        BY <1>1, <3>2, <3>3 DEF BuildTypeOK
    <2>4. LeaseTypeOK'
      BY <1>1, <1>3 DEF LeaseTypeOK, RevokeLockedFinalizations
    <2>5. ReadyHasDigest'
      BY <1>1, <1>3 DEF ReadyHasDigest, RevokeLockedFinalizations
    <2> QED
      BY <1>1, <2>1, <2>2, <2>3, <2>4, <2>5
  <1>4. ASSUME NEW i \in Items, retry_finalization_cleanup(i)
        PROVE  TypeInv'
    <2>1. FinTypeOK' /\ BuildTypeOK' /\ ReadyHasDigest'
      BY <1>4 DEF FinTypeOK, BuildTypeOK, ReadyHasDigest,
                  retry_finalization_cleanup, finVars, buildVars
    <2>2. RowTypeOK'
      BY <1>1, <1>4 DEF RowTypeOK, retry_finalization_cleanup, RetriedRow,
                        CleanupStatuses, identityVars
    <2>3. LeaseTypeOK'
      BY <1>1, <1>4 DEF LeaseTypeOK, retry_finalization_cleanup, sessionVars
    <2> QED
      BY <1>1, <2>1, <2>2, <2>3
  <1> QED
    BY <1>2, <1>3, <1>4
    DEF Finalizing, finalize_version, finalize_project, revoke_finalization,
        revoke_project_finalization

LEMMA PreparingTyped ==
    ASSUME TypeInv, Preparing
    PROVE  TypeInv'
  <1> USE BoundsAssumption DEF TypeInv, TypeOK
  <1>1. /\ (/\ FinTypeOK /\ DiskTypeOK /\ WorkerTypeOK /\ StreamTypeOK
            /\ BusyWorkers /\ BusyStreams)'
        /\ UNCHANGED <<attempts, buildLease, cooling, invalidation,
                       postAccount>>
    BY PreparingFrame
    DEF FinTypeOK, DiskTypeOK, WorkerTypeOK, StreamTypeOK, BusyWorkers,
        BusyStreams, finVars, diskVars, workerVars, streamVars
  <1>2. ASSUME UNCHANGED <<rowVars, postUnlink>>
        PROVE  (RowTypeOK /\ BuildTypeOK /\ LeaseTypeOK /\ ReadyHasDigest)'
    BY <1>1, <1>2
    DEF RowTypeOK, BuildTypeOK, LeaseTypeOK, ReadyHasDigest, rowVars,
        identityVars, buildVars, leaseVars, sessionVars
  <1>3. ASSUME NEW n \in Names, prepare_scan(n)
        PROVE  TypeInv'
    <2>1. scan' \in Scans
      BY SMTT(20), <1>3 DEF prepare_scan, Scans, RowTypeOK, LeaseTypeOK, Integrities,
                  ReuseIntegrity, Packages
    <2>2. BackendTypeOK'
      BY <1>1, <1>3, <2>1 DEF BackendTypeOK, prepare_scan
    <2> QED
      BY <1>1, <1>2, <1>3, <2>2 DEF prepare_scan
  <1>4. CASE prepare_returns
    <2>1. BackendTypeOK'
      BY <1>1, <1>4 DEF BackendTypeOK, prepare_returns
    <2> QED
      BY <1>1, <1>2, <1>4, <2>1 DEF prepare_returns
  <1>5. ASSUME NEW q \in Packages, NEW failing \in BOOLEAN,
               prepare_queues(q, failing)
        PROVE  TypeInv'
    <2>1. scan \in Scans /\ scan.name \in Names
      BY <1>5 DEF prepare_queues, BackendTypeOK, Scans
    <2>2. RowTypeOK'
      <3>1. /\ expired' \in [Packages -> BOOLEAN]
            /\ reclaimed' \in [Packages -> BOOLEAN]
            /\ invalidation' = invalidation
        BY <1>1, <1>5 DEF prepare_queues, RowTypeOK
      <3>2. status' \in [Packages -> Statuses \cup {"none"}]
        BY <1>5 DEF prepare_queues, RowTypeOK, Statuses
      <3>3. sha' \in [Packages -> 0..MaxAttempts]
        BY SMTT(20), <1>5 DEF prepare_queues, RowTypeOK
      <3>4. /\ ActiveFinalizations \in SUBSET Finalizations
            /\ contents' = [contents EXCEPT ![q] = ActiveFinalizations]
            /\ name' = [name EXCEPT ![q] = scan.name]
        BY <1>5 DEF prepare_queues, ActiveFinalizations
      <3>5. /\ contents' \in [Packages -> SUBSET Finalizations]
            /\ name' \in [Packages -> Names]
        BY <2>1, <3>4 DEF RowTypeOK
      <3> QED
        BY <3>1, <3>2, <3>3, <3>5 DEF RowTypeOK
    <2>3. BuildTypeOK'
      BY <1>1, <1>5 DEF prepare_queues, BuildTypeOK
    <2>4. LeaseTypeOK'
      BY <1>1, <1>5 DEF prepare_queues, LeaseTypeOK
    <2>5. \A p \in Packages :
             failing /\ p = scan.candidate => sha[p] \in Attempts
      <3> SUFFICES ASSUME NEW p \in Packages, failing, p = scan.candidate
                   PROVE  sha[p] \in Attempts
        OBVIOUS
      <3>1. ReuseFails
        BY <1>5 DEF prepare_queues
      <3>2. status[p] = "ready"
        BY <3>1 DEF ReuseFails, FingerprintHolds
      <3> QED
        BY SMTT(20), <3>2 DEF ReadyHasDigest, RowTypeOK, Attempts
    <2>6. BackendTypeOK'
      <3>1. /\ scan' = NoScan
            /\ postAccount' = postAccount
            /\ postUnlink' = postUnlink \cup
                 {<<p, sha[p]>> : p \in {p \in Packages :
                    (failing /\ p = scan.candidate) /\ scan.integrity = "mismatch"}}
        BY <1>5 DEF prepare_queues
      <3>2. postUnlink' \subseteq Packages \X Attempts
        BY SMTT(20), <1>1, <2>5, <3>1 DEF BackendTypeOK
      <3> QED
        BY <1>1, <3>1, <3>2 DEF BackendTypeOK
    <2>7. ReadyHasDigest'
      BY <1>5 DEF prepare_queues, ReadyHasDigest, RowTypeOK
    <2> QED
      BY <1>1, <2>2, <2>3, <2>4, <2>6, <2>7
  <1> QED
    BY <1>3, <1>4, <1>5 DEF Preparing

LEMMA PostCommitTyped ==
    ASSUME TypeInv, PostCommit
    PROVE  TypeInv'
  <1> USE BoundsAssumption DEF TypeInv, TypeOK
  <1>1. /\ (/\ FinTypeOK /\ BuildTypeOK /\ LeaseTypeOK /\ WorkerTypeOK
            /\ StreamTypeOK /\ BusyWorkers /\ BusyStreams /\ ReadyHasDigest)'
        /\ UNCHANGED <<status, identityVars, expired, sha, invalidation,
                       quarantined, staging, faults, scan>>
    BY PostCommitFrame
    DEF FinTypeOK, BuildTypeOK, LeaseTypeOK, WorkerTypeOK, StreamTypeOK,
        BusyWorkers, BusyStreams, ReadyHasDigest, finVars, buildVars,
        leaseVars, sessionVars, workerVars, streamVars
  <1>2. PICK p \in Packages :
           \/ \E a \in Attempts : \/ post_commit_unlink(p, a)
                                  \/ post_commit_unlink_lost(p, a)
           \/ post_commit_account(p)
           \/ post_commit_account_lost(p)
    BY DEF PostCommit
  <1>3. RowTypeOK'
    BY <1>1, <1>2
    DEF RowTypeOK, post_commit_unlink, post_commit_unlink_lost,
        post_commit_account, post_commit_account_lost, rowVars, identityVars
  <1>4. DiskTypeOK'
    <2>1. \/ /\ canonical' = [canonical EXCEPT ![p] = 0]
             /\ damaged' = damaged \ {p}
          \/ UNCHANGED <<canonical, damaged>>
      BY <1>2
      DEF post_commit_unlink, post_commit_unlink_lost, post_commit_account,
          post_commit_account_lost, diskVars
    <2> QED
      BY SMTT(20), <1>1, <2>1 DEF DiskTypeOK
  <1>5. BackendTypeOK'
    BY <1>1, <1>2
    DEF BackendTypeOK, post_commit_unlink, post_commit_unlink_lost,
        post_commit_account, post_commit_account_lost
  <1> QED
    BY <1>1, <1>3, <1>4, <1>5

LEMMA BuildTyped ==
    ASSUME TypeInv, NEW w \in Workers, BuildStep(w)
    PROVE  TypeInv'
  <1> USE BoundsAssumption DEF TypeInv, TypeOK
  <1>1. /\ (FinTypeOK /\ LeaseTypeOK /\ BackendTypeOK /\ StreamTypeOK
            /\ BusyStreams)'
        /\ UNCHANGED <<identityVars, expired, invalidation, quarantined,
                       faults>>
    BY BuildFrame
    DEF FinTypeOK, LeaseTypeOK, BackendTypeOK, StreamTypeOK, BusyStreams,
        finVars, leaseVars, sessionVars, backendVars, streamVars
  <1>2. ASSUME UNCHANGED rowVars
        PROVE  (RowTypeOK /\ BuildTypeOK /\ ReadyHasDigest)'
    BY <1>1, <1>2
    DEF RowTypeOK, BuildTypeOK, ReadyHasDigest, rowVars, identityVars,
        buildVars
  <1>3. ASSUME UNCHANGED diskVars
        PROVE  DiskTypeOK'
    BY <1>3 DEF DiskTypeOK, diskVars
  <1>4. ASSUME NEW phase \in {"builds", "cleanups"}, EnterPhase(w, phase),
               buildLock' \in Workers \cup {NoWorker}
        PROVE  (WorkerTypeOK /\ BusyWorkers)'
    BY SMTT(20), <1>4 DEF EnterPhase, WorkerTypeOK, BusyWorkers, BuildSteps,
                CleanupSteps, NoVerdict, Verdicts
  <1>5. ASSUME NEW dies \in BOOLEAN, LeaveBuild(w, dies)
        PROVE  (WorkerTypeOK /\ BusyWorkers)'
    BY <1>4, <1>5 DEF LeaveBuild, WorkerTypeOK
  <1>6. ASSUME NEW step \in BuildSteps, MoveTo(w, step), wpc[w] \in BuildSteps,
               UNCHANGED <<buildLock, job, token>>,
               verdict' \in [Workers -> Verdicts]
        PROVE  (WorkerTypeOK /\ BusyWorkers)'
    BY <1>6 DEF MoveTo, WorkerTypeOK, BusyWorkers, BuildSteps, CleanupSteps
  <1>7. wpc[w] \in BuildSteps => job[w] \in Packages /\ token[w] \in Attempts
    BY DEF BusyWorkers
  <1>8. ASSUME wpc[w] \in BuildSteps, RenameToCanonical(w)
        PROVE  DiskTypeOK'
    BY SMTT(20), <1>7, <1>8 DEF RenameToCanonical, Staged, DiskTypeOK, Attempts
  <1>9. ASSUME wpc[w] \in BuildSteps, NEW failedAt \in 1..4,
               DiscardArtifact(w, failedAt)
        PROVE  DiskTypeOK'
    <2>1. /\ staging' \subseteq staging
          /\ canonical' = [canonical EXCEPT ![job[w]] =
               IF failedAt > 2 /\ canonical[job[w]] = token[w]
               THEN 0 ELSE canonical[job[w]]]
          /\ damaged' \subseteq damaged
          /\ UNCHANGED <<quarantined, faults>>
      BY <1>9 DEF DiscardArtifact
    <2>2. canonical' \in [Packages -> 0..MaxAttempts]
      BY SMTT(20), <1>7, <1>9, <2>1 DEF DiskTypeOK
    <2> QED
      BY <2>1, <2>2 DEF DiskTypeOK
  <1>10. CASE skip_builds(w)
    BY <1>1, <1>2, <1>3, <1>4, <1>10 DEF skip_builds, WorkerTypeOK
  <1>11. ASSUME NEW p \in Packages, claim_package_build(w, p)
         PROVE  TypeInv'
    <2>1. attempts[p] + 1 \in Attempts
      <3>1. attempts[p] < MaxAttempts
        BY <1>11 DEF claim_package_build, AttemptsLeft
      <3>2. attempts[p] \in 0..MaxAttempts
        BY <1>11 DEF BuildTypeOK
      <3> QED
        BY SMTT(20), <3>1, <3>2 DEF Attempts
    <2>2. BuildTypeOK'
      <3>1. attempts[p] + 1 \in 0..MaxAttempts
        BY SMTT(20), <2>1 DEF Attempts
      <3>2. /\ attempts' = [attempts EXCEPT ![p] = attempts[p] + 1]
            /\ buildLease' = [buildLease EXCEPT ![p] = attempts[p] + 1]
            /\ notDue' = [notDue EXCEPT ![p] = TRUE]
        BY <1>11 DEF claim_package_build
      <3> QED
        BY <3>1, <3>2 DEF BuildTypeOK
    <2>3. (RowTypeOK /\ ReadyHasDigest)'
      BY <1>11 DEF claim_package_build, RowTypeOK, ReadyHasDigest,
                   identityVars
    <2>4. (WorkerTypeOK /\ BusyWorkers)'
      <3>1. /\ buildLock' = w
            /\ job' = [job EXCEPT ![w] = p]
            /\ token' = [token EXCEPT ![w] = attempts[p] + 1]
            /\ verdict' = verdict
        BY <1>11 DEF claim_package_build
      <3>2. PICK step \in {"building", "sourceMissing"} :
               wpc' = [wpc EXCEPT ![w] = step]
        BY <1>11 DEF claim_package_build, MoveTo
      <3>3. p \in 0..NumPackages /\ attempts[p] + 1 \in 0..MaxAttempts
        BY SMTT(20), <1>11, <2>1 DEF Packages, Attempts
      <3>4. WorkerTypeOK'
        BY <3>1, <3>2, <3>3 DEF WorkerTypeOK, BuildSteps
      <3>5. BusyWorkers'
        BY <1>11, <2>1, <3>1, <3>2
        DEF WorkerTypeOK, BusyWorkers, BuildSteps, CleanupSteps
      <3> QED
        BY <3>4, <3>5
    <2> QED
      BY <1>1, <1>3, <1>11, <2>2, <2>3, <2>4 DEF claim_package_build
  <1>12. ASSUME NEW p \in Packages, claim_exhausted(w, p)
         PROVE  TypeInv'
    <2>1. (RowTypeOK /\ BuildTypeOK /\ ReadyHasDigest)'
      <3>1. /\ status' = [status EXCEPT ![p] = "failed"]
            /\ sha' = [sha EXCEPT ![p] = 0]
            /\ buildLease' = [buildLease EXCEPT ![p] = 0]
            /\ UNCHANGED <<attempts, notDue, reclaimed>>
        BY <1>12 DEF claim_exhausted
      <3>2. 0 \in 0..MaxAttempts
        BY SMTT(20)
      <3>3. RowTypeOK'
        BY <1>1, <3>1, <3>2 DEF RowTypeOK, Statuses, identityVars
      <3>4. BuildTypeOK'
        BY <3>1, <3>2 DEF BuildTypeOK
      <3>5. ReadyHasDigest'
        BY <3>1 DEF RowTypeOK, ReadyHasDigest
      <3> QED
        BY <3>3, <3>4, <3>5
    <2> QED
      BY <1>1, <1>3, <1>4, <1>12, <2>1 DEF claim_exhausted, WorkerTypeOK
  <1>13. CASE build_prepared_package(w)
    <2>1. wpc[w] \in BuildSteps
      BY <1>13 DEF build_prepared_package, BuildSteps
    <2>2. DiskTypeOK'
      <3>1. Staged(w) \in Packages \X Attempts
        BY <1>7, <2>1 DEF Staged
      <3>2. /\ staging' = staging \cup {Staged(w)}
            /\ UNCHANGED <<canonical, quarantined, damaged, faults>>
        BY <1>13 DEF build_prepared_package
      <3> QED
        BY <3>1, <3>2 DEF DiskTypeOK
    <2>3. (WorkerTypeOK /\ BusyWorkers)'
      BY <1>6, <1>13, <2>1 DEF build_prepared_package, BuildSteps,
                               WorkerTypeOK
    <2> QED
      BY <1>1, <1>2, <1>13, <2>2, <2>3 DEF build_prepared_package
  <1>14. ASSUME NEW retry \in BOOLEAN, NEW dies \in BOOLEAN,
                NEW left \in BOOLEAN, build_fails(w, retry, dies, left)
         PROVE  TypeInv'
    <2>1. wpc[w] \in BuildSteps
      BY <1>14 DEF build_fails, BuildSteps
    <2>2. DiskTypeOK'
      <3>1. Staged(w) \in Packages \X Attempts
        BY <1>7, <2>1 DEF Staged
      <3>2. /\ staging' \in {staging, staging \cup {Staged(w)}}
            /\ UNCHANGED <<canonical, quarantined, damaged, faults>>
        BY <1>14 DEF build_fails
      <3> QED
        BY <3>1, <3>2 DEF DiskTypeOK
    <2>3. verdict' \in [Workers -> Verdicts]
      <3>1. PICK gone \in {FALSE, ~left /\ canonical[job[w]] = 0} :
               verdict' = [verdict EXCEPT ![w] =
                             [retry |-> retry, gone |-> gone, dies |-> dies]]
        BY <1>14 DEF build_fails
      <3>2. gone \in BOOLEAN
        OBVIOUS
      <3>3. [retry |-> retry, gone |-> gone, dies |-> dies] \in Verdicts
        BY <3>2 DEF Verdicts
      <3> QED
        BY <3>1, <3>3 DEF WorkerTypeOK
    <2>4. (WorkerTypeOK /\ BusyWorkers)'
      BY <1>6, <1>14, <2>1, <2>3 DEF build_fails, BuildSteps
    <2> QED
      BY <1>1, <1>2, <1>14, <2>2, <2>4 DEF build_fails
  <1>15. CASE publish_prepared_package(w)
    <2>1. wpc[w] \in BuildSteps
      BY <1>15 DEF publish_prepared_package, BuildSteps
    <2>2. (RowTypeOK /\ BuildTypeOK /\ ReadyHasDigest)'
      <3>1. RowTypeOK'
        <4>1. /\ status' = [status EXCEPT ![job[w]] = "ready"]
              /\ sha' = [sha EXCEPT ![job[w]] = token[w]]
              /\ reclaimed' = [reclaimed EXCEPT ![job[w]] = FALSE]
          BY <1>15 DEF publish_prepared_package
        <4>2. token[w] \in 0..MaxAttempts
          BY SMTT(20), <1>7, <2>1 DEF Attempts
        <4> QED
          BY <1>1, <4>1, <4>2 DEF RowTypeOK, Statuses, identityVars
      <3>2. BuildTypeOK'
        <4>1. /\ attempts' = attempts
              /\ buildLease' = [buildLease EXCEPT ![job[w]] = 0]
              /\ notDue' = [notDue EXCEPT ![job[w]] = FALSE]
          BY <1>15 DEF publish_prepared_package
        <4>2. 0 \in 0..MaxAttempts
          BY SMTT(20), BoundsAssumption
        <4> QED
          BY <1>1, <4>1, <4>2 DEF BuildTypeOK
      <3>3. ReadyHasDigest'
        <4>1. /\ status' = [status EXCEPT ![job[w]] = "ready"]
              /\ sha' = [sha EXCEPT ![job[w]] = token[w]]
          BY <1>15 DEF publish_prepared_package
        <4>2. token[w] # 0
          BY SMTT(20), <1>7, <2>1 DEF Attempts
        <4> QED
          BY <4>1, <4>2 DEF RowTypeOK, ReadyHasDigest
      <3> QED
        BY <3>1, <3>2, <3>3
    <2> QED
      BY <1>1, <1>5, <1>8, <1>15, <2>1, <2>2 DEF publish_prepared_package
  <1>16. CASE publish_skipped(w)
    <2>1. wpc[w] \in BuildSteps
      BY <1>16 DEF publish_skipped, BuildSteps
    <2>2. (WorkerTypeOK /\ BusyWorkers)'
      BY <1>6, <1>16, <2>1 DEF publish_skipped, BuildSteps, WorkerTypeOK
    <2> QED
      BY <1>1, <1>2, <1>3, <1>16, <2>2 DEF publish_skipped
  <1>17. CASE publish_rejected(w)
    <2>1. wpc[w] \in BuildSteps
      BY <1>17 DEF publish_rejected, BuildSteps
    <2>2. (WorkerTypeOK /\ BusyWorkers)'
      BY <1>6, <1>17, <2>1 DEF publish_rejected, BuildSteps, WorkerTypeOK
    <2> QED
      BY <1>1, <1>2, <1>3, <1>8, <1>17, <2>1, <2>2 DEF publish_rejected
  <1>18. CASE publish_lost(w)
    <2>1. wpc[w] \in BuildSteps
      BY <1>18 DEF publish_lost, BuildSteps
    <2> QED
      BY <1>1, <1>2, <1>5, <1>8, <1>18, <2>1 DEF publish_lost
  <1>19. ASSUME NEW failedAt \in 1..4, discard_skipped(w, failedAt)
         PROVE  TypeInv'
    <2>1. wpc[w] \in BuildSteps
      BY <1>19 DEF discard_skipped, BuildSteps
    <2> QED
      BY <1>1, <1>2, <1>5, <1>9, <1>19, <2>1 DEF discard_skipped
  <1>20. ASSUME NEW failedAt \in 1..4, discard_failed(w, failedAt)
         PROVE  TypeInv'
    <2>1. wpc[w] \in BuildSteps
      BY <1>20 DEF discard_failed, BuildSteps
    <2>2. PathsAbsent(w, failedAt) \in BOOLEAN
      BY DEF PathsAbsent
    <2>3. verdict' \in [Workers -> Verdicts]
      BY <1>20, <2>2 DEF discard_failed, WorkerTypeOK, Verdicts
    <2>4. (WorkerTypeOK /\ BusyWorkers)'
      BY <1>6, <1>20, <2>1, <2>3 DEF discard_failed, BuildSteps
    <2> QED
      BY <1>1, <1>2, <1>9, <1>20, <2>1, <2>4 DEF discard_failed
  <1>21. CASE record_package_build_failure(w)
    <2>1. wpc[w] \in BuildSteps
      BY <1>21 DEF record_package_build_failure, BuildSteps
    <2>2. verdict[w] \in Verdicts /\ verdict[w].dies \in BOOLEAN
      BY DEF WorkerTypeOK, Verdicts
    <2> DEFINE p == job[w]
               again == verdict[w].retry /\ AttemptsLeft(p)
    <2>3. CASE ~OwnsBuild(w)
      <3>1. (RowTypeOK /\ BuildTypeOK /\ ReadyHasDigest)'
        BY <1>1, <1>7, <1>21, <2>1, <2>3
        DEF record_package_build_failure, RowTypeOK, BuildTypeOK,
            ReadyHasDigest, identityVars
      <3> QED
        BY <1>1, <1>3, <1>5, <1>21, <2>2, <3>1
        DEF record_package_build_failure
    <2>4. CASE OwnsBuild(w)
      <3>1. CASE again
        <4>1. (RowTypeOK /\ BuildTypeOK /\ ReadyHasDigest)'
          <5>1. /\ status' = [status EXCEPT ![job[w]] = status[job[w]]]
                /\ sha' = [sha EXCEPT ![job[w]] = sha[job[w]]]
                /\ buildLease' = [buildLease EXCEPT ![job[w]] = 0]
                /\ notDue' = [notDue EXCEPT ![job[w]] = TRUE]
                /\ attempts' = attempts
            BY <1>21, <2>4, <3>1 DEF record_package_build_failure
          <5>2. reclaimed' \in [Packages -> BOOLEAN]
            BY <1>21 DEF record_package_build_failure, RowTypeOK
          <5>3. 0 \in 0..MaxAttempts
            BY SMTT(20)
          <5>4. RowTypeOK'
            BY <1>1, <1>7, <2>1, <5>1, <5>2, <5>3
            DEF RowTypeOK, identityVars
          <5>5. BuildTypeOK'
            BY <5>1, <5>3 DEF BuildTypeOK
          <5>6. ReadyHasDigest'
            BY <5>1 DEF RowTypeOK, ReadyHasDigest
          <5> QED
            BY <5>4, <5>5, <5>6
        <4> QED
          BY <1>1, <1>3, <1>5, <1>21, <2>2, <4>1
          DEF record_package_build_failure
      <3>2. CASE ~again
        <4>1. (RowTypeOK /\ BuildTypeOK /\ ReadyHasDigest)'
          <5>1. /\ status' = [status EXCEPT ![job[w]] = "failed"]
                /\ sha' = [sha EXCEPT ![job[w]] = 0]
                /\ buildLease' = [buildLease EXCEPT ![job[w]] = 0]
                /\ notDue' = [notDue EXCEPT ![job[w]] = FALSE]
                /\ attempts' = attempts
            BY <1>21, <2>4, <3>2 DEF record_package_build_failure
          <5>2. reclaimed' \in [Packages -> BOOLEAN]
            BY <1>21 DEF record_package_build_failure, RowTypeOK
          <5>3. 0 \in 0..MaxAttempts
            BY SMTT(20)
          <5>4. RowTypeOK'
            BY <1>1, <1>7, <2>1, <5>1, <5>2, <5>3
            DEF RowTypeOK, Statuses, identityVars
          <5>5. BuildTypeOK'
            BY <5>1, <5>3 DEF BuildTypeOK
          <5>6. ReadyHasDigest'
            BY <5>1 DEF RowTypeOK, ReadyHasDigest
          <5> QED
            BY <5>4, <5>5, <5>6
        <4> QED
          BY <1>1, <1>3, <1>5, <1>21, <2>2, <4>1
          DEF record_package_build_failure
      <3> QED
        BY <3>1, <3>2
    <2> QED
      BY <2>3, <2>4
  <1> QED
    BY <1>10, <1>11, <1>12, <1>13, <1>14, <1>15, <1>16, <1>17, <1>18, <1>19,
       <1>20, <1>21
    DEF BuildStep

LEMMA ZeroInRange == 0 \in 0..MaxAttempts /\ 0 \in 0..NumPackages
  BY SMTT(20), BoundsAssumption

LEMMA ArtifactTyped ==
    ASSUME TypeInv, NEW w \in Workers, job[w] \in Packages,
           ArtifactKept \/ ArtifactMoved(w) \/ ArtifactDeleted(w),
           UNCHANGED <<staging, faults>>
    PROVE  DiskTypeOK'
  <1> USE DEF TypeInv, TypeOK, DiskTypeOK
  <1>1. CASE ArtifactKept
    BY <1>1 DEF ArtifactKept
  <1>2. CASE ArtifactMoved(w)
    BY <1>2, ZeroInRange DEF ArtifactMoved
  <1>3. CASE ArtifactDeleted(w)
    <2>1. canonical' \in [Packages -> 0..MaxAttempts]
      BY <1>3, ZeroInRange DEF ArtifactDeleted
    <2>2. quarantined' \in [Packages -> 0..MaxAttempts]
      BY <1>3, ZeroInRange DEF ArtifactDeleted
    <2>3. damaged' \subseteq damaged
      BY <1>3 DEF ArtifactDeleted
    <2> QED
      BY <2>1, <2>2, <2>3
  <1> QED
    BY <1>1, <1>2, <1>3

LEMMA PhaseTyped ==
    ASSUME TypeInv, NEW w \in Workers, EnterPhase(w, "builds"),
           buildLock' \in Workers \cup {NoWorker}
    PROVE  (WorkerTypeOK /\ BusyWorkers)'
  <1> USE DEF TypeInv, TypeOK
  <1>1. /\ wpc' = [wpc EXCEPT ![w] = "builds"]
        /\ job' = [job EXCEPT ![w] = 0]
        /\ token' = [token EXCEPT ![w] = 0]
        /\ verdict' = [verdict EXCEPT ![w] = NoVerdict]
    BY DEF EnterPhase
  <1>2. NoVerdict \in Verdicts
    BY DEF NoVerdict, Verdicts
  <1>3. WorkerTypeOK'
    BY <1>1, <1>2, ZeroInRange DEF WorkerTypeOK
  <1>4. BusyWorkers'
    BY <1>1 DEF WorkerTypeOK, BusyWorkers, BuildSteps, CleanupSteps
  <1> QED
    BY <1>3, <1>4

LEMMA CleanupTyped ==
    ASSUME TypeInv, NEW w \in Workers, CleanupStep(w)
    PROVE  TypeInv'
  <1> USE BoundsAssumption DEF TypeInv, TypeOK
  <1>1. /\ (/\ FinTypeOK /\ BuildTypeOK /\ BackendTypeOK /\ StreamTypeOK
            /\ BusyStreams)'
        /\ UNCHANGED <<identityVars, sha, cooling, staging, faults,
                       buildLock>>
    BY CleanupFrame
    DEF FinTypeOK, BuildTypeOK, BackendTypeOK, StreamTypeOK, BusyStreams,
        finVars, buildVars, backendVars, streamVars
  <1>2. ASSUME UNCHANGED <<rowVars, invalidation>>
        PROVE  (RowTypeOK /\ LeaseTypeOK /\ ReadyHasDigest)'
    BY <1>1, <1>2
    DEF RowTypeOK, LeaseTypeOK, ReadyHasDigest, rowVars, identityVars,
        leaseVars, sessionVars
  <1>3. ASSUME UNCHANGED diskVars
        PROVE  DiskTypeOK'
    BY <1>3 DEF DiskTypeOK, diskVars
  <1>4. EnterPhase(w, "builds") => (WorkerTypeOK /\ BusyWorkers)'
    BY <1>1, PhaseTyped DEF WorkerTypeOK
  <1>5. wpc[w] \in CleanupSteps => job[w] \in Packages
    BY DEF BusyWorkers
  <1>6. ASSUME NEW step \in CleanupSteps, MoveTo(w, step),
               wpc[w] \in CleanupSteps, UNCHANGED <<job, verdict>>,
               token' \in [Workers -> 0..MaxAttempts],
               \A v \in Workers \ {w} : token'[v] = token[v]
        PROVE  (WorkerTypeOK /\ BusyWorkers)'
    BY <1>1, <1>6 DEF MoveTo, WorkerTypeOK, BusyWorkers, BuildSteps,
                      CleanupSteps
  <1>7. ASSUME NEW p \in Packages, claim_expired_packages(w, p)
        PROVE  TypeInv'
    <2>1. (RowTypeOK /\ ReadyHasDigest)'
      BY <1>1, <1>7 DEF claim_expired_packages, RowTypeOK, ReadyHasDigest,
                        CleanupStatuses, identityVars
    <2>2. LeaseTypeOK'
      BY <1>7 DEF claim_expired_packages, LeaseTypeOK, sessionVars
    <2>3. (WorkerTypeOK /\ BusyWorkers)'
      <3>1. /\ wpc' = [wpc EXCEPT ![w] = "claimed"]
            /\ job' = [job EXCEPT ![w] = p]
            /\ UNCHANGED <<buildLock, token, verdict>>
        BY <1>7 DEF claim_expired_packages, MoveTo
      <3>2. p \in 0..NumPackages
        BY SMTT(20), <1>7 DEF Packages
      <3>3. WorkerTypeOK'
        BY <3>1, <3>2 DEF WorkerTypeOK, CleanupSteps
      <3>4. BusyWorkers'
        BY <1>7, <3>1 DEF WorkerTypeOK, BusyWorkers, BuildSteps, CleanupSteps
      <3> QED
        BY <3>3, <3>4
    <2> QED
      BY <1>1, <1>3, <1>7, <2>1, <2>2, <2>3 DEF claim_expired_packages
  <1>8. CASE nothing_to_clean(w)
    BY <1>1, <1>2, <1>3, <1>4, <1>8 DEF nothing_to_clean
  <1>9. CASE cleanup_reads_digest(w)
    <2>1. wpc[w] \in CleanupSteps
      BY <1>9 DEF cleanup_reads_digest, CleanupSteps
    <2>2. sha[job[w]] \in 0..MaxAttempts
      BY <1>5, <2>1 DEF RowTypeOK
    <2>3. (WorkerTypeOK /\ BusyWorkers)'
      BY <1>6, <1>9, <2>1, <2>2
      DEF cleanup_reads_digest, CleanupSteps, WorkerTypeOK
    <2> QED
      BY <1>1, <1>2, <1>3, <1>9, <2>3 DEF cleanup_reads_digest
  <1>10. CASE cleanup_deletes(w)
    <2>1. wpc[w] \in CleanupSteps
      BY <1>10 DEF cleanup_deletes, CleanupSteps
    <2>2. (WorkerTypeOK /\ BusyWorkers)'
      BY <1>6, <1>10, <2>1 DEF cleanup_deletes, CleanupSteps, WorkerTypeOK
    <2>3. DiskTypeOK'
      BY <1>5, <1>10, <2>1, ArtifactTyped DEF cleanup_deletes
    <2> QED
      BY <1>1, <1>2, <1>10, <2>2, <2>3 DEF cleanup_deletes
  <1>11. CASE cleanup_delete_raises(w)
    <2>1. wpc[w] \in CleanupSteps
      BY <1>11 DEF cleanup_delete_raises, CleanupSteps
    <2>2. (WorkerTypeOK /\ BusyWorkers)'
      BY <1>6, <1>11, <2>1
      DEF cleanup_delete_raises, CleanupSteps, WorkerTypeOK
    <2>3. DiskTypeOK'
      BY <1>5, <1>11, <2>1, ArtifactTyped DEF cleanup_delete_raises
    <2> QED
      BY <1>1, <1>2, <1>11, <2>2, <2>3 DEF cleanup_delete_raises
  <1>12. CASE cleanup_accounts(w)
    <2>1. job[w] \in Packages
      BY <1>5, <1>12 DEF cleanup_accounts, CleanupSteps
    <2>2. (RowTypeOK /\ ReadyHasDigest)'
      BY <1>1, <1>12, <2>1
      DEF cleanup_accounts, RowTypeOK, ReadyHasDigest, Statuses,
          CleanupStatuses, identityVars
    <2>3. LeaseTypeOK'
      BY <1>1, <1>12, <2>1 DEF cleanup_accounts, LeaseTypeOK
    <2> QED
      BY <1>1, <1>3, <1>4, <1>12, <2>2, <2>3 DEF cleanup_accounts
  <1>13. CASE cleanup_violates_check(w)
    BY <1>1, <1>2, <1>3, <1>4, <1>13 DEF cleanup_violates_check
  <1>14. CASE cleanup_records_failure(w)
    <2>1. job[w] \in Packages
      BY <1>5, <1>14 DEF cleanup_records_failure, CleanupSteps
    <2>2. (RowTypeOK /\ ReadyHasDigest)'
      BY <1>1, <1>14, <2>1
      DEF cleanup_records_failure, FailedCleanupStatus, RowTypeOK,
          ReadyHasDigest, Statuses, CleanupStatuses, identityVars
    <2>3. LeaseTypeOK'
      BY <1>1, <1>14, <2>1 DEF cleanup_records_failure, LeaseTypeOK,
                               sessionVars
    <2> QED
      BY <1>1, <1>3, <1>4, <1>14, <2>2, <2>3 DEF cleanup_records_failure
  <1>15. CASE cleanup_claim_lost(w)
    BY <1>1, <1>2, <1>3, <1>4, <1>15 DEF cleanup_claim_lost
  <1> QED
    BY <1>7, <1>8, <1>9, <1>10, <1>11, <1>12, <1>13, <1>14, <1>15
    DEF CleanupStep

LEMMA WorkerTyped ==
    ASSUME TypeInv, NEW w \in Workers, WorkerStep(w)
    PROVE  TypeInv'
  <1> USE BoundsAssumption DEF TypeInv, TypeOK
  <1>1. CASE BuildStep(w) \/ CleanupStep(w)
    BY <1>1, BuildTyped, CleanupTyped
  <1>2. CASE lose_build_lock(w)
    BY <1>2
    DEF lose_build_lock, FinTypeOK, RowTypeOK, BuildTypeOK, LeaseTypeOK,
        DiskTypeOK, BackendTypeOK, WorkerTypeOK, StreamTypeOK, BusyWorkers,
        BusyStreams, ReadyHasDigest, finVars, rowVars, identityVars,
        buildVars, leaseVars, sessionVars, diskVars, backendVars, streamVars
  <1>3. CASE pulse_cleanup_lease(w)
    <2>1. LeaseTypeOK'
      BY <1>3 DEF pulse_cleanup_lease, LeaseTypeOK, sessionVars
    <2> QED
      BY <1>3, <2>1
      DEF pulse_cleanup_lease, FinTypeOK, RowTypeOK, BuildTypeOK, DiskTypeOK,
          BackendTypeOK, WorkerTypeOK, StreamTypeOK, BusyWorkers,
          BusyStreams, ReadyHasDigest, finVars, identityVars, buildVars,
          diskVars, backendVars, workerVars, streamVars
  <1>4. CASE worker_dies(w)
    <2>1. /\ (/\ FinTypeOK /\ RowTypeOK /\ BuildTypeOK /\ LeaseTypeOK
              /\ BackendTypeOK /\ StreamTypeOK /\ BusyStreams
              /\ ReadyHasDigest)'
          /\ faults' = faults
      BY <1>4
      DEF worker_dies, FinTypeOK, RowTypeOK, BuildTypeOK, LeaseTypeOK,
          BackendTypeOK, StreamTypeOK, BusyStreams, ReadyHasDigest, finVars,
          rowVars, identityVars, buildVars, leaseVars, sessionVars,
          backendVars, streamVars
    <2>2. (WorkerTypeOK /\ BusyWorkers)'
      BY <1>4, PhaseTyped DEF worker_dies, WorkerTypeOK
    <2>3. DiskTypeOK'
      <3>1. CASE ArtifactKept /\ UNCHANGED staging
        BY <2>1, <3>1 DEF ArtifactKept, DiskTypeOK
      <3>2. CASE /\ wpc[w] = "building"
                 /\ staging' = staging \cup {<<job[w], token[w]>>}
                 /\ ArtifactKept
        <4>1. job[w] \in Packages /\ token[w] \in Attempts
          BY <3>2 DEF BusyWorkers, BuildSteps
        <4> QED
          <5>1. <<job[w], token[w]>> \in Packages \X Attempts
            BY <4>1
          <5> QED
            BY <2>1, <3>2, <5>1 DEF ArtifactKept, DiskTypeOK
      <3>3. CASE /\ wpc[w] = "deleting"
                 /\ ArtifactMoved(w) \/ ArtifactDeleted(w)
                 /\ UNCHANGED staging
        <4>1. job[w] \in Packages
          BY <3>3 DEF BusyWorkers, CleanupSteps
        <4> QED
          BY <2>1, <3>3, <4>1, ArtifactTyped
      <3> QED
        BY <1>4, <3>1, <3>2, <3>3 DEF worker_dies
    <2> QED
      BY <2>1, <2>2, <2>3
  <1> QED
    BY <1>1, <1>2, <1>3, <1>4 DEF WorkerStep

LEMMA MaintenanceTyped ==
    ASSUME TypeInv, Maintenance
    PROVE  TypeInv'
  BY ZenonT(60) DEF TypeInv, TypeOK, Maintenance, cleanup_stale_package_staging,
         FinTypeOK, RowTypeOK, BuildTypeOK, LeaseTypeOK, DiskTypeOK,
         BackendTypeOK, WorkerTypeOK, StreamTypeOK, BusyWorkers, BusyStreams,
         ReadyHasDigest, finVars, rowVars, identityVars, buildVars,
         leaseVars, sessionVars, backendVars, workerVars, streamVars

LEMMA StreamTyped ==
    ASSUME TypeInv, NEW c \in Clients, StreamStep(c)
    PROVE  TypeInv'
  <1> USE BoundsAssumption DEF TypeInv, TypeOK
  <1>1. (/\ FinTypeOK /\ RowTypeOK /\ BuildTypeOK /\ DiskTypeOK
         /\ BackendTypeOK /\ WorkerTypeOK /\ BusyWorkers /\ ReadyHasDigest)'
    BY StreamFrame
    DEF FinTypeOK, RowTypeOK, BuildTypeOK, DiskTypeOK, BackendTypeOK,
        WorkerTypeOK, BusyWorkers, ReadyHasDigest, finVars, identityVars,
        buildVars, diskVars, backendVars, workerVars
  <1>2. \A p \in Packages : FileIdentity(p) \in FileIdentities
    <2> SUFFICES ASSUME NEW p \in Packages
                 PROVE  FileIdentity(p) \in FileIdentities
      OBVIOUS
    <2>1. canonical[p] \in 0..MaxAttempts /\ (p \in damaged) \in BOOLEAN
      BY SMTT(20) DEF DiskTypeOK
    <2> QED
      BY <2>1, Zenon DEF FileIdentity, FileIdentities
  <1>3. ASSUME NEW p \in Packages, session[p] # NoSession
        PROVE  session[p] \in Sessions
    BY <1>3 DEF LeaseTypeOK
  <1>4. EndStream(c) => (StreamTypeOK /\ BusyStreams)'
    BY SMTT(20), NoFileTyped DEF EndStream, StreamTypeOK, BusyStreams
  <1>5. UNCHANGED streamVars => (StreamTypeOK /\ BusyStreams)'
    BY DEF StreamTypeOK, BusyStreams, streamVars
  <1>6. ASSUME NEW p \in Packages, authorize_package_download_session(c, p)
        PROVE  TypeInv'
    <2>1. [state |-> "fresh", owner |-> c, file |-> FileIdentity(p),
           live |-> TRUE] \in Sessions
      BY <1>2 DEF Sessions, SessionStates
    <2>2. LeaseTypeOK'
      BY <1>6, <2>1
      DEF authorize_package_download_session, LeaseTypeOK, leaseVars
    <2> QED
      BY <1>1, <1>5, <1>6, <2>2 DEF authorize_package_download_session
  <1>7. ASSUME NEW p \in Packages, NEW resume \in BOOLEAN,
               begin_package_download(c, p, resume)
        PROVE  TypeInv'
    <2>1. session[p] \in Sessions
      BY <1>3, <1>7 DEF begin_package_download, SessionMatches
    <2>2. session' \in [Packages -> Sessions \cup {NoSession}]
      BY <1>7, <2>1
      DEF begin_package_download, LeaseTypeOK, Sessions, SessionStates
    <2>3. LeaseTypeOK'
      BY <1>7, <2>2 DEF begin_package_download, LeaseTypeOK
    <2>4. (StreamTypeOK /\ BusyStreams)'
      BY SMTT(20), <1>2, <1>7
      DEF begin_package_download, StreamTypeOK, BusyStreams, Packages
    <2> QED
      BY <1>1, <2>3, <2>4
  <1>8. CASE open_verified_archive(c)
    <2>1. (StreamTypeOK /\ BusyStreams)'
      BY <1>8 DEF open_verified_archive, StreamTypeOK, BusyStreams
    <2>2. LeaseTypeOK'
      BY <1>8 DEF open_verified_archive, LeaseTypeOK, rowVars, leaseVars,
                  sessionVars
    <2> QED
      BY <1>1, <2>1, <2>2
  <1>9. CASE mark_package_download_session_verified(c)
    <2>1. target[c] \in Packages
      BY <1>9 DEF mark_package_download_session_verified, BusyStreams
    <2>2. session[target[c]] \in Sessions
      BY <1>3, <1>9, <2>1
      DEF mark_package_download_session_verified, SessionMatches
    <2>3. session' \in [Packages -> Sessions \cup {NoSession}]
      BY <1>9, <2>1, <2>2
      DEF mark_package_download_session_verified, LeaseTypeOK, Sessions,
          SessionStates
    <2>4. LeaseTypeOK'
      BY <1>9, <2>3
      DEF mark_package_download_session_verified, LeaseTypeOK, leaseVars
    <2>5. (StreamTypeOK /\ BusyStreams)'
      BY <1>9 DEF mark_package_download_session_verified, StreamTypeOK,
                  BusyStreams
    <2> QED
      BY <1>1, <2>4, <2>5
  <1>10. CASE renew_package_download_lease(c)
    <2>1. LeaseTypeOK'
      BY <1>10 DEF renew_package_download_lease, LeaseTypeOK, sessionVars
    <2> QED
      BY <1>1, <1>5, <1>10, <2>1 DEF renew_package_download_lease
  <1>11. ASSUME NEW completed \in BOOLEAN,
                release_package_download_lease(c, completed)
         PROVE  TypeInv'
    <2>1. target[c] \in Packages
      BY <1>11 DEF release_package_download_lease, BusyStreams
    <2>2. LeaseTypeOK'
      BY <1>11, <2>1 DEF release_package_download_lease, LeaseTypeOK
    <2> QED
      BY <1>1, <1>4, <1>11, <2>2 DEF release_package_download_lease
  <1>12. CASE stream_dies(c)
    <2>1. LeaseTypeOK'
      BY <1>12 DEF stream_dies, LeaseTypeOK, rowVars, leaseVars, sessionVars
    <2> QED
      BY <1>1, <1>4, <1>12, <2>1 DEF stream_dies
  <1> QED
    BY <1>6, <1>7, <1>8, <1>9, <1>10, <1>11, <1>12 DEF StreamStep

LEMMA EnvironmentTyped ==
    ASSUME TypeInv, Environment
    PROVE  TypeInv'
  <1> USE BoundsAssumption DEF TypeInv, TypeOK
  <1>1. /\ (/\ FinTypeOK /\ BackendTypeOK /\ WorkerTypeOK /\ StreamTypeOK
            /\ BusyWorkers /\ BusyStreams /\ ReadyHasDigest)'
        /\ UNCHANGED <<status, identityVars, attempts, buildLease, sha, lease,
                       reclaimed, invalidation, quarantined, staging>>
    BY EnvironmentFrame
    DEF FinTypeOK, BackendTypeOK, WorkerTypeOK, StreamTypeOK, BusyWorkers,
        BusyStreams, ReadyHasDigest, finVars, backendVars, workerVars,
        streamVars
  <1>2. PICK p \in Packages :
           \/ package_expires(p) \/ build_falls_due(p) \/ lease_lapses(p)
           \/ session_lapses(p) \/ cooldown_ends(p)
           \/ \E lost \in BOOLEAN : archive_fault(p, lost)
    BY DEF Environment
  <1> USE DEF package_expires, build_falls_due, lease_lapses, cooldown_ends,
              archive_fault, DeadlineFrame, session_lapses
  <1>3. RowTypeOK'
    BY <1>1, <1>2 DEF RowTypeOK, identityVars, rowVars
  <1>4. BuildTypeOK'
    BY <1>1, <1>2 DEF BuildTypeOK, rowVars, buildVars
  <1>5. LeaseTypeOK'
    <2>1. session' \in [Packages -> Sessions \cup {NoSession}]
      <3>1. CASE session_lapses(p)
        <4>1. session[p] \in Sessions
          BY <3>1 DEF LeaseTypeOK
        <4> QED
          BY <3>1, <4>1 DEF LeaseTypeOK, Sessions
      <3>2. CASE ~session_lapses(p)
        <4>1. UNCHANGED session
          BY <1>2, <3>2 DEF rowVars, sessionVars
        <4> QED
          BY <4>1 DEF LeaseTypeOK
      <3> QED
        BY <3>1, <3>2
    <2>2. leaseLive' \in [Packages -> BOOLEAN]
      BY <1>2 DEF LeaseTypeOK, rowVars, leaseVars
    <2>3. cooling' \in [Packages -> BOOLEAN]
      BY <1>2 DEF LeaseTypeOK, rowVars, sessionVars
    <2> QED
      BY <1>1, <2>1, <2>2, <2>3 DEF LeaseTypeOK
  <1>6. DiskTypeOK'
    BY SMTT(20), <1>1, <1>2 DEF DiskTypeOK, diskVars
  <1> QED
    BY <1>1, <1>3, <1>4, <1>5, <1>6

LEMMA StutterTyped ==
    ASSUME TypeInv, UNCHANGED vars
    PROVE  TypeInv'
  BY DEF TypeInv, TypeOK, vars, FinTypeOK, RowTypeOK, BuildTypeOK,
         LeaseTypeOK, DiskTypeOK, BackendTypeOK, WorkerTypeOK, StreamTypeOK,
         BusyWorkers, BusyStreams, ReadyHasDigest, finVars, rowVars,
         identityVars, buildVars, leaseVars, sessionVars, diskVars,
         backendVars, workerVars, streamVars

LEMMA StepTyped ==
    ASSUME TypeInv, [Next]_vars
    PROVE  TypeInv'
  BY FinalizingTyped, PreparingTyped, PostCommitTyped, WorkerTyped,
     MaintenanceTyped, StreamTyped, EnvironmentTyped, StutterTyped
  DEF Next

LEMMA Typed == Spec => []TypeInv
  BY InitTyped, StepTyped, PTL DEF Spec

\* Type correctness of the rows, the files and the processes' locals.
THEOREM TypeCorrect == Spec => []TypeOK
  <1>1. TypeInv => TypeOK
    BY DEF TypeInv
  <1> QED
    BY <1>1, Typed, PTL

(***************************************************************************)
(* What is offered is final, what is revoked is tracked, and the cleanup   *)
(* status tells the truth: the three invariants support one another, so    *)
(* they are proved together, from one inductive invariant.  It speaks of   *)
(* rows only: neither the files nor the processes' locals are needed.      *)
(***************************************************************************)

(*-------------------------- the inductive invariant ----------------------*)

\* The invariant of one package row.
RowInv(p) ==
    /\ \A f \in contents[p] : f[2] <= finCount[f[1]]
    /\ status[p] = "none" => /\ contents[p] = {}
                             /\ ~reclaimed[p]
                             /\ lease[p] = NoLease
                             /\ \A f \in Finalizations :
                                  invalidation[p][f] = "none"
    /\ reclaimed[p] => status[p] \in {"failed", "expired"}
    /\ lease[p] \in Clients => status[p] = "ready"
    /\ status[p] \in {"preparing", "ready"} =>
          contents[p] # {} /\ contents[p] \subseteq ActiveFinalizations
    /\ \A f \in Finalizations :
          /\ invalidation[p][f] = "complete" => reclaimed[p]
          /\ Incomplete(p, f) => /\ f \in contents[p] \ ActiveFinalizations
                                 /\ status[p] = "invalidated"
                                 /\ ~reclaimed[p]
    /\ \A f \in contents[p] \ ActiveFinalizations :
          Charged(p) => Incomplete(p, f)

CountInv == \A i \in Items : activeFin[i] <= finCount[i]

\* While prepare_package hashes, the project row is locked.
ScanInv ==
    scan # NoScan =>
       /\ ActiveFinalizations # {}
       /\ scan.candidate # 0 => contents[scan.candidate] = ActiveFinalizations

TrackingInv ==
    /\ TypeInv
    /\ CountInv
    /\ \A p \in Packages : RowInv(p)
    /\ ScanInv

LEMMA InitTracked == Init => TrackingInv
  BY SMTT(20), InitTyped, IdentityAssumption
  DEF Init, TrackingInv, CountInv, RowInv, ScanInv, Incomplete, Charged

(*-------------------------------- unchanged ------------------------------*)

\* A row whose relevant columns keep their values keeps its invariant.
LEMMA RowKept ==
    ASSUME NEW p \in Packages, RowInv(p), UNCHANGED <<finVars, contents>>,
           status'[p] = status[p], reclaimed'[p] = reclaimed[p],
           lease'[p] = lease[p], invalidation'[p] = invalidation[p]
    PROVE  RowInv(p)'
  BY DEF RowInv, finVars, ActiveFinalizations, Incomplete, Charged

LEMMA CountKept ==
    ASSUME CountInv, UNCHANGED finVars
    PROVE  CountInv'
  BY DEF CountInv, finVars

LEMMA ScanKept ==
    ASSUME ScanInv, UNCHANGED <<finVars, contents, scan>>
    PROVE  ScanInv'
  BY DEF ScanInv, finVars, ActiveFinalizations

LEMMA TrackedKept ==
    ASSUME TrackingInv, TypeInv',
           UNCHANGED <<finVars, contents, status, reclaimed, lease,
                       invalidation, scan>>
    PROVE  TrackingInv'
  <1>1. \A p \in Packages : RowInv(p)'
    BY RowKept DEF TrackingInv
  <1> QED
    BY <1>1, CountKept, ScanKept DEF TrackingInv

(*------------------------------ finalizing -------------------------------*)

\* A finalization takes a number that no package contains.
LEMMA FinalizeTracked ==
    ASSUME TrackingInv, TypeInv', ProjectUnlocked, NEW S \in SUBSET Items,
           FinalizeLockedItems(S)
    PROVE  TrackingInv'
  <1> USE BoundsAssumption DEF TrackingInv, TypeInv, TypeOK, FinTypeOK
  <1>1. UNCHANGED <<contents, status, reclaimed, lease, invalidation, scan>>
    BY DEF FinalizeLockedItems, rowVars, identityVars, leaseVars, backendVars
  <1>2. CountInv'
    BY SMTT(20) DEF FinalizeLockedItems, CountInv
  <1>3. ScanInv'
    BY <1>1 DEF ScanInv, ProjectUnlocked
  <1>4. ASSUME NEW p \in Packages
        PROVE  RowInv(p)'
    <2>1. contents[p] \subseteq Finalizations
      BY DEF RowTypeOK
    <2>2. \A f \in contents[p] : /\ f[1] \in Items
                                 /\ f[2] \in 1..MaxFinalizations
                                 /\ f[2] <= finCount[f[1]]
      BY <2>1 DEF RowInv, Finalizations
    <2>3. \A f \in contents[p] :
             activeFin'[f[1]] = f[2] <=> activeFin[f[1]] = f[2]
      BY SMTT(20), <2>2 DEF FinalizeLockedItems
    <2>4. \A f \in contents[p] :
             f \in ActiveFinalizations' <=> f \in ActiveFinalizations
      BY <2>1, <2>3 DEF ActiveFinalizations
    <2>5. \A f \in contents[p] : f[2] <= finCount'[f[1]]
      BY SMTT(20), <2>2 DEF FinalizeLockedItems
    <2> QED
      BY <1>1, <2>4, <2>5 DEF RowInv, Incomplete, Charged
  <1> QED
    BY <1>2, <1>3, <1>4

\* A revocation withdraws every charged package it concerns and opens the
\* rows that track it.
LEMMA RevokeTracked ==
    ASSUME TrackingInv, TypeInv', ProjectUnlocked, NEW S \in SUBSET Items,
           RevokeLockedFinalizations(S)
    PROVE  TrackingInv'
  <1> USE BoundsAssumption DEF TrackingInv, TypeInv, TypeOK, FinTypeOK
  <1> DEFINE revoked == {f \in ActiveFinalizations : f[1] \in S}
  <1>1. UNCHANGED <<finCount, contents, reclaimed, scan>>
    BY DEF RevokeLockedFinalizations, identityVars, backendVars
  <1>2. CountInv'
    <2>1. \A i \in Items : activeFin'[i] \in {0, activeFin[i]}
      BY DEF RevokeLockedFinalizations
    <2>2. \A i \in Items : finCount[i] \in Nat
      BY SMTT(20)
    <2> QED
      BY SMTT(20), <1>1, <2>1, <2>2 DEF CountInv
  <1>3. ScanInv'
    BY <1>1 DEF ScanInv, ProjectUnlocked
  <1>4. ActiveFinalizations' = ActiveFinalizations \ revoked
    <2>1. \A f \in Finalizations : /\ f[1] \in Items
                                   /\ f[2] \in 1..MaxFinalizations
      BY DEF Finalizations
    <2>2. \A f \in Finalizations :
             activeFin'[f[1]] = f[2] <=> activeFin[f[1]] = f[2] /\ f[1] \notin S
      <3>1. activeFin' = [i \in Items |-> IF i \in S THEN 0 ELSE activeFin[i]]
        BY DEF RevokeLockedFinalizations
      <3> QED
        BY SMTT(20), <2>1, <3>1
    <2> QED
      BY <2>2 DEF ActiveFinalizations
  <1>5. ASSUME NEW p \in Packages
        PROVE  RowInv(p)'
    <2> DEFINE hit == Charged(p) /\ contents[p] \cap revoked # {}
               reset == hit /\ status[p] # "invalidated"
    <2>1. /\ status'[p] = IF hit THEN "invalidated" ELSE status[p]
          /\ lease'[p] = IF reset THEN NoLease ELSE lease[p]
          /\ \A f \in Finalizations :
               invalidation'[p][f] =
                 IF Charged(p) /\ f \in contents[p] \cap revoked
                 THEN "pending" ELSE invalidation[p][f]
      BY DEF RevokeLockedFinalizations, Invalidates, NeedsRow
    <2>2. contents[p] \subseteq Finalizations
      BY DEF RowTypeOK
    <2>3. RowInv(p)
      OBVIOUS
    <2> HIDE DEF revoked
    <2>4. \A f \in contents[p] : f[2] <= finCount[f[1]]
      BY <2>3 DEF RowInv
    <2>5. CASE hit
      <3>1. status'[p] = "invalidated" /\ Charged(p) /\ ~reclaimed[p]
        BY <2>1, <2>5 DEF Charged
      <3>2. lease'[p] \notin Clients
        <4>1. CASE status[p] = "invalidated"
          BY <2>1, <2>3, <4>1 DEF RowInv
        <4>2. CASE status[p] # "invalidated"
          BY <2>1, <2>5, <4>2, IdentityAssumption
        <4> QED
          BY <4>1, <4>2
      <3>3. ASSUME NEW f \in Finalizations
            PROVE  /\ invalidation'[p][f] # "complete"
                   /\ Incomplete(p, f)' =>
                        f \in contents[p] \ ActiveFinalizations'
        BY <1>4, <2>1, <2>3, <3>1 DEF RowInv, Incomplete
      <3>4. ASSUME NEW f \in contents[p] \ ActiveFinalizations'
            PROVE  Incomplete(p, f)'
        BY <1>4, <2>1, <2>2, <2>3, <3>1 DEF RowInv, Incomplete
      <3> QED
        BY <1>1, <2>4, <3>1, <3>2, <3>3, <3>4 DEF RowInv
    <2>6. CASE ~hit
      <3>1. /\ status'[p] = status[p]
            /\ lease'[p] = lease[p]
            /\ \A f \in Finalizations : invalidation'[p][f] = invalidation[p][f]
        BY <2>1, <2>6
      <3>2. Charged(p) => contents[p] \cap revoked = {}
        BY <2>6
      <3>3. status[p] \in {"preparing", "ready"} => Charged(p)
        BY <2>3 DEF RowInv, Charged
      <3>4. \A f \in contents[p] : Charged(p) =>
               (f \in ActiveFinalizations' <=> f \in ActiveFinalizations)
        BY <1>4, <3>2
      <3>5. \A f \in Finalizations : Incomplete(p, f) => Charged(p)
        BY <2>3 DEF RowInv, Charged
      <3>6. \A f \in contents[p] \ ActiveFinalizations' :
               Charged(p) => Incomplete(p, f)
        BY <2>3, <3>4 DEF RowInv
      <3>7. status[p] \in {"preparing", "ready"} =>
               contents[p] # {} /\ contents[p] \subseteq ActiveFinalizations'
        BY <2>3, <3>3, <3>4 DEF RowInv
      <3>8. \A f \in Finalizations :
               Incomplete(p, f) => f \in contents[p] \ ActiveFinalizations'
        BY <1>4, <2>3 DEF RowInv
      <3>9. /\ Charged(p)' = Charged(p)
            /\ \A f \in Finalizations : Incomplete(p, f)' = Incomplete(p, f)
        BY <1>1, <3>1 DEF Charged, Incomplete
      <3> QED
        BY <1>1, <2>2, <2>3, <2>4, <3>1, <3>6, <3>7, <3>8, <3>9 DEF RowInv
    <2> QED
      BY <2>5, <2>6
  <1> QED
    BY <1>2, <1>3, <1>5

\* A retry re-opens only rows of withdrawn packages.
LEMMA RetryTracked ==
    ASSUME TrackingInv, TypeInv', NEW i \in Items,
           retry_finalization_cleanup(i)
    PROVE  TrackingInv'
  <1> USE DEF TrackingInv
  <1>1. UNCHANGED <<finVars, contents, status, reclaimed, scan>>
    BY DEF retry_finalization_cleanup, identityVars, backendVars
  <1>2. ASSUME NEW p \in Packages
        PROVE  RowInv(p)'
    <2>1. /\ lease'[p] \in {NoLease, lease[p]}
          /\ \A f \in Finalizations :
               \/ invalidation'[p][f] = invalidation[p][f]
               \/ Incomplete(p, f) /\ invalidation'[p][f] = RetriedRow(p)
      BY DEF retry_finalization_cleanup
    <2>2. \A f \in Finalizations : Incomplete(p, f) => ~reclaimed[p]
      BY DEF RowInv
    <2>3. \A f \in Finalizations :
             /\ Incomplete(p, f)' <=> Incomplete(p, f)
             /\ invalidation[p][f] = "none" => invalidation'[p][f] = "none"
             /\ invalidation'[p][f] = "complete" =>
                  invalidation[p][f] = "complete"
      BY <2>1, <2>2 DEF Incomplete, RetriedRow
    <2>4. contents[p] \subseteq Finalizations
      BY DEF TypeInv, TypeOK, RowTypeOK
    <2>5. ActiveFinalizations' = ActiveFinalizations /\ Charged(p)' = Charged(p)
      BY <1>1 DEF ActiveFinalizations, Charged, finVars
    <2>6. lease'[p] \in Clients => lease[p] \in Clients
      BY <2>1, IdentityAssumption
    <2> QED
      BY ZenonT(30), <1>1, <2>1, <2>3, <2>4, <2>5, <2>6 DEF RowInv, finVars
  <1> QED
    BY <1>1, <1>2, CountKept, ScanKept

LEMMA FinalizingTracked ==
    ASSUME TrackingInv, Finalizing
    PROVE  TrackingInv'
  <1>1. TypeInv'
    BY FinalizingTyped DEF TrackingInv
  <1>2. \A i \in Items : {i} \in SUBSET Items
    OBVIOUS
  <1>3. /\ {i \in Items : activeFin[i] = 0} \in SUBSET Items
        /\ {i \in Items : activeFin[i] # 0} \in SUBSET Items
    OBVIOUS
  <1> QED
    BY <1>1, <1>2, <1>3, FinalizeTracked, RevokeTracked, RetryTracked
    DEF Finalizing, finalize_version, finalize_project, revoke_finalization,
        revoke_project_finalization

(*------------------------- preparing, post-commit ------------------------*)

LEMMA QueueTracked ==
    ASSUME TrackingInv, TypeInv', NEW q \in Packages,
           NEW failing \in BOOLEAN, prepare_queues(q, failing)
    PROVE  TrackingInv'
  <1> USE DEF TrackingInv
  <1>1. UNCHANGED <<finVars, invalidation>> /\ scan' = NoScan
    BY DEF prepare_queues
  <1>2. ActiveFinalizations' = ActiveFinalizations
    BY <1>1 DEF finVars, ActiveFinalizations
  <1>3. RowInv(q)'
    <2>1. /\ status[q] = "none"
          /\ status'[q] = "preparing"
          /\ contents'[q] = ActiveFinalizations
          /\ ActiveFinalizations # {}
      BY DEF prepare_queues, ScanInv, TypeInv, TypeOK, RowTypeOK
    <2>2. ~(failing /\ q = scan.candidate)
      BY <2>1 DEF prepare_queues, ReuseFails, FingerprintHolds
    <2>3. ~reclaimed'[q] /\ lease'[q] = NoLease
      BY <2>1, <2>2 DEF prepare_queues, RowInv
    <2>4. \A f \in Finalizations : invalidation'[q][f] = "none"
      BY <1>1, <2>1 DEF RowInv
    <2>5. \A f \in ActiveFinalizations : f[2] <= finCount[f[1]]
      BY DEF ActiveFinalizations, CountInv, Finalizations
    <2> QED
      BY <1>1, <1>2, <2>1, <2>3, <2>4, <2>5, IdentityAssumption
      DEF RowInv, Incomplete, finVars
  <1>4. ASSUME NEW p \in Packages, p # q
        PROVE  RowInv(p)'
    <2>1. contents'[p] = contents[p]
      <3>1. contents' = [contents EXCEPT ![q] = ActiveFinalizations]
        BY DEF prepare_queues
      <3> QED
        BY <1>4, <3>1 DEF TypeInv, TypeOK, RowTypeOK
    <2>2. CASE failing /\ p = scan.candidate
      <3>1. /\ status[p] = "ready"
            /\ status'[p] = "failed"
            /\ lease'[p] = NoLease
        BY <1>4, <2>2 DEF prepare_queues, ReuseFails, FingerprintHolds
      <3>2. /\ \A f \in contents[p] : f \in ActiveFinalizations
            /\ ~reclaimed[p]
            /\ \A f \in Finalizations : ~Incomplete(p, f)
            /\ \A f \in contents[p] : f[2] <= finCount[f[1]]
            /\ \A f \in Finalizations : invalidation[p][f] # "complete"
        BY <3>1 DEF RowInv
      <3> QED
        BY <1>1, <1>2, <2>1, <3>1, <3>2, IdentityAssumption
        DEF RowInv, Incomplete, finVars
    <2>3. CASE ~(failing /\ p = scan.candidate)
      <3>1. /\ status'[p] = status[p]
            /\ lease'[p] = lease[p]
            /\ reclaimed'[p] = reclaimed[p]
        BY <1>4, <2>3 DEF prepare_queues, TypeInv, TypeOK, RowTypeOK
      <3>2. Charged(p)' = Charged(p)
        BY <3>1 DEF Charged
      <3>3. \A f \in Finalizations : Incomplete(p, f)' = Incomplete(p, f)
        BY <1>1 DEF Incomplete
      <3>4. contents[p] \subseteq Finalizations
        BY DEF TypeInv, TypeOK, RowTypeOK
      <3> QED
        BY <1>1, <1>2, <2>1, <3>1, <3>2, <3>3, <3>4 DEF RowInv, finVars
    <2> QED
      BY <2>2, <2>3
  <1> QED
    BY <1>1, <1>3, <1>4, CountKept DEF ScanInv

LEMMA PreparingTracked ==
    ASSUME TrackingInv, Preparing
    PROVE  TrackingInv'
  <1>1. TypeInv'
    BY PreparingTyped DEF TrackingInv
  <1>2. ASSUME NEW n \in Names, prepare_scan(n)
        PROVE  TrackingInv'
    <2>1. UNCHANGED <<finVars, contents, status, reclaimed, lease, invalidation>>
      BY <1>2 DEF prepare_scan, rowVars, identityVars, leaseVars
    <2>2. /\ ActiveFinalizations # {}
          /\ scan'.candidate # 0 => contents[scan'.candidate] = ActiveFinalizations
      <3>1. PICK c \in {0} \cup {p \in Packages : /\ status[p] = "ready"
                                                 /\ ~expired[p]
                                                 /\ Matches(p, n)} :
               scan'.candidate = c
        BY SMTT(20), <1>2 DEF prepare_scan
      <3> QED
        BY <1>2, <3>1 DEF prepare_scan, Matches
    <2>3. ScanInv'
      BY <2>1, <2>2 DEF ScanInv, finVars, ActiveFinalizations
    <2>4. \A p \in Packages : RowInv(p)'
      BY <2>1, RowKept DEF TrackingInv
    <2> QED
      BY <1>1, <2>1, <2>3, <2>4, CountKept DEF TrackingInv
  <1>3. CASE prepare_returns
    <2>1. UNCHANGED <<finVars, contents, status, reclaimed, lease, invalidation>>
      BY <1>3 DEF prepare_returns, rowVars, identityVars, leaseVars
    <2>2. ScanInv'
      BY <1>3 DEF prepare_returns, ScanInv
    <2>3. \A p \in Packages : RowInv(p)'
      BY <2>1, RowKept DEF TrackingInv
    <2> QED
      BY <1>1, <2>1, <2>2, <2>3, CountKept DEF TrackingInv
  <1> QED
    BY <1>1, <1>2, <1>3, QueueTracked DEF Preparing

\* Only the storage of a failed package is written off.
LEMMA PostCommitTracked ==
    ASSUME TrackingInv, PostCommit
    PROVE  TrackingInv'
  <1>1. TypeInv'
    BY PostCommitTyped DEF TrackingInv
  <1>2. UNCHANGED <<finVars, contents, status, lease, invalidation, scan>>
    BY PostCommitFrame DEF identityVars, leaseVars
  <1>3. CASE UNCHANGED reclaimed
    BY <1>1, <1>2, <1>3, TrackedKept
  <1>4. ASSUME NEW p \in Packages, post_commit_account(p)
        PROVE  TrackingInv'
    <2>1. \A r \in Packages :
            \/ reclaimed'[r] = reclaimed[r]
            \/ reclaimed'[r] = TRUE /\ status[r] = "failed"
      BY <1>4 DEF post_commit_account, TrackingInv, TypeInv, TypeOK, RowTypeOK
    <2>2. ASSUME NEW r \in Packages
          PROVE  RowInv(r)'
      <3>1. CASE reclaimed'[r] = reclaimed[r]
        BY <1>2, <3>1, RowKept DEF TrackingInv
      <3>2. CASE reclaimed'[r] = TRUE /\ status[r] = "failed"
        <4>1. RowInv(r)
          BY DEF TrackingInv
        <4>2. ActiveFinalizations' = ActiveFinalizations
          BY <1>2 DEF ActiveFinalizations, finVars
        <4> QED
          BY <1>2, <3>2, <4>1, <4>2 DEF RowInv, Charged, Incomplete, finVars
      <3> QED
        BY <2>1, <3>1, <3>2
    <2> QED
      BY <1>1, <1>2, <2>2, CountKept, ScanKept DEF TrackingInv
  <1> QED
    BY <1>3, <1>4
    DEF PostCommit, post_commit_unlink, post_commit_unlink_lost,
        post_commit_account_lost, rowVars

(*--------------------------------- worker --------------------------------*)

\* A step of the build phase changes at most the row of the package it is
\* about, and that one is still preparing.
LEMMA BuildTracked ==
    ASSUME TrackingInv, NEW w \in Workers, BuildStep(w)
    PROVE  TrackingInv'
  <1>1. TypeInv'
    BY BuildTyped DEF TrackingInv
  <1>2. UNCHANGED <<finVars, contents, lease, invalidation, scan>>
    BY BuildFrame DEF identityVars, leaseVars, backendVars
  <1>3. ActiveFinalizations' = ActiveFinalizations
    BY <1>2 DEF ActiveFinalizations, finVars
  <1>4. ASSUME NEW p \in Packages
        PROVE  \/ status'[p] = status[p] /\ reclaimed'[p] = reclaimed[p]
               \/ /\ status[p] = "preparing"
                  /\ \/ status'[p] = "ready" /\ ~reclaimed'[p]
                     \/ status'[p] = "failed"
    <2> USE DEF TrackingInv, TypeInv, TypeOK, RowTypeOK
    <2>1. CASE UNCHANGED <<status, reclaimed>>
      BY <2>1
    <2>2. CASE \E r \in Packages : claim_exhausted(w, r)
      BY <2>2 DEF claim_exhausted, OldestEligible, BuildEligible
    <2>3. CASE publish_prepared_package(w)
      BY <2>3 DEF publish_prepared_package, OwnsBuild
    <2>4. CASE record_package_build_failure(w)
      BY <2>4 DEF record_package_build_failure, OwnsBuild
    <2> QED
      BY <2>1, <2>2, <2>3, <2>4
      DEF BuildStep, skip_builds, claim_package_build, build_prepared_package,
          build_fails, publish_skipped, publish_rejected, publish_lost,
          discard_skipped, discard_failed, rowVars
  <1>5. ASSUME NEW p \in Packages
        PROVE  RowInv(p)'
    <2>1. RowInv(p)
      BY DEF TrackingInv
    <2>2. CASE status'[p] = status[p] /\ reclaimed'[p] = reclaimed[p]
      BY <1>2, <2>1, <2>2, RowKept
    <2>3. CASE /\ status[p] = "preparing"
               /\ \/ status'[p] = "ready" /\ ~reclaimed'[p]
                  \/ status'[p] = "failed"
      <3>1. /\ ~reclaimed[p] /\ lease[p] \notin Clients
            /\ contents[p] # {} /\ contents[p] \subseteq ActiveFinalizations
            /\ \A f \in Finalizations : /\ ~Incomplete(p, f)
                                        /\ invalidation[p][f] # "complete"
            /\ \A f \in contents[p] : f[2] <= finCount[f[1]]
        BY <2>1, <2>3 DEF RowInv
      <3> QED
        BY <1>2, <1>3, <2>3, <3>1 DEF RowInv, Incomplete, finVars
    <2> QED
      BY <1>4, <2>2, <2>3
  <1> QED
    BY <1>1, <1>2, <1>5, CountKept, ScanKept DEF TrackingInv

LEMMA ClaimTracked ==
    ASSUME TrackingInv, TypeInv', NEW w \in Workers, NEW p \in Packages,
           claim_expired_packages(w, p)
    PROVE  TrackingInv'
  <1> USE DEF TrackingInv
  <1>1. UNCHANGED <<finVars, contents, status, reclaimed, scan>>
    BY DEF claim_expired_packages, identityVars, backendVars
  <1>2. ActiveFinalizations' = ActiveFinalizations
    BY <1>1 DEF ActiveFinalizations, finVars
  <1>3. RowInv(p)'
    <2>1. /\ status[p] # "none"
          /\ lease'[p] = w
          /\ \A f \in Finalizations :
               invalidation'[p][f] = IF Incomplete(p, f) THEN "pending"
                                     ELSE invalidation[p][f]
      BY ZenonT(30) DEF claim_expired_packages, Claimable, Charged, TypeInv, TypeOK,
             LeaseTypeOK, RowTypeOK
    <2>2. \A f \in Finalizations :
             /\ Incomplete(p, f)' <=> Incomplete(p, f)
             /\ invalidation'[p][f] = "complete" =>
                  invalidation[p][f] = "complete"
      BY <2>1 DEF Incomplete
    <2>3. lease'[p] \notin Clients
      BY <2>1, IdentityAssumption
    <2>4. contents[p] \subseteq Finalizations
      BY DEF TypeInv, TypeOK, RowTypeOK
    <2>5. Charged(p)' = Charged(p)
      BY <1>1 DEF Charged
    <2> QED
      BY <1>1, <1>2, <2>1, <2>2, <2>3, <2>4, <2>5 DEF RowInv, finVars
  <1>4. ASSUME NEW r \in Packages, r # p
        PROVE  RowInv(r)'
    <2>1. lease'[r] = lease[r] /\ invalidation'[r] = invalidation[r]
      BY ZenonT(30), <1>4 DEF claim_expired_packages, TypeInv, TypeOK, LeaseTypeOK,
                  RowTypeOK
    <2> QED
      BY <1>1, <2>1, RowKept
  <1> QED
    BY <1>1, <1>3, <1>4, CountKept, ScanKept

\* What the two ways to end a cleanup write.
LEMMA CleanupEndTracked ==
    ASSUME TrackingInv, TypeInv', NEW w \in Workers,
           cleanup_accounts(w) \/ cleanup_records_failure(w)
    PROVE  TrackingInv'
  <1> USE DEF TrackingInv
  <1>1. PICK p \in Packages : p = job[w]
    BY DEF TypeInv, BusyWorkers, cleanup_accounts, cleanup_records_failure,
           CleanupSteps
  <1>2. UNCHANGED <<finVars, contents, scan>>
    BY DEF cleanup_accounts, cleanup_records_failure, identityVars, backendVars
  <1>3. ActiveFinalizations' = ActiveFinalizations
    BY <1>2 DEF ActiveFinalizations, finVars
  <1>4. status[p] # "none" /\ ~reclaimed[p] /\ RowInv(p)
    BY <1>1, IdentityAssumption
    DEF cleanup_accounts, cleanup_records_failure, OwnsClaim, RowInv
  <1>5. /\ \A f \in contents[p] : f[2] <= finCount[f[1]]
        /\ \A f \in Finalizations : invalidation[p][f] # "complete"
        /\ contents[p] \subseteq Finalizations
    BY <1>1, <1>4 DEF RowInv, TypeInv, TypeOK, RowTypeOK
  <1>6. RowInv(p)'
    <2>1. CASE cleanup_accounts(w)
      <3>1. /\ status'[p] = "expired" /\ reclaimed'[p] /\ lease'[p] = NoLease
            /\ \A f \in Finalizations : invalidation'[p][f] \in {"none", "complete"}
        BY <1>1, <2>1 DEF cleanup_accounts, TypeInv, TypeOK, RowTypeOK, LeaseTypeOK
      <3> QED
        BY <1>2, <1>3, <1>5, <3>1, IdentityAssumption
        DEF RowInv, Charged, Incomplete, finVars
    <2>2. CASE cleanup_records_failure(w)
      <3>1. /\ status'[p] = FailedCleanupStatus(status[p])
            /\ reclaimed' = reclaimed
            /\ lease'[p] = NoLease
            /\ \A f \in Finalizations :
                 invalidation'[p][f] = IF invalidation[p][f] = "none"
                                       THEN "none" ELSE "failed"
        BY <1>1, <2>2 DEF cleanup_records_failure, TypeInv, TypeOK, RowTypeOK,
                          LeaseTypeOK
      <3>2. \A f \in Finalizations : Incomplete(p, f)' <=> Incomplete(p, f)
        <4> SUFFICES ASSUME NEW f \in Finalizations
                     PROVE  Incomplete(p, f)' <=> Incomplete(p, f)
          OBVIOUS
        <4>1. invalidation[p][f] \in {"pending", "failed", "none"}
          BY SMTT(20), <1>1, <1>5 DEF TypeInv, TypeOK, RowTypeOK, CleanupStatuses
        <4> QED
          BY <3>1, <4>1 DEF Incomplete
      <3>3. /\ status'[p] # "none"
            /\ status'[p] \in {"preparing", "ready"} => status'[p] = status[p]
            /\ status[p] = "invalidated" => status'[p] = "invalidated"
        BY <1>4, <3>1 DEF FailedCleanupStatus
      <3>4. Charged(p) /\ Charged(p)'
        BY <1>4, <3>1, <3>3 DEF Charged
      <3>5. status[p] \in {"preparing", "ready"} =>
              contents[p] # {} /\ contents[p] \subseteq ActiveFinalizations
        BY <1>4 DEF RowInv
      <3>6. \A f \in Finalizations : invalidation'[p][f] # "complete"
        BY <3>1
      <3>7. /\ \A f \in Finalizations : Incomplete(p, f) =>
                 /\ f \in contents[p] \ ActiveFinalizations
                 /\ status[p] = "invalidated"
            /\ \A f \in contents[p] \ ActiveFinalizations : Incomplete(p, f)
        BY <1>4, <3>4 DEF RowInv
      <3> QED
        BY <1>2, <1>3, <1>4, <1>5, <3>1, <3>2, <3>3, <3>5, <3>6, <3>7,
           IdentityAssumption
        DEF RowInv, finVars
    <2> QED
      BY <2>1, <2>2
  <1>7. ASSUME NEW r \in Packages, r # p
        PROVE  RowInv(r)'
    <2>1. /\ lease'[r] = lease[r] /\ invalidation'[r] = invalidation[r]
          /\ status'[r] = status[r] /\ reclaimed'[r] = reclaimed[r]
      BY ZenonT(60), <1>1, <1>7
      DEF cleanup_accounts, cleanup_records_failure, TypeInv, TypeOK,
          LeaseTypeOK, RowTypeOK
    <2> QED
      BY <1>2, <2>1, RowKept
  <1> QED
    BY <1>2, <1>6, <1>7, CountKept, ScanKept

LEMMA WorkerTracked ==
    ASSUME TrackingInv, NEW w \in Workers, WorkerStep(w)
    PROVE  TrackingInv'
  <1>1. TypeInv'
    BY WorkerTyped DEF TrackingInv
  <1>2. CASE UNCHANGED <<finVars, contents, status, reclaimed, lease,
                         invalidation, scan>>
    BY <1>1, <1>2, TrackedKept
  <1>3. CASE \/ lose_build_lock(w) \/ pulse_cleanup_lease(w) \/ worker_dies(w)
    BY <1>2, <1>3 DEF lose_build_lock, pulse_cleanup_lease, worker_dies,
                      rowVars, identityVars, leaseVars, backendVars
  <1>4. CASE CleanupStep(w)
    BY <1>1, <1>2, <1>4, ClaimTracked, CleanupEndTracked
    DEF CleanupStep, nothing_to_clean, cleanup_reads_digest, cleanup_deletes,
        cleanup_delete_raises, cleanup_violates_check, cleanup_claim_lost,
        rowVars, identityVars, leaseVars, backendVars
  <1> QED
    BY <1>3, <1>4, BuildTracked DEF WorkerStep

(*------------------------- streams and the others ------------------------*)

\* A lease is granted on a ready package only.
LEMMA StreamTracked ==
    ASSUME TrackingInv, NEW c \in Clients, StreamStep(c)
    PROVE  TrackingInv'
  <1>1. TypeInv'
    BY StreamTyped DEF TrackingInv
  <1>2. UNCHANGED <<finVars, contents, status, reclaimed, invalidation, scan>>
    BY StreamFrame DEF identityVars, backendVars
  <1>3. ASSUME NEW p \in Packages
        PROVE  \/ lease'[p] = lease[p]
               \/ lease'[p] = NoLease
               \/ lease'[p] = c /\ status[p] = "ready"
    BY ZenonT(60) DEF StreamStep, authorize_package_download_session,
           begin_package_download, Downloadable, open_verified_archive,
           mark_package_download_session_verified,
           renew_package_download_lease, release_package_download_lease,
           stream_dies, rowVars, leaseVars, TrackingInv, TypeInv, TypeOK,
           LeaseTypeOK
  <1>4. ASSUME NEW p \in Packages
        PROVE  RowInv(p)'
    <2>1. RowInv(p) /\ ActiveFinalizations' = ActiveFinalizations
      BY <1>2 DEF TrackingInv, ActiveFinalizations, finVars
    <2>2. /\ lease'[p] \in Clients => status[p] = "ready"
          /\ status[p] = "none" => lease'[p] = NoLease
      BY <1>3, <2>1, IdentityAssumption DEF RowInv
    <2> QED
      BY <1>2, <2>1, <2>2 DEF RowInv, Charged, Incomplete, finVars
  <1> QED
    BY <1>1, <1>2, <1>4, CountKept, ScanKept DEF TrackingInv

LEMMA OthersTracked ==
    ASSUME TrackingInv, Maintenance \/ Environment \/ UNCHANGED vars
    PROVE  TrackingInv'
  <1>1. TypeInv'
    BY MaintenanceTyped, EnvironmentTyped, StutterTyped DEF TrackingInv
  <1>2. UNCHANGED <<finVars, contents, status, reclaimed, lease,
                    invalidation, scan>>
    BY EnvironmentFrame
    DEF Maintenance, cleanup_stale_package_staging, vars, rowVars,
        identityVars, leaseVars, backendVars
  <1> QED
    BY <1>1, <1>2, TrackedKept

LEMMA StepTracked ==
    ASSUME TrackingInv, [Next]_vars
    PROVE  TrackingInv'
  BY FinalizingTracked, PreparingTracked, PostCommitTracked, WorkerTracked,
     StreamTracked, OthersTracked
  DEF Next

\* The row invariant holds in every reachable state.
THEOREM Tracked == Spec => []TrackingInv
  BY InitTracked, StepTracked, PTL DEF Spec

(*-------------------------------- theorems -------------------------------*)

\* A revocation leaves no package that a worker would build or a client could
\* download (_revoke_locked_finalization).
THEOREM OfferedIsFinal == Spec => []OfferedContentIsFinal
  <1>1. TrackingInv => OfferedContentIsFinal
    BY DEF TrackingInv, RowInv, OfferedContentIsFinal
  <1> QED
    BY <1>1, Tracked, PTL

\* Every charged package with revoked content has an open invalidation row,
\* the only thing finalize_version looks at.
THEOREM RevokedIsTracked == Spec => []RevokedContentIsTracked
  <1>1. TrackingInv => RevokedContentIsTracked
    BY DEF TrackingInv, RowInv, RevokedContentIsTracked
  <1> QED
    BY <1>1, Tracked, PTL

\* "complete" is written only with the reclaim of the storage, and
\* retry_finalization_cleanup never meets one of its conflicts.
THEOREM CleanupIsTruthful == Spec => []CleanupStatusIsTruthful
  <1>1. TrackingInv => CleanupStatusIsTruthful
    <2> SUFFICES ASSUME TrackingInv, NEW p \in Packages,
                        NEW f \in Finalizations
                 PROVE  /\ invalidation[p][f] = "complete" => reclaimed[p]
                        /\ Incomplete(p, f) =>
                             /\ f \in contents[p] \ ActiveFinalizations
                             /\ status[p] = "invalidated"
                             /\ Charged(p)
                             /\ ~RetryConflict(p)
      BY DEF CleanupStatusIsTruthful
    <2>1. RowInv(p)
      BY DEF TrackingInv
    <2>2. status[p] = "invalidated" => ~RetryConflict(p)
      BY <2>1 DEF RowInv, RetryConflict, LeaseHeld, TrackingInv, TypeInv,
                  TypeOK, LeaseTypeOK
    <2> QED
      BY <2>1, <2>2 DEF RowInv, Charged
  <1> QED
    BY <1>1, Tracked, PTL

(***************************************************************************)
(* PackageLifecycle implements PackageContract: under TrackingInv every    *)
(* step maps to a step of the contract or leaves the contract's variables  *)
(* unchanged.                                                              *)
(***************************************************************************)

\* Only these columns matter to a package's phase.
LEMMA PhaseKept ==
    ASSUME NEW p \in Packages, status'[p] = status[p],
           reclaimed'[p] = reclaimed[p],
           expired'[p] = expired[p] \/ status[p] # "ready"
    PROVE  Phase(p)' = Phase(p)
  BY DEF Phase

LEMMA SameActive == Contract!Active = ActiveFinalizations
  BY DEF Contract!Active, Contract!Finalizations, ActiveFinalizations,
         Finalizations

\* A step that changes no phase, no content and no finalization.
LEMMA Stutters ==
    ASSUME UNCHANGED <<finVars, contents>>,
           \A p \in Packages : Phase(p)' = Phase(p)
    PROVE  UNCHANGED Contract!vars
  BY DEF Contract!vars, finVars

\* A step that moves one package on.
LEMMA Advances ==
    ASSUME UNCHANGED <<finVars, contents>>, NEW p \in Packages,
           \A r \in Packages \ {p} : Phase(r)' = Phase(r),
           \/ Phase(p)' = Phase(p)
           \/ Phase(p) = "queued" /\ Phase(p)' = "offered"
           \/ Phase(p) \in {"queued", "offered"} /\ Phase(p)' = "withdrawn"
           \/ /\ Phase(p) \in {"queued", "offered", "withdrawn"}
              /\ Phase(p)' = "gone"
    PROVE  [Contract!Next]_(Contract!vars)
  <1>1. CASE Phase(p)' = Phase(p)
    BY <1>1, Stutters
  <1>2. CASE Phase(p)' # Phase(p)
    <2>1. [r \in Packages |-> Phase(r)]' =
             [[r \in Packages |-> Phase(r)] EXCEPT ![p] = Phase(p)']
      OBVIOUS
    <2>2. Contract!Offer(p) \/ Contract!Withdraw(p) \/ Contract!Reclaim(p)
      BY <1>2, <2>1
      DEF Contract!Offer, Contract!Withdraw, Contract!Reclaim,
          Contract!Advance, finVars
    <2> QED
      BY <2>2 DEF Contract!Next, Contract!Packages, Packages
  <1> QED
    BY <1>1, <1>2

LEMMA InitRefines == Init => Contract!Init
  BY SMTT(20) DEF Init, Contract!Init, Contract!Packages, Packages, Phase

(*------------------------------ finalizing -------------------------------*)

\* finalize_version looks at the invalidation rows only; by the invariant
\* every package with an earlier finalization of the item is then gone.
LEMMA FinalizeRefines ==
    ASSUME TrackingInv, NEW S \in SUBSET Items, FinalizeLockedItems(S)
    PROVE  Contract!Finalize(S)
  <1>1. ASSUME NEW i \in S
        PROVE  /\ activeFin[i] = 0
               /\ \A p \in Packages : \A f \in contents[p] :
                    f[1] = i => Phase(p) = "gone"
    <2>1. activeFin[i] = 0 /\ ~CleanupPending(i)
      BY DEF FinalizeLockedItems
    <2>2. ASSUME NEW p \in Packages, NEW f \in contents[p], f[1] = i
          PROVE  Phase(p) = "gone"
      <3>1. RowInv(p) /\ f \in Finalizations
        BY DEF TrackingInv, TypeInv, TypeOK, RowTypeOK
      <3>2. f[2] # 0
        BY SMTT(20), <3>1, BoundsAssumption DEF Finalizations
      <3>3. f \notin ActiveFinalizations
        BY <2>1, <2>2, <3>2 DEF ActiveFinalizations
      <3>4. ~Charged(p)
        BY <2>1, <2>2, <3>1, <3>3 DEF RowInv, CleanupPending
      <3>5. status[p] # "none"
        BY <3>1 DEF RowInv
      <3> QED
        BY <3>4, <3>5 DEF Charged, Phase
    <2> QED
      BY <2>1, <2>2
  <1>2. UNCHANGED <<contents, status, reclaimed, expired>>
    BY DEF FinalizeLockedItems, rowVars, identityVars
  <1>3. \A p \in Packages : Phase(p)' = Phase(p)
    BY <1>2, PhaseKept
  <1> QED
    BY <1>1, <1>2, <1>3
    DEF Contract!Finalize, Contract!Packages, Packages, FinalizeLockedItems

LEMMA RevokeRefines ==
    ASSUME TrackingInv, NEW S \in SUBSET Items, RevokeLockedFinalizations(S),
           \A i \in S : activeFin[i] # 0
    PROVE  Contract!Revoke(S)
  <1> DEFINE revoked == {f \in ActiveFinalizations : f[1] \in S}
  <1>1. ASSUME NEW p \in Packages
        PROVE  Phase(p)' = IF /\ Phase(p) # "gone"
                              /\ \E f \in contents[p] :
                                   f[1] \in S /\ f \in ActiveFinalizations
                           THEN "withdrawn" ELSE Phase(p)
    <2>1. (\E f \in contents[p] : f[1] \in S /\ f \in ActiveFinalizations)
             <=> contents[p] \cap revoked # {}
      OBVIOUS
    <2>2. RowInv(p)
      BY DEF TrackingInv
    <2>3. contents[p] # {} => (Charged(p) <=> Phase(p) # "gone")
      BY <2>2 DEF RowInv, Charged, Phase
    <2>4. /\ status'[p] = IF Charged(p) /\ contents[p] \cap revoked # {}
                          THEN "invalidated" ELSE status[p]
          /\ reclaimed' = reclaimed
      BY DEF RevokeLockedFinalizations, Invalidates
    <2> HIDE DEF revoked
    <2>5. CASE Charged(p) /\ contents[p] \cap revoked # {}
      <3>1. Phase(p)' = "withdrawn"
        BY <2>4, <2>5 DEF Phase, Charged
      <3> QED
        BY <2>1, <2>3, <2>5, <3>1
    <2>6. CASE ~(Charged(p) /\ contents[p] \cap revoked # {})
      <3>1. expired'[p] = expired[p]
        BY <2>6 DEF RevokeLockedFinalizations, Invalidates, revoked,
                    TrackingInv, TypeInv, TypeOK, RowTypeOK
      <3>2. Phase(p)' = Phase(p)
        BY <2>4, <2>6, <3>1 DEF Phase
      <3> QED
        BY <2>1, <2>3, <2>6, <3>2
    <2> QED
      BY <2>5, <2>6
  <1>2. UNCHANGED <<finCount, contents>>
    BY DEF RevokeLockedFinalizations, identityVars
  <1>3. activeFin' = [i \in Items |-> IF i \in S THEN 0 ELSE activeFin[i]]
    BY DEF RevokeLockedFinalizations
  <1> QED
    BY <1>1, <1>2, <1>3, SameActive
    DEF Contract!Revoke, Contract!Packages, Packages

LEMMA FinalizingRefines ==
    ASSUME TrackingInv, Finalizing
    PROVE  [Contract!Next]_(Contract!vars)
  <1>1. ASSUME NEW S \in SUBSET Items, FinalizeLockedItems(S)
        PROVE  Contract!Next
    BY <1>1, FinalizeRefines DEF Contract!Next
  <1>2. ASSUME NEW S \in SUBSET Items, RevokeLockedFinalizations(S),
               \A i \in S : activeFin[i] # 0
        PROVE  Contract!Next
    BY <1>2, RevokeRefines DEF Contract!Next
  <1>3. ASSUME NEW i \in Items, retry_finalization_cleanup(i)
        PROVE  UNCHANGED Contract!vars
    <2>1. UNCHANGED <<finVars, contents, status, reclaimed>>
      BY <1>3 DEF retry_finalization_cleanup, identityVars
    <2>2. ASSUME NEW p \in Packages
          PROVE  expired'[p] = expired[p] \/ status[p] # "ready"
      <3>1. CASE p \in RetryTargets(i)
        BY <3>1 DEF RetryTargets, TrackingInv, RowInv
      <3>2. CASE p \notin RetryTargets(i)
        BY <1>3, <3>2 DEF retry_finalization_cleanup, TrackingInv, TypeInv,
                          TypeOK, RowTypeOK
      <3> QED
        BY <3>1, <3>2
    <2> QED
      BY <2>1, <2>2, PhaseKept, Stutters
  <1>4. \A i \in Items : {i} \in SUBSET Items
    OBVIOUS
  <1>5. /\ {i \in Items : activeFin[i] = 0} \in SUBSET Items
        /\ {i \in Items : activeFin[i] # 0} \in SUBSET Items
    OBVIOUS
  <1> QED
    BY <1>1, <1>2, <1>3, <1>4, <1>5
    DEF Finalizing, finalize_version, finalize_project, revoke_finalization,
        revoke_project_finalization

(*------------------------- preparing, post-commit ------------------------*)

LEMMA QueueRefines ==
    ASSUME TrackingInv, NEW q \in Packages, NEW failing \in BOOLEAN,
           prepare_queues(q, failing)
    PROVE  Contract!Next
  <1> DEFINE F(p) == failing /\ p = scan.candidate
             replaced == {p \in Packages : F(p)}
             end == IF WrittenOffAtOnce THEN "gone" ELSE "withdrawn"
  <1>1. Phase(q) = "absent"
    BY DEF prepare_queues, Phase
  <1>2. ActiveFinalizations # {}
    BY DEF prepare_queues, TrackingInv, ScanInv
  <1>3. \A p \in Packages : Phase(p) # "queued"
    BY DEF prepare_queues, Phase
  <1>4. ASSUME NEW p \in Packages, F(p)
        PROVE  /\ Phase(p) = "offered"
               /\ contents[p] = ActiveFinalizations
               /\ p # q
               /\ Phase(p)' = end
    <2>1. status[p] = "ready" /\ ~expired[p] /\ p # 0 /\ p # q
      BY <1>4 DEF prepare_queues, ReuseFails, FingerprintHolds
    <2>2. ~reclaimed[p]
      BY <2>1 DEF TrackingInv, RowInv
    <2>3. contents[p] = ActiveFinalizations
      BY <1>4, <2>1 DEF prepare_queues, TrackingInv, ScanInv
    <2>4. status'[p] = "failed" /\ reclaimed'[p] = WrittenOffAtOnce
      BY <1>4, <2>1 DEF prepare_queues, WrittenOffAtOnce
    <2> QED
      BY <2>1, <2>2, <2>3, <2>4 DEF Phase
  <1>5. Phase(q)' = "queued"
    <2>1. status'[q] = "preparing" /\ ~F(q)
      BY <1>4 DEF prepare_queues
    <2>2. ~reclaimed'[q]
      BY <2>1 DEF prepare_queues, TrackingInv, RowInv
    <2> QED
      BY <2>1, <2>2 DEF Phase
  <1>6. ASSUME NEW p \in Packages, p # q, ~F(p)
        PROVE  Phase(p)' = Phase(p)
    <2>1. /\ status'[p] = status[p] /\ reclaimed'[p] = reclaimed[p]
          /\ expired'[p] = expired[p]
      BY <1>6 DEF prepare_queues, TrackingInv, TypeInv, TypeOK, RowTypeOK
    <2> QED
      BY <2>1, PhaseKept
  <1>7. /\ [p \in Packages |-> Phase(p)]' =
              [p \in Packages |-> IF p = q THEN "queued"
                                  ELSE IF p \in replaced THEN end
                                  ELSE [r \in Packages |-> Phase(r)][p]]
        /\ end \in {"withdrawn", "gone"}
    BY <1>4, <1>5, <1>6
  <1>8. \A p \in replaced : Phase(p) = "offered" /\ contents[p] = ActiveFinalizations
    BY <1>4
  <1>9. /\ contents' = [contents EXCEPT ![q] = ActiveFinalizations]
        /\ UNCHANGED <<activeFin, finCount>>
    BY DEF prepare_queues, finVars
  <1> HIDE DEF replaced, end
  <1>10. replaced \in SUBSET Packages
    BY DEF replaced
  <1>11. Contract!Queue(q, replaced)
    BY <1>1, <1>2, <1>3, <1>7, <1>8, <1>9, <1>10, SameActive
    DEF Contract!Queue, Contract!Packages, Packages
  <1> QED
    BY <1>10, <1>11 DEF Contract!Next, Contract!Packages, Packages

LEMMA PreparingRefines ==
    ASSUME TrackingInv, Preparing
    PROVE  [Contract!Next]_(Contract!vars)
  <1>1. ASSUME UNCHANGED <<finVars, contents, status, reclaimed, expired>>
        PROVE  UNCHANGED Contract!vars
    BY <1>1, PhaseKept, Stutters
  <1> QED
    BY <1>1, QueueRefines
    DEF Preparing, prepare_scan, prepare_returns, rowVars, identityVars

LEMMA PostCommitRefines ==
    ASSUME TrackingInv, PostCommit
    PROVE  [Contract!Next]_(Contract!vars)
  <1>1. UNCHANGED <<finVars, contents, status, expired>>
    BY PostCommitFrame DEF identityVars
  <1>2. CASE UNCHANGED reclaimed
    BY <1>1, <1>2, PhaseKept, Stutters
  <1>3. ASSUME NEW p \in Packages, post_commit_account(p)
        PROVE  [Contract!Next]_(Contract!vars)
    <2>1. ASSUME NEW r \in Packages \ {p}
          PROVE  Phase(r)' = Phase(r)
      <3>1. reclaimed'[r] = reclaimed[r]
        BY <1>3 DEF post_commit_account, TrackingInv, TypeInv, TypeOK, RowTypeOK
      <3> QED
        BY <1>1, <3>1, PhaseKept
    <2>2. \/ Phase(p)' = Phase(p)
          \/ Phase(p) = "withdrawn" /\ Phase(p)' = "gone"
      BY <1>1, <1>3 DEF post_commit_account, Phase, TrackingInv, TypeInv,
                        TypeOK, RowTypeOK
    <2> QED
      BY <1>1, <2>1, <2>2, Advances
  <1> QED
    BY <1>2, <1>3
    DEF PostCommit, post_commit_unlink, post_commit_unlink_lost,
        post_commit_account_lost, rowVars

(*--------------------------- workers and clocks --------------------------*)

\* A build ends with an offer, a withdrawal or, when nothing is left on
\* disk, with the package gone.
LEMMA BuildRefines ==
    ASSUME TrackingInv, NEW w \in Workers, BuildStep(w)
    PROVE  [Contract!Next]_(Contract!vars)
  <1>1. UNCHANGED <<finVars, contents, expired>>
    BY BuildFrame DEF identityVars
  <1>2. CASE UNCHANGED <<status, reclaimed>>
    BY <1>1, <1>2, PhaseKept, Stutters
  <1>3. ASSUME NEW p \in Packages, status[p] = "preparing",
               status'[p] \in {"ready", "failed", "preparing"},
               status'[p] # "failed" => ~reclaimed'[p],
               \A r \in Packages \ {p} : /\ status'[r] = status[r]
                                         /\ reclaimed'[r] = reclaimed[r]
        PROVE  [Contract!Next]_(Contract!vars)
    <2>1. ~reclaimed[p]
      BY <1>3 DEF TrackingInv, RowInv
    <2>2. \/ Phase(p)' = Phase(p)
          \/ /\ Phase(p) = "queued"
             /\ Phase(p)' \in {"offered", "withdrawn", "gone"}
      BY <1>3, <2>1 DEF Phase
    <2>3. \A r \in Packages \ {p} : Phase(r)' = Phase(r)
      BY <1>1, <1>3, PhaseKept
    <2> QED
      BY <1>1, <2>2, <2>3, Advances
  <1>4. ASSUME NEW p \in Packages, claim_exhausted(w, p)
        PROVE  [Contract!Next]_(Contract!vars)
    <2>1. /\ status[p] = "preparing" /\ status'[p] = "failed"
          /\ \A r \in Packages \ {p} : /\ status'[r] = status[r]
                                       /\ reclaimed'[r] = reclaimed[r]
      BY <1>4 DEF claim_exhausted, OldestEligible, BuildEligible,
                  TrackingInv, TypeInv, TypeOK, RowTypeOK
    <2> QED
      BY <1>3, <2>1
  <1>5. CASE publish_prepared_package(w) \/ record_package_build_failure(w)
    <2>1. PICK p \in Packages : p = job[w]
      BY <1>5 DEF publish_prepared_package, record_package_build_failure,
                  TrackingInv, TypeInv, BusyWorkers, BuildSteps
    <2>2. \A r \in Packages \ {p} : /\ status'[r] = status[r]
                                    /\ reclaimed'[r] = reclaimed[r]
      BY <1>5, <2>1 DEF publish_prepared_package, record_package_build_failure,
                        TrackingInv, TypeInv, TypeOK, RowTypeOK
    <2>3. CASE publish_prepared_package(w)
      <3>1. /\ status[p] = "preparing" /\ status'[p] = "ready"
            /\ ~reclaimed'[p]
        BY <2>1, <2>3 DEF publish_prepared_package, OwnsBuild, TrackingInv,
                          TypeInv, TypeOK, RowTypeOK
      <3> QED
        BY <1>3, <2>2, <3>1
    <2>4. CASE record_package_build_failure(w) /\ status[p] = "preparing"
      <3>1. ~reclaimed[p]
        BY <2>4 DEF TrackingInv, RowInv
      <3>2. /\ status'[p] \in {"failed", "preparing"}
            /\ status'[p] # "failed" => ~reclaimed'[p]
        BY <2>1, <2>4, <3>1 DEF record_package_build_failure, TrackingInv,
                                TypeInv, TypeOK, RowTypeOK
      <3> QED
        BY <1>3, <2>2, <2>4, <3>2
    <2>5. CASE record_package_build_failure(w) /\ status[p] # "preparing"
      <3>1. status'[p] = status[p] /\ reclaimed'[p] = reclaimed[p]
        BY <2>1, <2>5 DEF record_package_build_failure, OwnsBuild,
                          TrackingInv, TypeInv, TypeOK, RowTypeOK
      <3> QED
        BY <1>1, <2>2, <3>1, PhaseKept, Stutters
    <2> QED
      BY <1>5, <2>3, <2>4, <2>5
  <1> QED
    BY <1>2, <1>4, <1>5
    DEF BuildStep, skip_builds, claim_package_build, build_prepared_package,
        build_fails, publish_skipped, publish_rejected, publish_lost,
        discard_skipped, discard_failed, rowVars

\* A failed cleanup moves the package's deadline, but a package that was
\* offered is withdrawn with it.
LEMMA CleanupRefines ==
    ASSUME TrackingInv, NEW w \in Workers, CleanupStep(w)
    PROVE  [Contract!Next]_(Contract!vars)
  <1>1. UNCHANGED <<finVars, contents>>
    BY CleanupFrame DEF identityVars
  <1>2. CASE UNCHANGED <<status, reclaimed, expired>>
    BY <1>1, <1>2, PhaseKept, Stutters
  <1>3. CASE cleanup_accounts(w) \/ cleanup_records_failure(w)
    <2>1. PICK p \in Packages : p = job[w]
      BY <1>3 DEF cleanup_accounts, cleanup_records_failure, TrackingInv,
                  TypeInv, BusyWorkers, CleanupSteps
    <2>2. status[p] # "none" /\ ~reclaimed[p]
      BY <1>3, <2>1, IdentityAssumption
      DEF cleanup_accounts, cleanup_records_failure, OwnsClaim, TrackingInv,
          RowInv
    <2>3. ASSUME NEW r \in Packages \ {p}
          PROVE  Phase(r)' = Phase(r)
      <3>1. /\ status'[r] = status[r] /\ reclaimed'[r] = reclaimed[r]
            /\ expired'[r] = expired[r]
        BY <1>3, <2>1 DEF cleanup_accounts, cleanup_records_failure,
                          TrackingInv, TypeInv, TypeOK, RowTypeOK
      <3> QED
        BY <3>1, PhaseKept
    <2>4. Phase(p) \in {"queued", "offered", "withdrawn"}
      BY <2>2 DEF Phase
    <2>5. CASE cleanup_accounts(w)
      <3>1. Phase(p)' = "gone"
        BY <2>1, <2>5 DEF cleanup_accounts, Phase, TrackingInv, TypeInv,
                          TypeOK, RowTypeOK
      <3> QED
        BY <1>1, <2>3, <2>4, <3>1, Advances
    <2>6. CASE cleanup_records_failure(w)
      <3>1. /\ status'[p] = FailedCleanupStatus(status[p])
            /\ reclaimed' = reclaimed
        BY <2>1, <2>6 DEF cleanup_records_failure, TrackingInv, TypeInv,
                          TypeOK, RowTypeOK
      <3>2. \/ Phase(p)' = Phase(p)
            \/ Phase(p) = "offered" /\ Phase(p)' = "withdrawn"
        BY <2>2, <3>1 DEF Phase, FailedCleanupStatus
      <3> QED
        BY <1>1, <2>3, <3>2, Advances
    <2> QED
      BY <1>3, <2>5, <2>6
  <1> QED
    BY <1>2, <1>3
    DEF CleanupStep, claim_expired_packages, nothing_to_clean,
        cleanup_reads_digest, cleanup_deletes, cleanup_delete_raises,
        cleanup_violates_check, cleanup_claim_lost, rowVars

LEMMA EnvironmentRefines ==
    ASSUME TrackingInv, Environment
    PROVE  [Contract!Next]_(Contract!vars)
  <1>1. UNCHANGED <<finVars, contents, status, reclaimed>>
    BY EnvironmentFrame DEF identityVars
  <1>2. CASE UNCHANGED expired
    BY <1>1, <1>2, PhaseKept, Stutters
  <1>3. ASSUME NEW p \in Packages, package_expires(p)
        PROVE  [Contract!Next]_(Contract!vars)
    <2>1. ASSUME NEW r \in Packages \ {p}
          PROVE  Phase(r)' = Phase(r)
      <3>1. expired'[r] = expired[r]
        BY <1>3 DEF package_expires, TrackingInv, TypeInv, TypeOK, RowTypeOK
      <3> QED
        BY <1>1, <3>1, PhaseKept
    <2>2. \/ Phase(p)' = Phase(p)
          \/ Phase(p) = "offered" /\ Phase(p)' = "withdrawn"
      BY <1>1, <1>3 DEF package_expires, Phase, TrackingInv, TypeInv, TypeOK,
                        RowTypeOK
    <2> QED
      BY <1>1, <2>1, <2>2, Advances
  <1> QED
    BY <1>2, <1>3
    DEF Environment, build_falls_due, lease_lapses, session_lapses,
        cooldown_ends, archive_fault, rowVars

LEMMA StepRefines ==
    ASSUME TrackingInv, [Next]_vars
    PROVE  [Contract!Next]_(Contract!vars)
  <1>1. ASSUME UNCHANGED <<finVars, contents, status, reclaimed, expired>>
        PROVE  UNCHANGED Contract!vars
    BY <1>1, PhaseKept, Stutters
  <1>2. ASSUME NEW c \in Clients, StreamStep(c)
        PROVE  UNCHANGED Contract!vars
    BY <1>1, <1>2, StreamFrame DEF identityVars
  <1>3. ASSUME NEW w \in Workers, WorkerStep(w)
        PROVE  [Contract!Next]_(Contract!vars)
    BY <1>1, <1>3, BuildRefines, CleanupRefines
    DEF WorkerStep, lose_build_lock, pulse_cleanup_lease, worker_dies,
        rowVars, identityVars
  <1>4. CASE Maintenance \/ UNCHANGED vars
    BY <1>1, <1>4 DEF Maintenance, cleanup_stale_package_staging, vars,
                      rowVars, identityVars
  <1> QED
    BY <1>2, <1>3, <1>4, FinalizingRefines, PreparingRefines,
       PostCommitRefines, EnvironmentRefines
    DEF Next

\* The package subsystem implements its contract: a withdrawn package never
\* returns, a revocation withdraws what it concerns in the same step, and an
\* item is finalized again only when every package with an earlier
\* finalization of it is gone.
THEOREM Implements == Spec => ImplementsContract
  <1>1. Init => Contract!Init
    BY InitRefines
  <1>2. TrackingInv /\ [Next]_vars => [Contract!Next]_(Contract!vars)
    BY StepRefines
  <1> QED
    BY <1>1, <1>2, Tracked, PTL DEF Spec, ImplementsContract, Contract!Spec
=============================================================================
