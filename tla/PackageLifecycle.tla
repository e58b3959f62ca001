-------------------------- MODULE PackageLifecycle --------------------------
(***************************************************************************)
(* The life of a project's finalized-original packages: the commands of    *)
(* the backend, the package worker, the download streams and the           *)
(* environment (deadlines that pass, archives that are lost or damaged)    *)
(* interleaved.                                                            *)
(***************************************************************************)
EXTENDS Finalization, PackagePrepare, PackageBuild, PackageCleanup,
        PackageDownload

(*------------------------------ environment ------------------------------*)

DeadlineFrame == UNCHANGED <<finVars, status, identityVars, attempts,
                             buildLease, sha, lease, reclaimed, invalidation,
                             diskVars, backendVars, workerVars, streamVars>>

\* expires_at passes: the package's TTL, or the back-off of its cleanup.
package_expires(p) ==
    /\ Charged(p)
    /\ ~expired[p]
    /\ expired' = [expired EXCEPT ![p] = TRUE]
    /\ DeadlineFrame
    /\ UNCHANGED <<notDue, leaseLive, sessionVars>>

\* next_build_attempt_at passes.
build_falls_due(p) ==
    /\ notDue[p]
    /\ notDue' = [notDue EXCEPT ![p] = FALSE]
    /\ DeadlineFrame
    /\ UNCHANGED <<expired, leaseLive, sessionVars>>

lease_lapses(p) ==
    /\ leaseLive[p]
    /\ leaseLive' = [leaseLive EXCEPT ![p] = FALSE]
    /\ DeadlineFrame
    /\ UNCHANGED <<expired, notDue, sessionVars>>

session_lapses(p) ==
    /\ session[p] # NoSession
    /\ session[p].live
    /\ session' = [session EXCEPT ![p].live = FALSE]
    /\ DeadlineFrame
    /\ UNCHANGED <<expired, notDue, leaseLive, cooling>>

cooldown_ends(p) ==
    /\ cooling[p]
    /\ cooling' = [cooling EXCEPT ![p] = FALSE]
    /\ DeadlineFrame
    /\ UNCHANGED <<expired, notDue, leaseLive, session>>

\* The storage loses an archive (lost) or changes its bytes.
archive_fault(p, lost) ==
    /\ faults < MaxFaults
    /\ canonical[p] # 0
    /\ faults' = faults + 1
    /\ canonical' = [canonical EXCEPT ![p] = IF lost THEN 0 ELSE @]
    /\ damaged' = IF lost THEN damaged \ {p} ELSE damaged \cup {p}
    /\ UNCHANGED <<finVars, rowVars, invalidation, quarantined, staging,
                   backendVars, workerVars, streamVars>>

Environment ==
    \E p \in Packages :
       \/ package_expires(p) \/ build_falls_due(p) \/ lease_lapses(p)
       \/ session_lapses(p) \/ cooldown_ends(p)
       \/ \E lost \in BOOLEAN : archive_fault(p, lost)

(*--------------------------------- actors --------------------------------*)

Finalizing ==
    \/ \E i \in Items : \/ finalize_version(i) \/ revoke_finalization(i)
                        \/ retry_finalization_cleanup(i)
    \/ finalize_project
    \/ revoke_project_finalization

Preparing ==
    \/ \E n \in Names : prepare_scan(n)
    \/ prepare_returns
    \/ \E q \in Packages, failing \in BOOLEAN : prepare_queues(q, failing)

PostCommit ==
    \E p \in Packages :
       \/ \E a \in Attempts : \/ post_commit_unlink(p, a)
                              \/ post_commit_unlink_lost(p, a)
       \/ post_commit_account(p)
       \/ post_commit_account_lost(p)

BuildStep(w) ==
    \/ skip_builds(w)
    \/ \E p \in Packages : claim_package_build(w, p) \/ claim_exhausted(w, p)
    \/ build_prepared_package(w)
    \/ \E retry, dies, left \in BOOLEAN : build_fails(w, retry, dies, left)
    \/ publish_prepared_package(w)
    \/ publish_skipped(w)
    \/ publish_rejected(w)
    \/ publish_lost(w)
    \/ \E failedAt \in 1..4 : \/ discard_skipped(w, failedAt)
                              \/ discard_failed(w, failedAt)
    \/ record_package_build_failure(w)

CleanupStep(w) ==
    \/ \E p \in Packages : claim_expired_packages(w, p)
    \/ nothing_to_clean(w)
    \/ cleanup_reads_digest(w)
    \/ cleanup_deletes(w)
    \/ cleanup_delete_raises(w)
    \/ cleanup_accounts(w)
    \/ cleanup_violates_check(w)
    \/ cleanup_records_failure(w)
    \/ cleanup_claim_lost(w)

WorkerStep(w) ==
    \/ BuildStep(w) \/ CleanupStep(w)
    \/ lose_build_lock(w) \/ pulse_cleanup_lease(w) \/ worker_dies(w)

Maintenance ==
    \E p \in Packages, a \in Attempts : cleanup_stale_package_staging(p, a)

StreamStep(c) ==
    \/ \E p \in Packages :
          \/ authorize_package_download_session(c, p)
          \/ \E resume \in BOOLEAN : begin_package_download(c, p, resume)
    \/ open_verified_archive(c)
    \/ mark_package_download_session_verified(c)
    \/ renew_package_download_lease(c)
    \/ \E completed \in BOOLEAN : release_package_download_lease(c, completed)
    \/ stream_dies(c)

Next ==
    \/ Finalizing
    \/ Preparing
    \/ PostCommit
    \/ \E w \in Workers : WorkerStep(w)
    \/ Maintenance
    \/ \E c \in Clients : StreamStep(c)
    \/ Environment

Spec == Init /\ [][Next]_vars

(*---------------------------------- safety --------------------------------*)

\* Everything that is queued or offered consists of active finalizations: a
\* revocation (_revoke_locked_finalization) leaves no package behind that a
\* worker would still build or a client could still download.
OfferedContentIsFinal ==
    \A p \in Packages : status[p] \in {"preparing", "ready"} =>
       contents[p] # {} /\ contents[p] \subseteq ActiveFinalizations

\* A package whose storage is still charged and that contains a revoked
\* finalization has an open invalidation row for it, whatever builds,
\* cleanups and retries happened since the revocation.  finalize_version
\* relies on those rows alone.
RevokedContentIsTracked ==
    \A p \in Packages : \A f \in contents[p] \ ActiveFinalizations :
       Charged(p) => Incomplete(p, f)

\* Cleanup status tells the truth: "complete" is written only with the
\* reclaim of the storage, and an open row belongs to an invalidated
\* package that is still charged.  Hence retry_finalization_cleanup never
\* meets one of its conflicts, nor an already reclaimed package.
CleanupStatusIsTruthful ==
    \A p \in Packages, f \in Finalizations :
       /\ invalidation[p][f] = "complete" => reclaimed[p]
       /\ Incomplete(p, f) =>
            /\ f \in contents[p] \ ActiveFinalizations
            /\ status[p] = "invalidated"
            /\ Charged(p)
            /\ ~RetryConflict(p)

\* Storage is written off only when the bytes are gone: no reclaimed package
\* has an archive, at its path or in the delete quarantine
\* (_cleanup_claimed_expired_packages, record_package_build_failure,
\* _fail_ready_package_reuse, run_post_commit_file_deletions).
ReclaimedStorageIsEmpty ==
    \A p \in Packages :
       reclaimed[p] => canonical[p] = 0 /\ quarantined[p] = 0

\* When an item is finalized, no archive with an earlier, revoked
\* finalization of it is left on disk (_finalize_locked_item checks only
\* the invalidation rows).
NoRevokedBytesOfFinalizedItem ==
    \A p \in Packages :
       canonical[p] # 0 \/ quarantined[p] # 0 =>
          \A f \in contents[p] \ ActiveFinalizations : activeFin[f[1]] = 0

\* The archive of an offered package is the one whose digest the row holds,
\* unless the storage itself failed: no late discard, cleanup or post-commit
\* deletion removes or replaces it.
OfferedArchiveIsPublished ==
    \A p \in Packages : status[p] = "ready" /\ ~expired[p] =>
       /\ sha[p] # 0
       /\ ~reclaimed[p]
       /\ canonical[p] = sha[p] \/ (canonical[p] = 0 /\ faults # 0)

\* Bytes are streamed only from the published, undamaged archive, also by a
\* request that resumes with a session verified before the archive was
\* damaged (mark_package_download_session_verified, begin_package_download).
StreamsVerifiedBytes ==
    \A c \in Clients : dpc[c] = "streaming" =>
       /\ opened[c] \in Attempts \X {FALSE}
       /\ sha[target[c]] \in {0, opened[c][1]}

\* A download lease that has not expired protects its stream: it is taken
\* away only when the stream ends or the package is withdrawn, and as long
\* as it is there the archive disappears only if the storage loses it.
\* Cleaners, late builders and post-commit deletions keep off it.
LeaseProtectsStream ==
    [][\A p \in Packages : LeaseHeld(p) /\ lease[p] \in Clients =>
          /\ \/ lease'[p] = lease[p]
             \/ dpc'[lease[p]] = "idle"
             \/ status'[p] # "ready"
          /\ \/ canonical'[p] = canonical[p]
             \/ faults' # faults]_vars

\* A worker whose build lease was taken over neither replaces nor removes
\* what a later attempt put at the package's path.
StaleBuilderIsHarmless ==
    [][\A w \in Workers, p \in Packages :
          wpc[w] \in BuildSteps /\ wpc'[w] # wpc[w] /\ canonical'[p] # canonical[p]
             => p = job[w] /\ canonical[p] <= token[w]]_vars

(*------------------------------- refinement ------------------------------*)

Phase(p) ==
    IF status[p] = "none" THEN "absent"
    ELSE IF reclaimed[p] THEN "gone"
    ELSE IF status[p] = "preparing" THEN "queued"
    ELSE IF status[p] = "ready" /\ ~expired[p] THEN "offered"
    ELSE "withdrawn"

Contract == INSTANCE PackageContract
              WITH active <- activeFin, count <- finCount,
                   phase <- [p \in Packages |-> Phase(p)],
                   holds <- contents

\* The package subsystem implements its contract: in particular, an item is
\* finalized again only when every package that holds an earlier
\* finalization of it is gone.
ImplementsContract == Contract!Spec

(*-------------------------------- liveness -------------------------------*)

\* The worker loop runs; what it tries over and over succeeds once.  The
\* clock advances.  A stream notices that its lease cannot be renewed.  From
\* some time on the heartbeat of a cleanup keeps up with its lease.
HeartbeatLate(p) ==
    /\ lease_lapses(p)
    /\ \E w \in Workers : wpc[w] \in CleanupSteps /\ job[w] = p /\ lease[p] = w

Fairness ==
    /\ <>[][\A p \in Packages : ~HeartbeatLate(p)]_vars
    /\ \A w \in Workers :
         /\ WF_vars(BuildStep(w) \/ CleanupStep(w))
         /\ \A p \in Packages : SF_vars(claim_expired_packages(w, p))
         /\ SF_vars(cleanup_reads_digest(w))
         /\ SF_vars(cleanup_deletes(w))
         /\ SF_vars(cleanup_accounts(w))
    /\ \A p \in Packages :
         /\ WF_vars(package_expires(p))
         /\ WF_vars(build_falls_due(p))
         /\ WF_vars(lease_lapses(p))
    /\ \A c \in Clients :
         WF_vars(/\ dpc[c] # "idle" /\ ~Renewable(c)
                 /\ release_package_download_lease(c, FALSE))

FairSpec == Spec /\ Fairness

\* Every revoked package is cleaned up in the end, across failed deletions,
\* lost claims and dead workers: nothing waits for a human's retry.
CleanupCompletes ==
    \A p \in Packages, f \in Finalizations :
       Incomplete(p, f) ~> invalidation[p][f] = "complete"

\* No package is preparing for ever: process death and timeouts use up its
\* attempts (claim_package_build, record_package_build_failure).
BuildSettles ==
    \A p \in Packages : status[p] = "preparing" ~> status[p] # "preparing"

\* A stream whose lease is gone (revocation, take-over) ends.
UnleasedStreamEnds ==
    \A c \in Clients :
       dpc[c] # "idle" /\ ~Renewable(c) ~> dpc[c] = "idle"

(*--------------------------- documented behaviour -------------------------*)

\* The documentation of the download session: "one-shot cookie ... Replay
\* and concurrent downloads are rejected" (API_CONTRACTS.md).  A lease is
\* granted only for a session that has not been used.
SessionIsOneShot ==
    [][\A p \in Packages :
          lease'[p] # lease[p] /\ lease'[p] \in Clients =>
             session[p].state = "fresh"]_vars
=============================================================================
