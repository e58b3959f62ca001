--------------------------- MODULE PackageCleanup ---------------------------
(***************************************************************************)
(* The second phase of the package worker's loop: claim one expired        *)
(* package, delete its file, account for it.  The claim is a download      *)
(* lease with a "cleanup_" identifier, renewed by a heartbeat thread.  The *)
(* row is not locked while the file is deleted.  Also here: the death of a *)
(* worker, and the maintenance sweep of abandoned staging files.           *)
(***************************************************************************)
EXTENDS PackageState

Claimable_under_lease(p) == Charged(p) /\ expired[p]

Claimable_no_takeover(p) == Charged(p) /\ expired[p] /\ lease[p] = NoLease

Claimable(p) == Charged(p) /\ expired[p] /\ ~LeaseHeld(p)

claim_expired_packages(w, p) ==
    /\ wpc[w] = "cleanups"
    /\ Claimable(p)
    /\ lease' = [lease EXCEPT ![p] = w]
    /\ leaseLive' = [leaseLive EXCEPT ![p] = TRUE]
    /\ invalidation' = [invalidation EXCEPT ![p] =
         [f \in Finalizations |->
            IF Incomplete(p, f) THEN "pending" ELSE @[f]]]
    /\ MoveTo(w, "claimed")
    /\ job' = [job EXCEPT ![w] = p]
    /\ UNCHANGED <<finVars, status, identityVars, expired, buildVars, sha,
                   sessionVars, reclaimed, diskVars, backendVars, buildLock,
                   token, verdict, streamVars>>

\* Nothing is claimable, or what is has its row locked (skip_locked).
nothing_to_clean(w) ==
    /\ wpc[w] = "cleanups"
    /\ EnterPhase(w, "builds")
    /\ UNCHANGED <<finVars, rowVars, invalidation, diskVars, backendVars,
                   buildLock, streamVars>>

OwnsClaim(w) == lease[job[w]] = w /\ ~reclaimed[job[w]]

\* The claim is verified once more and the digest is read, in a transaction
\* that ends before the file is touched.
cleanup_reads_digest(w) ==
    /\ wpc[w] = "claimed"
    /\ OwnsClaim(w)
    /\ MoveTo(w, "deleting")
    /\ token' = [token EXCEPT ![w] = sha[job[w]]]
    /\ UNCHANGED <<finVars, rowVars, invalidation, diskVars, backendVars,
                   buildLock, job, verdict, streamVars>>

\* How far a deletion may get: with a digest the file goes through the
\* quarantine (delete_claimed_package_artifact), without one it is unlinked.
ArtifactKept == UNCHANGED <<canonical, quarantined, damaged>>

ArtifactMoved(w) ==
    /\ token[w] # 0
    /\ canonical[job[w]] # 0
    /\ quarantined' = [quarantined EXCEPT ![job[w]] = canonical[job[w]]]
    /\ canonical' = [canonical EXCEPT ![job[w]] = 0]
    /\ UNCHANGED damaged

ArtifactDeleted(w) ==
    /\ canonical' = [canonical EXCEPT ![job[w]] = 0]
    /\ quarantined' = IF token[w] # 0
                      THEN [quarantined EXCEPT ![job[w]] = 0]
                      ELSE quarantined
    /\ damaged' = damaged \ {job[w]}

cleanup_deletes(w) ==
    /\ wpc[w] = "deleting"
    /\ ArtifactDeleted(w)
    /\ MoveTo(w, "deleted")
    /\ UNCHANGED <<finVars, rowVars, invalidation, staging, faults,
                   backendVars, buildLock, job, token, verdict, streamVars>>

cleanup_delete_raises(w) ==
    /\ wpc[w] = "deleting"
    /\ ArtifactKept \/ ArtifactMoved(w) \/ ArtifactDeleted(w)
    /\ MoveTo(w, "deleteFailed")
    /\ UNCHANGED <<finVars, rowVars, invalidation, staging, faults,
                   backendVars, buildLock, job, token, verdict, streamVars>>

\* The deletion is accounted for, if the claim is still held.
cleanup_accounts(w) ==
    LET p == job[w] IN
    /\ wpc[w] = "deleted"
    /\ OwnsClaim(w)
    /\ buildLease[p] = 0
    /\ status' = [status EXCEPT ![p] = "expired"]
    /\ session' = [session EXCEPT ![p] = NoSession]
    /\ lease' = [lease EXCEPT ![p] = NoLease]
    /\ leaseLive' = [leaseLive EXCEPT ![p] = FALSE]
    /\ reclaimed' = [reclaimed EXCEPT ![p] = TRUE]
    /\ invalidation' = [invalidation EXCEPT ![p] =
         [f \in Finalizations |->
            IF @[f] = "none" THEN "none" ELSE "complete"]]
    /\ EnterPhase(w, "builds")
    /\ UNCHANGED <<finVars, identityVars, expired, buildVars, sha, cooling,
                   diskVars, backendVars, buildLock, streamVars>>

\* A row that still carries a build lease cannot leave "preparing"
\* (ck_package_snapshots_build_lease): the transaction fails and the worker
\* dies.
cleanup_violates_check(w) ==
    /\ wpc[w] = "deleted"
    /\ OwnsClaim(w)
    /\ buildLease[job[w]] # 0
    /\ EnterPhase(w, "builds")
    /\ UNCHANGED <<finVars, rowVars, invalidation, diskVars, backendVars,
                   buildLock, streamVars>>

FailedCleanupStatus_kept(s) == s

FailedCleanupStatus(s) == IF s = "ready" THEN "expired" ELSE s

\* The failure is recorded, if the claim is still held: another attempt is
\* made after a back-off, and a ready package is not offered again.
cleanup_records_failure(w) ==
    LET p == job[w] IN
    /\ wpc[w] = "deleteFailed"
    /\ OwnsClaim(w)
    /\ lease' = [lease EXCEPT ![p] = NoLease]
    /\ leaseLive' = [leaseLive EXCEPT ![p] = FALSE]
    /\ status' = [status EXCEPT ![p] = FailedCleanupStatus(@)]
    /\ expired' = [expired EXCEPT ![p] = FALSE]
    /\ invalidation' = [invalidation EXCEPT ![p] =
         [f \in Finalizations |->
            IF @[f] = "none" THEN "none" ELSE "failed"]]
    /\ EnterPhase(w, "builds")
    /\ UNCHANGED <<finVars, identityVars, buildVars, sha, sessionVars,
                   reclaimed, diskVars, backendVars, buildLock, streamVars>>

\* Somebody took or cleared the claim, or has the row locked when the claim
\* is verified: nothing is written.
cleanup_claim_lost(w) ==
    /\ wpc[w] \in {"claimed", "deleted", "deleteFailed"}
    /\ wpc[w] = "claimed" \/ ~OwnsClaim(w)
    /\ EnterPhase(w, "builds")
    /\ UNCHANGED <<finVars, rowVars, invalidation, diskVars, backendVars,
                   buildLock, streamVars>>

pulse_cleanup_lease(w) ==
    /\ wpc[w] \in CleanupSteps
    /\ OwnsClaim(w)
    /\ leaseLive' = [leaseLive EXCEPT ![job[w]] = TRUE]
    /\ UNCHANGED <<finVars, status, identityVars, expired, buildVars, sha,
                   lease, sessionVars, reclaimed, invalidation, diskVars,
                   backendVars, workerVars, streamVars>>

\* A worker dies: a phase timeout, an exception, a kill.  What it was doing
\* to the file system may be half done.
worker_dies(w) ==
    /\ wpc[w] # "builds"
    /\ \/ ArtifactKept /\ UNCHANGED staging
       \/ /\ wpc[w] = "building"
          /\ staging' = staging \cup {<<job[w], token[w]>>}
          /\ ArtifactKept
       \/ /\ wpc[w] = "deleting"
          /\ ArtifactMoved(w) \/ ArtifactDeleted(w)
          /\ UNCHANGED staging
    /\ EnterPhase(w, "builds")
    /\ buildLock' = IF buildLock = w THEN NoWorker ELSE buildLock
    /\ UNCHANGED <<finVars, rowVars, invalidation, faults, backendVars,
                   streamVars>>

\* Maintenance removes a staging file nobody writes to any more.
cleanup_stale_package_staging(p, a) ==
    /\ <<p, a>> \in staging
    /\ ~(status[p] = "preparing" /\ buildLease[p] = a)
    /\ staging' = staging \ {<<p, a>>}
    /\ UNCHANGED <<finVars, rowVars, invalidation, canonical, quarantined,
                   damaged, faults, backendVars, workerVars, streamVars>>
=============================================================================
