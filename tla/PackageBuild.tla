---------------------------- MODULE PackageBuild -----------------------------
(***************************************************************************)
(* The first phase of the package worker's loop: build the archive of at   *)
(* most one queued package.  The claim, the publication and the record of  *)
(* a failure are short transactions; the archive is written between them   *)
(* without a row lock.                                                     *)
(***************************************************************************)
EXTENDS PackageState

BuildEligible_unleased(p) ==
    status[p] = "preparing" /\ ~notDue[p] /\ buildLease[p] = 0

BuildEligible(p) == status[p] = "preparing" /\ ~notDue[p]

OldestEligible(p) ==
    BuildEligible(p) /\ \A q \in Packages : q < p => ~BuildEligible(q)

\* Leaving the advisory lock: a worker whose lock connection was lost
\* cannot confirm the unlock and stops.
LeaveBuild(w, dies) ==
    /\ buildLock' = IF buildLock = w THEN NoWorker ELSE buildLock
    /\ EnterPhase(w, IF dies \/ buildLock # w THEN "builds" ELSE "cleanups")

\* No package is due, or another worker holds the lock.
skip_builds(w) ==
    /\ wpc[w] = "builds"
    /\ buildLock # NoWorker \/ \A p \in Packages : ~BuildEligible(p)
    /\ EnterPhase(w, "cleanups")
    /\ UNCHANGED <<finVars, rowVars, invalidation, diskVars, backendVars,
                   buildLock, streamVars>>

AttemptsLeft_off_by_one(p) == attempts[p] <= MaxAttempts

AttemptsLeft(p) == attempts[p] < MaxAttempts

\* The build lease expires when the next attempt falls due, so a package
\* that is due has no live lease.
claim_package_build(w, p) ==
    /\ wpc[w] = "builds"
    /\ buildLock = NoWorker
    /\ OldestEligible(p)
    /\ AttemptsLeft(p)
    /\ attempts' = [attempts EXCEPT ![p] = @ + 1]
    /\ buildLease' = [buildLease EXCEPT ![p] = attempts[p] + 1]
    /\ notDue' = [notDue EXCEPT ![p] = TRUE]
    /\ buildLock' = w
    /\ MoveTo(w, IF contents[p] \subseteq ActiveFinalizations
                 THEN "building" ELSE "sourceMissing")
    /\ job' = [job EXCEPT ![w] = p]
    /\ token' = [token EXCEPT ![w] = attempts[p] + 1]
    /\ UNCHANGED <<finVars, status, identityVars, expired, sha, leaseVars,
                   sessionVars, reclaimed, invalidation, diskVars,
                   backendVars, verdict, streamVars>>

\* PACKAGE_BUILD_INTERRUPTED: the last attempt was never reported.
claim_exhausted(w, p) ==
    /\ wpc[w] = "builds"
    /\ buildLock = NoWorker
    /\ OldestEligible(p)
    /\ ~AttemptsLeft(p)
    /\ status' = [status EXCEPT ![p] = "failed"]
    /\ sha' = [sha EXCEPT ![p] = 0]
    /\ buildLease' = [buildLease EXCEPT ![p] = 0]
    /\ EnterPhase(w, "cleanups")
    /\ UNCHANGED <<finVars, identityVars, expired, attempts, notDue,
                   leaseVars, sessionVars, reclaimed, invalidation,
                   diskVars, backendVars, buildLock, streamVars>>

Staged(w) == <<job[w], token[w]>>

build_prepared_package(w) ==
    /\ wpc[w] = "building"
    /\ staging' = staging \cup {Staged(w)}
    /\ MoveTo(w, "built")
    /\ UNCHANGED <<finVars, rowVars, invalidation, canonical, quarantined,
                   damaged, faults, backendVars, buildLock, job, token,
                   verdict, streamVars>>

\* The build raises.  The staging file is removed if that succeeds, then
\* _package_build_paths_absent looks at both paths (an I/O error counts as
\* present).  A timeout or an unexpected error may be retried; a timeout
\* also ends the process once it is recorded.
build_fails(w, retry, dies, left) ==
    /\ wpc[w] \in {"building", "sourceMissing"}
    /\ wpc[w] = "sourceMissing" => ~retry
    /\ dies => retry
    /\ staging' = IF left THEN staging \cup {Staged(w)} ELSE staging
    /\ \E gone \in {FALSE, ~left /\ canonical[job[w]] = 0} :
         verdict' = [verdict EXCEPT ![w] =
                       [retry |-> retry, gone |-> gone, dies |-> dies]]
    /\ MoveTo(w, "recording")
    /\ UNCHANGED <<finVars, rowVars, invalidation, canonical, quarantined,
                   damaged, faults, backendVars, buildLock, job, token,
                   streamVars>>

OwnsBuild_ignores_lease(w) == status[job[w]] = "preparing"

OwnsBuild(w) ==
    status[job[w]] = "preparing" /\ buildLease[job[w]] = token[w]

RenameToCanonical(w) ==
    /\ Staged(w) \in staging
    /\ staging' = staging \ {Staged(w)}
    /\ canonical' = [canonical EXCEPT ![job[w]] = token[w]]
    /\ damaged' = damaged \ {job[w]}
    /\ UNCHANGED <<quarantined, faults>>

publish_prepared_package(w) ==
    LET p == job[w] IN
    /\ wpc[w] = "built"
    /\ OwnsBuild(w)
    /\ RenameToCanonical(w)
    /\ status' = [status EXCEPT ![p] = "ready"]
    /\ sha' = [sha EXCEPT ![p] = token[w]]
    /\ reclaimed' = [reclaimed EXCEPT ![p] = FALSE]
    /\ buildLease' = [buildLease EXCEPT ![p] = 0]
    /\ notDue' = [notDue EXCEPT ![p] = FALSE]
    /\ LeaveBuild(w, FALSE)
    /\ UNCHANGED <<finVars, identityVars, expired, attempts, leaseVars,
                   sessionVars, invalidation, backendVars, streamVars>>

\* The row left "preparing", or another attempt holds its lease.
publish_skipped(w) ==
    /\ wpc[w] = "built"
    /\ ~OwnsBuild(w)
    /\ MoveTo(w, "discardSkipped")
    /\ UNCHANGED <<finVars, rowVars, invalidation, diskVars, backendVars,
                   buildLock, job, token, verdict, streamVars>>

\* artifact_invalid, quota_exceeded or storage_unavailable: the staging
\* file is gone or foreign, admission refuses, or an I/O error strikes
\* before or after the rename.
publish_rejected(w) ==
    /\ wpc[w] = "built"
    /\ OwnsBuild(w)
    /\ RenameToCanonical(w) \/ UNCHANGED diskVars
    /\ MoveTo(w, "discardFailed")
    /\ UNCHANGED <<finVars, rowVars, invalidation, backendVars, buildLock,
                   job, token, verdict, streamVars>>

\* The rename is done but the transaction does not commit: the worker dies.
publish_lost(w) ==
    /\ wpc[w] = "built"
    /\ OwnsBuild(w)
    /\ RenameToCanonical(w)
    /\ LeaveBuild(w, TRUE)
    /\ UNCHANGED <<finVars, rowVars, invalidation, backendVars, streamVars>>

\* _discard_artifact unlinks the worker's own inode at the staging path,
\* then at the canonical one, then looks whether both are absent; it stops
\* at the first I/O error (at failedAt; 4: there is none).
DiscardArtifact(w, failedAt) ==
    /\ staging' = IF failedAt > 1 THEN staging \ {Staged(w)} ELSE staging
    /\ canonical' = [canonical EXCEPT ![job[w]] =
                       IF failedAt > 2 /\ @ = token[w] THEN 0 ELSE @]
    /\ damaged' = {p \in damaged : canonical'[p] # 0}
    /\ UNCHANGED <<quarantined, faults>>

PathsAbsent_own_only(w, failedAt) == failedAt > 3

PathsAbsent(w, failedAt) == failedAt > 3 /\ canonical'[job[w]] = 0

discard_skipped(w, failedAt) ==
    /\ wpc[w] = "discardSkipped"
    /\ DiscardArtifact(w, failedAt)
    /\ LeaveBuild(w, FALSE)
    /\ UNCHANGED <<finVars, rowVars, invalidation, backendVars, streamVars>>

discard_failed(w, failedAt) ==
    /\ wpc[w] = "discardFailed"
    /\ DiscardArtifact(w, failedAt)
    /\ verdict' = [verdict EXCEPT ![w] =
         [retry |-> FALSE, dies |-> FALSE, gone |-> PathsAbsent(w, failedAt)]]
    /\ MoveTo(w, "recording")
    /\ UNCHANGED <<finVars, rowVars, invalidation, backendVars, buildLock,
                   job, token, streamVars>>

record_package_build_failure(w) ==
    LET p == job[w]
        owns == OwnsBuild(w)
        again == verdict[w].retry /\ AttemptsLeft(p)
    IN  /\ wpc[w] = "recording"
        /\ status' = [status EXCEPT ![p] =
                        IF owns /\ ~again THEN "failed" ELSE @]
        /\ reclaimed' = [reclaimed EXCEPT ![p] =
                           @ \/ (owns /\ ~again /\ verdict[w].gone)]
        /\ sha' = [sha EXCEPT ![p] = IF owns /\ ~again THEN 0 ELSE @]
        /\ notDue' = [notDue EXCEPT ![p] = IF owns THEN again ELSE @]
        /\ buildLease' = [buildLease EXCEPT ![p] = IF owns THEN 0 ELSE @]
        /\ LeaveBuild(w, verdict[w].dies /\ (again \/ ~owns))
        /\ UNCHANGED <<finVars, identityVars, expired, attempts, leaseVars,
                       sessionVars, invalidation, diskVars, backendVars,
                       streamVars>>

\* The lock's connection breaks; PostgreSQL frees the lock, the worker does
\* not notice before it tries to unlock.
lose_build_lock(w) ==
    /\ buildLock = w
    /\ buildLock' = NoWorker
    /\ UNCHANGED <<finVars, rowVars, invalidation, diskVars, backendVars,
                   wpc, job, token, verdict, streamVars>>
=============================================================================
