--------------------------- MODULE PackageDownload ---------------------------
(***************************************************************************)
(* Downloading a ready package.  A session is authorized for the file as   *)
(* it is on disk, a native GET turns it into a lease, the archive is       *)
(* opened, hashed unless the session has been verified before, and         *)
(* streamed while a heartbeat renews the lease.  Every database operation  *)
(* is a transaction of its own on the package row; a refused request       *)
(* changes nothing and is not a step.                                      *)
(***************************************************************************)
EXTENDS PackageState

Downloadable(p) ==
    /\ status[p] = "ready"
    /\ ~expired[p]
    /\ sha[p] # 0
    /\ ~reclaimed[p]
    /\ canonical[p] # 0

authorize_package_download_session(c, p) ==
    /\ Downloadable(p)
    /\ ~LeaseHeld(p)
    /\ session' = [session EXCEPT ![p] =
         [state |-> "fresh", owner |-> c, file |-> FileIdentity(p),
          live |-> TRUE]]
    /\ UNCHANGED <<finVars, status, identityVars, expired, buildVars, sha,
                   leaseVars, cooling, reclaimed, invalidation, diskVars,
                   backendVars, workerVars, streamVars>>

SessionMatches_any_file(c, p) ==
    session[p] # NoSession /\ session[p].owner = c

\* The hash of the row's session is that of client c's cookie for the file
\* on disk: owner and file are inputs of the hash.
SessionMatches(c, p) ==
    /\ session[p] # NoSession
    /\ session[p].owner = c
    /\ session[p].file = FileIdentity(p)

\* resume: the request asks for a range that does not start at 0.
begin_package_download(c, p, resume) ==
    /\ dpc[c] = "idle"
    /\ Downloadable(p)
    /\ SessionMatches(c, p)
    /\ session[p].live
    /\ resume => session[p].state # "fresh"
    /\ ~LeaseHeld(p)
    /\ ~cooling[p]
    /\ session' = [session EXCEPT ![p].state =
                     IF @ = "fresh" THEN "started" ELSE @]
    /\ lease' = [lease EXCEPT ![p] = c]
    /\ leaseLive' = [leaseLive EXCEPT ![p] = TRUE]
    /\ dpc' = [dpc EXCEPT ![c] = IF session[p].state = "verified"
                                 THEN "opening" ELSE "verifying"]
    /\ target' = [target EXCEPT ![c] = p]
    /\ opened' = [opened EXCEPT ![c] = FileIdentity(p)]
    /\ UNCHANGED <<finVars, status, identityVars, expired, buildVars, sha,
                   cooling, reclaimed, invalidation, diskVars, backendVars,
                   workerVars>>

\* regular_file_response: the descriptor must be the file the lease was
\* granted for.
open_verified_archive(c) ==
    /\ dpc[c] = "opening"
    /\ FileIdentity(target[c]) = opened[c]
    /\ dpc' = [dpc EXCEPT ![c] = "streaming"]
    /\ UNCHANGED <<finVars, rowVars, invalidation, diskVars, backendVars,
                   workerVars, target, opened>>

\* The digest of the descriptor is the row's, and the row still grants the
\* lease for that file.
mark_package_download_session_verified(c) ==
    LET p == target[c] IN
    /\ dpc[c] = "verifying"
    /\ opened[c] = <<sha[p], FALSE>>
    /\ lease[p] = c
    /\ status[p] = "ready"
    /\ ~reclaimed[p]
    /\ FileIdentity(p) = opened[c]
    /\ SessionMatches(c, p)
    /\ session[p].state \in {"started", "verified"}
    /\ session' = [session EXCEPT ![p].state = "verified"]
    /\ dpc' = [dpc EXCEPT ![c] = "streaming"]
    /\ UNCHANGED <<finVars, status, identityVars, expired, buildVars, sha,
                   leaseVars, cooling, reclaimed, invalidation, diskVars,
                   backendVars, workerVars, target, opened>>

Renewable(c) ==
    /\ lease[target[c]] = c
    /\ status[target[c]] = "ready"
    /\ ~reclaimed[target[c]]

renew_package_download_lease(c) ==
    /\ dpc[c] # "idle"
    /\ Renewable(c)
    /\ leaseLive' = [leaseLive EXCEPT ![target[c]] = TRUE]
    /\ UNCHANGED <<finVars, status, identityVars, expired, buildVars, sha,
                   lease, sessionVars, reclaimed, invalidation, diskVars,
                   backendVars, workerVars, streamVars>>

\* The response ends: completely, or because the client left, a check or
\* the heartbeat failed.  Only a lease that is still this stream's is
\* released.
release_package_download_lease(c, completed) ==
    LET p == target[c]
        held == lease[p] = c
    IN  /\ dpc[c] # "idle"
        /\ completed => dpc[c] = "streaming"
        /\ lease' = [lease EXCEPT ![p] = IF held THEN NoLease ELSE @]
        /\ leaseLive' = [leaseLive EXCEPT ![p] = ~held /\ @]
        /\ cooling' = [cooling EXCEPT ![p] = @ \/ (held /\ completed)]
        /\ EndStream(c)
        /\ UNCHANGED <<finVars, status, identityVars, expired, buildVars,
                       sha, session, reclaimed, invalidation, diskVars,
                       backendVars, workerVars>>

\* The backend stops, or the release does not commit: the lease stays.
stream_dies(c) ==
    /\ dpc[c] # "idle"
    /\ EndStream(c)
    /\ UNCHANGED <<finVars, rowVars, invalidation, diskVars, backendVars,
                   workerVars>>
=============================================================================
