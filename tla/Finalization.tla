---------------------------- MODULE Finalization ----------------------------
(***************************************************************************)
(* The commands that finalize review items, revoke finalizations and ask   *)
(* for another attempt at removing revoked packages.  Each is one          *)
(* transaction that holds the project row, the item rows and (for the last *)
(* two kinds) the package rows, so it is one step.  A request that is      *)
(* rejected (stale lock_version, archived project, playback not ready,     *)
(* source hash mismatch) changes nothing and is not a step.                *)
(***************************************************************************)
EXTENDS PackageState

\* prepare_package keeps the project row locked while it hashes.
ProjectUnlocked == scan = NoScan

CleanupPending_without_failed(i) ==
    \E p \in Packages, f \in Finalizations :
       f[1] = i /\ invalidation[p][f] = "pending"

CleanupPending(i) ==
    \E p \in Packages, f \in Finalizations : f[1] = i /\ Incomplete(p, f)

\* _finalize_locked_item, applied to the items of S.
FinalizeLockedItems(S) ==
    /\ \A i \in S : /\ activeFin[i] = 0
                    /\ ~CleanupPending(i)
                    /\ finCount[i] < MaxFinalizations
    /\ finCount' = [i \in Items |-> IF i \in S THEN finCount[i] + 1
                                              ELSE finCount[i]]
    /\ activeFin' = [i \in Items |-> IF i \in S THEN finCount[i] + 1
                                               ELSE activeFin[i]]
    /\ UNCHANGED <<rowVars, invalidation, diskVars, backendVars, workerVars,
                   streamVars>>

finalize_version(i) ==
    /\ ProjectUnlocked
    /\ FinalizeLockedItems({i})

\* All items that are not finalized yet, or none of them.
finalize_project ==
    /\ ProjectUnlocked
    /\ \E i \in Items : activeFin[i] = 0
    /\ FinalizeLockedItems({i \in Items : activeFin[i] = 0})

Invalidates_not_preparing(p, revoked) ==
    status[p] # "preparing" /\ Charged(p) /\ contents[p] \cap revoked # {}

Invalidates(p, revoked) == Charged(p) /\ contents[p] \cap revoked # {}

NeedsRow_unless_invalidated(p, f, revoked) ==
    Charged(p) /\ status[p] # "invalidated" /\ f \in contents[p] \cap revoked

NeedsRow(p, f, revoked) == Charged(p) /\ f \in contents[p] \cap revoked

\* _revoke_locked_finalization, applied to the active finalizations of S.
\* Every charged package that contains one is invalidated (which clears its
\* build lease, its session and its download lease, a cleaner's claim
\* included) and gets an invalidation row per revoked finalization, also
\* when it had been invalidated before.
RevokeLockedFinalizations(S) ==
    LET revoked == {f \in ActiveFinalizations : f[1] \in S}
        Reset(p) == Invalidates(p, revoked) /\ status[p] # "invalidated"
    IN  /\ activeFin' = [i \in Items |-> IF i \in S THEN 0 ELSE activeFin[i]]
        /\ status' = [p \in Packages |->
                        IF Invalidates(p, revoked) THEN "invalidated" ELSE status[p]]
        /\ expired' = [p \in Packages |-> Reset(p) \/ expired[p]]
        /\ notDue' = [p \in Packages |-> ~Reset(p) /\ notDue[p]]
        /\ buildLease' = [p \in Packages |->
                            IF Reset(p) THEN 0 ELSE buildLease[p]]
        /\ session' = [p \in Packages |->
                         IF Reset(p) THEN NoSession ELSE session[p]]
        /\ lease' = [p \in Packages |->
                       IF Reset(p) THEN NoLease ELSE lease[p]]
        /\ leaseLive' = [p \in Packages |-> ~Reset(p) /\ leaseLive[p]]
        /\ invalidation' =
             [p \in Packages |-> [f \in Finalizations |->
                IF NeedsRow(p, f, revoked)
                THEN "pending" ELSE invalidation[p][f]]]
        /\ UNCHANGED <<finCount, identityVars, attempts, sha, cooling,
                       reclaimed, diskVars, backendVars, workerVars,
                       streamVars>>

revoke_finalization(i) ==
    /\ ProjectUnlocked
    /\ activeFin[i] # 0
    /\ RevokeLockedFinalizations({i})

revoke_project_finalization ==
    /\ ProjectUnlocked
    /\ \E i \in Items : activeFin[i] # 0
    /\ RevokeLockedFinalizations({i \in Items : activeFin[i] # 0})

RetryTargets(i) ==
    {p \in Packages : \E f \in Finalizations : f[1] = i /\ Incomplete(p, f)}

\* The conflicts that make retry_finalization_cleanup refuse the command.
RetryConflict(p) ==
    /\ ~reclaimed[p]
    /\ \/ status[p] \notin {"invalidated", "expired"}
       \/ LeaseHeld(p) /\ lease[p] \notin Workers

RetriedRow_done_when_unleased(p) ==
    IF LeaseHeld(p) THEN "pending" ELSE "complete"

RetriedRow(p) == IF reclaimed[p] THEN "complete" ELSE "pending"

retry_finalization_cleanup(i) ==
    LET targets == RetryTargets(i)
        Requeued(p) == p \in targets /\ ~reclaimed[p] /\ ~LeaseHeld(p)
    IN  /\ ProjectUnlocked
        /\ activeFin[i] = 0
        /\ finCount[i] # 0
        /\ targets # {}
        /\ \A p \in targets : ~RetryConflict(p)
        /\ lease' = [p \in Packages |->
                       IF Requeued(p) THEN NoLease ELSE lease[p]]
        /\ leaseLive' = [p \in Packages |-> ~Requeued(p) /\ leaseLive[p]]
        /\ expired' = [p \in Packages |-> Requeued(p) \/ expired[p]]
        /\ invalidation' =
             [p \in Packages |-> [f \in Finalizations |->
                IF p \in targets /\ Incomplete(p, f)
                THEN RetriedRow(p) ELSE invalidation[p][f]]]
        /\ UNCHANGED <<finVars, status, identityVars, buildVars, sha,
                       sessionVars, reclaimed, diskVars, backendVars,
                       workerVars, streamVars>>
=============================================================================
