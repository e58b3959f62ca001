--------------------------- MODULE PackagePrepare ---------------------------
(***************************************************************************)
(* prepare_package and the work it leaves to run after its commit.  The    *)
(* command locks the project, hashes one ready package that could be       *)
(* reused without locking its row, then takes the admission locks, locks   *)
(* that row and decides.  The two halves are separate steps: the worker    *)
(* and the download streams run in between.  Quota, queue length and free  *)
(* space are outside this module: admission may refuse at any time.        *)
(***************************************************************************)
EXTENDS PackageState

Matches(p, n) == contents[p] = ActiveFinalizations /\ name[p] = n

\* _ready_package_reuse_integrity; "unavailable" is an I/O error.
ReuseIntegrity(p) ==
    {"unavailable", IF canonical[p] = 0 THEN "missing"
                    ELSE IF canonical[p] # sha[p] \/ p \in damaged
                    THEN "mismatch" ELSE "ok"}

\* First half, up to the advisory locks.  A matching preparing package is
\* returned without a change.  Candidate 0: no ready package matches, or
\* the sources of those that do are unavailable.
prepare_scan(n) ==
    /\ scan = NoScan
    /\ ActiveFinalizations # {}
    /\ ~\E p \in Packages : status[p] = "preparing" /\ Matches(p, n)
    /\ \E c \in {0} \cup {p \in Packages : /\ status[p] = "ready"
                                           /\ ~expired[p]
                                           /\ Matches(p, n)} :
       \E r \in IF c = 0 THEN {"missing"} ELSE ReuseIntegrity(c) :
          scan' = [name |-> n, candidate |-> c, integrity |-> r,
                   session |-> IF c = 0 THEN NoSession ELSE session[c],
                   lease |-> IF c = 0 THEN NoLease ELSE lease[c]]
    /\ UNCHANGED <<finVars, rowVars, invalidation, diskVars, postUnlink,
                   postAccount, workerVars, streamVars>>

\* The candidate's row is as it was when the archive was hashed.
FingerprintHolds ==
    /\ scan.candidate # 0
    /\ status[scan.candidate] = "ready"
    /\ ~expired[scan.candidate]
    /\ session[scan.candidate] = scan.session
    /\ lease[scan.candidate] = scan.lease

\* The fingerprint includes updated_at, which every step of a download sets:
\* it may have changed although the row looks the same.
FingerprintMayDiffer ==
    FingerprintHolds => session[scan.candidate] # NoSession

ReuseFails == FingerprintHolds /\ scan.integrity # "ok"

WrittenOffAtOnce_when_damaged == scan.integrity # "unavailable"

WrittenOffAtOnce == scan.integrity = "missing"

\* The candidate is returned, or the command is refused (another package is
\* being prepared, queue, quota or free space); nothing is written.
prepare_returns ==
    /\ scan # NoScan
    /\ scan' = NoScan
    /\ UNCHANGED <<finVars, rowVars, invalidation, diskVars, postUnlink,
                   postAccount, workerVars, streamVars>>

\* A new package q is queued.  A candidate that failed its integrity check
\* is failed in the same transaction (_fail_ready_package_reuse): its file
\* is deleted after the commit when its inode is known, and its storage is
\* written off at once when there was no file.
prepare_queues(q, failing) ==
    LET c == scan.candidate
        F(p) == failing /\ p = c
    IN  /\ scan # NoScan
        /\ IF failing THEN ReuseFails ELSE FingerprintMayDiffer
        /\ \A p \in Packages : status[p] # "preparing"
        /\ status[q] = "none"
        /\ \A p \in Packages : p < q => status[p] # "none"
        /\ scan' = NoScan
        /\ status' = [p \in Packages |->
                        IF p = q THEN "preparing"
                        ELSE IF F(p) THEN "failed" ELSE status[p]]
        /\ contents' = [contents EXCEPT ![q] = ActiveFinalizations]
        /\ name' = [name EXCEPT ![q] = scan.name]
        /\ sha' = [p \in Packages |-> IF F(p) THEN 0 ELSE sha[p]]
        /\ notDue' = [p \in Packages |-> ~F(p) /\ notDue[p]]
        /\ session' = [p \in Packages |->
                         IF F(p) THEN NoSession ELSE session[p]]
        /\ lease' = [p \in Packages |-> IF F(p) THEN NoLease ELSE lease[p]]
        /\ leaseLive' = [p \in Packages |-> ~F(p) /\ leaseLive[p]]
        /\ expired' = [p \in Packages |-> F(p) \/ expired[p]]
        /\ reclaimed' = [p \in Packages |->
                           \/ F(p) /\ WrittenOffAtOnce
                           \/ ~F(p) /\ reclaimed[p]]
        /\ postUnlink' = postUnlink \cup
             {<<p, sha[p]>> : p \in {p \in Packages :
                                F(p) /\ scan.integrity = "mismatch"}}
        /\ UNCHANGED <<finVars, attempts, buildLease, cooling, invalidation,
                       diskVars, postAccount, workerVars, streamVars>>

\* run_post_commit_file_deletions: the inode check and the unlink.
post_commit_unlink(p, a) ==
    /\ <<p, a>> \in postUnlink
    /\ canonical[p] \in {0, a}
    /\ postUnlink' = postUnlink \ {<<p, a>>}
    /\ canonical' = [canonical EXCEPT ![p] = 0]
    /\ damaged' = damaged \ {p}
    /\ postAccount' = postAccount \cup {p}
    /\ UNCHANGED <<finVars, rowVars, invalidation, quarantined, staging,
                   faults, scan, workerVars, streamVars>>

\* The unlink fails, or the process stops before it.
post_commit_unlink_lost(p, a) ==
    /\ <<p, a>> \in postUnlink
    /\ postUnlink' = postUnlink \ {<<p, a>>}
    /\ UNCHANGED <<finVars, rowVars, invalidation, diskVars, scan,
                   postAccount, workerVars, streamVars>>

\* The conditional UPDATE that writes the storage off.
post_commit_account(p) ==
    /\ p \in postAccount
    /\ postAccount' = postAccount \ {p}
    /\ reclaimed' = [reclaimed EXCEPT ![p] = @ \/ status[p] = "failed"]
    /\ UNCHANGED <<finVars, status, identityVars, expired, buildVars, sha,
                   leaseVars, sessionVars, invalidation, diskVars, scan,
                   postUnlink, workerVars, streamVars>>

\* The UPDATE is rolled back, or the process stops before it.
post_commit_account_lost(p) ==
    /\ p \in postAccount
    /\ postAccount' = postAccount \ {p}
    /\ UNCHANGED <<finVars, rowVars, invalidation, diskVars, scan,
                   postUnlink, workerVars, streamVars>>
=============================================================================
