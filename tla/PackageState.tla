---------------------------- MODULE PackageState ----------------------------
(***************************************************************************)
(* The state shared by everything that touches a project's finalized-      *)
(* original packages: the rows of review_items, finalizations,             *)
(* package_snapshots and finalization_package_invalidations, the package   *)
(* directory on disk, and the processes that work on them (the HTTP        *)
(* backend with its download streams and the package worker).              *)
(*                                                                         *)
(* One project is modelled.  Deadlines (expires_at, lease and session      *)
(* expiries, next_build_attempt_at, the download cool-down) are flags that *)
(* the environment may flip at any moment: every order in which deadlines  *)
(* pass is a behaviour, so a property that holds does not depend on the    *)
(* configured durations.                                                   *)
(***************************************************************************)
EXTENDS Naturals, FiniteSets

CONSTANTS
    Items,              \* review items of the project
    NumPackages,        \* bound: package rows ever created
    MaxFinalizations,   \* bound: finalizations per item
    MaxAttempts,        \* settings.package_worker_max_attempts
    Names,              \* values of unified_name a request may carry
    Workers,            \* package-worker processes
    Clients,            \* browsers that download packages
    MaxFaults           \* bound: external losses or damages of an archive

ASSUME BoundsAssumption ==
    /\ NumPackages \in Nat
    /\ MaxFinalizations \in Nat
    /\ MaxAttempts \in Nat \ {0}
    /\ MaxFaults \in Nat
    /\ Names # {}

\* Lease identifiers are fresh random strings; a worker's start with
\* "cleanup_", a client's do not.
CONSTANTS NoLease, NoWorker, NoSession, NoScan

ASSUME IdentityAssumption ==
    /\ Workers \cap Clients = {}
    /\ NoLease \notin Workers \cup Clients
    /\ NoWorker \notin Workers

Packages == 1..NumPackages
Attempts == 1..MaxAttempts
Finalizations == Items \X (1..MaxFinalizations)

VARIABLES
    (* review_items and finalizations *)
    activeFin,      \* active_finalization_id, 0 for NULL; item i is
                    \* "finalized" exactly when it is not 0
    finCount,       \* finalizations ever made of the item
    (* package_snapshots *)
    status, contents, name,
    expired,        \* expires_at has passed
    attempts,       \* build_attempts
    buildLease,     \* build_lease_id: the attempt that took it, 0 for NULL
    notDue,         \* next_build_attempt_at is in the future
    sha,            \* sha256: the attempt whose archive it digests, 0 for NULL
    lease,          \* download_lease_id, held by a client or by a cleaner
    leaseLive,      \* download_lease_expires_at is in the future
    session,        \* download_session_hash: what it was computed from
    cooling,        \* last_download_finished_at is within the cool-down
    reclaimed,      \* storage_reclaimed_at is set
    (* finalization_package_invalidations *)
    invalidation,
    (* the package directory *)
    canonical,      \* <package>.zip: the attempt that wrote it, 0 if absent
    quarantined,    \* the same file moved to the delete quarantine, or 0
    damaged,        \* packages whose archive no longer has its digest
    staging,        \* <package>.<lease>.building files
    faults,
    (* the backend *)
    scan,           \* the prepare_package transaction that is hashing
    postUnlink,     \* deletions queued to run after a commit
    postAccount,    \* reclaim accounting that follows such a deletion
    (* package workers *)
    buildLock,      \* the session advisory lock
    wpc, job, token, verdict,
    (* download streams *)
    dpc, target, opened

finVars == <<activeFin, finCount>>
buildVars == <<attempts, buildLease, notDue>>
leaseVars == <<lease, leaseLive>>
sessionVars == <<session, cooling>>
identityVars == <<contents, name>>
diskVars == <<canonical, quarantined, damaged, staging, faults>>
backendVars == <<scan, postUnlink, postAccount>>
workerVars == <<buildLock, wpc, job, token, verdict>>
streamVars == <<dpc, target, opened>>
rowVars == <<status, identityVars, expired, buildVars, sha, leaseVars,
             sessionVars, reclaimed>>
vars == <<finVars, rowVars, invalidation, diskVars, backendVars, workerVars,
          streamVars>>

Statuses == {"preparing", "ready", "failed", "expired", "invalidated"}
CleanupStatuses == {"pending", "failed", "complete"}
SessionStates == {"fresh", "started", "verified"}
\* What a session hash is bound to: inode and modification of the archive.
FileIdentities == (0..MaxAttempts) \X BOOLEAN
Sessions == [state : SessionStates, owner : Clients, file : FileIdentities,
             live : BOOLEAN]
Integrities == {"ok", "missing", "mismatch", "unavailable"}
Scans == [name : Names, candidate : 0..NumPackages, integrity : Integrities,
          session : Sessions \cup {NoSession},
          lease : Workers \cup Clients \cup {NoLease}]

BuildSteps == {"building", "sourceMissing", "built", "discardSkipped",
               "discardFailed", "recording"}
CleanupSteps == {"claimed", "deleting", "deleted", "deleteFailed"}
Verdicts == [retry : BOOLEAN, gone : BOOLEAN, dies : BOOLEAN]

FinTypeOK ==
    /\ activeFin \in [Items -> 0..MaxFinalizations]
    /\ finCount \in [Items -> 0..MaxFinalizations]

RowTypeOK ==
    /\ status \in [Packages -> Statuses \cup {"none"}]
    /\ contents \in [Packages -> SUBSET Finalizations]
    /\ name \in [Packages -> Names]
    /\ expired \in [Packages -> BOOLEAN]
    /\ sha \in [Packages -> 0..MaxAttempts]
    /\ reclaimed \in [Packages -> BOOLEAN]
    /\ invalidation \in
         [Packages -> [Finalizations -> CleanupStatuses \cup {"none"}]]

BuildTypeOK ==
    /\ attempts \in [Packages -> 0..MaxAttempts]
    /\ buildLease \in [Packages -> 0..MaxAttempts]
    /\ notDue \in [Packages -> BOOLEAN]

LeaseTypeOK ==
    /\ lease \in [Packages -> Workers \cup Clients \cup {NoLease}]
    /\ leaseLive \in [Packages -> BOOLEAN]
    /\ session \in [Packages -> Sessions \cup {NoSession}]
    /\ cooling \in [Packages -> BOOLEAN]

DiskTypeOK ==
    /\ canonical \in [Packages -> 0..MaxAttempts]
    /\ quarantined \in [Packages -> 0..MaxAttempts]
    /\ damaged \in SUBSET Packages
    /\ staging \in SUBSET (Packages \X Attempts)
    /\ faults \in 0..MaxFaults

BackendTypeOK ==
    /\ scan \in Scans \cup {NoScan}
    /\ postUnlink \in SUBSET (Packages \X Attempts)
    /\ postAccount \in SUBSET Packages

WorkerTypeOK ==
    /\ buildLock \in Workers \cup {NoWorker}
    /\ wpc \in [Workers ->
                  {"builds", "cleanups"} \cup BuildSteps \cup CleanupSteps]
    /\ job \in [Workers -> 0..NumPackages]
    /\ token \in [Workers -> 0..MaxAttempts]
    /\ verdict \in [Workers -> Verdicts]

StreamTypeOK ==
    /\ dpc \in [Clients -> {"idle", "opening", "verifying", "streaming"}]
    /\ target \in [Clients -> 0..NumPackages]
    /\ opened \in [Clients -> FileIdentities]

TypeOK ==
    /\ FinTypeOK
    /\ RowTypeOK
    /\ BuildTypeOK
    /\ LeaseTypeOK
    /\ DiskTypeOK
    /\ BackendTypeOK
    /\ WorkerTypeOK
    /\ StreamTypeOK

NoVerdict == [retry |-> FALSE, gone |-> FALSE, dies |-> FALSE]

Init ==
    /\ activeFin = [i \in Items |-> 0]
    /\ finCount = [i \in Items |-> 0]
    /\ status = [p \in Packages |-> "none"]
    /\ contents = [p \in Packages |-> {}]
    /\ name = [p \in Packages |-> CHOOSE n \in Names : TRUE]
    /\ expired = [p \in Packages |-> FALSE]
    /\ attempts = [p \in Packages |-> 0]
    /\ buildLease = [p \in Packages |-> 0]
    /\ notDue = [p \in Packages |-> FALSE]
    /\ sha = [p \in Packages |-> 0]
    /\ lease = [p \in Packages |-> NoLease]
    /\ leaseLive = [p \in Packages |-> FALSE]
    /\ session = [p \in Packages |-> NoSession]
    /\ cooling = [p \in Packages |-> FALSE]
    /\ reclaimed = [p \in Packages |-> FALSE]
    /\ invalidation = [p \in Packages |-> [f \in Finalizations |-> "none"]]
    /\ canonical = [p \in Packages |-> 0]
    /\ quarantined = [p \in Packages |-> 0]
    /\ damaged = {}
    /\ staging = {}
    /\ faults = 0
    /\ scan = NoScan
    /\ postUnlink = {}
    /\ postAccount = {}
    /\ buildLock = NoWorker
    /\ wpc = [w \in Workers |-> "builds"]
    /\ job = [w \in Workers |-> 0]
    /\ token = [w \in Workers |-> 0]
    /\ verdict = [w \in Workers |-> NoVerdict]
    /\ dpc = [c \in Clients |-> "idle"]
    /\ target = [c \in Clients |-> 0]
    /\ opened = [c \in Clients |-> <<0, FALSE>>]

\* A package row exists and its storage is still charged.
Charged(p) == status[p] # "none" /\ ~reclaimed[p]

LeaseHeld(p) == lease[p] # NoLease /\ leaseLive[p]

Incomplete(p, f) == invalidation[p][f] \in {"pending", "failed"}

ActiveFinalizations ==
    {f \in Finalizations : activeFin[f[1]] = f[2]}

\* A worker goes on to the next step of what it is doing.
MoveTo(w, step) == wpc' = [wpc EXCEPT ![w] = step]

\* It is done with it and enters a phase of its loop.
EnterPhase(w, phase) ==
    /\ wpc' = [wpc EXCEPT ![w] = phase]
    /\ job' = [job EXCEPT ![w] = 0]
    /\ token' = [token EXCEPT ![w] = 0]
    /\ verdict' = [verdict EXCEPT ![w] = NoVerdict]

EndStream_if_leased(c) ==
    /\ lease[target[c]] = c
    /\ dpc' = [dpc EXCEPT ![c] = "idle"]
    /\ target' = [target EXCEPT ![c] = 0]
    /\ opened' = [opened EXCEPT ![c] = <<0, FALSE>>]

\* A download stream ends.
EndStream(c) ==
    /\ dpc' = [dpc EXCEPT ![c] = "idle"]
    /\ target' = [target EXCEPT ![c] = 0]
    /\ opened' = [opened EXCEPT ![c] = <<0, FALSE>>]

FileIdentity(p) == <<canonical[p], p \in damaged>>
=============================================================================
