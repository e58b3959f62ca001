------------------------------ MODULE MCStorage ------------------------------
(****************************************************************************)
(* Instances of the components that keep files and rows together: uploads,  *)
(* admission, rejected uploads, the journal of package deletions, the       *)
(* quarantine, durable deletion, commands, the outbox and the runtime fence.*)
(* Each behaviour is one of a single instance, chosen in the initial state. *)
(****************************************************************************)
EXTENDS Naturals, TLC

CONSTANTS None

VARIABLES
    part, \* the component that runs; the others rest
    uploadRow, idem, disk, files, put, uploadOp, leases, claimed, uploadFaults,
    upload, package, builder, stray, crashes,
    rejectedRow, bound, file, tomb, graced, rejectedPc, known, lock, inflight,
    sweep, rejectedFaults,
    canonical, entry, legacy, published, deleter, journalFaults,
    name, ctime, content, others, quarantined, unlinker, rec, unlinkExits,
    raises, rewrites,
    status, history, project, fileRow, onDisk, moved, task, leased, intent,
    artifact, cleaner, failures, restores, exits,
    pc, attempt, answer, tx, record, effects, log, damaged, damages,
    event, receipts, pending, claim, delivered, consumed, deletedItems, deaths,
    writer, contract, exclusive, shared, proc, txn, era, eraOf, breaks

uploadVars == <<uploadRow, idem, disk, files, put, uploadOp, leases, claimed,
                uploadFaults>>
admissionVars == <<upload, package, builder, stray, crashes>>
rejectedVars == <<rejectedRow, bound, file, tomb, graced, rejectedPc, known,
                  lock, inflight, sweep, rejectedFaults>>
journalVars == <<canonical, entry, legacy, published, deleter, journalFaults>>
quarantineVars == <<name, ctime, content, others, quarantined, unlinker, rec,
                    unlinkExits, raises, rewrites>>
deletionVars == <<status, history, project, fileRow, onDisk, moved, task,
                  leased, intent, artifact, cleaner, failures, restores, exits>>
commandVars == <<pc, attempt, answer, tx, record, effects, log, damaged,
                 damages>>
outboxVars == <<event, receipts, pending, claim, delivered, consumed,
                deletedItems, deaths>>
fenceVars == <<writer, contract, exclusive, shared, proc, txn, era, eraOf,
               breaks>>
vars == <<part, uploadVars, admissionVars, rejectedVars, journalVars,
          quarantineVars, deletionVars, commandVars, outboxVars, fenceVars>>

\* Three puts of two parts in two processes.
Parts == INSTANCE UploadSession WITH
    Puts <- {"p1", "p2", "p3"}, Completes <- {"c1"}, Aborts <- {},
    PartNos <- {1, 2}, PartOf <- ("p1" :> 1 @@ "p2" :> 1 @@ "p3" :> 2),
    SizeOf <- ("p1" :> 1 @@ "p2" :> 2 @@ "p3" :> 1), Declared <- 2,
    Corrupt <- {}, Keys <- {"k1"}, KeyOf <- ("c1" :> "k1"),
    Processes <- {"x1", "x2"},
    ProcessOf <- ("p1" :> "x1" @@ "p2" :> "x2" @@ "p3" :> "x1" @@ "c1" :> "x1"),
    MaxInflight <- 1, MaxFaults <- 1, row <- uploadRow, op <- uploadOp,
    faults <- uploadFaults

\* Two completions with one key, and an abort.
Completions == INSTANCE UploadSession WITH
    Puts <- {"p1"}, Completes <- {"c1", "c2"}, Aborts <- {"a1"},
    PartNos <- {1}, PartOf <- ("p1" :> 1), SizeOf <- ("p1" :> 1),
    Declared <- 1, Corrupt <- {}, Keys <- {"k1"},
    KeyOf <- ("c1" :> "k1" @@ "c2" :> "k1"), Processes <- {"x1", "x2"},
    ProcessOf <- ("p1" :> "x1" @@ "c1" :> "x1" @@ "c2" :> "x2" @@ "a1" :> "x2"),
    MaxInflight <- 1, MaxFaults <- 2, row <- uploadRow, op <- uploadOp,
    faults <- uploadFaults

\* Two completions with a key each, of parts one of which is no valid file.
OwnKeys == INSTANCE UploadSession WITH
    Puts <- {"p1", "p2"}, Completes <- {"c1", "c2"}, Aborts <- {},
    PartNos <- {1}, PartOf <- ("p1" :> 1 @@ "p2" :> 1),
    SizeOf <- ("p1" :> 1 @@ "p2" :> 1), Declared <- 1, Corrupt <- {"p2"},
    Keys <- {"k1", "k2"}, KeyOf <- ("c1" :> "k1" @@ "c2" :> "k2"),
    Processes <- {"x1"},
    ProcessOf <- [r \in {"p1", "p2", "c1", "c2"} |-> "x1"], MaxInflight <- 2,
    MaxFaults <- 2, row <- uploadRow, op <- uploadOp, faults <- uploadFaults

\* Three sessions of two principals, and limits that all bind.
Sessions == INSTANCE StorageAdmission WITH
    Uploads <- {"u1", "u2", "u3"},
    SizeOf <- ("u1" :> 1 @@ "u2" :> 2 @@ "u3" :> 1),
    OwnerOf <- ("u1" :> "p" @@ "u2" :> "q" @@ "u3" :> "p"), Packages <- {},
    EstimateOf <- [k \in {} |-> 0], Capacity <- 7, LowWatermark <- 1,
    MaxSessions <- 2, MaxReserved <- 5, MaxOwnSessions <- 1,
    MaxOwnReserved <- 4, MaxPending <- 1, MaxPackageStorage <- 0,
    MaxCrashes <- 0

\* Two sessions and two packages on a small disk.
Admission == INSTANCE StorageAdmission WITH
    Uploads <- {"u1", "u2"}, SizeOf <- ("u1" :> 1 @@ "u2" :> 1),
    OwnerOf <- ("u1" :> "p" @@ "u2" :> "q"), Packages <- {"k1", "k2"},
    EstimateOf <- ("k1" :> 1 @@ "k2" :> 1), Capacity <- 5, LowWatermark <- 1,
    MaxSessions <- 2, MaxReserved <- 4, MaxOwnSessions <- 1,
    MaxOwnReserved <- 2, MaxPending <- 2, MaxPackageStorage <- 1,
    MaxCrashes <- 1

\* Three requests that name one file.
Rejected == INSTANCE RejectedUpload WITH
    Requests <- {"r1", "r2", "r3"}, MaxFaults <- 2, row <- rejectedRow,
    pc <- rejectedPc, faults <- rejectedFaults

\* Two deleters, of an archive that may be damaged.
Journal == INSTANCE PackageDeleteJournal WITH
    Deleters <- {"d1", "d2"}, Inodes <- {"i1", "i2"}, Damaged <- {"i2"},
    Captured <- None,
    LegacyStates <- {"none", "prepared", "renamed", "moved", "unlinked"},
    MaxFaults <- 2, MaxPublished <- 0, op <- deleter, faults <- journalFaults

\* A deleter with an intent, beside builders that publish late.
Late == INSTANCE PackageDeleteJournal WITH
    Deleters <- {"d1"}, Inodes <- {"i1", "i2", "i3"}, Damaged <- {"i2"},
    Captured <- "i1",
    LegacyStates <- {"none", "prepared", "renamed", "moved", "unlinked"},
    MaxFaults <- 3, MaxPublished <- 2, op <- deleter, faults <- journalFaults

\* Two unlinks of one file that may exit anywhere.
Quarantine == INSTANCE DeleteQuarantine WITH
    Attempts <- {"a1", "a2"}, Inodes <- {"i1", "i2"},
    ExitsAt <- {"open", "mkdir", "lock", "manifest", "rename", "validate",
                "next", "promote", "final", "unlink", "unlinked", "rmdir", "restore",
                "untarget", "clear", "create"},
    MaxExits <- 1, MaxRaises <- 1, MaxRewrites <- 1, MaxOthers <- 1,
    entry <- quarantined, op <- unlinker, exits <- unlinkExits

\* Two items with a file in common and a package of both.
Shared == INSTANCE DurableDeletion WITH
    Items <- {"item1", "item2"}, Files <- {"shared", "derived", "archive"},
    Packages <- {"archive"},
    OwnersOf <- ("shared" :> {"item1", "item2"} @@ "derived" :> {"item1"}
                 @@ "archive" :> {"item1", "item2"}),
    Derived <- {"derived"}, Statuses <- {"pending_review", "revoked"},
    Cleaners <- {"c1"}, MaxFailures <- 1, MaxRestores <- 1, MaxExits <- 0,
    Project <- "project", row <- fileRow, disk <- onDisk, op <- cleaner

\* The same, with a cleaner that exits and a recovery that fails.
Exits == INSTANCE DurableDeletion WITH
    Items <- {"item1", "item2"}, Files <- {"shared", "derived", "archive"},
    Packages <- {"archive"},
    OwnersOf <- ("shared" :> {"item1", "item2"} @@ "derived" :> {"item1"}
                 @@ "archive" :> {"item1", "item2"}),
    Derived <- {"derived"}, Statuses <- {"pending_review", "revoked"},
    Cleaners <- {"c1"}, MaxFailures <- 1, MaxRestores <- 0, MaxExits <- 1,
    Project <- "project", row <- fileRow, disk <- onDisk, op <- cleaner

\* Two cleaners.
Twice == INSTANCE DurableDeletion WITH
    Items <- {"item1"}, Files <- {"original", "archive"},
    Packages <- {"archive"},
    OwnersOf <- ("original" :> {"item1"} @@ "archive" :> {"item1"}),
    Derived <- {}, Statuses <- {"revoked"}, Cleaners <- {"c1", "c2"},
    MaxFailures <- 0, MaxRestores <- 0, MaxExits <- 1, Project <- "project",
    row <- fileRow, disk <- onDisk, op <- cleaner

\* Two copies of a request, and a third with the same key and another body.
Commands == INSTANCE CommandExecution WITH
    Requests <- {"r1", "r2", "r3"},
    TargetOf <- [r \in {"r1", "r2", "r3"} |-> "key"], Keyed <- {"key"},
    Repairable <- {}, BodyOf <- ("r1" :> "a" @@ "r2" :> "a" @@ "r3" :> "b"),
    PrincipalOf <- [r \in {"r1", "r2", "r3"} |-> "editor"], MaxAttempts <- 1,
    MaxDamages <- 0, AuditMayFail <- FALSE

\* A request and the same from another principal, each sent twice.
Retries == INSTANCE CommandExecution WITH
    Requests <- {"r1", "r2"}, TargetOf <- [r \in {"r1", "r2"} |-> "key"],
    Keyed <- {"key"}, Repairable <- {}, BodyOf <- ("r1" :> "a" @@ "r2" :> "a"),
    PrincipalOf <- ("r1" :> "editor" @@ "r2" :> "reviewer"), MaxAttempts <- 2,
    MaxDamages <- 0, AuditMayFail <- FALSE

\* Two copies of a command that expects a lock_version, and one that prepares a package.
Targets == INSTANCE CommandExecution WITH
    Requests <- {"r1", "r2", "r3"},
    TargetOf <- ("r1" :> "row" @@ "r2" :> "row" @@ "r3" :> "package"),
    Keyed <- {"package"}, Repairable <- {"package"},
    BodyOf <- [r \in {"r1", "r2", "r3"} |-> "a"],
    PrincipalOf <- [r \in {"r1", "r2", "r3"} |-> "editor"], MaxAttempts <- 1,
    MaxDamages <- 1, AuditMayFail <- TRUE

\* Two events of one item.
Dispatch == INSTANCE Outbox WITH
    Events <- {"e1", "e2"}, ItemOf <- [e \in {"e1", "e2"} |-> "item"],
    Writers <- {"w1", "w2"}, Dispatchers <- {"d1", "d2"},
    Consumers <- {"consumer"}, MaxAttempts <- 2, Limit <- 2, MaxDeaths <- 1,
    row <- event

\* Two backends and two workers with different roots.
Fence == INSTANCE RuntimeFence WITH
    Backends <- {"b1", "b2"}, Workers <- {"w1", "w2"},
    RootOf <- ("b1" :> "rootA" @@ "b2" :> "rootB" @@ "w1" :> "rootA" @@ "w2" :> "rootB"),
    Txns <- {"t1", "t2", "t3"},
    OwnerOf <- ("t1" :> "b1" @@ "t2" :> "b2" @@ "t3" :> "w1"), MaxEras <- 2,
    MaxBreaks <- 2

ASSUME UploadsAreConfigured ==
    /\ Parts!UploadConstants /\ Completions!UploadConstants /\ OwnKeys!UploadConstants
    /\ Parts!SizesAdd /\ Completions!SizesAdd /\ OwnKeys!SizesAdd
    /\ Sessions!AdmissionConstants /\ Admission!AdmissionConstants

ASSUME CommandsAreConfigured ==
    /\ Commands!CommandConstants /\ Retries!CommandConstants /\ Targets!CommandConstants
    /\ Fence!FenceConstants
    /\ None \notin {"r1", "r2", "r3"}

-----------------------------------------------------------------------------

Init ==
    /\ part \in {"parts", "completions", "keys", "sessions", "admission",
                 "rejected", "journal", "late", "quarantine", "shared",
                 "exits", "cleaners", "commands", "retries", "targets",
                 "outbox", "fence"}
    /\ IF part = "completions" THEN Completions!Init
       ELSE IF part = "keys" THEN OwnKeys!Init
       ELSE Parts!Init
    /\ IF part = "admission" THEN Admission!Init
       ELSE Sessions!Init
    /\ Rejected!Init
    /\ IF part = "late" THEN Late!Init
       ELSE Journal!Init
    /\ part \in {"journal", "late"} \/ (legacy = Journal!NoLegacy /\ canonical = "i1")
    /\ Quarantine!Init
    /\ part = "quarantine" \/ name = "i1"
    /\ IF part = "exits" THEN Exits!Init
       ELSE IF part = "cleaners" THEN Twice!Init
       ELSE Shared!Init
    /\ part \in {"shared", "exits", "cleaners"} \/ \A i \in DOMAIN status : status[i] = "revoked"
    /\ IF part = "retries" THEN Retries!Init
       ELSE IF part = "targets" THEN Targets!Init
       ELSE Commands!Init
    /\ Dispatch!Init
    /\ Fence!Init

\* The components that do not run.
Rest ==
    /\ UNCHANGED part
    /\ IF part \in {"parts", "completions", "keys"} THEN TRUE ELSE UNCHANGED uploadVars
    /\ IF part \in {"sessions", "admission"} THEN TRUE ELSE UNCHANGED admissionVars
    /\ IF part = "rejected" THEN TRUE ELSE UNCHANGED rejectedVars
    /\ IF part \in {"journal", "late"} THEN TRUE ELSE UNCHANGED journalVars
    /\ IF part = "quarantine" THEN TRUE ELSE UNCHANGED quarantineVars
    /\ IF part \in {"shared", "exits", "cleaners"} THEN TRUE ELSE UNCHANGED deletionVars
    /\ IF part \in {"commands", "retries", "targets"} THEN TRUE ELSE UNCHANGED commandVars
    /\ IF part = "outbox" THEN TRUE ELSE UNCHANGED outboxVars
    /\ IF part = "fence" THEN TRUE ELSE UNCHANGED fenceVars

Next ==
    \/ part = "parts" /\ Parts!Next /\ Rest
    \/ part = "completions" /\ Completions!Next /\ Rest
    \/ part = "keys" /\ OwnKeys!Next /\ Rest
    \/ part = "sessions" /\ Sessions!Next /\ Rest
    \/ part = "admission" /\ Admission!Next /\ Rest
    \/ part = "rejected" /\ Rejected!Next /\ Rest
    \/ part = "journal" /\ Journal!Next /\ Rest
    \/ part = "late" /\ Late!Next /\ Rest
    \/ part = "quarantine" /\ Quarantine!Next /\ Rest
    \/ part = "shared" /\ Shared!Next /\ Rest
    \/ part = "exits" /\ Exits!Next /\ Rest
    \/ part = "cleaners" /\ Twice!Next /\ Rest
    \/ part = "commands" /\ Commands!Next /\ Rest
    \/ part = "retries" /\ Retries!Next /\ Rest
    \/ part = "targets" /\ Targets!Next /\ Rest
    \/ part = "outbox" /\ Dispatch!Next /\ Rest
    \/ part = "fence" /\ Fence!Next /\ Rest

Spec == Init /\ [][Next]_vars

-----------------------------------------------------------------------------

\* The types of the component that runs.
TypeOK ==
    /\ part = "parts" => Parts!TypeOK
    /\ part = "completions" => Completions!TypeOK
    /\ part = "keys" => OwnKeys!TypeOK
    /\ part = "sessions" => Sessions!TypeOK
    /\ part = "admission" => Admission!TypeOK
    /\ part = "rejected" => Rejected!TypeOK
    /\ part = "journal" => Journal!TypeOK
    /\ part = "late" => Late!TypeOK
    /\ part = "quarantine" => Quarantine!TypeOK
    /\ part = "shared" => Shared!TypeOK
    /\ part = "exits" => Exits!TypeOK
    /\ part = "cleaners" => Twice!TypeOK
    /\ part = "commands" => Commands!TypeOK
    /\ part = "retries" => Retries!TypeOK
    /\ part = "targets" => Targets!TypeOK
    /\ part = "outbox" => Dispatch!TypeOK
    /\ part = "fence" => Fence!TypeOK

\* No row names a file that is gone, whoever cleans up late: the parts an open
\* upload counts on (UploadSession), the file of a committed version and of a
\* deletion that is not committed (RejectedUpload), and every file of a live
\* item or project, shared ones included (DurableDeletion).
RowsHaveFiles ==
    /\ part = "parts" => Parts!RecordedPartsExist
    /\ part = "completions" => Completions!RecordedPartsExist
    /\ part = "keys" => OwnKeys!RecordedPartsExist
    /\ part = "rejected" => Rejected!RowsHaveFiles
    /\ part = "shared" => Shared!LiveRowsHaveFiles /\ Shared!RowsAreOwned
    /\ part = "exits" => Exits!LiveRowsHaveFiles /\ Exits!RowsAreOwned
    /\ part = "cleaners" => Twice!LiveRowsHaveFiles

\* What a client is told, and what the operation log says, was committed:
\* completions that are answered agree on the file (UploadSession); an answer
\* is that of a committed execution of the same body for the same principal,
\* what the log calls failed has no effect, and an outcome that a client was
\* told is unknown is logged (CommandExecution).
AnswersAreCommitted ==
    /\ part = "completions" => Completions!AnswersAgree
    /\ part = "keys" => OwnKeys!AnswersAgree
    /\ part = "commands" => /\ Commands!AnswersAreCommitted
                          /\ Commands!FailuresAreHonest /\ Commands!UnknownIsRecorded
    /\ part = "retries" => /\ Retries!AnswersAreCommitted
                         /\ Retries!FailuresAreHonest /\ Retries!UnknownIsRecorded

\* However often it is retried, a command takes effect once for its key or
\* lock_version (CommandExecution); an event is published again only for a
\* failure or an exit, and a consumer is told once that it is the first
\* (Outbox).
ExecutedOnce ==
    /\ part = "commands" => Commands!ExecutedOnce
    /\ part = "retries" => Retries!ExecutedOnce
    /\ part = "targets" => Targets!ExecutedOnce
    /\ part = "outbox" => Dispatch!DeliveriesAreCounted /\ Dispatch!ConsumedOnce

\* Whatever ends, fails or dies, admitted uploads and packages can be finished
\* above the low watermark of the disk, concurrent admissions stay within every
\* limit of _reserve_upload_quota and of the package quota, and parts on the
\* disk belong to sessions that are counted (StorageAdmission); puts that share
\* the room of an upload never record more than was declared, and candidates
\* that no row knows of are bounded by the limiter (UploadSession).
LimitsAreKept ==
    /\ part = "sessions" => /\ Sessions!HeadroomIsKept /\ Sessions!PartsAreCounted
                            /\ Sessions!UploadsWithinLimits
    /\ part = "admission" => /\ Admission!HeadroomIsKept /\ Admission!PartsAreCounted
                             /\ Admission!UploadsWithinLimits
                             /\ Admission!PackagesWithinQuota
    /\ part = "parts" => Parts!PartsWithinDeclared /\ Parts!StrayCandidatesBounded

\* A complete intent has left nothing at a name, even with two cleaners, and
\* with one cleaner nothing in the quarantine either (DurableDeletion); a file
\* that unlink reported removed stays away (DeleteQuarantine).
CompleteMeansGone ==
    /\ part = "shared" => Shared!CompleteLeavesNoName /\ Shared!CompleteMeansGone
    /\ part = "exits" => Exits!CompleteLeavesNoName /\ Exits!CompleteMeansGone
    /\ part = "cleaners" => Twice!CompleteLeavesNoName
    /\ part = "quarantine" => Quarantine!RemovedStaysAway

\* No transaction commits for an owner that was replaced, and whoever serves
\* works on the storage roots of the owner (RuntimeFence).
CommitsAreFenced ==
    part = "fence" => Fence!CommitsAreFenced /\ Fence!OneStorageContract

\* Whatever a stale finalizer, an abort or the maintenance does, what
\* complete_upload has published is there and whole, and the upload stays
\* completed with its file (UploadSession).
CompletionIsFinal ==
    [][/\ part = "completions" => /\ (Completions!CompletedIsWhole)'
                                  /\ Completions!StaysCompleted
       /\ part = "keys" => (OwnKeys!CompletedIsWhole)']_uploadVars

\* A deleter that answers leaves no archive behind; only what the manifest
\* names, and with an intent only what it captured, is unlinked, though
\* builders publish late (PackageDeleteJournal); only a file that an unlink
\* has pinned leaves the disk, and the name is never taken from a file that
\* came later (DeleteQuarantine).
DeletionsAreExact ==
    [][/\ part = "journal" => Journal!AnswersTruly
       /\ part = "late" => /\ Late!AnswersTruly
                           /\ Late!UnlinksNamed /\ Late!DeletesCaptured
       /\ part = "quarantine" => /\ Quarantine!RemovesPinned
                                 /\ Quarantine!LeavesName]_<<journalVars, quarantineVars>>

\* Events become visible in the order of their numbers (Outbox).
VisibleInOrder == [][part = "outbox" => Dispatch!AppearsInOrder]_outboxVars
==============================================================================
