----------------------------- MODULE MCLiveness ------------------------------
(****************************************************************************)
(* What the components bring to an end.  Each behaviour is one of a single  *)
(* instance, chosen in the initial state; the others rest.  As one component*)
(* runs, one fairness condition serves the same role in all of them.        *)
(****************************************************************************)
EXTENDS Naturals, Sequences, TLC

CONSTANTS None, NoFile, NoSlot

VARIABLES
    part, \* the component that runs; the others rest
    uploadRow, idem, disk, files, put, uploadOp, leases, claimed, uploadFaults,
    rejectedRow, bound, file, tomb, graced, rejectedPc, known, rowLock,
    inflight, sweep, rejectedFaults,
    canonical, entry, legacy, published, deleter, journalFaults,
    name, ctime, content, others, quarantined, unlinker, rec, unlinkExits,
    raises, rewrites,
    workflow, history, projectRow, fileRow, onDisk, moved, derivation, leased,
    intent, artifact, cleaner, failures, restores, exits,
    pc, attempt, answer, tx, record, effects, log, damaged, damages,
    event, receipts, pending, claim, delivered, consumed, deletedItems, deaths,
    writer, contract, exclusive, shared, proc, txn, era, eraOf, breaks,
    project, item, playback, issue, started, refused, qcTask, older, slot,
    snapshot, stopping, reported,
    mediaTask, mediaRow, pointer, staging, dest, bytes, job, claims, withdrawn,
    lost,
    current, frameTask, shown, repairs, found,
    scanPc, stage, failure, scanAnswer, pinned, launcher, boxed, timed_out,
    child, output, input, deadline, cancelled, lease, scanFatal,
    main, cur, handler, lock, stop, fatal, serviceStatus, free, active, thread,
    wire, client, check, serviceFailures, signals

uploadVars == <<uploadRow, idem, disk, files, put, uploadOp, leases, claimed,
                uploadFaults>>
rejectedVars == <<rejectedRow, bound, file, tomb, graced, rejectedPc, known,
                  rowLock, inflight, sweep, rejectedFaults>>
journalVars == <<canonical, entry, legacy, published, deleter, journalFaults>>
quarantineVars == <<name, ctime, content, others, quarantined, unlinker, rec,
                    unlinkExits, raises, rewrites>>
deletionVars == <<workflow, history, projectRow, fileRow, onDisk, moved,
                  derivation, leased, intent, artifact, cleaner, failures,
                  restores, exits>>
commandVars == <<pc, attempt, answer, tx, record, effects, log, damaged,
                 damages>>
outboxVars == <<event, receipts, pending, claim, delivered, consumed,
                deletedItems, deaths>>
fenceVars == <<writer, contract, exclusive, shared, proc, txn, era, eraOf,
               breaks>>
qcVars == <<project, item, playback, issue, started, refused, qcTask, older,
            slot, snapshot, stopping, reported>>
mediaVars == <<mediaTask, mediaRow, pointer, staging, dest, bytes, job, claims,
               withdrawn, lost>>
thumbnailVars == <<current, frameTask, shown, repairs, found>>
scanVars == <<scanPc, stage, failure, scanAnswer, pinned, launcher, boxed,
              timed_out, child, output, input, deadline, cancelled, lease,
              scanFatal>>
sandboxVars == <<main, cur, handler, lock, stop, fatal, serviceStatus, free,
                 active, thread, wire, client, check, serviceFailures, signals>>
vars == <<part, uploadVars, rejectedVars, journalVars, quarantineVars,
          deletionVars, commandVars, outboxVars, fenceVars, qcVars, mediaVars,
          thumbnailVars, scanVars, sandboxVars>>

Upload == INSTANCE UploadSession WITH
    Puts <- {"p1"}, Completes <- {"c1"}, Aborts <- {"a1"}, PartNos <- {1},
    PartOf <- ("p1" :> 1), SizeOf <- ("p1" :> 1), Declared <- 1, Corrupt <- {},
    Keys <- {"k1"}, KeyOf <- ("c1" :> "k1"), Processes <- {"x1"},
    ProcessOf <- [r \in {"p1", "c1", "a1"} |-> "x1"], MaxInflight <- 1,
    MaxFaults <- 1, row <- uploadRow, op <- uploadOp, faults <- uploadFaults

Rejected == INSTANCE RejectedUpload WITH
    Requests <- {"r1", "r2"}, MaxFaults <- 2, row <- rejectedRow,
    pc <- rejectedPc, lock <- rowLock, faults <- rejectedFaults

Journal == INSTANCE PackageDeleteJournal WITH
    Deleters <- {"d1"}, Inodes <- {"i1", "i2"}, Damaged <- {},
    Captured <- None,
    LegacyStates <- {"none", "prepared", "renamed", "moved", "unlinked"},
    MaxFaults <- 4, MaxPublished <- 0, op <- deleter, faults <- journalFaults

Quarantine == INSTANCE DeleteQuarantine WITH
    Attempts <- {"a1", "a2"}, Inodes <- {"i1", "i2"},
    ExitsAt <- {"open", "mkdir", "lock", "manifest", "rename", "validate",
                "next", "final", "unlink", "unlinked", "rmdir", "create"},
    MaxExits <- 3, MaxRaises <- 0, MaxRewrites <- 0, MaxOthers <- 0,
    entry <- quarantined, op <- unlinker, exits <- unlinkExits

Deletion == INSTANCE DurableDeletion WITH
    Items <- {"item"}, Files <- {"derived", "archive"},
    Packages <- {"archive"},
    OwnersOf <- [f \in {"derived", "archive"} |-> {"item"}],
    Derived <- {"derived"}, Statuses <- {"revoked"}, Cleaners <- {"c1"},
    MaxFailures <- 1, MaxRestores <- 0, MaxExits <- 1, Project <- "project",
    status <- workflow, project <- projectRow, row <- fileRow, disk <- onDisk,
    task <- derivation, op <- cleaner

Commands == INSTANCE CommandExecution WITH
    Requests <- {"r1", "r2"}, TargetOf <- [r \in {"r1", "r2"} |-> "package"],
    Keyed <- {"package"}, Repairable <- {"package"},
    BodyOf <- [r \in {"r1", "r2"} |-> "a"],
    PrincipalOf <- [r \in {"r1", "r2"} |-> "editor"], MaxAttempts <- 1,
    MaxDamages <- 1, AuditMayFail <- TRUE

Dispatch == INSTANCE Outbox WITH
    Events <- {"e1", "e2"}, ItemOf <- [e \in {"e1", "e2"} |-> "item"],
    Writers <- {"w1", "w2"}, Dispatchers <- {"d1", "d2"}, Consumers <- {},
    MaxAttempts <- 2, Limit <- 2, MaxDeaths <- 1, row <- event

Fence == INSTANCE RuntimeFence WITH
    Backends <- {"b1", "b2"}, Workers <- {"w1"},
    RootOf <- ("b1" :> "rootA" @@ "b2" :> "rootB" @@ "w1" :> "rootA"),
    Txns <- {"t1", "t2"}, OwnerOf <- ("t1" :> "b1" @@ "t2" :> "w1"),
    MaxEras <- 2, MaxBreaks <- 2

Qc == INSTANCE TechnicalQc WITH
    Items <- {"item"}, Projects <- {"project"},
    ProjectOf <- ("item" :> "project"), MaxVersion <- 2, LockModulus <- 1,
    Losable <- {}, HumanIssues <- {}, Findings <- {}, Workers <- {"w1"},
    Slots <- {"s1"}, WorkerOf <- ("s1" :> "w1"), MaxAttempts <- 2,
    PerProjectLimit <- 1, NoClaim <- NoSlot, task <- qcTask

Derivatives == INSTANCE MediaDerivative WITH
    Workers <- {"w1"}, MaxAttempts <- 2, Digests <- {"d1"}, MaxClaims <- 4,
    MaxRepairs <- 1, Withdrawable <- TRUE, task <- mediaTask,
    fileRow <- mediaRow, content <- bytes

Thumbnails == INSTANCE ThumbnailGroups WITH
    Items <- {"i1", "i2"}, MaxVersion <- 2,
    Alike <- {{<<"i1", 1>>, <<"i2", 1>>}}, Reuploaded <- {"i2"},
    Backfills <- {"b1"}, MaxRepairs <- 1, task <- frameTask

Scan == INSTANCE QcScan WITH
    Stages <- <<"ffmpeg">>, MaxChanges <- 0, ReadersLag <- TRUE,
    DeadlineAnywhere <- FALSE, pc <- scanPc, answer <- scanAnswer,
    fatal <- scanFatal

Service == INSTANCE QcSandbox WITH
    Conns <- {"c1"}, Checks <- {}, Slots <- 1, Threads <- 1, MaxPending <- 1,
    Total <- 1, MaxFailures <- 1, MaxSignals <- 1, SignalInLock <- FALSE,
    status <- serviceStatus, failures <- serviceFailures

ASSUME LivenessIsConfigured ==
    /\ Upload!UploadConstants /\ Upload!SizesAdd /\ Qc!ReviewConstants /\ Qc!QcConstants
    /\ Derivatives!MediaConstants /\ Thumbnails!GroupConstants
    /\ Scan!QcScanAssumption /\ Service!QcSandboxAssumption

-----------------------------------------------------------------------------

Init ==
    /\ part \in {"upload", "rejected", "journal", "quarantine", "deletion",
                 "command", "outbox", "fence", "qc", "media", "thumbnail",
                 "scan", "sandbox"}
    /\ Upload!Init
    /\ Rejected!Init
    /\ Journal!Init
    /\ part = "journal" \/ (legacy = Journal!NoLegacy /\ canonical = "i1")
    /\ Quarantine!Init
    /\ part = "quarantine" \/ name = "i1"
    /\ Deletion!Init
    /\ part = "deletion" \/ \A i \in DOMAIN workflow : workflow[i] = "revoked"
    /\ Commands!Init
    /\ Dispatch!Init
    /\ Fence!Init
    /\ Qc!Init
    /\ Derivatives!Init
    /\ Thumbnails!Init
    /\ part = "thumbnail" \/ \A v \in DOMAIN frameTask : frameTask[v] = Thumbnails!NoTask
    /\ Scan!Init
    /\ part = "scan" \/ input.content = "claimed"
    /\ Service!Init

\* The components that do not run.
Rest ==
    /\ UNCHANGED part
    /\ IF part = "upload" THEN TRUE ELSE UNCHANGED uploadVars
    /\ IF part = "rejected" THEN TRUE ELSE UNCHANGED rejectedVars
    /\ IF part = "journal" THEN TRUE ELSE UNCHANGED journalVars
    /\ IF part = "quarantine" THEN TRUE ELSE UNCHANGED quarantineVars
    /\ IF part = "deletion" THEN TRUE ELSE UNCHANGED deletionVars
    /\ IF part = "command" THEN TRUE ELSE UNCHANGED commandVars
    /\ IF part = "outbox" THEN TRUE ELSE UNCHANGED outboxVars
    /\ IF part = "fence" THEN TRUE ELSE UNCHANGED fenceVars
    /\ IF part = "qc" THEN TRUE ELSE UNCHANGED qcVars
    /\ IF part = "media" THEN TRUE ELSE UNCHANGED mediaVars
    /\ IF part = "thumbnail" THEN TRUE ELSE UNCHANGED thumbnailVars
    /\ IF part = "scan" THEN TRUE ELSE UNCHANGED scanVars
    /\ IF part = "sandbox" THEN TRUE ELSE UNCHANGED sandboxVars

Next ==
    \/ part = "upload" /\ Upload!Next /\ Rest
    \/ part = "rejected" /\ Rejected!Next /\ Rest
    \/ part = "journal" /\ Journal!Next /\ Rest
    \/ part = "quarantine" /\ Quarantine!Next /\ Rest
    \/ part = "deletion" /\ Deletion!Next /\ Rest
    \/ part = "command" /\ Commands!Next /\ Rest
    \/ part = "outbox" /\ Dispatch!Next /\ Rest
    \/ part = "fence" /\ Fence!Next /\ Rest
    \/ part = "qc" /\ Qc!Next /\ Rest
    \/ part = "media" /\ Derivatives!Next /\ Rest
    \/ part = "thumbnail" /\ Thumbnails!Next /\ Rest
    \/ part = "scan" /\ Scan!Next /\ Rest
    \/ part = "sandbox" /\ Service!Next /\ Rest

\* The processes of a component run on.
Run(i) ==
    \/ part = "upload" /\ \/ i = 1 /\ Upload!Started("p1") /\ Upload!PutStep("p1")
                          \/ i = 2 /\ Upload!Started("c1") /\ Upload!complete_upload("c1")
                          \/ i = 3 /\ Upload!Started("a1") /\ Upload!abort_upload("a1")
    \/ part = "rejected" /\ i \in 1..2 /\ Rejected!RequestStep(<<"r1", "r2">>[i])
    \/ part = "journal" /\ i = 1 /\ Journal!DeleterStep("d1")
    \/ part = "quarantine" /\ i \in 1..2 /\ Quarantine!UnlinkStep(<<"a1", "a2">>[i])
    \/ part = "deletion" /\ \/ i = 1 /\ Deletion!CleanerStep("c1")
                            \/ i = 2 /\ Deletion!derivative_commit("derived")
    \/ part = "command" /\ i \in 1..2 /\ Commands!RequestStep(<<"r1", "r2">>[i])
    \/ part = "outbox" /\ i \in 1..2 /\ \/ Dispatch!command_commits(<<"w1", "w2">>[i])
                                        \/ Dispatch!command_rolls_back(<<"w1", "w2">>[i])
    \/ part = "fence" /\ \/ i \in 1..2 /\ Fence!BackendStep(<<"b1", "b2">>[i])
                         \/ i = 3 /\ Fence!WorkerStep("w1")
    \/ part = "qc" /\ \/ i = 1 /\ Qc!abandon_claim("w1")
                      \/ i = 2 /\ Qc!start_worker("w1")
                      \/ i = 3 /\ Qc!skip_scan("s1")
                      \/ i = 4 /\ \/ Qc!complete_scan("s1", {})
                                  \/ \E retryable \in BOOLEAN : Qc!fail_scan("s1", retryable)
    \/ part = "media" /\ i = 1 /\ Derivatives!Step("w1")
    \/ part = "thumbnail" /\ i \in 1..3
         /\ Thumbnails!claim(<<<<"i1", 1>>, <<"i2", 1>>, <<"i2", 2>>>>[i])
    \/ part = "scan" /\ \/ i = 1 /\ Scan!Scanner
                        \/ i = 2 /\ Scan!Spawner(1)
    \/ part = "sandbox" /\ \/ i = 1 /\ Service!serve_forever
                           \/ i = 2 /\ (Service!set_stop \/ Service!handler_shuts)
                           \/ i = 3 /\ Service!_handle_connection("c1")
                           \/ i = 4 /\ Service!scan_via_sandbox("c1")

\* Time passes and transactions end.
Clock(i) ==
    \/ part = "upload" /\ \/ i = 1 /\ Upload!lease_expires
                          \/ i = 2 /\ Upload!grows_stale
    \/ part = "rejected" /\ \/ i \in 1..2 /\ Rejected!server_resolves(<<"r1", "r2">>[i])
                            \/ i \in 3..4 /\ Rejected!grace_passes(<<"r1", "r2">>[i - 2])
    \/ part = "deletion" /\ i \in 1..2 /\ Deletion!claim_expires(<<"item", "project">>[i])
    \/ part = "command" /\ i \in 1..2 /\ Commands!server_resolves(<<"r1", "r2">>[i])
    \/ part = "fence" /\ i \in 1..2 /\ Fence!TxnStep(<<"t1", "t2">>[i])
    \/ part = "qc" /\ \/ i \in 1..2 /\ Qc!retry_falls_due(<<"item", i>>)
                      \/ i \in 3..4 /\ slot["s1"] # <<"item", i - 2>>
                           /\ Qc!lease_expires(<<"item", i - 2>>)
    \/ part = "media" /\ \/ i = 1 /\ ~Derivatives!Holds("w1") /\ Derivatives!lease_expires
                         \/ i = 2 /\ Derivatives!retry_falls_due
    \/ part = "scan" /\ i = 1 /\ Scan!deadline_passes

\* Maintenance, clients and readers look again and again.
Sweep(i) ==
    \/ part = "upload" /\ \/ i = 1 /\ Upload!_claim_terminal_or_stale_uploads
                          \/ i = 2 /\ Upload!_cleanup_claimed_upload_parts
                          \/ i = 3 /\ Upload!_cleanup_orphan_upload_parts("p1")
                          \/ i = 4 /\ Upload!_cleanup_orphan_managed_files("c1")
    \/ part = "rejected" /\ \/ i \in 1..2 /\ Rejected!sweep_unlinks(<<"r1", "r2">>[i])
                            \/ i = 3 /\ Rejected!_cleanup_orphan_managed_files
    \/ part = "quarantine" /\ i = 1 /\ Quarantine!RecoveryStep
    \/ part = "deletion" /\ i \in 1..2
         /\ Deletion!_cleanup_orphan_managed_files(<<"derived", "archive">>[i])
    \/ part = "command" /\ i \in 1..2 /\ Commands!send(<<"r1", "r2">>[i])
    \/ part = "outbox" /\ i \in 1..2 /\ \/ Dispatch!publish(<<"d1", "d2">>[i])
                                        \/ Dispatch!dispatch_commits(<<"d1", "d2">>[i])
    \/ part = "media" /\ i = 1 /\ Derivatives!requeue_missing_ready_derivative
    \/ part = "scan" /\ i = 1 /\ Scan!append_output(1)

\* Steps that come about although they are put off again and again.
Insist(i) ==
    \/ part = "rejected" /\ i \in 1..2 /\ Rejected!_cleanup_pending_deletes(<<"r1", "r2">>[i])
    \/ part = "outbox" /\ i \in 1..2 /\ Dispatch!dispatch_select(<<"d1", "d2">>[i])
    \/ part = "fence" /\ \/ i \in 1..2 /\ Fence!acquire_fence(<<"b1", "b2">>[i])
                         \/ i = 3 /\ Fence!lease_release("w1")
    \/ part = "qc" /\ \/ i = 1 /\ Qc!begin_claim("w1")
                      \/ i = 2 /\ Qc!commit_claim("w1")
    \/ part = "thumbnail" /\ i \in 1..3
         /\ Thumbnails!publish(<<<<"i1", 1>>, <<"i2", 1>>, <<"i2", 2>>>>[i])

\* The fairness of every component: for each of its processes, clocks and
\* periodic jobs a condition of its own, as its FairSpec has them.
Spec ==
    /\ Init /\ [][Next]_vars
    /\ \A i \in 1..4 : WF_vars(Run(i) /\ Rest) /\ WF_vars(Clock(i) /\ Rest)
    /\ \A i \in 1..4 : WF_vars(Sweep(i) /\ Rest)
    /\ \A i \in 1..3 : SF_vars(Insist(i) /\ Rest)
    /\ []<>(proc["w1"] # "fenced")
    /\ <>[][~Qc!rerun_project_technical_qc("project")]_vars

-----------------------------------------------------------------------------

\* Whoever waits is answered: an upload is completed or removed with its
\* reservation (UploadSession), a request is answered or lost with its process
\* (CommandExecution), a scan ends whatever blocks (QcScan), the service closes
\* every connection and ends when it is told to stop (QcSandbox), and a backend
\* takes over when the owner is lost (RuntimeFence).
RequestsEnd ==
    /\ []<>(part = "upload") => Upload!UploadEnds
    /\ Commands!RequestsEnd
    /\ []<>(part = "scan") => Scan!ScanEnds
    /\ Service!ConnectionsEnd
    /\ Service!StopEnds
    /\ []<>(part = "fence") => Fence!OwnerReturns

\* No task stays open: a quality control task ends unless its project is
\* archived (TechnicalQc), a derivative is made or fails for good, and is made
\* again when its file is gone (MediaDerivative), a current version shows what
\* its group asks for (ThumbnailGroups), and an event is dispatched, given up
\* or deleted (Outbox).
TasksSettle ==
    /\ Qc!TasksSettle
    /\ []<>(part = "media") => Derivatives!TaskSettles
    /\ Derivatives!MissingFileIsRepaired
    /\ []<>(part = "thumbnail") => Thumbnails!FramesSettle
    /\ Dispatch!EventsSettle

\* Nothing is left behind: no part or assembled file that no row names
\* (UploadSession), no tombstone and no file whose row is gone
\* (RejectedUpload), no archive whose deleter died (PackageDeleteJournal), no
\* file moved by a process that exited (DeleteQuarantine), no deletion intent
\* and no file it stands for, though the cleaner fails and exits on the way
\* (DurableDeletion), no child of a scan (QcScan).
LeftoversGo ==
    /\ []<>(part = "upload") => Upload!PartsAreReclaimed
    /\ Upload!OrphansAreReclaimed
    /\ Rejected!TombstonesGo /\ Rejected!RowlessFileGoes
    /\ []<>(part = "journal") => Journal!DeletionCompletes
    /\ Quarantine!MovedIsResolved
    /\ Deletion!IntentsComplete /\ Deletion!DeletedFilesGo
    /\ Scan!ChildrenGo
==============================================================================
