------------------------------ MODULE MCReview -------------------------------
(****************************************************************************)
(* Instances of the components that review and examine media: the review    *)
(* workflow with its technical quality control, the media and thumbnail     *)
(* workers, the reading of frame times, the report, the scan and the service*)
(* that scans.  Each behaviour is one of a single instance, chosen in the   *)
(* initial state; the other components rest.                                *)
(****************************************************************************)
EXTENDS Naturals, Sequences, TLC

CONSTANTS None, NoFile, NoClaim, x1, x2, a1, a2

VARIABLES
    part, \* the component that runs; the others rest
    project, item, playback, issue, started, refused, qcTask, older, slot,
    snapshot, stopping, reported,
    mediaTask, fileRow, pointer, staging, dest, bytes, job, claims, withdrawn,
    lost,
    current, frameTask, shown, repairs, found,
    meta, packets, dts, heap, expected, verdict, at,
    hits, intervals, todo, merged,
    pc, stage, failure, answer, pinned, launcher, boxed, timed_out, child,
    output, input, deadline, cancelled, lease, scanFatal,
    main, cur, handler, lock, stop, fatal, status, free, active, thread, wire,
    client, check, failures, signals

reviewVars == <<project, item, playback, issue, started, refused, qcTask,
                older, slot, snapshot, stopping, reported>>
mediaVars == <<mediaTask, fileRow, pointer, staging, dest, bytes, job, claims,
               withdrawn, lost>>
thumbnailVars == <<current, frameTask, shown, repairs, found>>
timingVars == <<meta, packets, dts, heap, expected, verdict, at>>
reportVars == <<hits, intervals, todo, merged>>
scanVars == <<pc, stage, failure, answer, pinned, launcher, boxed, timed_out,
              child, output, input, deadline, cancelled, lease, scanFatal>>
serviceVars == <<main, cur, handler, lock, stop, fatal, status, free, active,
                 thread, wire, client, check, failures, signals>>
vars == <<part, reviewVars, mediaVars, thumbnailVars, timingVars, reportVars,
          scanVars, serviceVars>>

\* The review commands alone, with two human issues and playback that is lost.
Commands == INSTANCE TechnicalQc WITH
    Items <- {"i1"}, Projects <- {"p1"}, ProjectOf <- ("i1" :> "p1"),
    MaxVersion <- 2, LockModulus <- 2, Losable <- {1}, HumanIssues <- {x1, x2},
    Findings <- {}, Workers <- {}, Slots <- {}, WorkerOf <- <<>>,
    MaxAttempts <- 1, PerProjectLimit <- 1, task <- qcTask

\* A human issue and a finding of the worker.
Qc == INSTANCE TechnicalQc WITH
    Items <- {"i1"}, Projects <- {"p1"}, ProjectOf <- ("i1" :> "p1"),
    MaxVersion <- 1, LockModulus <- 1, Losable <- {}, HumanIssues <- {x1},
    Findings <- {"f1"}, Workers <- {"w1"}, Slots <- {"s1"},
    WorkerOf <- ("s1" :> "w1"), MaxAttempts <- 1, PerProjectLimit <- 1,
    task <- qcTask

\* A finding, and a version that replaces the one it is about.
Recheck == INSTANCE TechnicalQc WITH
    Items <- {"i1"}, Projects <- {"p1"}, ProjectOf <- ("i1" :> "p1"),
    MaxVersion <- 2, LockModulus <- 1, Losable <- {}, HumanIssues <- {},
    Findings <- {"f1"}, Workers <- {"w1"}, Slots <- {"s1"},
    WorkerOf <- ("s1" :> "w1"), MaxAttempts <- 1, PerProjectLimit <- 1,
    task <- qcTask

\* Two items of a project that may use one of two slots.
Limits == INSTANCE TechnicalQc WITH
    Items <- {"i1", "i2"}, Projects <- {"p1"},
    ProjectOf <- [i \in {"i1", "i2"} |-> "p1"], MaxVersion <- 1,
    LockModulus <- 1, Losable <- {}, HumanIssues <- {}, Findings <- {},
    Workers <- {"w1"}, Slots <- {a1, a2},
    WorkerOf <- [s \in {a1, a2} |-> "w1"], MaxAttempts <- 1,
    PerProjectLimit <- 1, task <- qcTask

\* Two workers, and an issue that lets a new version come.
TwoWorkers == INSTANCE TechnicalQc WITH
    Items <- {"i1"}, Projects <- {"p1"}, ProjectOf <- ("i1" :> "p1"),
    MaxVersion <- 2, LockModulus <- 1, Losable <- {}, HumanIssues <- {x1},
    Findings <- {}, Workers <- {a1, a2}, Slots <- {a1, a2},
    WorkerOf <- (a1 :> a1 @@ a2 :> a2), MaxAttempts <- 1,
    PerProjectLimit <- 1, task <- qcTask

\* A media worker that dies anywhere.
Crashes == INSTANCE MediaDerivative WITH
    Workers <- {"m1"}, MaxAttempts <- 2, Digests <- {"d1", "d2"},
    MaxClaims <- 3, MaxRepairs <- 1, Withdrawable <- TRUE, task <- mediaTask,
    content <- bytes

\* Two media workers on one task.
Race == INSTANCE MediaDerivative WITH
    Workers <- {a1, a2}, MaxAttempts <- 3, Digests <- {"d1", "d2"},
    MaxClaims <- 4, MaxRepairs <- 0, Withdrawable <- FALSE, task <- mediaTask,
    content <- bytes

\* A chain of similar pictures: t1 and t2, t2 and t3.
Groups == INSTANCE ThumbnailGroups WITH
    Items <- {"t1", "t2", "t3"}, MaxVersion <- 2,
    Alike <- {{<<"t1", 1>>, <<"t2", 1>>}, {<<"t2", 1>>, <<"t3", 1>>}, {<<"t2", 2>>, <<"t3", 1>>}},
    Reuploaded <- {"t2"}, Backfills <- {}, MaxRepairs <- 0, task <- frameTask

\* Two backfills that read without locks.
Backfill == INSTANCE ThumbnailGroups WITH
    Items <- {"t1", "t2"}, MaxVersion <- 2,
    Alike <- {{<<"t1", 1>>, <<"t2", 1>>}}, Reuploaded <- {"t2"},
    Backfills <- {a1, a2}, MaxRepairs <- 1, task <- frameTask

\* Streams of up to four packets.
Timing == INSTANCE FrameTiming WITH
    Interval <- 4, MinInterval <- 4, Durations <- {4, 16}, Depths <- {0, 1},
    Counts <- {3, 4}, Offsets <- {0, 2, 3}, Drifts <- {0, 2}, Leads <- {8}

\* Four frames without sound.
Shots == INSTANCE QcIntervals WITH
    TotalFrames <- 4, TotalTicks <- 8, LastTick <- 0, LumaMin <- 3,
    SilenceMin <- 2, found <- intervals

\* Three frames with silences, which may end past the video.
Sound == INSTANCE QcIntervals WITH
    TotalFrames <- 3, TotalTicks <- 6, LastTick <- 7, LumaMin <- 3,
    SilenceMin <- 2, found <- intervals

\* One scan with its three children.
Scan == INSTANCE QcScan WITH
    Stages <- <<"hash", "probe", "ffmpeg">>, MaxChanges <- 1,
    ReadersLag <- FALSE, DeadlineAnywhere <- FALSE, fatal <- scanFatal

\* A service that fails and is told to stop, with one scan and one health check.
Service == INSTANCE QcSandbox WITH
    Conns <- {"c1"}, Checks <- {"h1"}, Slots <- 1, Threads <- 1,
    MaxPending <- 1, Total <- 1, MaxFailures <- 1, MaxSignals <- 1,
    SignalInLock <- FALSE

\* More connections than slots.
Full == INSTANCE QcSandbox WITH
    Conns <- {a1, a2}, Checks <- {}, Slots <- 1, Threads <- 1,
    MaxPending <- 1, Total <- 1, MaxFailures <- 0, MaxSignals <- 0,
    SignalInLock <- FALSE

\* A scan that reports two positions.
Replies == INSTANCE QcSandbox WITH
    Conns <- {"c1"}, Checks <- {}, Slots <- 1, Threads <- 1, MaxPending <- 1,
    Total <- 2, MaxFailures <- 1, MaxSignals <- 1, SignalInLock <- FALSE

ASSUME ReviewIsConfigured ==
    /\ Commands!QcConstants /\ Qc!QcConstants /\ Recheck!QcConstants
    /\ Limits!QcConstants /\ TwoWorkers!QcConstants
    /\ Commands!ReviewConstants /\ Qc!ReviewConstants /\ Recheck!ReviewConstants
    /\ Limits!ReviewConstants /\ TwoWorkers!ReviewConstants
    /\ Crashes!MediaConstants /\ Race!MediaConstants
    /\ Groups!GroupConstants /\ Backfill!GroupConstants
    /\ Timing!IntervalAssumption /\ Shots!LengthAssumption /\ Sound!LengthAssumption
    /\ Scan!QcScanAssumption
    /\ Service!QcSandboxAssumption /\ Full!QcSandboxAssumption /\ Replies!QcSandboxAssumption

-----------------------------------------------------------------------------

Init ==
    /\ part \in {"commands", "qc", "versions", "limits", "workers", "crashes",
                 "race", "groups", "backfill", "timing", "shots", "sound",
                 "scan", "service", "full", "replies"}
    /\ IF part = "qc" THEN Qc!Init
       ELSE IF part = "versions" THEN Recheck!Init
       ELSE IF part = "limits" THEN Limits!Init
       ELSE IF part = "workers" THEN TwoWorkers!Init
       ELSE Commands!Init
    /\ IF part = "race" THEN Race!Init
       ELSE Crashes!Init
    /\ IF part = "backfill" THEN Backfill!Init
       ELSE Groups!Init
    /\ part \in {"groups", "backfill"} \/ \A v \in DOMAIN frameTask : frameTask[v] = Groups!NoTask
    /\ IF part = "timing" THEN Timing!Init
       ELSE /\ meta = None /\ packets = <<>> /\ dts = 0 /\ heap = <<>>
            /\ expected = 0 /\ verdict = "none" /\ at = "none"
    /\ IF part = "shots" THEN Shots!Init
       ELSE IF part = "sound" THEN Sound!Init
       ELSE hits = None /\ intervals = {} /\ todo = {} /\ merged = <<>>
    /\ Scan!Init
    /\ part = "scan" \/ input.content = "claimed"
    /\ IF part = "full" THEN Full!Init
       ELSE IF part = "replies" THEN Replies!Init
       ELSE Service!Init

\* The components that do not run.
Rest ==
    /\ UNCHANGED part
    /\ IF part \in {"commands", "qc", "versions", "limits", "workers"} THEN TRUE
       ELSE UNCHANGED reviewVars
    /\ IF part \in {"crashes", "race"} THEN TRUE ELSE UNCHANGED mediaVars
    /\ IF part \in {"groups", "backfill"} THEN TRUE ELSE UNCHANGED thumbnailVars
    /\ IF part = "timing" THEN TRUE ELSE UNCHANGED timingVars
    /\ IF part \in {"shots", "sound"} THEN TRUE ELSE UNCHANGED reportVars
    /\ IF part = "scan" THEN TRUE ELSE UNCHANGED scanVars
    /\ IF part \in {"service", "full", "replies"} THEN TRUE ELSE UNCHANGED serviceVars

Next ==
    \/ part = "commands" /\ Commands!Next /\ Rest
    \/ part = "qc" /\ Qc!Next /\ Rest
    \/ part = "versions" /\ Recheck!Next /\ Rest
    \/ part = "limits" /\ Limits!Next /\ Rest
    \/ part = "workers" /\ TwoWorkers!Next /\ Rest
    \/ part = "crashes" /\ Crashes!Next /\ Rest
    \/ part = "race" /\ Race!Next /\ Rest
    \/ part = "groups" /\ Groups!Next /\ Rest
    \/ part = "backfill" /\ Backfill!Next /\ Rest
    \/ part = "timing" /\ Timing!Next /\ Rest
    \/ part = "shots" /\ Shots!Next /\ Rest
    \/ part = "sound" /\ Sound!Next /\ Rest
    \/ part = "scan" /\ Scan!Next /\ Rest
    \/ part = "service" /\ Service!Next /\ Rest
    \/ part = "full" /\ Full!Next /\ Rest
    \/ part = "replies" /\ Replies!Next /\ Rest

Spec == Init /\ [][Next]_vars

-----------------------------------------------------------------------------

\* The types of the component that runs.
TypeOK ==
    /\ part = "commands" => Commands!TypeOK
    /\ part = "qc" => Qc!TypeOK
    /\ part = "versions" => Recheck!TypeOK
    /\ part = "limits" => Limits!TypeOK
    /\ part = "workers" => TwoWorkers!TypeOK
    /\ part = "crashes" => Crashes!TypeOK
    /\ part = "race" => Race!TypeOK
    /\ part = "groups" => Groups!TypeOK
    /\ part = "backfill" => Backfill!TypeOK
    /\ part = "timing" => Timing!TypeOK
    /\ part = "shots" => Shots!TypeOK
    /\ part = "sound" => Sound!TypeOK
    /\ part = "scan" => Scan!TypeOK
    /\ part = "service" => Service!TypeOK
    /\ part = "full" => Full!TypeOK
    /\ part = "replies" => Replies!TypeOK

\* No command that the repository admits is refused by a freeze trigger of the
\* database, whatever sequence of commands and scans led there
\* (ReviewWorkflow); a finding is announced once, and a review starts once
\* (TechnicalQc).
TriggersAgree ==
    /\ part = "commands" => Commands!TriggersAgree /\ Commands!AnnouncedOnce
    /\ part = "qc" => Qc!TriggersAgree /\ Qc!AnnouncedOnce
    /\ part = "versions" => Recheck!TriggersAgree /\ Recheck!AnnouncedOnce

\* Claims that overlap stay within what may run at once: one task of an item,
\* the limit of a project (TechnicalQc), and the slots of the scanning service,
\* none of which is lost or given back twice (QcSandbox).
ClaimsWithinLimits ==
    /\ part = "limits" => Limits!WithinProjectLimit
    /\ part = "workers" => TwoWorkers!OneRunningPerItem
    /\ part = "service" => Service!SlotsAreKept
    /\ part = "full" => Full!SlotsAreKept

\* A ready derivative has its file when one worker runs at a time, and never
\* names bytes other than its row's when two do (MediaDerivative).
ReadyIsVerified ==
    /\ part = "crashes" => Crashes!ReadyHasFile
    /\ part = "race" => Race!ReadyBytesVerified

\* The incremental reconciliation is as good as a full one, and a ready version
\* shows the frame its group asks for (ThumbnailGroups).
GroupsAreReconciled ==
    /\ part = "groups" => Groups!GroupsAreReconciled /\ Groups!ReadyShowsDesired
    /\ part = "backfill" => Backfill!GroupsAreReconciled /\ Backfill!ReadyShowsDesired

\* validate_streamed_frame_timing accepts only streams with a constant rate,
\* calls variable only those that are, and decides with its heap what the
\* definition without a heap says (FrameTiming).
TimingVerdictIsRight ==
    part = "timing" => /\ Timing!AcceptedIsConstantRate /\ Timing!VariableIsDeserved
                       /\ Timing!WindowIsDecided

\* One pass finds the connected groups of intervals, exactly the long runs and
\* the short shots are reported, and frames and times agree (QcIntervals).
IntervalsAreExact ==
    /\ part = "shots" => Shots!MergedAreComponents /\ Shots!DetectionsAreExact
    /\ part = "sound" => /\ Sound!MergedAreComponents /\ Sound!DetectionsAreExact
                         /\ Sound!TimesMatchFrames

\* No child is left behind a scan that has ended, and the two threads never
\* both own one (QcScan).
NoChildLeft == part = "scan" => Scan!NoChildLeft /\ Scan!OneReaper

\* A report is of the claimed bytes, read whole (QcScan); a scan whose result
\* was sent is believed, and a fatal service never tells otherwise (QcSandbox).
ReportsAreTrue ==
    /\ part = "scan" => Scan!ReportIsOfClaimedInput
    /\ part = "replies" => Replies!FinishedScansAreBelieved
    /\ part = "service" => Service!FatalIsKept

\* Whatever changes the open issues leaves the workflow status that goes with
\* them, no change of an item leaves its lock version alone, and issues of a
\* superseded version never change again (ReviewWorkflow).
IssuesDriveWorkflow ==
    [][/\ part = "commands" => /\ Commands!IssuesDrive /\ Commands!LockCovers
                               /\ Commands!HistoryKept
       /\ part = "qc" => Qc!IssuesDrive
       /\ part = "versions" => Recheck!IssuesDrive /\ Recheck!HistoryKept]_reviewVars

\* A worker that lost its lease does not touch the row (MediaDerivative), a
\* claim in force is never taken from its slot (TechnicalQc), and a
\* reconciliation leaves a running claim to its worker (ThumbnailGroups).
ClaimsHold ==
    [][/\ part = "crashes" => Crashes!StaleIsHarmless
       /\ part = "race" => Race!StaleIsHarmless
       /\ part = "qc" => Qc!ClaimKept
       /\ part = "versions" => Recheck!ClaimKept
       /\ part = "limits" => Limits!ClaimKept
       /\ part = "workers" => TwoWorkers!ClaimKept
       /\ part = "groups" => Groups!ClaimsLeft
       /\ part = "backfill" => Backfill!ClaimsLeft]_<<reviewVars, mediaVars, thumbnailVars>>

\* A pointer names a row that never changes (MediaDerivative); a thumbnail
\* stays until another replaces it, a frame that was made is not forgotten, and
\* only a current version is given a task (ThumbnailGroups).
DerivedIsKept ==
    [][/\ part = "crashes" => Crashes!PointerKept
       /\ part = "race" => Race!PointerKept
       /\ part = "groups" => Groups!ThumbnailKept
       /\ part = "backfill" => /\ Backfill!ThumbnailKept /\ Backfill!VariantsKept
                               /\ Backfill!TasksForCurrent]_<<mediaVars, thumbnailVars>>
\* Two workers, slots, backfills or connections of one instance are alike.
Sym == Permutations({a1, a2})
==============================================================================
