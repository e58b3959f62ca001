------------------------ MODULE PackageStorageProofs -------------------------
(***************************************************************************)
(* What the bytes on disk have to do with the rows.  Two results hold for  *)
(* any number of package workers: only verified bytes are streamed, and a  *)
(* builder whose lease was taken over does no harm.  The others need that  *)
(* one worker runs at a time, as the product is deployed ("package-worker" *)
(* is a single-concurrency service): storage is written off only when the  *)
(* bytes are gone, what is offered stays on disk, and a download lease     *)
(* protects its stream.  They rest on what is proved of the rows.          *)
(***************************************************************************)
EXTENDS PackageLifecycleProofs

USE Zenon

(*----------------------- with any number of workers ----------------------*)

\* A package that has not been published has no digest, no session and no
\* stream.  Its status never comes back to "preparing".
UnbuiltIsUnread ==
    \A p \in Packages : status[p] \in {"none", "preparing"} =>
       /\ sha[p] = 0
       /\ session[p] = NoSession
       /\ \A c \in Clients : dpc[c] # "idle" => target[c] # p

\* A file that was verified: undamaged, and of the attempt that the row's
\* digest is of, as long as the row has one.
Verified(file, p) == file \in Attempts \X {FALSE} /\ sha[p] \in {0, file[1]}

VerifiedSessions ==
    \A p \in Packages :
       session[p] # NoSession /\ session[p].state = "verified" =>
          Verified(session[p].file, p)

VerifiedStreams ==
    \A c \in Clients :
       dpc[c] \in {"opening", "streaming"} => Verified(opened[c], target[c])

ReadInv == UnbuiltIsUnread /\ VerifiedSessions /\ VerifiedStreams

\* Attempts only grow, and the lease is the last one's.
AttemptInv ==
    /\ \A p \in Packages : /\ canonical[p] <= attempts[p]
                           /\ buildLease[p] \in {0, attempts[p]}
    /\ \A w \in Workers : wpc[w] \in BuildSteps => token[w] <= attempts[job[w]]

(*---------------------------- with one worker -----------------------------*)

OneWorker == \A v, w \in Workers : v = w

\* Nothing is built of a package that is ready, and what a failed build says
\* of the paths stays true until it is recorded.
Building(w) ==
    wpc[w] \in BuildSteps =>
       /\ status[job[w]] # "ready"
       /\ wpc[w] = "recording" /\ verdict[w].gone /\ OwnsBuild(w) =>
             canonical[job[w]] = 0

\* What is being cleaned is not offered, nobody downloads it, and the digest
\* that was read is still that of the row.
Cleaning(w) ==
    wpc[w] \in CleanupSteps =>
       /\ status[job[w]] = "ready" => expired[job[w]]
       /\ lease[job[w]] \notin Clients
       /\ wpc[w] # "claimed" => token[w] = sha[job[w]]
       /\ wpc[w] = "deleted" =>
             canonical[job[w]] = 0 /\ quarantined[job[w]] = 0

\* Only a cleanup fills the quarantine, and it leaves the digest alone.
QuarantineInv ==
    \A p \in Packages : quarantined[p] # 0 =>
       /\ sha[p] # 0
       /\ status[p] \in {"ready", "expired", "invalidated"}
       /\ status[p] = "ready" => expired[p]

\* The post-commit work of a failed reuse finds the row withdrawn.
PostCommitInv ==
    /\ \A p \in Packages, a \in Attempts :
          <<p, a>> \in postUnlink => status[p] \notin {"none", "preparing", "ready"}
    /\ \A p \in postAccount :
          /\ status[p] \notin {"none", "preparing", "ready"}
          /\ canonical[p] = 0

\* An archive that was missing when it was hashed does not come back.
ScanIsCurrent ==
    scan # NoScan /\ scan.candidate # 0 =>
       /\ status[scan.candidate] \notin {"none", "preparing"}
       /\ scan.integrity = "missing" => canonical[scan.candidate] = 0

\* A row that does not exist has no archive, and one that failed no digest.
FileInv ==
    \A p \in Packages :
       /\ status[p] = "none" => canonical[p] = 0
       /\ status[p] = "failed" => sha[p] = 0

DiskInv ==
    /\ QuarantineInv
    /\ PostCommitInv
    /\ ScanIsCurrent
    /\ FileInv
    /\ ReclaimedStorageIsEmpty
    /\ OfferedArchiveIsPublished

StorageInv ==
    /\ \A w \in Workers : Building(w) /\ Cleaning(w)
    /\ DiskInv

\* What the steps of StorageInv may assume.
RowsInv == TypeInv /\ UnbuiltIsUnread /\ \A p \in Packages : RowInv(p)

\* What every step but a stream's does to a row, as far as reading goes: the
\* digest changes only with the publication, and no session is verified.
RowReads(p) ==
    /\ status'[p] \in {"none", "preparing"} =>
          status[p] \in {"none", "preparing"} /\ sha'[p] \in {0, sha[p]}
    /\ sha'[p] \in {0, sha[p]} \/ status[p] = "preparing"
    /\ \/ session'[p] \in {session[p], NoSession}
       \/ /\ session[p] # NoSession
          /\ session'[p].state = session[p].state
          /\ session'[p].file = session[p].file

LEMMA RowsRead ==
    ASSUME ReadInv, BusyStreams, UNCHANGED streamVars, \A p \in Packages : RowReads(p)
    PROVE  ReadInv'
  <1>1. dpc' = dpc /\ target' = target /\ opened' = opened
    BY DEF streamVars
  <1>2. UnbuiltIsUnread'
    BY <1>1 DEF ReadInv, UnbuiltIsUnread, RowReads
  <1>3. ASSUME NEW p \in Packages, NEW file, Verified(file, p),
               status[p] # "preparing"
        PROVE  Verified(file, p)'
    BY <1>3 DEF Verified, RowReads
  <1>4. VerifiedSessions'
    <2> SUFFICES ASSUME NEW p \in Packages, session'[p] # NoSession,
                        session'[p].state = "verified"
                 PROVE  Verified(session[p].file, p)'
      BY DEF VerifiedSessions
    <2>1. /\ session[p] # NoSession /\ session[p].state = "verified"
          /\ session'[p].file = session[p].file
      BY DEF RowReads
    <2>2. status[p] # "preparing" /\ Verified(session[p].file, p)
      BY <2>1 DEF ReadInv, UnbuiltIsUnread, VerifiedSessions
    <2>3. PICK file : file = session[p].file
      OBVIOUS
    <2> QED
      BY <1>3, <2>1, <2>2, <2>3
  <1>5. VerifiedStreams'
    <2> SUFFICES ASSUME NEW c \in Clients, dpc[c] \in {"opening", "streaming"}
                 PROVE  Verified(opened[c], target[c])'
      BY <1>1 DEF VerifiedStreams
    <2>1. PICK p \in Packages : p = target[c]
      BY DEF BusyStreams
    <2>2. PICK file : file = opened[c]
      OBVIOUS
    <2>3. status[p] # "preparing" /\ Verified(file, p)
      BY <2>1, <2>2 DEF ReadInv, UnbuiltIsUnread, VerifiedStreams
    <2> QED
      BY <1>1, <1>3, <2>1, <2>2, <2>3
  <1> QED
    BY <1>2, <1>4, <1>5 DEF ReadInv

\* Steps that leave the rows' digests and sessions alone.
LEMMA RowsUnread ==
    ASSUME NEW p \in Packages, sha'[p] = sha[p], session'[p] = session[p],
           status'[p] = status[p]
    PROVE  RowReads(p)
  BY DEF RowReads

LEMMA InitReads == Init => ReadInv
  BY SMTT(10) DEF Init, ReadInv, UnbuiltIsUnread, VerifiedSessions, VerifiedStreams

LEMMA FinalizingReads ==
    ASSUME Finalizing, NEW p \in Packages
    PROVE  RowReads(p) /\ UNCHANGED streamVars
  <1>1. UNCHANGED <<sha, streamVars>>
    BY FinalizingFrame
  <1>2. ASSUME NEW S, FinalizeLockedItems(S)
        PROVE  RowReads(p)
    BY <1>2, RowsUnread DEF FinalizeLockedItems, rowVars, sessionVars
  <1>3. ASSUME NEW S, RevokeLockedFinalizations(S)
        PROVE  RowReads(p)
    <2>1. status'[p] \in {status[p], "invalidated"} /\ session'[p] \in {session[p], NoSession}
      BY <1>3 DEF RevokeLockedFinalizations
    <2> QED
      BY <1>1, <2>1 DEF RowReads
  <1>4. ASSUME NEW i \in Items, retry_finalization_cleanup(i)
        PROVE  RowReads(p)
    BY <1>4, RowsUnread DEF retry_finalization_cleanup, sessionVars
  <1> QED
    BY <1>1, <1>2, <1>3, <1>4
    DEF Finalizing, finalize_version, finalize_project, revoke_finalization,
        revoke_project_finalization

LEMMA PreparingReads ==
    ASSUME ReadInv, Preparing, NEW p \in Packages
    PROVE  RowReads(p) /\ UNCHANGED streamVars
  <1>1. UNCHANGED streamVars
    BY PreparingFrame
  <1>2. CASE (\E n \in Names : prepare_scan(n)) \/ prepare_returns
    BY <1>1, <1>2, RowsUnread DEF prepare_scan, prepare_returns, rowVars, sessionVars
  <1>3. ASSUME NEW q \in Packages, NEW failing \in BOOLEAN, prepare_queues(q, failing)
        PROVE  RowReads(p)
    <2>1. /\ status'[p] \in {"none", "preparing"} => status[p] \in {"none", "preparing"}
          /\ sha'[p] \in {0, sha[p]} /\ session'[p] \in {session[p], NoSession}
      BY <1>3 DEF prepare_queues
    <2> QED
      BY <2>1 DEF RowReads
  <1> QED
    BY <1>1, <1>2, <1>3 DEF Preparing

LEMMA BuildReads ==
    ASSUME TypeInv, NEW w \in Workers, BuildStep(w), NEW p \in Packages
    PROVE  RowReads(p) /\ UNCHANGED streamVars
  <1>1. session' = session /\ UNCHANGED streamVars
    BY BuildFrame DEF sessionVars
  <1>2. status \in [Packages -> Statuses \cup {"none"}] /\ sha \in [Packages -> 0..MaxAttempts]
    BY DEF TypeInv, TypeOK, RowTypeOK
  <1>3. CASE UNCHANGED <<status, sha>>
    BY <1>1, <1>3, RowsUnread
  <1>4. ASSUME NEW q \in Packages, claim_exhausted(w, q)
        PROVE  RowReads(p)
    <2>1. status'[p] \in {status[p], "failed"} /\ sha'[p] \in {0, sha[p]}
      BY <1>2, <1>4 DEF claim_exhausted
    <2> QED
      BY <1>1, <2>1 DEF RowReads
  <1>5. CASE publish_prepared_package(w)
    <2>1. CASE p = job[w]
      BY <1>1, <1>2, <1>5, <2>1 DEF publish_prepared_package, OwnsBuild, RowReads
    <2>2. CASE p # job[w]
      BY <1>1, <1>2, <1>5, <2>2, RowsUnread DEF publish_prepared_package
    <2> QED
      BY <2>1, <2>2
  <1>6. CASE record_package_build_failure(w)
    <2>1. status'[p] \in {status[p], "failed"} /\ sha'[p] \in {0, sha[p]}
      BY <1>2, <1>6 DEF record_package_build_failure
    <2> QED
      BY <1>1, <2>1 DEF RowReads
  <1> QED
    BY <1>1, <1>3, <1>4, <1>5, <1>6
    DEF BuildStep, skip_builds, claim_package_build, build_prepared_package, build_fails,
        publish_skipped, publish_rejected, publish_lost, discard_skipped, discard_failed,
        rowVars

LEMMA CleanupReads ==
    ASSUME TypeInv, NEW w \in Workers, CleanupStep(w), NEW p \in Packages
    PROVE  RowReads(p) /\ UNCHANGED streamVars
  <1>1. sha' = sha /\ UNCHANGED streamVars
    BY CleanupFrame
  <1>2. /\ status \in [Packages -> Statuses \cup {"none"}]
        /\ session \in [Packages -> Sessions \cup {NoSession}]
    BY DEF TypeInv, TypeOK, RowTypeOK, LeaseTypeOK
  <1>3. CASE UNCHANGED <<status, session>>
    BY <1>1, <1>3, RowsUnread
  <1>4. CASE cleanup_accounts(w)
    <2>1. status'[p] \in {status[p], "expired"} /\ session'[p] \in {session[p], NoSession}
      BY <1>2, <1>4 DEF cleanup_accounts
    <2> QED
      BY <1>1, <2>1 DEF RowReads
  <1>5. CASE cleanup_records_failure(w)
    <2>1. status'[p] \in {status[p], "expired"} /\ session' = session
      BY <1>2, <1>5 DEF cleanup_records_failure, FailedCleanupStatus, sessionVars
    <2> QED
      BY <1>1, <2>1 DEF RowReads
  <1> QED
    BY <1>1, <1>3, <1>4, <1>5
    DEF CleanupStep, claim_expired_packages, nothing_to_clean, cleanup_reads_digest,
        cleanup_deletes, cleanup_delete_raises, cleanup_violates_check,
        cleanup_claim_lost, rowVars, sessionVars

LEMMA OthersRead ==
    ASSUME TypeInv, NEW p \in Packages,
           \/ PostCommit \/ Maintenance \/ Environment \/ UNCHANGED vars
           \/ \E w \in Workers :
                lose_build_lock(w) \/ pulse_cleanup_lease(w) \/ worker_dies(w)
    PROVE  RowReads(p) /\ UNCHANGED streamVars
  <1>1. CASE UNCHANGED <<status, sha, session, streamVars>>
    BY <1>1, RowsUnread
  <1>2. ASSUME NEW q \in Packages, session_lapses(q)
        PROVE  RowReads(p) /\ UNCHANGED streamVars
    <2>1. status' = status /\ sha' = sha /\ UNCHANGED streamVars
      BY <1>2 DEF session_lapses, DeadlineFrame
    <2>2. session' = [session EXCEPT ![q].live = FALSE] /\ session[q] # NoSession
      BY <1>2 DEF session_lapses
    <2>3. session \in [Packages -> Sessions \cup {NoSession}]
      BY DEF TypeInv, TypeOK, LeaseTypeOK
    <2>4. CASE p # q
      BY <2>1, <2>2, <2>3, <2>4, RowsUnread
    <2>5. CASE p = q
      <3>1. session[q] \in Sessions
        BY <2>2, <2>3
      <3>2. /\ session'[q].state = session[q].state /\ session'[q].file = session[q].file
        BY <2>2, <2>3, <3>1 DEF Sessions
      <3> QED
        BY <2>1, <2>2, <2>5, <3>2 DEF RowReads
    <2> QED
      BY <2>4, <2>5
  <1> QED
    BY <1>1, <1>2, PostCommitFrame
    DEF Maintenance, cleanup_stale_package_staging, Environment, package_expires,
        build_falls_due, lease_lapses, cooldown_ends, archive_fault, DeadlineFrame,
        lose_build_lock, pulse_cleanup_lease, worker_dies, vars, rowVars, sessionVars,
        workerVars

\* A stream step: what is opened without a hash was verified before.
LEMMA StreamReads ==
    ASSUME TypeInv, ReadInv, NEW c \in Clients, StreamStep(c)
    PROVE  ReadInv'
  <1> USE DEF TypeInv, TypeOK
  <1>1. status' = status /\ sha' = sha
    BY StreamFrame
  <1>2. /\ session \in [Packages -> Sessions \cup {NoSession}]
        /\ dpc \in [Clients -> {"idle", "opening", "verifying", "streaming"}]
        /\ target \in [Clients -> 0..NumPackages]
        /\ opened \in [Clients -> FileIdentities]
    BY DEF LeaseTypeOK, StreamTypeOK
  <1>3. ASSUME NEW p, NEW file, Verified(file, p)
        PROVE  Verified(file, p)'
    BY <1>1, <1>3 DEF Verified
  <1>4. ASSUME session' = session,
               \/ UNCHANGED <<dpc, target, opened>>
               \/ EndStream(c)
        PROVE  ReadInv'
    <2>1. \A d \in Clients : dpc'[d] # "idle" =>
             dpc'[d] = dpc[d] /\ target'[d] = target[d] /\ opened'[d] = opened[d]
      BY <1>2, <1>4 DEF EndStream
    <2>2. UnbuiltIsUnread'
      BY <1>1, <1>4, <2>1 DEF ReadInv, UnbuiltIsUnread
    <2>3. VerifiedSessions'
      BY <1>3, <1>4 DEF ReadInv, VerifiedSessions
    <2>4. VerifiedStreams'
      BY <1>3, <2>1 DEF ReadInv, VerifiedStreams
    <2> QED
      BY <2>2, <2>3, <2>4 DEF ReadInv
  <1>5. ASSUME NEW p \in Packages, authorize_package_download_session(c, p)
        PROVE  ReadInv'
    <2>1. /\ status[p] = "ready" /\ UNCHANGED <<dpc, target, opened>>
          /\ session'[p].state = "fresh"
          /\ \A q \in Packages : q # p => session'[q] = session[q]
      BY <1>2, <1>5 DEF authorize_package_download_session, Downloadable, streamVars
    <2>2. UnbuiltIsUnread'
      BY <1>1, <2>1 DEF ReadInv, UnbuiltIsUnread
    <2>3. VerifiedSessions'
      BY <1>3, <2>1 DEF ReadInv, VerifiedSessions
    <2>4. VerifiedStreams'
      BY <1>3, <2>1 DEF ReadInv, VerifiedStreams
    <2> QED
      BY <2>2, <2>3, <2>4 DEF ReadInv
  <1>6. ASSUME NEW p \in Packages, NEW resume \in BOOLEAN, begin_package_download(c, p, resume)
        PROVE  ReadInv'
    <2>1. /\ status[p] = "ready" /\ session[p] # NoSession
          /\ session[p].file = FileIdentity(p)
          /\ session' = [session EXCEPT ![p].state = IF @ = "fresh" THEN "started" ELSE @]
          /\ dpc' = [dpc EXCEPT ![c] = IF session[p].state = "verified"
                                       THEN "opening" ELSE "verifying"]
          /\ target' = [target EXCEPT ![c] = p]
          /\ opened' = [opened EXCEPT ![c] = FileIdentity(p)]
      BY <1>6 DEF begin_package_download, Downloadable, SessionMatches
    <2>2. session[p] \in Sessions
      BY <1>2, <2>1
    <2>3. /\ session'[p].state = "verified" => session[p].state = "verified"
          /\ session'[p].file = session[p].file
          /\ \A q \in Packages : q # p => session'[q] = session[q]
      BY <1>2, <2>1, <2>2 DEF Sessions
    <2>4. /\ dpc'[c] \in {"opening", "streaming"} => session[p].state = "verified"
          /\ target'[c] = p /\ opened'[c] = session[p].file
          /\ \A d \in Clients : d # c =>
                dpc'[d] = dpc[d] /\ target'[d] = target[d] /\ opened'[d] = opened[d]
      BY <1>2, <2>1
    <2>5. UnbuiltIsUnread'
      <3> SUFFICES ASSUME NEW q \in Packages, status[q] \in {"none", "preparing"}
                   PROVE  /\ sha[q] = 0 /\ session'[q] = NoSession
                          /\ \A d \in Clients : dpc'[d] # "idle" => target'[d] # q
        BY <1>1 DEF UnbuiltIsUnread
      <3>1. q # p
        BY <2>1
      <3>2. sha[q] = 0 /\ session'[q] = NoSession
        BY <2>3, <3>1 DEF ReadInv, UnbuiltIsUnread
      <3>3. ASSUME NEW d \in Clients, dpc'[d] # "idle" PROVE target'[d] # q
        <4>1. CASE d = c
          BY <2>4, <3>1, <4>1
        <4>2. CASE d # c
          <5>1. dpc[d] # "idle" /\ target'[d] = target[d]
            BY <2>4, <3>3, <4>2
          <5> QED
            BY <5>1 DEF ReadInv, UnbuiltIsUnread
        <4> QED
          BY <4>1, <4>2
      <3> QED
        BY <3>2, <3>3
    <2>6. VerifiedSessions'
      <3>1. ASSUME NEW q \in Packages, session'[q] # NoSession, session'[q].state = "verified"
            PROVE  Verified(session'[q].file, q)
        BY <2>1, <2>3, <3>1 DEF ReadInv, VerifiedSessions
      <3> QED
        BY <1>1, <3>1 DEF VerifiedSessions, Verified
    <2>7. VerifiedStreams'
      <3>1. ASSUME NEW d \in Clients, dpc'[d] \in {"opening", "streaming"}
            PROVE  Verified(opened'[d], target'[d])
        <4>1. CASE d = c
          <5>1. session[p].state = "verified"
            BY <2>4, <3>1, <4>1
          <5>2. Verified(session[p].file, p)
            BY <2>1, <5>1 DEF ReadInv, VerifiedSessions
          <5> QED
            BY <2>4, <4>1, <5>2
        <4>2. CASE d # c
          BY <2>4, <3>1, <4>2 DEF ReadInv, VerifiedStreams
        <4> QED
          BY <4>1, <4>2
      <3> QED
        BY <1>1, <3>1 DEF VerifiedStreams, Verified
    <2> QED
      BY <2>5, <2>6, <2>7 DEF ReadInv
  <1>7. CASE open_verified_archive(c)
    <2>1. /\ UNCHANGED <<session, target, opened>> /\ dpc[c] = "opening"
          /\ \A d \in Clients : d # c => dpc'[d] = dpc[d]
      BY <1>2, <1>7 DEF open_verified_archive, rowVars, sessionVars
    <2>2. UnbuiltIsUnread' /\ VerifiedSessions' /\ VerifiedStreams'
      <3>1. \A d \in Clients : dpc'[d] # "idle" => dpc[d] # "idle"
        BY <2>1
      <3>2. \A d \in Clients : dpc'[d] \in {"opening", "streaming"} =>
               dpc[d] \in {"opening", "streaming"}
        BY <2>1
      <3> QED
        BY <1>1, <1>3, <2>1, <3>1, <3>2
        DEF ReadInv, UnbuiltIsUnread, VerifiedSessions, VerifiedStreams
    <2> QED
      BY <2>2 DEF ReadInv
  <1>8. CASE mark_package_download_session_verified(c)
    <2>1. PICK p \in Packages : p = target[c]
      BY <1>8 DEF mark_package_download_session_verified, BusyStreams
    <2>2. /\ dpc[c] = "verifying" /\ status[p] = "ready" /\ opened[c] = <<sha[p], FALSE>>
          /\ session[p] # NoSession /\ session[p].file = opened[c]
          /\ session' = [session EXCEPT ![p].state = "verified"]
          /\ dpc' = [dpc EXCEPT ![c] = "streaming"] /\ UNCHANGED <<target, opened>>
      BY <1>8, <2>1 DEF mark_package_download_session_verified, SessionMatches
    <2>3. session[p] \in Sessions
      BY <1>2, <2>2
    <2>4. /\ session'[p].file = opened[c]
          /\ \A q \in Packages : q # p => session'[q] = session[q]
          /\ \A d \in Clients : d # c => dpc'[d] = dpc[d]
      BY <1>2, <2>2, <2>3 DEF Sessions
    <2>5. Verified(opened[c], p)
      <3>1. sha[p] \in Attempts
        BY <2>2, SMTT(10) DEF ReadyHasDigest, RowTypeOK, Attempts
      <3>2. opened[c][1] = sha[p] /\ opened[c] \in Attempts \X {FALSE}
        <4>1. <<sha[p], FALSE>> \in Attempts \X {FALSE}
          BY <3>1
        <4>2. <<sha[p], FALSE>>[1] = sha[p]
          OBVIOUS
        <4> QED
          BY <2>2, <4>1, <4>2
      <3> QED
        BY <3>2 DEF Verified
    <2>6. UnbuiltIsUnread'
      BY <1>1, <2>2, <2>4 DEF ReadInv, UnbuiltIsUnread
    <2>7. VerifiedSessions'
      <3>1. ASSUME NEW q \in Packages, session'[q] # NoSession, session'[q].state = "verified"
            PROVE  Verified(session'[q].file, q)
        BY <2>4, <2>5, <3>1 DEF ReadInv, VerifiedSessions
      <3> QED
        BY <1>1, <3>1 DEF VerifiedSessions, Verified
    <2>8. VerifiedStreams'
      <3>1. ASSUME NEW d \in Clients, dpc'[d] \in {"opening", "streaming"}
            PROVE  Verified(opened[d], target[d])
        BY <2>1, <2>4, <2>5, <3>1 DEF ReadInv, VerifiedStreams
      <3> QED
        BY <1>1, <2>2, <3>1 DEF VerifiedStreams, Verified
    <2> QED
      BY <2>6, <2>7, <2>8 DEF ReadInv
  <1> QED
    BY <1>4, <1>5, <1>6, <1>7, <1>8
    DEF StreamStep, renew_package_download_lease, release_package_download_lease,
        stream_dies, rowVars, sessionVars, streamVars

LEMMA StepReads ==
    ASSUME TypeInv, ReadInv, [Next]_vars
    PROVE  ReadInv'
  <1>1. BusyStreams
    BY DEF TypeInv
  <1>2. CASE \E c \in Clients : StreamStep(c)
    BY <1>2, StreamReads
  <1>3. CASE Finalizing \/ Preparing
    <2>1. (\A p \in Packages : RowReads(p)) /\ UNCHANGED streamVars
      <3>1. UNCHANGED streamVars
        BY <1>3, FinalizingFrame, PreparingFrame
      <3> QED
        BY <1>3, <3>1, FinalizingReads, PreparingReads
    <2> QED
      BY <1>1, <2>1, RowsRead
  <1>4. ASSUME NEW w \in Workers, BuildStep(w) \/ CleanupStep(w)
        PROVE  ReadInv'
    <2>1. UNCHANGED streamVars
      BY <1>4, BuildFrame, CleanupFrame
    <2> QED
      BY <1>1, <1>4, <2>1, BuildReads, CleanupReads, RowsRead
  <1>5. CASE \/ PostCommit \/ Maintenance \/ Environment \/ UNCHANGED vars
             \/ \E w \in Workers :
                  lose_build_lock(w) \/ pulse_cleanup_lease(w) \/ worker_dies(w)
    <2>1. UNCHANGED streamVars
      BY <1>5, PostCommitFrame, EnvironmentFrame
      DEF Maintenance, cleanup_stale_package_staging, vars, streamVars, lose_build_lock,
          pulse_cleanup_lease, worker_dies
    <2> QED
      BY <1>1, <1>5, <2>1, OthersRead, RowsRead
  <1> QED
    BY <1>2, <1>3, <1>4, <1>5 DEF Next, WorkerStep

LEMMA Reads == Spec => []ReadInv
  <1>1. TypeInv /\ ReadInv /\ [Next]_vars => ReadInv'
    BY StepReads
  <1> QED
    BY <1>1, InitReads, Typed, PTL DEF Spec

\* Only bytes whose digest was checked are streamed, whatever is revoked,
\* damaged, cleaned or built in between, for any number of workers
\* (mark_package_download_session_verified, begin_package_download).
THEOREM StreamsAreVerified == Spec => []StreamsVerifiedBytes
  <1>1. ReadInv => StreamsVerifiedBytes
    BY DEF ReadInv, VerifiedStreams, Verified, StreamsVerifiedBytes
  <1> QED
    BY <1>1, Reads, PTL

(*------------------------------- stale builders --------------------------*)

\* What all steps but a builder's do, as far as attempts go.
LEMMA AttemptsKept ==
    ASSUME TypeInv, AttemptInv, attempts' = attempts,
           \A p \in Packages : /\ canonical'[p] \in {0, canonical[p]}
                               /\ buildLease'[p] \in {0, buildLease[p]},
           \A w \in Workers : wpc'[w] \in BuildSteps =>
              wpc[w] \in BuildSteps /\ token'[w] = token[w] /\ job'[w] = job[w]
    PROVE  AttemptInv'
  <1>1. \A p \in Packages : canonical'[p] <= attempts[p]
    BY SMTT(10) DEF AttemptInv, TypeInv, TypeOK, BuildTypeOK
  <1> QED
    BY <1>1 DEF AttemptInv

LEMMA InitAttempts == Init => AttemptInv
  BY SMTT(10) DEF Init, AttemptInv, BuildSteps

LEMMA PhaseEnds ==
    ASSUME TypeInv, NEW w \in Workers, NEW phase \in {"builds", "cleanups"},
           EnterPhase(w, phase), NEW v \in Workers, wpc'[v] \in BuildSteps
    PROVE  wpc[v] \in BuildSteps /\ token'[v] = token[v] /\ job'[v] = job[v]
  <1>1. phase \notin BuildSteps
    BY DEF BuildSteps
  <1> QED
    BY <1>1 DEF EnterPhase, TypeInv, TypeOK, WorkerTypeOK

\* The builder moves to another step of the same attempt.
LEMMA StepMoves ==
    ASSUME TypeInv, NEW w \in Workers, wpc[w] \in BuildSteps, NEW step, MoveTo(w, step),
           UNCHANGED <<job, token>>, NEW v \in Workers, wpc'[v] \in BuildSteps
    PROVE  wpc[v] \in BuildSteps /\ token'[v] = token[v] /\ job'[v] = job[v]
  BY DEF MoveTo, TypeInv, TypeOK, WorkerTypeOK

LEMMA BuildAttempts ==
    ASSUME TypeInv, AttemptInv, NEW w \in Workers, BuildStep(w)
    PROVE  AttemptInv'
  <1> USE DEF TypeInv, TypeOK
  <1>1. /\ canonical \in [Packages -> 0..MaxAttempts]
        /\ attempts \in [Packages -> 0..MaxAttempts]
        /\ buildLease \in [Packages -> 0..MaxAttempts]
        /\ wpc \in [Workers -> {"builds", "cleanups"} \cup BuildSteps \cup CleanupSteps]
        /\ job \in [Workers -> 0..NumPackages]
        /\ token \in [Workers -> 0..MaxAttempts]
    BY DEF DiskTypeOK, BuildTypeOK, WorkerTypeOK
  <1>2. ASSUME NEW p \in Packages, claim_package_build(w, p)
        PROVE  AttemptInv'
    <2>1. /\ attempts' = [attempts EXCEPT ![p] = @ + 1]
          /\ buildLease' = [buildLease EXCEPT ![p] = attempts[p] + 1]
          /\ job' = [job EXCEPT ![w] = p]
          /\ token' = [token EXCEPT ![w] = attempts[p] + 1]
          /\ canonical' = canonical
          /\ \A v \in Workers : v # w => wpc'[v] = wpc[v]
      BY <1>1, <1>2 DEF claim_package_build, MoveTo, diskVars
    <2>2. \A v \in Workers : wpc[v] \in BuildSteps => job[v] \in Packages
      BY DEF BusyWorkers
    <2>3. \A q \in Packages : attempts[q] <= attempts'[q] /\ canonical[q] <= attempts'[q]
      BY <1>1, <2>1, SMTT(10) DEF AttemptInv
    <2>4. \A q \in Packages : buildLease'[q] \in {0, attempts'[q]}
      BY <1>1, <2>1 DEF AttemptInv
    <2>5. \A v \in Workers : wpc'[v] \in BuildSteps => token'[v] <= attempts'[job'[v]]
      <3>1. token'[w] = attempts'[job'[w]] /\ attempts'[job'[w]] \in Nat
        BY <1>1, <2>1, SMTT(10)
      <3>2. \A v \in Workers : v # w /\ wpc'[v] \in BuildSteps =>
               token[v] <= attempts[job[v]] /\ attempts[job[v]] <= attempts'[job[v]]
        BY <2>1, <2>2, <2>3 DEF AttemptInv
      <3>3. \A v \in Workers : v # w => token'[v] = token[v] /\ job'[v] = job[v]
        BY <1>1, <2>1
      <3>4. \A v \in Workers : v # w /\ wpc'[v] \in BuildSteps =>
               attempts[job[v]] \in Nat /\ attempts'[job[v]] \in Nat /\ token[v] \in Nat
        BY <1>1, <2>1, <2>2, SMTT(10)
      <3> QED
        BY <3>1, <3>2, <3>3, <3>4, SMTT(10)
    <2> QED
      BY <2>1, <2>3, <2>4, <2>5 DEF AttemptInv
  <1>3. ASSUME UNCHANGED <<attempts, buildLease>>,
               \A p \in Packages : canonical'[p] \in {0, canonical[p]},
               \A v \in Workers : wpc'[v] \in BuildSteps =>
                  wpc[v] \in BuildSteps /\ token'[v] = token[v] /\ job'[v] = job[v]
        PROVE  AttemptInv'
    BY <1>3, AttemptsKept
  <1>4. ASSUME NEW dies \in BOOLEAN, LeaveBuild(w, dies), NEW v \in Workers,
               wpc'[v] \in BuildSteps
        PROVE  wpc[v] \in BuildSteps /\ token'[v] = token[v] /\ job'[v] = job[v]
    BY <1>4, PhaseEnds DEF LeaveBuild
  <1>5. ASSUME wpc[w] = "built", OwnsBuild(w), RenameToCanonical(w), attempts' = attempts,
               \A p \in Packages : buildLease'[p] \in {0, buildLease[p]},
               \A v \in Workers : wpc'[v] \in BuildSteps =>
                  wpc[v] \in BuildSteps /\ token'[v] = token[v] /\ job'[v] = job[v]
        PROVE  AttemptInv'
    <2>1. \A p \in Packages : canonical'[p] <= attempts[p]
      <3>1. job[w] \in Packages /\ token[w] \in Attempts
        BY <1>5 DEF BusyWorkers, BuildSteps
      <3>2. token[w] <= attempts[job[w]]
        BY <1>5 DEF AttemptInv, BuildSteps
      <3>3. canonical' = [canonical EXCEPT ![job[w]] = token[w]]
        BY <1>5 DEF RenameToCanonical
      <3> QED
        BY <1>1, <3>1, <3>2, <3>3 DEF AttemptInv
    <2> QED
      BY <1>5, <2>1 DEF AttemptInv
  <1>6. CASE publish_prepared_package(w)
    <2>1. LeaveBuild(w, FALSE) /\ \A p \in Packages : buildLease'[p] \in {0, buildLease[p]}
      BY <1>1, <1>6 DEF publish_prepared_package
    <2> QED
      BY <1>4, <1>5, <1>6, <2>1 DEF publish_prepared_package
  <1>7. CASE publish_lost(w) \/ publish_rejected(w)
    <2>1. CASE publish_lost(w)
      BY <1>4, <1>5, <2>1 DEF publish_lost, rowVars, buildVars
    <2>2. CASE publish_rejected(w)
      <3>1. wpc[w] \in BuildSteps /\ MoveTo(w, "discardFailed") /\ UNCHANGED <<job, token>>
        BY <2>2 DEF publish_rejected, BuildSteps
      <3>2. UNCHANGED <<attempts, buildLease>> /\ wpc[w] = "built" /\ OwnsBuild(w)
        BY <2>2 DEF publish_rejected, rowVars, buildVars
      <3>3. RenameToCanonical(w) \/ canonical' = canonical
        BY <2>2 DEF publish_rejected, diskVars
      <3> QED
        BY <1>3, <1>5, <3>1, <3>2, <3>3, StepMoves
    <2> QED
      BY <1>7, <2>1, <2>2
  <1>8. ASSUME NEW failedAt \in 1..4, discard_skipped(w, failedAt) \/ discard_failed(w, failedAt)
        PROVE  AttemptInv'
    <2>1. UNCHANGED <<attempts, buildLease>> /\ wpc[w] \in BuildSteps
      BY <1>8 DEF discard_skipped, discard_failed, rowVars, buildVars, BuildSteps
    <2>2. \A p \in Packages : canonical'[p] \in {0, canonical[p]}
      BY <1>1, <1>8 DEF discard_skipped, discard_failed, DiscardArtifact
    <2>3. LeaveBuild(w, FALSE) \/ (MoveTo(w, "recording") /\ UNCHANGED <<job, token>>)
      BY <1>8 DEF discard_skipped, discard_failed
    <2> QED
      BY <1>3, <1>4, <2>1, <2>2, <2>3, StepMoves
  <1>9. CASE record_package_build_failure(w) \/ \E p \in Packages : claim_exhausted(w, p)
    <2>1. /\ UNCHANGED <<attempts, canonical>>
          /\ \A p \in Packages : buildLease'[p] \in {0, buildLease[p]}
      BY <1>1, <1>9 DEF record_package_build_failure, claim_exhausted, diskVars
    <2>2. \E phase \in {"builds", "cleanups"} : EnterPhase(w, phase)
      BY <1>9 DEF record_package_build_failure, claim_exhausted, LeaveBuild
    <2> QED
      BY <2>1, <2>2, PhaseEnds, AttemptsKept
  <1>10. CASE build_prepared_package(w) \/ publish_skipped(w)
              \/ \E retry, dies, left \in BOOLEAN : build_fails(w, retry, dies, left)
    <2>1. UNCHANGED <<attempts, buildLease, canonical, job, token>> /\ wpc[w] \in BuildSteps
      BY <1>10 DEF build_prepared_package, publish_skipped, build_fails, rowVars, buildVars,
                   diskVars, BuildSteps
    <2>2. \E step : MoveTo(w, step)
      BY <1>10 DEF build_prepared_package, publish_skipped, build_fails
    <2> QED
      BY <1>3, <2>1, <2>2, StepMoves
  <1>11. CASE skip_builds(w)
    BY <1>3, <1>11, PhaseEnds DEF skip_builds, rowVars, buildVars, diskVars
  <1> QED
    BY <1>2, <1>6, <1>7, <1>8, <1>9, <1>10, <1>11 DEF BuildStep

\* A cleaner, and whatever else changes neither attempts nor builders.
LEMMA OthersAttempts ==
    ASSUME TypeInv, AttemptInv,
           \/ Finalizing \/ Preparing \/ PostCommit \/ Maintenance \/ Environment
           \/ \E w \in Workers : \/ CleanupStep(w) \/ lose_build_lock(w)
                                 \/ pulse_cleanup_lease(w) \/ worker_dies(w)
           \/ \E c \in Clients : StreamStep(c)
           \/ UNCHANGED vars
    PROVE  AttemptInv'
  <1> USE DEF TypeInv, TypeOK
  <1>1. /\ canonical \in [Packages -> 0..MaxAttempts]
        /\ wpc \in [Workers -> {"builds", "cleanups"} \cup BuildSteps \cup CleanupSteps]
    BY DEF DiskTypeOK, WorkerTypeOK
  <1>2. attempts' = attempts
    BY FinalizingFrame, PreparingFrame, PostCommitFrame, CleanupFrame, StreamFrame,
       EnvironmentFrame
    DEF Maintenance, cleanup_stale_package_staging, lose_build_lock, pulse_cleanup_lease,
        worker_dies, vars, rowVars, buildVars
  <1>3. \A p \in Packages : buildLease'[p] \in {0, buildLease[p]}
    <2>1. CASE buildLease' = buildLease
      BY <2>1
    <2>2. ASSUME NEW S, RevokeLockedFinalizations(S)
          PROVE  \A p \in Packages : buildLease'[p] \in {0, buildLease[p]}
      BY <2>2 DEF RevokeLockedFinalizations
    <2>3. Finalizing => buildLease' = buildLease \/ \E S : RevokeLockedFinalizations(S)
      BY DEF Finalizing, finalize_version, finalize_project, FinalizeLockedItems,
             revoke_finalization, revoke_project_finalization,
             retry_finalization_cleanup, rowVars, buildVars
    <2>4. ~Finalizing => buildLease' = buildLease
      BY PreparingFrame, PostCommitFrame, CleanupFrame, StreamFrame, EnvironmentFrame
      DEF Maintenance, cleanup_stale_package_staging, lose_build_lock,
          pulse_cleanup_lease, worker_dies, vars, rowVars, buildVars
    <2> QED
      BY <2>1, <2>2, <2>3, <2>4
  <1>4. \A p \in Packages : canonical'[p] \in {0, canonical[p]}
    <2>1. CASE canonical' = canonical
      BY <2>1
    <2>2. ASSUME NEW p \in Packages, NEW a \in Attempts, post_commit_unlink(p, a)
          PROVE  \A q \in Packages : canonical'[q] \in {0, canonical[q]}
      BY <1>1, <2>2 DEF post_commit_unlink
    <2>3. ASSUME NEW p \in Packages, NEW lost \in BOOLEAN, archive_fault(p, lost)
          PROVE  \A q \in Packages : canonical'[q] \in {0, canonical[q]}
      BY <1>1, <2>3 DEF archive_fault
    <2>4. ASSUME NEW w \in Workers, ArtifactKept \/ ArtifactMoved(w) \/ ArtifactDeleted(w)
          PROVE  \A q \in Packages : canonical'[q] \in {0, canonical[q]}
      BY <1>1, <2>4 DEF ArtifactKept, ArtifactMoved, ArtifactDeleted
    <2>5. PostCommit => \/ canonical' = canonical
                        \/ \E p \in Packages, a \in Attempts : post_commit_unlink(p, a)
      BY DEF PostCommit, post_commit_unlink_lost, post_commit_account,
             post_commit_account_lost, diskVars
    <2>6. Environment => \/ canonical' = canonical
                         \/ \E p \in Packages, lost \in BOOLEAN : archive_fault(p, lost)
      BY DEF Environment, package_expires, build_falls_due, lease_lapses, session_lapses,
             cooldown_ends, DeadlineFrame, diskVars
    <2>7. \A w \in Workers : CleanupStep(w) \/ worker_dies(w) =>
             \/ canonical' = canonical
             \/ ArtifactKept \/ ArtifactMoved(w) \/ ArtifactDeleted(w)
      BY DEF CleanupStep, claim_expired_packages, nothing_to_clean, cleanup_reads_digest,
             cleanup_deletes, cleanup_delete_raises, cleanup_accounts,
             cleanup_violates_check, cleanup_records_failure, cleanup_claim_lost,
             worker_dies, diskVars
    <2>8. ASSUME ~PostCommit, ~Environment,
                 ~\E w \in Workers : CleanupStep(w) \/ worker_dies(w)
          PROVE  canonical' = canonical
      BY <2>8, FinalizingFrame, PreparingFrame, StreamFrame
      DEF Maintenance, cleanup_stale_package_staging, lose_build_lock,
          pulse_cleanup_lease, vars, diskVars
    <2> QED
      BY <2>1, <2>2, <2>3, <2>4, <2>5, <2>6, <2>7, <2>8
  <1>5. ASSUME NEW v \in Workers, wpc'[v] \in BuildSteps
        PROVE  wpc[v] \in BuildSteps /\ token'[v] = token[v] /\ job'[v] = job[v]
    <2>1. CASE UNCHANGED <<wpc, job, token>>
      BY <1>5, <2>1
    <2>2. ASSUME NEW w \in Workers, CleanupStep(w) \/ worker_dies(w)
          PROVE  wpc[v] \in BuildSteps /\ token'[v] = token[v] /\ job'[v] = job[v]
      <3>1. CASE EnterPhase(w, "builds")
        BY <1>5, <3>1, PhaseEnds
      <3>2. ASSUME NEW step \in CleanupSteps, wpc[w] \notin BuildSteps, MoveTo(w, step),
                   \A u \in Workers : u # w => job'[u] = job[u] /\ token'[u] = token[u]
            PROVE  wpc[v] \in BuildSteps /\ token'[v] = token[v] /\ job'[v] = job[v]
        <4>1. step \notin BuildSteps
          BY <3>2 DEF BuildSteps, CleanupSteps
        <4> QED
          BY <1>1, <1>5, <3>2, <4>1 DEF MoveTo
      <3>3. CASE \/ \E p \in Packages : claim_expired_packages(w, p)
                 \/ cleanup_reads_digest(w) \/ cleanup_deletes(w) \/ cleanup_delete_raises(w)
        <4>1. wpc[w] \notin BuildSteps /\ \E step \in CleanupSteps : MoveTo(w, step)
          BY <3>3 DEF claim_expired_packages, cleanup_reads_digest, cleanup_deletes,
                      cleanup_delete_raises, BuildSteps, CleanupSteps
        <4>2. \A u \in Workers : u # w => job'[u] = job[u] /\ token'[u] = token[u]
          BY <3>3 DEF claim_expired_packages, cleanup_reads_digest, cleanup_deletes,
                      cleanup_delete_raises, WorkerTypeOK
        <4> QED
          BY <3>2, <4>1, <4>2
      <3> QED
        BY <2>2, <3>1, <3>3
        DEF CleanupStep, nothing_to_clean, cleanup_accounts, cleanup_violates_check,
            cleanup_records_failure, cleanup_claim_lost, worker_dies
    <2>3. ASSUME ~\E w \in Workers : CleanupStep(w) \/ worker_dies(w)
          PROVE  UNCHANGED <<wpc, job, token>>
      BY <2>3, FinalizingFrame, PreparingFrame, PostCommitFrame, StreamFrame,
         EnvironmentFrame
      DEF Maintenance, cleanup_stale_package_staging, lose_build_lock,
          pulse_cleanup_lease, vars, workerVars
    <2> QED
      BY <2>1, <2>2, <2>3
  <1> QED
    BY <1>2, <1>3, <1>4, <1>5, AttemptsKept

LEMMA StepAttempts ==
    ASSUME TypeInv, AttemptInv, [Next]_vars
    PROVE  AttemptInv'
  BY BuildAttempts, OthersAttempts DEF Next, WorkerStep

\* What changes the canonical path while worker w leaves a step of its build.
LEMMA BuilderWrites ==
    ASSUME TypeInv, AttemptInv, Next, NEW w \in Workers, NEW p \in Packages,
           wpc[w] \in BuildSteps, wpc'[w] # wpc[w], canonical'[p] # canonical[p]
    PROVE  p = job[w] /\ canonical[p] <= token[w]
  <1> USE DEF TypeInv, TypeOK
  <1>1. /\ canonical \in [Packages -> 0..MaxAttempts]
        /\ attempts \in [Packages -> 0..MaxAttempts]
        /\ wpc \in [Workers -> {"builds", "cleanups"} \cup BuildSteps \cup CleanupSteps]
        /\ job[w] \in Packages /\ token[w] \in Attempts
    BY DEF DiskTypeOK, BuildTypeOK, WorkerTypeOK, BusyWorkers
  <1>2. ASSUME NEW v \in Workers, WorkerStep(v)
        PROVE  v = w
    <2>1. \A u \in Workers : u # v => wpc'[u] = wpc[u]
      BY <1>1, <1>2
      DEF WorkerStep, BuildStep, CleanupStep, skip_builds, claim_package_build,
          claim_exhausted, build_prepared_package, build_fails,
          publish_prepared_package, publish_skipped, publish_rejected, publish_lost,
          discard_skipped, discard_failed, record_package_build_failure,
          claim_expired_packages, nothing_to_clean, cleanup_reads_digest,
          cleanup_deletes, cleanup_delete_raises, cleanup_accounts,
          cleanup_violates_check, cleanup_records_failure, cleanup_claim_lost,
          lose_build_lock, pulse_cleanup_lease, worker_dies, MoveTo, EnterPhase,
          LeaveBuild, workerVars
    <2> QED
      BY <2>1
  <1>3. WorkerStep(w)
    BY <1>2, FinalizingFrame, PreparingFrame, PostCommitFrame, StreamFrame,
       EnvironmentFrame
    DEF Next, Maintenance, cleanup_stale_package_staging, workerVars
  <1>4. CASE RenameToCanonical(w) /\ OwnsBuild(w)
    <2>1. canonical' = [canonical EXCEPT ![job[w]] = token[w]]
      BY <1>4 DEF RenameToCanonical
    <2>2. token[w] = attempts[job[w]]
      BY <1>1, <1>4, SMTT(10) DEF OwnsBuild, AttemptInv, Attempts
    <2> QED
      BY <1>1, <2>1, <2>2 DEF AttemptInv
  <1>5. ASSUME NEW failedAt \in 1..4, DiscardArtifact(w, failedAt)
        PROVE  p = job[w] /\ canonical[p] <= token[w]
    <2>1. p = job[w] /\ canonical[p] = token[w]
      BY <1>1, <1>5 DEF DiscardArtifact
    <2> QED
      BY <1>1, <2>1, SMTT(10) DEF Attempts
  <1>6. \/ RenameToCanonical(w) /\ OwnsBuild(w)
        \/ \E failedAt \in 1..4 : DiscardArtifact(w, failedAt)
        \/ canonical' = canonical
    <2>1. BuildStep(w) =>
            \/ RenameToCanonical(w) /\ OwnsBuild(w)
            \/ \E failedAt \in 1..4 : DiscardArtifact(w, failedAt)
            \/ canonical' = canonical
      BY DEF BuildStep, skip_builds, claim_package_build, claim_exhausted,
             build_prepared_package, build_fails, publish_prepared_package,
             publish_skipped, publish_rejected, publish_lost, discard_skipped,
             discard_failed, record_package_build_failure, diskVars
    <2>2. ~CleanupStep(w)
      BY DEF CleanupStep, claim_expired_packages, nothing_to_clean,
             cleanup_reads_digest, cleanup_deletes, cleanup_delete_raises,
             cleanup_accounts, cleanup_violates_check, cleanup_records_failure,
             cleanup_claim_lost, BuildSteps
    <2>3. lose_build_lock(w) \/ pulse_cleanup_lease(w) \/ worker_dies(w) =>
             canonical' = canonical
      BY DEF lose_build_lock, pulse_cleanup_lease, worker_dies, ArtifactKept, diskVars,
             BuildSteps
    <2> QED
      BY <1>3, <2>1, <2>2, <2>3 DEF WorkerStep
  <1> QED
    BY <1>4, <1>5, <1>6

\* A worker whose build lease was taken over neither replaces nor removes
\* what a later attempt put at the path, for any number of workers
\* (publish_prepared_package, _discard_artifact).
THEOREM StaleBuildersAreHarmless == Spec => StaleBuilderIsHarmless
  <1>1. TypeInv /\ AttemptInv /\ [Next]_vars =>
          [\A w \in Workers, p \in Packages :
             wpc[w] \in BuildSteps /\ wpc'[w] # wpc[w] /\ canonical'[p] # canonical[p]
                => p = job[w] /\ canonical[p] <= token[w]]_vars
    BY BuilderWrites
  <1>2. TypeInv /\ AttemptInv /\ [Next]_vars => AttemptInv'
    BY StepAttempts
  <1> QED
    BY <1>1, <1>2, InitAttempts, Typed, PTL DEF Spec, StaleBuilderIsHarmless

(*------------------------- rows, files and one worker --------------------*)

LEMMA InitStored == Init => StorageInv
  <1> SUFFICES ASSUME Init PROVE StorageInv
    OBVIOUS
  <1>1. \A w \in Workers : Building(w) /\ Cleaning(w)
    BY DEF Init, Building, Cleaning, BuildSteps, CleanupSteps
  <1>2. DiskInv
    BY DEF Init, DiskInv, QuarantineInv, PostCommitInv, ScanIsCurrent, FileInv,
           ReclaimedStorageIsEmpty, OfferedArchiveIsPublished
  <1> QED
    BY <1>1, <1>2 DEF StorageInv

LEMMA CandidateTyped ==
    ASSUME TypeInv, scan # NoScan, scan.candidate # 0
    PROVE  scan.candidate \in Packages
  <1>1. scan.candidate \in 0..NumPackages
    BY DEF TypeInv, TypeOK, BackendTypeOK, Scans
  <1> QED
    BY <1>1, BoundsAssumption, SMTT(10) DEF Packages

\* Files disappear, but not the one of an offered package, unless the storage
\* loses it.
FileGoes(p) ==
    /\ quarantined'[p] \in {0, quarantined[p]}
    /\ \/ canonical'[p] = canonical[p]
       \/ /\ canonical'[p] = 0
          /\ status[p] # "ready" \/ expired[p] \/ faults' # 0

LEMMA FilesGo ==
    ASSUME DiskInv, TypeInv, \A p \in Packages : FileGoes(p),
           UNCHANGED <<status, expired, sha, reclaimed, scan>>,
           faults' = faults \/ faults' # 0, postUnlink' \subseteq postUnlink,
           \A p \in postAccount' :
              \/ p \in postAccount
              \/ status[p] \notin {"none", "preparing", "ready"} /\ canonical'[p] = 0
    PROVE  DiskInv'
  <1> USE DEF DiskInv
  <1>1. QuarantineInv'
    BY DEF QuarantineInv, FileGoes
  <1>2. PostCommitInv'
    <2>1. postAccount \subseteq Packages
      BY DEF TypeInv, TypeOK, BackendTypeOK
    <2> QED
      BY <2>1 DEF PostCommitInv, FileGoes
  <1>3. ScanIsCurrent'
    <2>1. scan # NoScan /\ scan.candidate # 0 => scan.candidate \in Packages
      BY CandidateTyped
    <2> QED
      BY <2>1 DEF ScanIsCurrent, FileGoes
  <1>4. FileInv' /\ ReclaimedStorageIsEmpty'
    BY DEF FileInv, ReclaimedStorageIsEmpty, FileGoes
  <1>5. OfferedArchiveIsPublished'
    BY DEF OfferedArchiveIsPublished, FileGoes
  <1> QED
    BY <1>1, <1>2, <1>3, <1>4, <1>5

LEMMA DiskKept ==
    ASSUME DiskInv, UNCHANGED <<status, expired, sha, reclaimed, canonical, quarantined,
                                faults, scan, postUnlink, postAccount>>
    PROVE  DiskInv'
  BY DEF DiskInv, QuarantineInv, PostCommitInv, ScanIsCurrent, FileInv,
         ReclaimedStorageIsEmpty, OfferedArchiveIsPublished

LEMMA WorkersKept ==
    ASSUME StorageInv, UNCHANGED <<status, expired, sha, lease, buildLease, canonical,
                                   quarantined, wpc, job, token, verdict>>
    PROVE  \A w \in Workers : (Building(w) /\ Cleaning(w))'
  BY DEF StorageInv, Building, Cleaning, OwnsBuild

\* Files go under a worker.
LEMMA FilesGoUnder ==
    ASSUME StorageInv, TypeInv, NEW w \in Workers, wpc' = wpc, job' = job,
           UNCHANGED <<status, expired, sha, lease, buildLease, token, verdict>>,
           \A p \in Packages : /\ canonical'[p] \in {0, canonical[p]}
                               /\ quarantined'[p] \in {0, quarantined[p]}
    PROVE  (Building(w) /\ Cleaning(w))'
  <1>1. wpc[w] \in BuildSteps \cup CleanupSteps => job[w] \in Packages
    BY DEF TypeInv, BusyWorkers
  <1>2. Building(w)'
    BY <1>1 DEF StorageInv, Building, OwnsBuild
  <1>3. Cleaning(w)'
    BY <1>1 DEF StorageInv, Cleaning, CleanupSteps
  <1> QED
    BY <1>2, <1>3

\* Rows are withdrawn: invalidated, expired, or stripped of their leases.
RowGoes(p) ==
    /\ status'[p] \in {status[p], "invalidated"}
    /\ expired[p] => expired'[p]
    /\ lease'[p] \in {lease[p], NoLease}
    /\ buildLease'[p] \in {buildLease[p], 0}

LEMMA RowsGo ==
    ASSUME RowsInv, StorageInv, \A p \in Packages : RowGoes(p),
           UNCHANGED <<sha, reclaimed, canonical, quarantined, faults, backendVars,
                       workerVars>>
    PROVE  StorageInv'
  <1> USE DEF StorageInv, DiskInv, backendVars, workerVars, RowGoes
  <1>1. ASSUME NEW w \in Workers PROVE (Building(w) /\ Cleaning(w))'
    <2>1. /\ wpc[w] \in BuildSteps \cup CleanupSteps => job[w] \in Packages
          /\ wpc[w] \in BuildSteps => token[w] \in Attempts
      BY DEF RowsInv, TypeInv, BusyWorkers
    <2>2. 0 \notin Attempts
      BY SMTT(10) DEF Attempts
    <2>3. Building(w)'
      <3> SUFFICES ASSUME wpc[w] \in BuildSteps
                   PROVE  Building(w)'
        BY DEF Building
      <3>1. PICK p \in Packages : p = job[w]
        BY <2>1
      <3>2. status[p] # "ready" /\ status'[p] # "ready"
        BY <3>1 DEF Building
      <3>3. buildLease'[p] = token[w] => buildLease'[p] = buildLease[p]
        BY <2>1, <2>2
      <3>4. OwnsBuild(w)' => OwnsBuild(w)
        BY <3>1, <3>3 DEF OwnsBuild
      <3> QED
        BY <3>1, <3>2, <3>4 DEF Building
    <2>4. Cleaning(w)'
      BY <2>1, IdentityAssumption DEF Cleaning
    <2> QED
      BY <2>3, <2>4
  <1>2. QuarantineInv' /\ FileInv' /\ ReclaimedStorageIsEmpty'
    BY DEF QuarantineInv, FileInv, ReclaimedStorageIsEmpty
  <1>3. PostCommitInv'
    <2>1. postAccount \subseteq Packages
      BY DEF RowsInv, TypeInv, TypeOK, BackendTypeOK
    <2> QED
      BY <2>1 DEF PostCommitInv
  <1>4. ScanIsCurrent'
    <2>1. scan # NoScan /\ scan.candidate # 0 => scan.candidate \in Packages
      BY CandidateTyped DEF RowsInv
    <2> QED
      BY <2>1 DEF ScanIsCurrent
  <1>5. OfferedArchiveIsPublished'
    BY DEF OfferedArchiveIsPublished
  <1> QED
    BY <1>1, <1>2, <1>3, <1>4, <1>5

LEMMA FinalizingStored ==
    ASSUME RowsInv, StorageInv, Finalizing
    PROVE  StorageInv'
  <1>1. UNCHANGED <<sha, reclaimed, canonical, quarantined, faults, backendVars, workerVars>>
    BY FinalizingFrame DEF diskVars
  <1>2. ASSUME NEW S, FinalizeLockedItems(S), NEW p \in Packages
        PROVE  RowGoes(p)
    BY <1>2 DEF FinalizeLockedItems, rowVars, leaseVars, buildVars, RowGoes
  <1>3. ASSUME NEW S, RevokeLockedFinalizations(S), NEW p \in Packages
        PROVE  RowGoes(p)
    BY <1>3 DEF RevokeLockedFinalizations, RowGoes
  <1>4. ASSUME NEW i \in Items, retry_finalization_cleanup(i), NEW p \in Packages
        PROVE  RowGoes(p)
    BY <1>4 DEF retry_finalization_cleanup, buildVars, RowGoes
  <1>5. \A p \in Packages : RowGoes(p)
    BY <1>2, <1>3, <1>4
    DEF Finalizing, finalize_version, finalize_project, revoke_finalization,
        revoke_project_finalization
  <1> QED
    BY <1>1, <1>5, RowsGo

LEMMA EnvironmentStored ==
    ASSUME RowsInv, StorageInv, Environment
    PROVE  StorageInv'
  <1> USE DEF RowsInv
  <1>1. /\ UNCHANGED <<status, buildLease, sha, lease, reclaimed, quarantined>>
        /\ UNCHANGED <<backendVars, workerVars>>
    BY EnvironmentFrame
  <1>2. ASSUME UNCHANGED <<canonical, faults>>, \A p \in Packages : expired[p] => expired'[p]
        PROVE  StorageInv'
    <2>1. \A p \in Packages : RowGoes(p)
      BY <1>1, <1>2 DEF RowGoes
    <2> QED
      BY <1>1, <1>2, <2>1, RowsGo
  <1>3. ASSUME NEW p \in Packages, NEW lost \in BOOLEAN, archive_fault(p, lost)
        PROVE  StorageInv'
    <2>1. /\ canonical \in [Packages -> 0..MaxAttempts] /\ faults \in 0..MaxFaults
      BY DEF TypeInv, TypeOK, DiskTypeOK
    <2>2. faults' # 0 /\ expired' = expired
      BY <1>3, <2>1, BoundsAssumption, SMTT(10) DEF archive_fault, rowVars
    <2>3. \A q \in Packages : canonical'[q] \in {0, canonical[q]}
      BY <1>3, <2>1 DEF archive_fault
    <2>4. \A q \in Packages : FileGoes(q)
      BY <1>1, <2>2, <2>3 DEF FileGoes
    <2>5. DiskInv'
      BY <1>1, <2>2, <2>4, FilesGo DEF StorageInv, backendVars
    <2> QED
      BY <1>1, <2>2, <2>3, <2>5, FilesGoUnder DEF StorageInv, workerVars
  <1>4. ASSUME NEW p \in Packages, package_expires(p)
        PROVE  \A q \in Packages : expired[q] => expired'[q]
    BY <1>4 DEF package_expires, TypeInv, TypeOK, RowTypeOK
  <1> QED
    BY <1>2, <1>3, <1>4
    DEF Environment, package_expires, build_falls_due, lease_lapses, session_lapses,
        cooldown_ends, DeadlineFrame, diskVars

LEMMA StreamStored ==
    ASSUME RowsInv, StorageInv, NEW c \in Clients, StreamStep(c)
    PROVE  StorageInv'
  <1>1. /\ UNCHANGED <<status, expired, sha, reclaimed, buildLease, canonical, quarantined,
                       faults, backendVars, workerVars>>
    BY StreamFrame DEF buildVars, diskVars
  <1>2. lease \in [Packages -> Workers \cup Clients \cup {NoLease}]
    BY DEF RowsInv, TypeInv, TypeOK, LeaseTypeOK
  <1>3. ASSUME \A p \in Packages : lease'[p] \in {lease[p], NoLease}
        PROVE  StorageInv'
    <2>1. \A p \in Packages : RowGoes(p)
      BY <1>1, <1>3 DEF RowGoes
    <2> QED
      BY <1>1, <2>1, RowsGo
  <1>4. ASSUME NEW p \in Packages, NEW resume \in BOOLEAN, begin_package_download(c, p, resume)
        PROVE  StorageInv'
    <2>1. DiskInv'
      BY <1>1, DiskKept DEF StorageInv, backendVars
    <2>2. /\ status[p] = "ready" /\ ~expired[p]
          /\ \A q \in Packages : q # p => lease'[q] = lease[q]
      BY <1>2, <1>4 DEF begin_package_download, Downloadable
    <2>3. ASSUME NEW w \in Workers PROVE (Building(w) /\ Cleaning(w))'
      <3>1. Building(w)'
        BY <1>1 DEF StorageInv, Building, OwnsBuild, workerVars
      <3>2. wpc[w] \in CleanupSteps => job[w] \in Packages /\ job[w] # p
        BY <2>2 DEF RowsInv, TypeInv, BusyWorkers, StorageInv, Cleaning
      <3>3. Cleaning(w)'
        BY <1>1, <2>2, <3>2 DEF StorageInv, Cleaning, workerVars
      <3> QED
        BY <3>1, <3>3
    <2> QED
      BY <2>1, <2>3 DEF StorageInv
  <1>5. ASSUME NEW completed \in BOOLEAN, release_package_download_lease(c, completed)
        PROVE  \A p \in Packages : lease'[p] \in {lease[p], NoLease}
    BY <1>2, <1>5 DEF release_package_download_lease
  <1> QED
    BY <1>3, <1>4, <1>5
    DEF StreamStep, authorize_package_download_session, open_verified_archive,
        mark_package_download_session_verified, renew_package_download_lease, stream_dies,
        rowVars, leaseVars

LEMMA PostCommitStored ==
    ASSUME RowsInv, StorageInv, PostCommit
    PROVE  StorageInv'
  <1> USE DEF RowsInv
  <1>1. /\ UNCHANGED <<status, expired, buildLease, sha, lease, quarantined, faults, scan>>
        /\ UNCHANGED <<wpc, job, token, verdict>>
    BY PostCommitFrame DEF buildVars, leaseVars, workerVars
  <1>2. ASSUME NEW p \in Packages, NEW a \in Attempts, post_commit_unlink(p, a)
        PROVE  StorageInv'
    <2>1. /\ canonical \in [Packages -> 0..MaxAttempts] /\ postAccount \subseteq Packages
      BY DEF TypeInv, TypeOK, DiskTypeOK, BackendTypeOK
    <2>2. status[p] \notin {"none", "preparing", "ready"}
      BY <1>2 DEF post_commit_unlink, StorageInv, DiskInv, PostCommitInv
    <2>3. /\ canonical' = [canonical EXCEPT ![p] = 0] /\ reclaimed' = reclaimed
          /\ postUnlink' \subseteq postUnlink /\ postAccount' = postAccount \cup {p}
      BY <1>2 DEF post_commit_unlink, rowVars
    <2>4. canonical'[p] = 0 /\ \A q \in Packages : q # p => canonical'[q] = canonical[q]
      BY <2>1, <2>3
    <2>5. \A q \in Packages : FileGoes(q)
      BY <1>1, <2>2, <2>4 DEF FileGoes
    <2>6. DiskInv'
      BY <1>1, <2>2, <2>3, <2>4, <2>5, FilesGo DEF StorageInv
    <2> QED
      BY <1>1, <2>4, <2>6, FilesGoUnder DEF StorageInv
  <1>3. ASSUME NEW p \in Packages, post_commit_account(p)
        PROVE  StorageInv'
    <2>1. \A w \in Workers : (Building(w) /\ Cleaning(w))'
      BY <1>1, <1>3, WorkersKept DEF post_commit_account, diskVars
    <2>2. /\ UNCHANGED <<canonical, postUnlink>> /\ postAccount' = postAccount \ {p}
          /\ p \in postAccount
          /\ reclaimed' = [reclaimed EXCEPT ![p] = @ \/ status[p] = "failed"]
      BY <1>3 DEF post_commit_account, diskVars
    <2>3. QuarantineInv' /\ ScanIsCurrent' /\ FileInv' /\ PostCommitInv'
      BY <1>1, <2>2 DEF StorageInv, DiskInv, QuarantineInv, ScanIsCurrent, FileInv,
                        PostCommitInv
    <2>4. /\ \A q \in Packages : q # p => reclaimed'[q] = reclaimed[q]
          /\ reclaimed'[p] => reclaimed[p] \/ status[p] = "failed"
      BY <2>2 DEF TypeInv, TypeOK, RowTypeOK
    <2>5. ReclaimedStorageIsEmpty'
      <3>1. canonical[p] = 0 /\ (status[p] = "failed" => quarantined[p] = 0)
        BY <2>2 DEF StorageInv, DiskInv, PostCommitInv, QuarantineInv
      <3> QED
        BY <1>1, <2>2, <2>4, <3>1 DEF StorageInv, DiskInv, ReclaimedStorageIsEmpty
    <2>6. OfferedArchiveIsPublished'
      <3>1. status[p] # "ready"
        BY <2>2 DEF StorageInv, DiskInv, PostCommitInv
      <3> QED
        BY <1>1, <2>2, <2>4, <3>1 DEF StorageInv, DiskInv, OfferedArchiveIsPublished
    <2> QED
      BY <2>1, <2>3, <2>5, <2>6 DEF StorageInv, DiskInv
  <1>4. ASSUME NEW p \in Packages,
               \/ post_commit_account_lost(p)
               \/ \E a \in Attempts : post_commit_unlink_lost(p, a)
        PROVE  StorageInv'
    <2>1. /\ UNCHANGED <<reclaimed, canonical>> /\ postUnlink' \subseteq postUnlink
          /\ postAccount' \subseteq postAccount
      BY <1>4 DEF post_commit_account_lost, post_commit_unlink_lost, rowVars, diskVars
    <2>2. \A q \in Packages : FileGoes(q)
      BY <1>1, <2>1 DEF FileGoes
    <2>3. DiskInv'
      BY <1>1, <2>1, <2>2, FilesGo DEF StorageInv
    <2> QED
      BY <1>1, <2>1, <2>3, WorkersKept DEF StorageInv
  <1> QED
    BY <1>2, <1>3, <1>4 DEF PostCommit

LEMMA QueueStored ==
    ASSUME RowsInv, StorageInv, NEW q \in Packages, NEW failing \in BOOLEAN,
           prepare_queues(q, failing)
    PROVE  StorageInv'
  <1> USE DEF RowsInv
  <1>1. UNCHANGED <<buildLease, canonical, quarantined, faults, postAccount, workerVars>>
    BY DEF prepare_queues, diskVars
  <1>2. PICK c : c = scan.candidate
    OBVIOUS
  <1>3. /\ status[q] = "none" /\ scan # NoScan /\ scan' = NoScan
        /\ failing => c \in Packages /\ status[c] = "ready" /\ ~expired[c]
    BY <1>2, CandidateTyped DEF prepare_queues, ReuseFails, FingerprintHolds
  <1>4. \A p \in Packages :
          IF failing /\ p = c
          THEN /\ status'[p] = "failed" /\ sha'[p] = 0
               /\ reclaimed'[p] => scan.integrity = "missing"
          ELSE /\ status'[p] = IF p = q THEN "preparing" ELSE status[p]
               /\ sha'[p] = sha[p] /\ lease'[p] = lease[p]
               /\ expired'[p] <=> expired[p]
               /\ reclaimed'[p] <=> reclaimed[p]
    BY <1>2, <1>3 DEF prepare_queues, WrittenOffAtOnce
  <1>5. ASSUME NEW w \in Workers PROVE (Building(w) /\ Cleaning(w))'
    <2>1. /\ wpc[w] \in BuildSteps \cup CleanupSteps => job[w] \in Packages
          /\ UNCHANGED <<wpc, job, token, verdict>>
      BY <1>1 DEF TypeInv, BusyWorkers, workerVars
    <2>2. Building(w)'
      <3> SUFFICES ASSUME wpc[w] \in BuildSteps
                   PROVE  /\ status'[job[w]] # "ready"
                          /\ (wpc[w] = "recording" /\ verdict[w].gone /\ OwnsBuild(w)') =>
                                canonical[job[w]] = 0
        BY <1>1, <2>1 DEF Building
      <3>1. status'[job[w]] # "ready"
        BY <1>4, <2>1 DEF StorageInv, Building
      <3>2. CASE job[w] = q
        BY <1>3, <3>1, <3>2 DEF StorageInv, DiskInv, FileInv
      <3>3. CASE job[w] # q
        BY <1>1, <1>4, <2>1, <3>1, <3>3 DEF StorageInv, Building, OwnsBuild
      <3> QED
        BY <3>2, <3>3
    <2>3. Cleaning(w)'
      <3>1. wpc[w] \in CleanupSteps => ~(failing /\ job[w] = c)
        BY <1>3 DEF StorageInv, Cleaning
      <3> SUFFICES ASSUME wpc[w] \in CleanupSteps
                   PROVE  Cleaning(w)'
        BY <2>1 DEF Cleaning
      <3>2. PICK p \in Packages : p = job[w]
        BY <2>1
      <3>3. /\ status'[p] = "ready" => status[p] = "ready"
            /\ expired[p] => expired'[p]
            /\ lease'[p] = lease[p] /\ sha'[p] = sha[p]
        BY <1>4, <3>1, <3>2
      <3> QED
        BY <1>1, <2>1, <3>2, <3>3 DEF StorageInv, Cleaning
    <2> QED
      BY <2>2, <2>3
  <1>6. QuarantineInv' /\ FileInv'
    <2>1. quarantined[q] = 0 /\ (failing => quarantined[c] = 0)
      BY <1>3 DEF StorageInv, DiskInv, QuarantineInv
    <2>2. QuarantineInv'
      BY <1>1, <1>4, <2>1 DEF StorageInv, DiskInv, QuarantineInv
    <2>3. FileInv'
      BY <1>1, <1>4 DEF StorageInv, DiskInv, FileInv
    <2> QED
      BY <2>2, <2>3
  <1>7. PostCommitInv'
    <2>1. ASSUME NEW p \in Packages, status[p] \notin {"none", "preparing", "ready"}
          PROVE  status'[p] \notin {"none", "preparing", "ready"}
      BY <1>3, <1>4, <2>1
    <2>2. ASSUME NEW p \in Packages, NEW a \in Attempts, <<p, a>> \in postUnlink'
          PROVE  <<p, a>> \in postUnlink \/ (failing /\ p = c)
      BY <1>2, <2>2 DEF prepare_queues
    <2>3. postAccount \subseteq Packages
      BY DEF TypeInv, TypeOK, BackendTypeOK
    <2> QED
      BY <1>1, <1>4, <2>1, <2>2, <2>3 DEF StorageInv, DiskInv, PostCommitInv
  <1>8. ReclaimedStorageIsEmpty'
    <2>1. failing /\ scan.integrity = "missing" => canonical[c] = 0 /\ quarantined[c] = 0
      <3>1. failing => scan.candidate # 0
        BY DEF prepare_queues, ReuseFails, FingerprintHolds
      <3> QED
        BY <1>2, <1>3, <3>1 DEF StorageInv, DiskInv, ScanIsCurrent, QuarantineInv
    <2> QED
      BY <1>1, <1>4, <2>1 DEF StorageInv, DiskInv, ReclaimedStorageIsEmpty
  <1>9. OfferedArchiveIsPublished' /\ ScanIsCurrent'
    <2>1. ASSUME NEW p \in Packages, status'[p] = "ready"
          PROVE  /\ status[p] = "ready" /\ sha'[p] = sha[p] /\ canonical'[p] = canonical[p]
                 /\ expired'[p] <=> expired[p]
                 /\ reclaimed'[p] <=> reclaimed[p]
      BY <1>1, <1>4, <2>1
    <2>2. OfferedArchiveIsPublished'
      BY <1>1, <2>1 DEF StorageInv, DiskInv, OfferedArchiveIsPublished
    <2>3. ScanIsCurrent'
      BY <1>3 DEF ScanIsCurrent
    <2> QED
      BY <2>2, <2>3
  <1> QED
    BY <1>5, <1>6, <1>7, <1>8, <1>9 DEF StorageInv, DiskInv

LEMMA PreparingStored ==
    ASSUME RowsInv, StorageInv, Preparing
    PROVE  StorageInv'
  <1>1. CASE (\E n \in Names : prepare_scan(n)) \/ prepare_returns
    <2>1. UNCHANGED <<status, expired, sha, reclaimed, lease, buildLease, canonical,
                      quarantined, faults, postUnlink, postAccount, wpc, job, token, verdict>>
      BY <1>1 DEF prepare_scan, prepare_returns, rowVars, leaseVars, buildVars, diskVars,
                  workerVars
    <2>2. ScanIsCurrent'
      <3>1. CASE prepare_returns
        BY <3>1 DEF prepare_returns, ScanIsCurrent
      <3>2. ASSUME NEW n \in Names, prepare_scan(n)
            PROVE  ScanIsCurrent'
        <4>1. PICK c \in {0} \cup {p \in Packages : status[p] = "ready"} :
                 \E r \in IF c = 0 THEN {"missing"} ELSE ReuseIntegrity(c) :
                    scan' = [name |-> n, candidate |-> c, integrity |-> r,
                             session |-> IF c = 0 THEN NoSession ELSE session[c],
                             lease |-> IF c = 0 THEN NoLease ELSE lease[c]]
          BY <3>2 DEF prepare_scan
        <4>2. PICK r \in IF c = 0 THEN {"missing"} ELSE ReuseIntegrity(c) :
                 scan' = [name |-> n, candidate |-> c, integrity |-> r,
                          session |-> IF c = 0 THEN NoSession ELSE session[c],
                          lease |-> IF c = 0 THEN NoLease ELSE lease[c]]
          BY <4>1
        <4>3. scan'.candidate = c /\ scan'.integrity = r
          BY <4>2
        <4>4. c # 0 /\ r = "missing" => canonical[c] = 0
          BY <4>2 DEF ReuseIntegrity
        <4>5. c # 0 => status[c] = "ready"
          BY <4>1
        <4> QED
          BY <2>1, <4>3, <4>4, <4>5 DEF ScanIsCurrent
      <3> QED
        BY <1>1, <3>1, <3>2
    <2>3. /\ QuarantineInv' /\ PostCommitInv' /\ FileInv' /\ ReclaimedStorageIsEmpty'
          /\ OfferedArchiveIsPublished'
      BY <2>1 DEF StorageInv, DiskInv, QuarantineInv, PostCommitInv, FileInv,
                  ReclaimedStorageIsEmpty, OfferedArchiveIsPublished
    <2> QED
      BY <2>1, <2>2, <2>3, WorkersKept DEF StorageInv, DiskInv
  <1> QED
    BY <1>1, QueueStored DEF Preparing

(*------------------------------- the builder ------------------------------*)

\* The worker is in neither of its loop's bodies.
LEMMA WorkerLeaves ==
    ASSUME OneWorker, TypeInv, NEW w \in Workers, NEW phase \in {"builds", "cleanups"},
           EnterPhase(w, phase), NEW v \in Workers
    PROVE  (Building(v) /\ Cleaning(v))'
  <1>1. v = w /\ phase \notin BuildSteps \cup CleanupSteps
    BY DEF OneWorker, BuildSteps, CleanupSteps
  <1>2. wpc'[w] = phase
    BY DEF EnterPhase, TypeInv, TypeOK, WorkerTypeOK
  <1> QED
    BY <1>1, <1>2 DEF Building, Cleaning

\* The archive of a package that is being prepared is renamed.
LEMMA RenameStored ==
    ASSUME RowsInv, StorageInv, NEW w \in Workers, wpc[w] = "built", OwnsBuild(w),
           RenameToCanonical(w), UNCHANGED <<status, expired, sha, reclaimed, backendVars>>
    PROVE  DiskInv'
  <1> USE DEF RowsInv, StorageInv, DiskInv, backendVars
  <1>1. PICK p \in Packages : p = job[w]
    BY DEF TypeInv, BusyWorkers, BuildSteps
  <1>2. status[p] = "preparing" /\ ~reclaimed[p]
    BY <1>1 DEF OwnsBuild, RowInv
  <1>3. /\ UNCHANGED <<quarantined, faults>>
        /\ \A q \in Packages : q # p => canonical'[q] = canonical[q]
    BY <1>1 DEF RenameToCanonical, TypeInv, TypeOK, DiskTypeOK
  <1>4. QuarantineInv' /\ FileInv' /\ ReclaimedStorageIsEmpty' /\ OfferedArchiveIsPublished'
    BY <1>2, <1>3 DEF QuarantineInv, FileInv, ReclaimedStorageIsEmpty,
                      OfferedArchiveIsPublished
  <1>5. PostCommitInv'
    <2>1. postAccount \subseteq Packages
      BY DEF TypeInv, TypeOK, BackendTypeOK
    <2> QED
      BY <1>2, <1>3, <2>1 DEF PostCommitInv
  <1>6. ScanIsCurrent'
    BY <1>2, <1>3, CandidateTyped DEF ScanIsCurrent
  <1> QED
    BY <1>4, <1>5, <1>6

\* The builder goes on to another step of the same build.
LEMMA BuilderMoves ==
    ASSUME OneWorker, TypeInv, StorageInv, NEW w \in Workers, wpc[w] \in BuildSteps,
           NEW step \in BuildSteps, MoveTo(w, step), UNCHANGED <<job, status>>,
           step = "recording" /\ verdict'[w].gone => canonical'[job[w]] = 0,
           NEW v \in Workers
    PROVE  (Building(v) /\ Cleaning(v))'
  <1>1. v = w /\ step \notin CleanupSteps
    BY DEF OneWorker, BuildSteps, CleanupSteps
  <1>2. wpc'[w] = step
    BY DEF MoveTo, TypeInv, TypeOK, WorkerTypeOK
  <1>3. status[job[w]] # "ready"
    BY DEF StorageInv, Building
  <1> QED
    BY <1>1, <1>2, <1>3 DEF Building, Cleaning

LEMMA DiscardStored ==
    ASSUME RowsInv, StorageInv, NEW w \in Workers, wpc[w] \in BuildSteps,
           NEW failedAt \in 1..4, DiscardArtifact(w, failedAt),
           UNCHANGED <<status, expired, sha, reclaimed, backendVars>>
    PROVE  DiskInv'
  <1>1. PICK p \in Packages : p = job[w]
    BY DEF RowsInv, TypeInv, BusyWorkers
  <1>2. status[p] # "ready"
    BY <1>1 DEF StorageInv, Building
  <1>3. /\ UNCHANGED <<quarantined, faults>> /\ canonical'[p] \in {0, canonical[p]}
        /\ \A q \in Packages : q # p => canonical'[q] = canonical[q]
    BY <1>1 DEF DiscardArtifact, RowsInv, TypeInv, TypeOK, DiskTypeOK
  <1>4. \A q \in Packages : FileGoes(q)
    BY <1>2, <1>3 DEF FileGoes
  <1> QED
    BY <1>3, <1>4, FilesGo DEF RowsInv, StorageInv, backendVars

\* A package that is being prepared fails.
LEMMA FailureStored ==
    ASSUME RowsInv, StorageInv, NEW p \in Packages, status[p] = "preparing",
           \A q \in Packages : q # p => /\ status'[q] = status[q] /\ sha'[q] = sha[q]
                                        /\ reclaimed'[q] <=> reclaimed[q],
           status'[p] = "failed", sha'[p] = 0, reclaimed'[p] => canonical[p] = 0,
           UNCHANGED <<expired, diskVars, backendVars>>
    PROVE  DiskInv'
  <1> USE DEF RowsInv, StorageInv, DiskInv, diskVars, backendVars
  <1>1. quarantined[p] = 0
    BY DEF QuarantineInv
  <1>2. QuarantineInv' /\ FileInv' /\ OfferedArchiveIsPublished'
    BY <1>1 DEF QuarantineInv, FileInv, OfferedArchiveIsPublished
  <1>3. ReclaimedStorageIsEmpty'
    BY <1>1 DEF ReclaimedStorageIsEmpty
  <1>4. PostCommitInv'
    <2>1. postAccount \subseteq Packages
      BY DEF TypeInv, TypeOK, BackendTypeOK
    <2> QED
      BY <2>1 DEF PostCommitInv
  <1>5. ScanIsCurrent'
    BY CandidateTyped DEF ScanIsCurrent
  <1> QED
    BY <1>2, <1>3, <1>4, <1>5

LEMMA PublishStored ==
    ASSUME RowsInv, StorageInv, NEW w \in Workers, publish_prepared_package(w)
    PROVE  DiskInv'
  <1> USE DEF RowsInv, StorageInv, DiskInv
  <1>1. PICK p \in Packages : p = job[w]
    BY DEF publish_prepared_package, TypeInv, BusyWorkers, BuildSteps
  <1>2. /\ status[p] = "preparing" /\ quarantined[p] = 0 /\ token[w] # 0
    <2>1. status[p] = "preparing" /\ token[w] \in Attempts
      BY <1>1 DEF publish_prepared_package, OwnsBuild, TypeInv, BusyWorkers, BuildSteps
    <2>2. 0 \notin Attempts
      BY SMTT(10) DEF Attempts
    <2> QED
      BY <2>1, <2>2 DEF QuarantineInv
  <1>3. /\ UNCHANGED <<expired, quarantined, faults, scan, postUnlink, postAccount>>
        /\ status' = [status EXCEPT ![p] = "ready"]
        /\ sha' = [sha EXCEPT ![p] = token[w]]
        /\ reclaimed' = [reclaimed EXCEPT ![p] = FALSE]
        /\ canonical' = [canonical EXCEPT ![p] = token[w]]
    BY <1>1 DEF publish_prepared_package, RenameToCanonical, backendVars
  <1>4. /\ status'[p] = "ready" /\ sha'[p] = token[w] /\ ~reclaimed'[p]
        /\ canonical'[p] = token[w]
        /\ \A q \in Packages : q # p =>
              /\ status'[q] = status[q] /\ sha'[q] = sha[q]
              /\ reclaimed'[q] = reclaimed[q] /\ canonical'[q] = canonical[q]
    BY <1>3 DEF TypeInv, TypeOK, RowTypeOK, DiskTypeOK
  <1>5. UNCHANGED <<expired, quarantined, faults, scan, postUnlink, postAccount>>
    BY <1>3
  <1>6. QuarantineInv' /\ FileInv' /\ ReclaimedStorageIsEmpty'
    <2>1. QuarantineInv'
      BY <1>2, <1>4, <1>5 DEF QuarantineInv
    <2>2. FileInv' /\ ReclaimedStorageIsEmpty'
      BY <1>2, <1>4, <1>5 DEF FileInv, ReclaimedStorageIsEmpty
    <2> QED
      BY <2>1, <2>2
  <1>7. OfferedArchiveIsPublished'
    BY <1>2, <1>4, <1>5 DEF OfferedArchiveIsPublished
  <1>8. PostCommitInv'
    <2>1. postAccount \subseteq Packages
      BY DEF TypeInv, TypeOK, BackendTypeOK
    <2> QED
      BY <1>2, <1>4, <1>5, <2>1 DEF PostCommitInv
  <1>9. ScanIsCurrent'
    BY <1>2, <1>4, <1>5, CandidateTyped DEF ScanIsCurrent
  <1> QED
    BY <1>6, <1>7, <1>8, <1>9

LEMMA BuildStored ==
    ASSUME OneWorker, RowsInv, StorageInv, NEW w \in Workers, BuildStep(w)
    PROVE  StorageInv'
  <1> USE DEF RowsInv
  <1>1. UNCHANGED <<expired, lease, quarantined, faults, backendVars>>
    BY BuildFrame DEF leaseVars
  <1>2. ASSUME UNCHANGED <<status, sha, reclaimed, canonical>>
        PROVE  DiskInv'
    BY <1>1, <1>2, DiskKept DEF StorageInv, backendVars
  <1>3. ASSUME DiskInv', \E phase \in {"builds", "cleanups"} : EnterPhase(w, phase)
        PROVE  StorageInv'
    BY <1>3, WorkerLeaves DEF StorageInv
  <1>4. ASSUME NEW dies \in BOOLEAN, LeaveBuild(w, dies)
        PROVE  \E phase \in {"builds", "cleanups"} : EnterPhase(w, phase)
    BY <1>4 DEF LeaveBuild
  <1>5. ASSUME NEW p \in Packages, claim_package_build(w, p)
        PROVE  StorageInv'
    <2>1. DiskInv'
      BY <1>2, <1>5 DEF claim_package_build, diskVars
    <2>2. /\ wpc'[w] \in {"building", "sourceMissing"} /\ job'[w] = p
          /\ status'[p] = "preparing"
      BY <1>5 DEF claim_package_build, MoveTo, OldestEligible, BuildEligible, TypeInv,
                  TypeOK, WorkerTypeOK
    <2>3. ASSUME NEW v \in Workers PROVE (Building(v) /\ Cleaning(v))'
      <3>1. v = w
        BY DEF OneWorker
      <3> QED
        BY <2>2, <3>1 DEF Building, Cleaning, CleanupSteps
    <2> QED
      BY <2>1, <2>3 DEF StorageInv
  <1>6. ASSUME NEW p \in Packages, claim_exhausted(w, p)
        PROVE  StorageInv'
    <2>1. /\ status[p] = "preparing" /\ status' = [status EXCEPT ![p] = "failed"]
          /\ sha' = [sha EXCEPT ![p] = 0] /\ reclaimed' = reclaimed /\ UNCHANGED diskVars
      BY <1>6 DEF claim_exhausted, OldestEligible, BuildEligible
    <2>2. ~reclaimed[p]
      BY <2>1 DEF RowInv
    <2>3. DiskInv'
      BY <1>1, <2>1, <2>2, FailureStored DEF TypeInv, TypeOK, RowTypeOK
    <2> QED
      BY <1>3, <1>6, <2>3 DEF claim_exhausted
  <1>7. CASE build_prepared_package(w) \/ publish_skipped(w)
    <2>1. UNCHANGED <<status, sha, reclaimed, canonical, job>> /\ wpc[w] \in BuildSteps
      BY <1>7 DEF build_prepared_package, publish_skipped, rowVars, diskVars, BuildSteps
    <2>2. PICK step \in BuildSteps : MoveTo(w, step) /\ step # "recording"
      BY <1>7 DEF build_prepared_package, publish_skipped, BuildSteps
    <2> QED
      BY <1>2, <2>1, <2>2, BuilderMoves DEF StorageInv
  <1>8. ASSUME NEW retry \in BOOLEAN, NEW dies \in BOOLEAN, NEW left \in BOOLEAN,
               build_fails(w, retry, dies, left)
        PROVE  StorageInv'
    <2>1. UNCHANGED <<status, sha, reclaimed, canonical, job>> /\ wpc[w] \in BuildSteps
      BY <1>8 DEF build_fails, rowVars, BuildSteps
    <2>2. MoveTo(w, "recording") /\ "recording" \in BuildSteps
      BY <1>8 DEF build_fails, BuildSteps
    <2>3. verdict'[w].gone => canonical'[job[w]] = 0
      <3>1. PICK gone \in {FALSE, ~left /\ canonical[job[w]] = 0} :
              verdict' = [verdict EXCEPT ![w] =
                            [retry |-> retry, gone |-> gone, dies |-> dies]]
        BY <1>8 DEF build_fails
      <3>2. verdict'[w].gone = gone
        BY <3>1 DEF TypeInv, TypeOK, WorkerTypeOK
      <3> QED
        BY <2>1, <3>1, <3>2
    <2> QED
      BY <1>2, <2>1, <2>2, <2>3, BuilderMoves DEF StorageInv
  <1>9. CASE publish_prepared_package(w)
    BY <1>3, <1>4, <1>9, PublishStored DEF publish_prepared_package
  <1>10. CASE publish_rejected(w)
    <2>1. /\ UNCHANGED <<status, sha, reclaimed, job>> /\ wpc[w] = "built"
          /\ OwnsBuild(w) /\ MoveTo(w, "discardFailed")
          /\ RenameToCanonical(w) \/ canonical' = canonical
      BY <1>10 DEF publish_rejected, rowVars, diskVars
    <2>2. DiskInv'
      BY <1>1, <1>2, <2>1, RenameStored
    <2> QED
      BY <2>1, <2>2, BuilderMoves DEF StorageInv, BuildSteps
  <1>11. CASE publish_lost(w)
    <2>1. /\ UNCHANGED <<status, sha, reclaimed>> /\ wpc[w] = "built"
          /\ OwnsBuild(w) /\ RenameToCanonical(w) /\ LeaveBuild(w, TRUE)
      BY <1>11 DEF publish_lost, rowVars
    <2>2. DiskInv'
      BY <1>1, <2>1, RenameStored
    <2> QED
      BY <1>3, <1>4, <2>1, <2>2
  <1>12. ASSUME NEW failedAt \in 1..4, discard_skipped(w, failedAt) \/ discard_failed(w, failedAt)
         PROVE  StorageInv'
    <2>1. /\ UNCHANGED <<status, sha, reclaimed>> /\ DiscardArtifact(w, failedAt)
          /\ wpc[w] \in BuildSteps
      BY <1>12 DEF discard_skipped, discard_failed, rowVars, BuildSteps
    <2>2. DiskInv'
      BY <1>1, <2>1, DiscardStored
    <2>3. CASE discard_skipped(w, failedAt)
      BY <1>3, <1>4, <2>2, <2>3 DEF discard_skipped
    <2>4. CASE discard_failed(w, failedAt)
      <3>1. verdict'[w].gone => canonical'[job[w]] = 0
        <4>1. verdict' = [verdict EXCEPT ![w] = [retry |-> FALSE, dies |-> FALSE,
                                                 gone |-> PathsAbsent(w, failedAt)]]
          BY <2>4 DEF discard_failed
        <4>2. verdict'[w].gone = PathsAbsent(w, failedAt)
          BY <4>1 DEF TypeInv, TypeOK, WorkerTypeOK
        <4> QED
          BY <4>2 DEF PathsAbsent
      <3> QED
        BY <2>1, <2>2, <2>4, <3>1, BuilderMoves DEF StorageInv, discard_failed, BuildSteps
    <2> QED
      BY <1>12, <2>3, <2>4
  <1>13. CASE record_package_build_failure(w)
    <2>1. PICK p \in Packages : p = job[w]
      BY <1>13 DEF record_package_build_failure, TypeInv, BusyWorkers, BuildSteps
    <2>2. PICK fails \in BOOLEAN :
            /\ fails => OwnsBuild(w)
            /\ status' = [status EXCEPT ![p] = IF fails THEN "failed" ELSE @]
            /\ reclaimed' = [reclaimed EXCEPT ![p] = @ \/ (fails /\ verdict[w].gone)]
            /\ sha' = [sha EXCEPT ![p] = IF fails THEN 0 ELSE @]
      <3>1. (OwnsBuild(w) /\ ~(verdict[w].retry /\ AttemptsLeft(p))) \in BOOLEAN
        OBVIOUS
      <3> QED
        BY <1>13, <2>1, <3>1 DEF record_package_build_failure
    <2>3. wpc[w] = "recording" /\ UNCHANGED diskVars
      BY <1>13 DEF record_package_build_failure
    <2>4. DiskInv'
      <3>1. CASE fails
        <4>1. /\ status[p] = "preparing" /\ ~reclaimed[p]
              /\ verdict[w].gone => canonical[p] = 0
          BY <2>1, <2>2, <2>3, <3>1 DEF OwnsBuild, RowInv, StorageInv, Building, BuildSteps
        <4>2. /\ status'[p] = "failed" /\ sha'[p] = 0
              /\ reclaimed'[p] => canonical[p] = 0
              /\ \A q \in Packages : q # p => /\ status'[q] = status[q] /\ sha'[q] = sha[q]
                                              /\ reclaimed'[q] <=> reclaimed[q]
          BY <2>2, <3>1, <4>1 DEF TypeInv, TypeOK, RowTypeOK
        <4> QED
          BY <1>1, <2>3, <4>1, <4>2, FailureStored
      <3>2. CASE ~fails
        <4>1. UNCHANGED <<status, sha, reclaimed>>
          BY <2>2, <3>2 DEF TypeInv, TypeOK, RowTypeOK
        <4> QED
          BY <1>2, <2>3, <4>1 DEF diskVars
      <3> QED
        BY <3>1, <3>2
    <2> QED
      BY <1>3, <1>13, <2>4 DEF record_package_build_failure, LeaveBuild
  <1>14. CASE skip_builds(w)
    BY <1>2, <1>3, <1>14 DEF skip_builds, rowVars, diskVars
  <1> QED
    BY <1>5, <1>6, <1>7, <1>8, <1>9, <1>10, <1>11, <1>12, <1>13, <1>14 DEF BuildStep

(*------------------------------- the cleaner ------------------------------*)

LEMMA CleanerMoves ==
    ASSUME OneWorker, TypeInv, StorageInv, NEW w \in Workers, wpc[w] \in CleanupSteps,
           NEW step \in CleanupSteps, MoveTo(w, step),
           UNCHANGED <<job, status, expired, sha, lease>>,
           token'[w] = sha[job[w]],
           step = "deleted" => canonical'[job[w]] = 0 /\ quarantined'[job[w]] = 0,
           NEW v \in Workers
    PROVE  (Building(v) /\ Cleaning(v))'
  <1>1. v = w /\ step \notin BuildSteps
    BY DEF OneWorker, BuildSteps, CleanupSteps
  <1>2. wpc'[w] = step
    BY DEF MoveTo, TypeInv, TypeOK, WorkerTypeOK
  <1>3. /\ status[job[w]] = "ready" => expired[job[w]]
        /\ lease[job[w]] \notin Clients
    BY DEF StorageInv, Cleaning
  <1> QED
    BY <1>1, <1>2, <1>3 DEF Building, Cleaning

\* The deletion of a claimed archive, as far as it gets.
LEMMA DeletionStored ==
    ASSUME RowsInv, StorageInv, NEW w \in Workers, wpc[w] = "deleting",
           ArtifactKept \/ ArtifactMoved(w) \/ ArtifactDeleted(w),
           UNCHANGED <<status, expired, sha, reclaimed, faults, backendVars>>
    PROVE  DiskInv'
  <1> USE DEF RowsInv, StorageInv, DiskInv
  <1>1. PICK p \in Packages : p = job[w]
    BY DEF TypeInv, BusyWorkers, CleanupSteps
  <1>2. /\ status[p] = "ready" => expired[p]
        /\ token[w] = sha[p]
    BY <1>1 DEF Cleaning, CleanupSteps
  <1>3. canonical \in [Packages -> 0..MaxAttempts] /\ quarantined \in [Packages -> 0..MaxAttempts]
    BY DEF TypeInv, TypeOK, DiskTypeOK
  <1>4. CASE ArtifactKept \/ ArtifactDeleted(w)
    <2>1. \A q \in Packages : q # p => canonical'[q] = canonical[q]
      BY <1>1, <1>3, <1>4 DEF ArtifactKept, ArtifactDeleted
    <2>2. \A q \in Packages : /\ canonical'[q] \in {0, canonical[q]}
                              /\ quarantined'[q] \in {0, quarantined[q]}
      BY <1>1, <1>3, <1>4 DEF ArtifactKept, ArtifactDeleted
    <2>3. \A q \in Packages : FileGoes(q)
      BY <1>2, <2>1, <2>2 DEF FileGoes
    <2> QED
      BY <2>3, FilesGo DEF backendVars
  <1>5. CASE ArtifactMoved(w)
    <2>1. /\ sha[p] # 0 /\ canonical[p] # 0 /\ canonical'[p] = 0
          /\ \A q \in Packages : q # p => /\ canonical'[q] = canonical[q]
                                          /\ quarantined'[q] = quarantined[q]
      BY <1>1, <1>2, <1>3, <1>5 DEF ArtifactMoved
    <2>2. status[p] \in {"ready", "expired", "invalidated"} /\ ~reclaimed[p]
      <3>1. status[p] \in Statuses \cup {"none"}
        BY DEF TypeInv, TypeOK, RowTypeOK
      <3>2. status[p] \notin {"none", "preparing", "failed"}
        BY <2>1 DEF UnbuiltIsUnread, FileInv
      <3> QED
        BY <2>1, <3>1, <3>2 DEF Statuses, ReclaimedStorageIsEmpty
    <2>3. UNCHANGED <<status, expired, sha, reclaimed, faults, scan, postUnlink, postAccount>>
      BY DEF backendVars
    <2>4. QuarantineInv'
      BY <1>2, <2>1, <2>2, <2>3 DEF QuarantineInv
    <2>5. FileInv' /\ ReclaimedStorageIsEmpty'
      BY <2>1, <2>2, <2>3 DEF FileInv, ReclaimedStorageIsEmpty
    <2>6. OfferedArchiveIsPublished'
      BY <1>2, <2>1, <2>3 DEF OfferedArchiveIsPublished
    <2>7. PostCommitInv'
      <3>1. postAccount \subseteq Packages
        BY DEF TypeInv, TypeOK, BackendTypeOK
      <3> QED
        BY <2>1, <2>3, <3>1 DEF PostCommitInv
    <2>8. ScanIsCurrent'
      BY <2>1, <2>3, CandidateTyped DEF ScanIsCurrent
    <2> QED
      BY <2>4, <2>5, <2>6, <2>7, <2>8
  <1> QED
    BY <1>4, <1>5

LEMMA CleanupStored ==
    ASSUME OneWorker, RowsInv, StorageInv, NEW w \in Workers, CleanupStep(w)
    PROVE  StorageInv'
  <1> USE DEF RowsInv
  <1>1. UNCHANGED <<buildLease, sha, faults, backendVars>>
    BY CleanupFrame DEF buildVars
  <1>2. ASSUME UNCHANGED <<status, expired, reclaimed, canonical, quarantined>>
        PROVE  DiskInv'
    BY <1>1, <1>2, DiskKept DEF StorageInv, backendVars
  <1>3. ASSUME DiskInv', EnterPhase(w, "builds")
        PROVE  StorageInv'
    BY <1>3, WorkerLeaves DEF StorageInv
  <1>4. ASSUME NEW p \in Packages, claim_expired_packages(w, p)
        PROVE  StorageInv'
    <2>1. DiskInv'
      BY <1>2, <1>4 DEF claim_expired_packages, diskVars
    <2>2. wpc'[w] = "claimed" /\ job'[w] = p /\ lease'[p] = w /\ expired'[p]
      BY <1>4 DEF claim_expired_packages, Claimable, MoveTo, TypeInv, TypeOK, WorkerTypeOK,
                  LeaseTypeOK
    <2>3. ASSUME NEW v \in Workers PROVE (Building(v) /\ Cleaning(v))'
      <3>1. v = w /\ w \notin Clients
        BY IdentityAssumption DEF OneWorker
      <3> QED
        BY <2>2, <3>1 DEF Building, Cleaning, BuildSteps
    <2> QED
      BY <2>1, <2>3 DEF StorageInv
  <1>5. CASE nothing_to_clean(w) \/ cleanup_violates_check(w) \/ cleanup_claim_lost(w)
    BY <1>2, <1>3, <1>5 DEF nothing_to_clean, cleanup_violates_check, cleanup_claim_lost,
                            rowVars, diskVars
  <1>6. CASE cleanup_reads_digest(w)
    <2>1. /\ wpc[w] = "claimed" /\ MoveTo(w, "deleting")
          /\ UNCHANGED <<status, expired, sha, lease, reclaimed, canonical, quarantined, job>>
          /\ token'[w] = sha[job[w]]
      BY <1>6 DEF cleanup_reads_digest, rowVars, leaseVars, diskVars, TypeInv, TypeOK,
                  WorkerTypeOK
    <2> QED
      BY <1>2, <2>1, CleanerMoves DEF StorageInv, CleanupSteps
  <1>7. CASE cleanup_deletes(w) \/ cleanup_delete_raises(w)
    <2>1. PICK p \in Packages : p = job[w]
      BY <1>7 DEF cleanup_deletes, cleanup_delete_raises, TypeInv, BusyWorkers, CleanupSteps
    <2>2. /\ wpc[w] = "deleting"
          /\ ArtifactKept \/ ArtifactMoved(w) \/ ArtifactDeleted(w)
          /\ UNCHANGED <<status, expired, sha, lease, reclaimed, job, token>>
      BY <1>7 DEF cleanup_deletes, cleanup_delete_raises, rowVars, leaseVars
    <2>3. DiskInv'
      BY <1>1, <2>2, DeletionStored
    <2>4. token[w] = sha[p]
      BY <2>1, <2>2 DEF StorageInv, Cleaning, CleanupSteps
    <2>5. CASE cleanup_deletes(w)
      <3>1. token[w] = 0 => quarantined[p] = 0
        BY <2>4 DEF StorageInv, DiskInv, QuarantineInv
      <3>2. canonical'[p] = 0 /\ quarantined'[p] = 0
        BY <2>1, <2>5, <3>1 DEF cleanup_deletes, ArtifactDeleted, TypeInv, TypeOK, DiskTypeOK
      <3> QED
        BY <2>1, <2>2, <2>3, <2>4, <2>5, <3>2, CleanerMoves
        DEF StorageInv, cleanup_deletes, CleanupSteps
    <2>6. CASE cleanup_delete_raises(w)
      BY <2>1, <2>2, <2>3, <2>4, <2>6, CleanerMoves
      DEF StorageInv, cleanup_delete_raises, CleanupSteps
    <2> QED
      BY <1>7, <2>5, <2>6
  <1>8. CASE cleanup_accounts(w) \/ cleanup_records_failure(w)
    <2> USE DEF StorageInv, DiskInv
    <2>1. PICK p \in Packages : p = job[w]
      BY <1>8 DEF cleanup_accounts, cleanup_records_failure, TypeInv, BusyWorkers,
                  CleanupSteps
    <2>2. UNCHANGED <<sha, canonical, quarantined, faults, scan, postUnlink, postAccount>>
      BY <1>1, <1>8 DEF cleanup_accounts, cleanup_records_failure, diskVars, backendVars
    <2>3. \A q \in Packages : q # p =>
            /\ status'[q] = status[q] /\ expired'[q] = expired[q]
            /\ reclaimed'[q] = reclaimed[q]
      BY <1>8, <2>1 DEF cleanup_accounts, cleanup_records_failure, TypeInv, TypeOK, RowTypeOK
    <2>4. \/ /\ status'[p] = "expired"
             /\ canonical[p] = 0 /\ quarantined[p] = 0
          \/ /\ status'[p] = (IF status[p] = "ready" THEN "expired" ELSE status[p])
             /\ reclaimed'[p] = reclaimed[p]
      <3>1. CASE cleanup_accounts(w)
        BY <2>1, <3>1 DEF cleanup_accounts, Cleaning, CleanupSteps, TypeInv, TypeOK, RowTypeOK
      <3>2. CASE cleanup_records_failure(w)
        BY <2>1, <3>2 DEF cleanup_records_failure, FailedCleanupStatus, TypeInv, TypeOK,
                          RowTypeOK
      <3> QED
        BY <1>8, <3>1, <3>2
    <2>5. QuarantineInv'
      BY <2>2, <2>3, <2>4 DEF QuarantineInv
    <2>6. FileInv'
      BY <2>2, <2>3, <2>4 DEF FileInv
    <2>7. ReclaimedStorageIsEmpty' /\ OfferedArchiveIsPublished'
      BY <2>2, <2>3, <2>4 DEF ReclaimedStorageIsEmpty, OfferedArchiveIsPublished
    <2>8. PostCommitInv'
      <3>1. postAccount \subseteq Packages
        BY DEF TypeInv, TypeOK, BackendTypeOK
      <3> QED
        BY <2>2, <2>3, <2>4, <3>1 DEF PostCommitInv
    <2>9. ScanIsCurrent'
      BY <2>2, <2>3, <2>4, CandidateTyped DEF ScanIsCurrent
    <2>10. EnterPhase(w, "builds")
      BY <1>8 DEF cleanup_accounts, cleanup_records_failure
    <2> QED
      BY <1>3, <2>5, <2>6, <2>7, <2>8, <2>9, <2>10
  <1> QED
    BY <1>4, <1>5, <1>6, <1>7, <1>8 DEF CleanupStep

LEMMA WorkerStored ==
    ASSUME OneWorker, RowsInv, StorageInv, NEW w \in Workers, WorkerStep(w)
    PROVE  StorageInv'
  <1>1. CASE lose_build_lock(w) \/ pulse_cleanup_lease(w)
    <2>1. /\ UNCHANGED <<status, expired, sha, reclaimed, lease, buildLease, canonical,
                         quarantined, faults, scan, postUnlink, postAccount>>
          /\ UNCHANGED <<wpc, job, token, verdict>>
      BY <1>1 DEF lose_build_lock, pulse_cleanup_lease, rowVars, leaseVars, buildVars,
                  diskVars, backendVars, workerVars
    <2> QED
      BY <2>1, DiskKept, WorkersKept DEF StorageInv
  <1>2. CASE worker_dies(w)
    <2>1. /\ UNCHANGED <<status, expired, sha, reclaimed, faults, backendVars>>
          /\ EnterPhase(w, "builds")
      BY <1>2 DEF worker_dies, rowVars
    <2>2. DiskInv'
      <3>1. CASE ArtifactKept
        BY <2>1, <3>1, DiskKept DEF ArtifactKept, StorageInv, backendVars
      <3>2. CASE wpc[w] = "deleting" /\ (ArtifactMoved(w) \/ ArtifactDeleted(w))
        BY <2>1, <3>2, DeletionStored
      <3> QED
        BY <1>2, <3>1, <3>2 DEF worker_dies
    <2> QED
      BY <2>1, <2>2, WorkerLeaves DEF StorageInv, RowsInv
  <1> QED
    BY <1>1, <1>2, BuildStored, CleanupStored DEF WorkerStep

LEMMA StepStored ==
    ASSUME OneWorker, RowsInv, StorageInv, [Next]_vars
    PROVE  StorageInv'
  <1>1. CASE Maintenance \/ UNCHANGED vars
    <2>1. /\ UNCHANGED <<status, expired, sha, reclaimed, lease, buildLease, canonical,
                         quarantined, faults, scan, postUnlink, postAccount>>
          /\ UNCHANGED <<wpc, job, token, verdict>>
      BY <1>1 DEF Maintenance, cleanup_stale_package_staging, vars, rowVars, leaseVars,
                  buildVars, diskVars, backendVars, workerVars
    <2> QED
      BY <2>1, DiskKept, WorkersKept DEF StorageInv
  <1> QED
    BY <1>1, FinalizingStored, PreparingStored, PostCommitStored, WorkerStored, StreamStored,
       EnvironmentStored DEF Next

\* What is proved with one worker, together with what it rests on.
LEMMA Stored ==
    ASSUME OneWorker
    PROVE  Spec => [](RowsInv /\ StorageInv)
  <1>1. TrackingInv /\ ReadInv => RowsInv
    BY DEF TrackingInv, ReadInv, RowsInv
  <1>2. RowsInv /\ StorageInv /\ [Next]_vars => StorageInv'
    BY StepStored
  <1> QED
    BY <1>1, <1>2, InitStored, Tracked, Reads, PTL DEF Spec

\* Storage is written off only when the bytes are gone from the path and from
\* the quarantine (cleanup_accounts, record_package_build_failure,
\* _fail_ready_package_reuse, the accounting after a post-commit deletion).
THEOREM WrittenOffIsGone ==
    ASSUME OneWorker
    PROVE  Spec => []ReclaimedStorageIsEmpty
  <1>1. StorageInv => ReclaimedStorageIsEmpty
    BY DEF StorageInv, DiskInv
  <1> QED
    BY <1>1, Stored, PTL

\* What is offered stays on disk as it was published: no late discard,
\* cleanup or post-commit deletion removes or replaces it.
THEOREM OfferedIsOnDisk ==
    ASSUME OneWorker
    PROVE  Spec => []OfferedArchiveIsPublished
  <1>1. StorageInv => OfferedArchiveIsPublished
    BY DEF StorageInv, DiskInv
  <1> QED
    BY <1>1, Stored, PTL

(*---------------------- revoked bytes and finalization --------------------*)

\* An item with an open invalidation row is not finalized.
OpenRowsBlock ==
    \A p \in Packages, f \in Finalizations : Incomplete(p, f) => activeFin[f[1]] = 0

LEMMA FinalizingBlocks ==
    ASSUME OpenRowsBlock, Finalizing
    PROVE  OpenRowsBlock'
  <1> SUFFICES ASSUME NEW p \in Packages, NEW f \in Finalizations, Incomplete(p, f)'
               PROVE  activeFin'[f[1]] = 0
    BY DEF OpenRowsBlock
  <1>1. f[1] \in Items
    BY DEF Finalizations
  <1>2. ASSUME NEW S, FinalizeLockedItems(S)
        PROVE  activeFin'[f[1]] = 0
    <2>1. Incomplete(p, f)
      BY <1>2 DEF FinalizeLockedItems, Incomplete
    <2>2. f[1] \notin S
      BY <1>2, <2>1 DEF FinalizeLockedItems, CleanupPending
    <2> QED
      BY <1>1, <1>2, <2>1, <2>2 DEF FinalizeLockedItems, OpenRowsBlock
  <1>3. ASSUME NEW S, RevokeLockedFinalizations(S)
        PROVE  activeFin'[f[1]] = 0
    <2>1. activeFin'[f[1]] = IF f[1] \in S THEN 0 ELSE activeFin[f[1]]
      BY <1>1, <1>3 DEF RevokeLockedFinalizations
    <2>2. f[1] \in S \/ Incomplete(p, f)
      BY <1>3 DEF RevokeLockedFinalizations, NeedsRow, Incomplete
    <2> QED
      BY <2>1, <2>2 DEF OpenRowsBlock
  <1>4. ASSUME NEW i \in Items, retry_finalization_cleanup(i)
        PROVE  activeFin'[f[1]] = 0
    <2>1. Incomplete(p, f) /\ activeFin' = activeFin
      BY <1>4 DEF retry_finalization_cleanup, Incomplete, finVars
    <2> QED
      BY <2>1 DEF OpenRowsBlock
  <1> QED
    BY <1>2, <1>3, <1>4
    DEF Finalizing, finalize_version, finalize_project, revoke_finalization,
        revoke_project_finalization

LEMMA CleanupBlocks ==
    ASSUME TypeInv, \A p \in Packages : RowInv(p), OpenRowsBlock,
           NEW w \in Workers, CleanupStep(w)
    PROVE  OpenRowsBlock'
  <1>1. activeFin' = activeFin
    BY CleanupFrame DEF finVars
  <1>2. invalidation \in [Packages -> [Finalizations -> CleanupStatuses \cup {"none"}]]
    BY DEF TypeInv, TypeOK, RowTypeOK
  <1> SUFFICES ASSUME NEW p \in Packages, NEW f \in Finalizations, Incomplete(p, f)'
               PROVE  Incomplete(p, f)
    BY <1>1 DEF OpenRowsBlock
  <1>3. ASSUME NEW q \in Packages, claim_expired_packages(w, q)
        PROVE  Incomplete(p, f)
    <2>1. invalidation'[p][f] = invalidation[p][f] \/ Incomplete(p, f)
      BY <1>2, <1>3 DEF claim_expired_packages, Incomplete
    <2> QED
      BY <2>1 DEF Incomplete
  <1>4. CASE cleanup_accounts(w)
    <2>1. invalidation'[p][f] \in {invalidation[p][f], "none", "complete"}
      BY <1>2, <1>4 DEF cleanup_accounts
    <2> QED
      BY <2>1 DEF Incomplete
  <1>5. CASE cleanup_records_failure(w)
    <2>1. \/ invalidation'[p][f] = invalidation[p][f]
          \/ p = job[w] /\ invalidation[p][f] # "none"
      BY <1>2, <1>5 DEF cleanup_records_failure
    <2>2. p = job[w] => invalidation[p][f] # "complete"
      BY <1>5 DEF cleanup_records_failure, OwnsClaim, RowInv
    <2>3. invalidation[p][f] \in CleanupStatuses \cup {"none"}
      BY <1>2
    <2> QED
      BY <2>1, <2>2, <2>3 DEF Incomplete, CleanupStatuses
  <1>6. CASE invalidation' = invalidation
    BY <1>6 DEF Incomplete
  <1> QED
    BY <1>3, <1>4, <1>5, <1>6
    DEF CleanupStep, nothing_to_clean, cleanup_reads_digest, cleanup_deletes,
        cleanup_delete_raises, cleanup_violates_check, cleanup_claim_lost

LEMMA StepBlocks ==
    ASSUME TypeInv, \A p \in Packages : RowInv(p), OpenRowsBlock, [Next]_vars
    PROVE  OpenRowsBlock'
  <1>1. CASE UNCHANGED <<activeFin, invalidation>>
    BY <1>1 DEF OpenRowsBlock, Incomplete
  <1>2. ASSUME NEW w \in Workers, WorkerStep(w)
        PROVE  OpenRowsBlock'
    <2>1. BuildStep(w) \/ lose_build_lock(w) \/ pulse_cleanup_lease(w) \/ worker_dies(w) =>
            UNCHANGED <<activeFin, invalidation>>
      BY BuildFrame DEF lose_build_lock, pulse_cleanup_lease, worker_dies, finVars
    <2> QED
      BY <1>1, <1>2, <2>1, CleanupBlocks DEF WorkerStep
  <1>3. Preparing \/ PostCommit \/ Environment \/ Maintenance \/ UNCHANGED vars
        \/ (\E c \in Clients : StreamStep(c)) => UNCHANGED <<activeFin, invalidation>>
    BY PreparingFrame, PostCommitFrame, EnvironmentFrame, StreamFrame
    DEF Maintenance, cleanup_stale_package_staging, finVars, vars
  <1> QED
    BY <1>1, <1>2, <1>3, FinalizingBlocks DEF Next

\* When an item is finalized no archive with an earlier, revoked finalization
\* of it is on disk: the rows that block the command stay open until the
\* bytes are gone (_finalize_locked_item, claim_expired_packages and the
\* accounting of a cleanup).
THEOREM RevokedBytesAreGone ==
    ASSUME OneWorker
    PROVE  Spec => []NoRevokedBytesOfFinalizedItem
  <1>1. Init => OpenRowsBlock
    <2>1. Init => \A p \in Packages, f \in Finalizations : invalidation[p][f] = "none"
      BY SMTT(10) DEF Init
    <2> QED
      BY <2>1 DEF OpenRowsBlock, Incomplete
  <1>2. RowsInv /\ OpenRowsBlock /\ [Next]_vars => OpenRowsBlock'
    BY StepBlocks DEF RowsInv
  <1>3. RowsInv /\ StorageInv /\ OpenRowsBlock => NoRevokedBytesOfFinalizedItem
    <2> SUFFICES ASSUME RowsInv, StorageInv, OpenRowsBlock, NEW p \in Packages,
                        canonical[p] # 0 \/ quarantined[p] # 0,
                        NEW f \in contents[p] \ ActiveFinalizations
                 PROVE  activeFin[f[1]] = 0
      BY DEF NoRevokedBytesOfFinalizedItem
    <2>1. Charged(p)
      BY DEF StorageInv, DiskInv, ReclaimedStorageIsEmpty, FileInv, QuarantineInv, Charged
    <2>2. Incomplete(p, f)
      BY <2>1 DEF RowsInv, RowInv
    <2>3. f \in Finalizations
      BY DEF RowsInv, TypeInv, TypeOK, RowTypeOK
    <2> QED
      BY <2>2, <2>3 DEF OpenRowsBlock
  <1> QED
    BY <1>1, <1>2, <1>3, Stored, PTL DEF Spec

(*------------------------------- download leases --------------------------*)

\* A client's lease that is alive goes with its stream or with its package.
LEMMA LeaseStays ==
    ASSUME RowsInv, StorageInv, Next, NEW p \in Packages, LeaseHeld(p), lease[p] \in Clients
    PROVE  lease'[p] = lease[p] \/ dpc'[lease[p]] = "idle" \/ status'[p] # "ready"
  <1>1. /\ lease \in [Packages -> Workers \cup Clients \cup {NoLease}]
        /\ dpc \in [Clients -> {"idle", "opening", "verifying", "streaming"}]
    BY DEF RowsInv, TypeInv, TypeOK, LeaseTypeOK, StreamTypeOK
  <1>2. Finalizing => lease'[p] = lease[p] \/ status'[p] # "ready"
    <2>1. ASSUME NEW S, FinalizeLockedItems(S)
          PROVE  lease'[p] = lease[p]
      BY <2>1 DEF FinalizeLockedItems, rowVars, leaseVars
    <2>2. ASSUME NEW S, RevokeLockedFinalizations(S)
          PROVE  lease'[p] = lease[p] \/ status'[p] = "invalidated"
      BY <2>2 DEF RevokeLockedFinalizations
    <2>3. ASSUME NEW i \in Items, retry_finalization_cleanup(i)
          PROVE  lease'[p] = lease[p]
      BY <2>3 DEF retry_finalization_cleanup
    <2> QED
      BY <2>1, <2>2, <2>3
      DEF Finalizing, finalize_version, finalize_project, revoke_finalization,
          revoke_project_finalization
  <1>3. Preparing => lease'[p] = lease[p] \/ status'[p] # "ready"
    <2>1. ASSUME NEW q \in Packages, NEW failing \in BOOLEAN, prepare_queues(q, failing)
          PROVE  lease'[p] = lease[p] \/ status'[p] # "ready"
      <3>1. CASE failing /\ p = scan.candidate
        <4>1. status'[p] \in {"preparing", "failed"}
          BY <2>1, <3>1 DEF prepare_queues
        <4> QED
          BY <4>1
      <3>2. CASE ~(failing /\ p = scan.candidate)
        BY <2>1, <3>2 DEF prepare_queues
      <3> QED
        BY <3>1, <3>2
    <2>2. (\E n \in Names : prepare_scan(n)) \/ prepare_returns => lease' = lease
      BY DEF prepare_scan, prepare_returns, rowVars, leaseVars
    <2> QED
      BY <2>1, <2>2 DEF Preparing
  <1>4. ASSUME NEW w \in Workers, WorkerStep(w)
        PROVE  lease'[p] = lease[p]
    <2>1. lease[p] # w
      BY IdentityAssumption
    <2>2. BuildStep(w) => lease' = lease
      BY BuildFrame DEF leaseVars
    <2>3. CleanupStep(w) => lease'[p] = lease[p]
      BY <1>1, <2>1
      DEF CleanupStep, claim_expired_packages, Claimable, nothing_to_clean,
          cleanup_reads_digest, cleanup_deletes, cleanup_delete_raises, cleanup_accounts,
          cleanup_violates_check, cleanup_records_failure, cleanup_claim_lost, OwnsClaim,
          rowVars, leaseVars
    <2>4. lose_build_lock(w) \/ pulse_cleanup_lease(w) \/ worker_dies(w) => lease' = lease
      BY DEF lose_build_lock, pulse_cleanup_lease, worker_dies, rowVars, leaseVars
    <2> QED
      BY <1>4, <2>2, <2>3, <2>4 DEF WorkerStep
  <1>5. ASSUME NEW c \in Clients, StreamStep(c)
        PROVE  lease'[p] = lease[p] \/ dpc'[lease[p]] = "idle"
    <2>1. ASSUME NEW q \in Packages, NEW resume \in BOOLEAN, begin_package_download(c, q, resume)
          PROVE  lease'[p] = lease[p]
      BY <1>1, <2>1 DEF begin_package_download
    <2>2. ASSUME NEW completed \in BOOLEAN, release_package_download_lease(c, completed)
          PROVE  lease'[p] = lease[p] \/ dpc'[lease[p]] = "idle"
      BY <1>1, <2>2 DEF release_package_download_lease, EndStream
    <2> QED
      BY <1>5, <2>1, <2>2
      DEF StreamStep, authorize_package_download_session, open_verified_archive,
          mark_package_download_session_verified, renew_package_download_lease, stream_dies,
          rowVars, leaseVars
  <1>6. PostCommit \/ Environment \/ Maintenance => lease' = lease
    BY PostCommitFrame, EnvironmentFrame
    DEF Maintenance, cleanup_stale_package_staging, rowVars, leaseVars
  <1> QED
    BY <1>2, <1>3, <1>4, <1>5, <1>6 DEF Next

\* Its archive is left alone by the worker and by post-commit deletions.
LEMMA LeasedArchiveStays ==
    ASSUME RowsInv, StorageInv, Next, NEW p \in Packages, lease[p] \in Clients
    PROVE  canonical'[p] = canonical[p] \/ faults' # faults
  <1>1. /\ canonical \in [Packages -> 0..MaxAttempts]
        /\ faults \in 0..MaxFaults
    BY DEF RowsInv, TypeInv, TypeOK, DiskTypeOK
  <1>2. status[p] = "ready"
    BY DEF RowsInv, RowInv
  <1>3. Finalizing \/ Preparing \/ (\E c \in Clients : StreamStep(c)) \/ Maintenance =>
          canonical' = canonical
    BY FinalizingFrame, PreparingFrame, StreamFrame
    DEF Maintenance, cleanup_stale_package_staging, diskVars
  <1>4. PostCommit => canonical'[p] = canonical[p]
    BY <1>1, <1>2
    DEF PostCommit, post_commit_unlink, post_commit_unlink_lost, post_commit_account,
        post_commit_account_lost, diskVars, StorageInv, DiskInv, PostCommitInv
  <1>5. ASSUME NEW w \in Workers, WorkerStep(w)
        PROVE  canonical'[p] = canonical[p]
    <2>1. BuildStep(w) => canonical'[p] = canonical[p]
      <3>1. wpc[w] \in BuildSteps => job[w] # p
        BY <1>2 DEF StorageInv, Building
      <3>2. BuildStep(w) =>
              \/ canonical' = canonical
              \/ /\ wpc[w] \in BuildSteps
                 /\ \/ RenameToCanonical(w)
                    \/ \E failedAt \in 1..4 : DiscardArtifact(w, failedAt)
        BY DEF BuildStep, skip_builds, claim_package_build, claim_exhausted,
               build_prepared_package, build_fails, publish_prepared_package,
               publish_skipped, publish_rejected, publish_lost, discard_skipped,
               discard_failed, record_package_build_failure, diskVars, BuildSteps
      <3> QED
        BY <1>1, <3>1, <3>2 DEF RenameToCanonical, DiscardArtifact
    <2>2. CASE wpc[w] = "deleting" /\ (ArtifactKept \/ ArtifactMoved(w) \/ ArtifactDeleted(w))
      <3>1. job[w] # p
        BY <2>2 DEF StorageInv, Cleaning, CleanupSteps
      <3> QED
        BY <1>1, <2>2, <3>1 DEF ArtifactKept, ArtifactMoved, ArtifactDeleted
    <2>3. CleanupStep(w) =>
            \/ canonical' = canonical
            \/ wpc[w] = "deleting" /\ (ArtifactKept \/ ArtifactMoved(w) \/ ArtifactDeleted(w))
      BY DEF CleanupStep, claim_expired_packages, nothing_to_clean, cleanup_reads_digest,
             cleanup_deletes, cleanup_delete_raises, cleanup_accounts,
             cleanup_violates_check, cleanup_records_failure, cleanup_claim_lost, diskVars
    <2>4. lose_build_lock(w) \/ pulse_cleanup_lease(w) \/ worker_dies(w) =>
            \/ canonical' = canonical
            \/ wpc[w] = "deleting" /\ (ArtifactMoved(w) \/ ArtifactDeleted(w))
      BY DEF lose_build_lock, pulse_cleanup_lease, worker_dies, ArtifactKept, diskVars
    <2> QED
      BY <1>5, <2>1, <2>2, <2>3, <2>4 DEF WorkerStep
  <1>6. Environment => canonical'[p] = canonical[p] \/ faults' # faults
    <2>1. faults + 1 # faults
      BY <1>1, BoundsAssumption, SMTT(10)
    <2> QED
      BY <2>1 DEF Environment, package_expires, build_falls_due, lease_lapses,
                  session_lapses, cooldown_ends, archive_fault, DeadlineFrame, diskVars
  <1> QED
    BY <1>3, <1>4, <1>5, <1>6 DEF Next

\* A download lease that has not expired protects its stream: it ends with
\* the stream or with the package, and until then only the storage itself can
\* lose the archive (claim_expired_packages, begin_package_download,
\* retry_finalization_cleanup, the builder's discards).
THEOREM LeasesProtectStreams ==
    ASSUME OneWorker
    PROVE  Spec => LeaseProtectsStream
  <1>1. RowsInv /\ StorageInv /\ [Next]_vars =>
          [\A p \in Packages : LeaseHeld(p) /\ lease[p] \in Clients =>
              /\ \/ lease'[p] = lease[p]
                 \/ dpc'[lease[p]] = "idle"
                 \/ status'[p] # "ready"
              /\ \/ canonical'[p] = canonical[p]
                 \/ faults' # faults]_vars
    BY LeaseStays, LeasedArchiveStays
  <1> QED
    BY <1>1, Stored, PTL DEF Spec, LeaseProtectsStream
===============================================================================
