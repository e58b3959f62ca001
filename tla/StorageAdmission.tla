-------------------------- MODULE StorageAdmission --------------------------
(***************************************************************************)
(* Who may fill the disk.  Uploads reserve twice their declared size, for  *)
(* the parts and the assembled file beside them; packages reserve an upper *)
(* bound of the archive.  Both admissions hold one advisory lock, so that  *)
(* the checks and the new row are one step.  The roots of both share one   *)
(* file system, whose space is counted in units.                           *)
(***************************************************************************)
EXTENDS Integers, FiniteSets, FiniteSetsExt

CONSTANTS
    Uploads, SizeOf, OwnerOf, \* declared size and principal of an upload
    Packages, EstimateOf,     \* estimate_package_storage_bytes
    Capacity, LowWatermark,
    MaxSessions, MaxReserved, \* global limits of uploads
    MaxOwnSessions, MaxOwnReserved, \* limits of one principal
    MaxPending, MaxPackageStorage,  \* limits of packages
    MaxCrashes, None

AdmissionConstants ==
    /\ SizeOf \in [Uploads -> Nat \ {0}] /\ EstimateOf \in [Packages -> Nat \ {0}]
    /\ LowWatermark \in 0 .. Capacity

VARIABLES
    upload,  \* upload_sessions: status, confirmed, and the units on disk
    package, \* package snapshots: status, storage_bytes, the build lease,
             \* storage_reclaimed_at, and the units on disk
    builder, \* the package that the one package worker builds
    stray,   \* units of staging files whose writer died
    crashes

vars == <<upload, package, builder, stray, crashes>>

NoUpload == [status |-> "none", confirmed |-> FALSE, parts |-> 0, file |-> 0]
NoPackage == [status |-> "none", bytes |-> 0, leased |-> FALSE, staging |-> 0,
              archive |-> 0, reclaimed |-> FALSE]

Reserved(u) == 2 * SizeOf[u]
Sum(f(_), set) == MapThenSumSet(f, set)

\* Sessions that count: all whose parts are not confirmed to be gone.
Active == {u \in Uploads : upload[u].status # "none" /\ ~upload[u].confirmed}
UploadReserved(set) == Sum(Reserved, Active \cap set)

Bytes(k) == package[k].bytes
Preparing == {k \in Packages : package[k].status = "preparing"}
\* active_ and pending_package_storage_reservation_bytes
PackageReserved(set) ==
    Sum(Bytes, {k \in set : package[k].status # "none" /\ ~package[k].reclaimed})
PendingReserved(set) == Sum(Bytes, Preparing \cap set)

OnDisk == Sum(LAMBDA u : upload[u].parts + upload[u].file, Uploads)
          + Sum(LAMBDA k : package[k].staging + package[k].archive, Packages)
          + stray
Free == Capacity - OnDisk

-----------------------------------------------------------------------------
(* Uploads *)

\* _reserve_upload_quota
UploadFits(u) ==
    LET own == {v \in Uploads : OwnerOf[v] = OwnerOf[u]} IN
    /\ Cardinality(Active) < MaxSessions
    /\ Cardinality(Active \cap own) < MaxOwnSessions
    /\ UploadReserved(Uploads) + Reserved(u) <= MaxReserved
    /\ UploadReserved(own) + Reserved(u) <= MaxOwnReserved
    /\ Free - UploadReserved(Uploads) - PendingReserved(Packages) - Reserved(u)
         >= LowWatermark

\* A slot is used again when nothing of its former session is left.
init_upload(u) ==
    /\ upload[u].status = "none" \/ (upload[u].confirmed /\ upload[u].file = 0)
    /\ UploadFits(u)
    /\ upload' = [upload EXCEPT ![u] = [NoUpload EXCEPT !.status = "receiving"]]
    /\ UNCHANGED <<package, builder, stray, crashes>>

put_part(u) ==
    /\ upload[u].status = "receiving" /\ upload[u].parts < SizeOf[u] /\ Free > 0
    /\ upload' = [upload EXCEPT ![u].parts = @ + 1]
    /\ UNCHANGED <<package, builder, stray, crashes>>

\* The file is assembled beside the parts, ...
finalize_claim(u) ==
    /\ upload[u].status = "receiving" /\ upload[u].parts = SizeOf[u]
    /\ Free >= SizeOf[u]
    /\ upload' = [upload EXCEPT ![u].file = SizeOf[u], ![u].status = "finalizing"]
    /\ UNCHANGED <<package, builder, stray, crashes>>

\* ... published, or dropped with the staging file.
publish_completion(u) ==
    /\ upload[u].status = "finalizing"
    /\ \/ upload' = [upload EXCEPT ![u].status = "completed"]
       \/ upload' = [upload EXCEPT ![u].status = "receiving", ![u].file = 0]
       \/ upload' = [upload EXCEPT ![u].status = "aborted", ![u].file = 0]
    /\ UNCHANGED <<package, builder, stray, crashes>>

finalizer_dies(u) ==
    /\ upload[u].status = "finalizing" /\ crashes < MaxCrashes
    /\ stray' = stray + upload[u].file
    /\ upload' = [upload EXCEPT ![u].status = "receiving", ![u].file = 0]
    /\ crashes' = crashes + 1
    /\ UNCHANGED <<package, builder>>

\* An abort may be repeated; it asks for the cleanup to be confirmed again.
prepare_abort(u) ==
    /\ upload[u].status \in {"receiving", "aborted"}
    /\ upload' = [upload EXCEPT ![u].status = "aborted", ![u].confirmed = FALSE]
    /\ UNCHANGED <<package, builder, stray, crashes>>

\* The parts first, then the row.
cleanup_part_paths(u) ==
    /\ upload[u].status \in {"completed", "aborted"} /\ upload[u].parts > 0
    /\ upload' = [upload EXCEPT ![u].parts = 0]
    /\ UNCHANGED <<package, builder, stray, crashes>>

confirm_part_cleanup_early(u) ==
    /\ upload[u].status \in {"completed", "aborted"} /\ ~upload[u].confirmed
    /\ upload' = [upload EXCEPT ![u].confirmed = TRUE]
    /\ UNCHANGED <<package, builder, stray, crashes>>

confirm_part_cleanup(u) ==
    /\ upload[u].status \in {"completed", "aborted"} /\ ~upload[u].confirmed
    /\ upload[u].parts = 0
    /\ upload' = [upload EXCEPT ![u].confirmed = TRUE]
    /\ UNCHANGED <<package, builder, stray, crashes>>

\* The review version that the file belongs to is deleted.
delete_file(u) ==
    /\ upload[u].status = "completed" /\ upload[u].file > 0
    /\ upload' = [upload EXCEPT ![u].file = 0]
    /\ UNCHANGED <<package, builder, stray, crashes>>

-----------------------------------------------------------------------------
(* Packages *)

\* ensure_package_filesystem_headroom
Headroom(pending, requested) ==
    Free - pending - UploadReserved(Uploads) - requested >= LowWatermark

\* prepare_finalized_package
PackageFits(k) ==
    /\ Cardinality(Preparing) < MaxPending
    /\ PackageReserved(Packages) + EstimateOf[k] <= MaxPackageStorage
    /\ Headroom(PendingReserved(Packages), EstimateOf[k])

prepare_finalized_package(k) ==
    /\ package[k].status = "none" \/ (package[k].reclaimed /\ builder # k)
    /\ PackageFits(k)
    /\ package' = [package EXCEPT ![k] = [NoPackage EXCEPT !.status = "preparing",
                                                           !.bytes = EstimateOf[k]]]
    /\ UNCHANGED <<upload, builder, stray, crashes>>

\* An attempt begins, ...
claim_package_build(k) ==
    /\ builder = None /\ package[k].status = "preparing"
    /\ package' = [package EXCEPT ![k].leased = TRUE]
    /\ builder' = k
    /\ UNCHANGED <<upload, stray, crashes>>

\* ... or the attempts are used up: what the last one left is not known.
attempts_exhausted(k) ==
    /\ builder = None /\ package[k].status = "preparing"
    /\ package' = [package EXCEPT ![k].status = "failed", ![k].leased = FALSE]
    /\ UNCHANGED <<upload, builder, stray, crashes>>

\* The archive grows, but not beyond its reservation.
build_prepared_package(k) ==
    /\ builder = k /\ package[k].staging < EstimateOf[k] /\ Free > 0
    /\ package' = [package EXCEPT ![k].staging = @ + 1]
    /\ UNCHANGED <<upload, builder, stray, crashes>>

Dies == crashes < MaxCrashes /\ crashes' = crashes + 1

builder_dies(k) ==
    /\ builder = k /\ Dies
    /\ stray' = stray + package[k].staging
    /\ package' = [package EXCEPT ![k].staging = 0]
    /\ builder' = None
    /\ UNCHANGED upload

Owned(k) == package[k].status = "preparing" /\ package[k].leased

\* The limits are looked at once more before the archive takes its name.
Publishable(k) ==
    LET others == Packages \ {k} IN
    /\ PackageReserved(others) + package[k].staging <= MaxPackageStorage
    /\ Headroom(PendingReserved(others), 0)

publish_prepared_package(k) ==
    /\ builder = k /\ package[k].staging > 0 /\ Owned(k) /\ Publishable(k)
    /\ package' = [package EXCEPT ![k] =
         [NoPackage EXCEPT !.status = "ready", !.bytes = package[k].staging,
                           !.archive = package[k].staging]]
    /\ builder' = None
    /\ UNCHANGED <<upload, stray, crashes>>

\* The build raised, or the archive was refused above: it is discarded, if that
\* is possible, and another attempt is scheduled or the package has failed.
\* Space is given back only when the files are seen to be gone.
Recorded(k, discarded, status) ==
    LET gone == discarded /\ status = "failed" IN
    [package[k] EXCEPT !.status = status, !.leased = FALSE, !.staging = 0,
                       !.bytes = IF gone THEN 0 ELSE @, !.reclaimed = gone]

record_package_build_failure(k) ==
    /\ builder = k /\ Owned(k)
    /\ \E discarded \in BOOLEAN, status \in {"preparing", "failed"} :
          /\ IF discarded THEN UNCHANGED crashes ELSE Dies
          /\ package' = [package EXCEPT ![k] = Recorded(k, discarded, status)]
          /\ stray' = IF discarded THEN stray ELSE stray + package[k].staging
    /\ builder' = None
    /\ UNCHANGED upload

\* The row was taken away meanwhile: the artifact is discarded.
publish_skipped(k) ==
    /\ builder = k /\ ~Owned(k)
    /\ package' = [package EXCEPT ![k].staging = 0]
    /\ builder' = None
    /\ UNCHANGED <<upload, stray, crashes>>

\* A finalization in it is revoked, or a reuse finds the archive damaged.
withdraw_package(k) ==
    /\ ~package[k].reclaimed
    /\ \/ /\ package[k].status \in {"preparing", "ready", "failed", "expired"}
          /\ package' = [package EXCEPT ![k].status = "invalidated", ![k].leased = FALSE]
       \/ /\ package[k].status = "ready"
          /\ package' = [package EXCEPT ![k].status = "failed"]
    /\ UNCHANGED <<upload, builder, stray, crashes>>

\* The archive of a package whose time is over is deleted, then its row says so.
\* A row with a build lease stays as it is (ck_package_snapshots_build_lease).
delete_claimed_package_artifact(k) ==
    /\ package[k].status # "none" /\ package[k].archive > 0
    /\ package' = [package EXCEPT ![k].archive = 0]
    /\ UNCHANGED <<upload, builder, stray, crashes>>

Reclaimable(k) == package[k].status # "none" /\ ~package[k].leased
                  /\ package[k].archive = 0

_cleanup_claimed_expired_packages(k) ==
    /\ ~package[k].reclaimed /\ Reclaimable(k)
    /\ package' = [package EXCEPT ![k].status = "expired", ![k].bytes = 0,
                                  ![k].reclaimed = TRUE]
    /\ UNCHANGED <<upload, builder, stray, crashes>>

\* Staging files that no lease owns.
_cleanup_stale_package_staging ==
    /\ stray > 0 /\ stray' = 0
    /\ UNCHANGED <<upload, package, builder, crashes>>

-----------------------------------------------------------------------------

Init ==
    /\ upload = [u \in Uploads |-> NoUpload]
    /\ package = [k \in Packages |-> NoPackage]
    /\ builder = None /\ stray = 0 /\ crashes = 0

Next ==
    \/ \E u \in Uploads :
         \/ init_upload(u) \/ put_part(u) \/ finalize_claim(u) \/ finalizer_dies(u)
         \/ publish_completion(u) \/ prepare_abort(u)
         \/ cleanup_part_paths(u) \/ confirm_part_cleanup(u) \/ delete_file(u)
    \/ \E k \in Packages :
         \/ prepare_finalized_package(k) \/ claim_package_build(k)
         \/ attempts_exhausted(k) \/ build_prepared_package(k) \/ builder_dies(k)
         \/ publish_prepared_package(k) \/ record_package_build_failure(k)
         \/ publish_skipped(k) \/ withdraw_package(k)
         \/ delete_claimed_package_artifact(k) \/ _cleanup_claimed_expired_packages(k)
    \/ _cleanup_stale_package_staging

Spec == Init /\ [][Next]_vars

-----------------------------------------------------------------------------

\* Every file stays within what its session or package declared.
TypeOK ==
    /\ \A u \in Uploads : upload[u].parts \in 0 .. SizeOf[u]
                          /\ upload[u].file \in {0, SizeOf[u]}
    /\ \A k \in Packages : package[k].staging \in 0 .. EstimateOf[k]
                           /\ package[k].archive \in 0 .. EstimateOf[k]
    /\ stray \in Nat

\* What the admitted work may still write.
Unwritten ==
    Sum(LAMBDA u : IF upload[u].status \in {"receiving", "finalizing"}
                   THEN Reserved(u) - upload[u].parts - upload[u].file ELSE 0, Uploads)
    + Sum(LAMBDA k : IF package[k].status = "preparing"
                     THEN package[k].bytes - package[k].staging ELSE 0, Packages)

\* Staging files that no reservation covers: their writer died, or the package
\* was withdrawn under it.
Uncovered ==
    stray + Sum(LAMBDA k : IF Owned(k) THEN 0 ELSE package[k].staging, Packages)

\* Admitted work can be finished above the low watermark, whatever else is
\* admitted, finished or given up meanwhile (_reserve_upload_quota,
\* ensure_package_filesystem_headroom): only staging files that no reservation
\* covers may eat into it.
HeadroomIsKept == Free + Uncovered >= LowWatermark + Unwritten

\* Uploads that still take or hold parts are within the limits of
\* _reserve_upload_quota, and so are those of one principal; an abort that is
\* repeated makes a session count again, but it holds nothing.
UploadsWithinLimits ==
    LET live == {u \in Active : upload[u].status # "aborted" \/ upload[u].parts > 0}
        own(u) == {v \in live : OwnerOf[v] = OwnerOf[u]}
    IN  /\ Cardinality(live) <= MaxSessions
        /\ Sum(Reserved, live) <= MaxReserved
        /\ \A u \in live : Cardinality(own(u)) <= MaxOwnSessions
                           /\ Sum(Reserved, own(u)) <= MaxOwnReserved

\* Parts on disk belong to sessions that admission still counts
\* (parts_cleanup_confirmed_at is set after the parts are gone).
PartsAreCounted == \A u \in Uploads : upload[u].parts > 0 => u \in Active

\* Archives on disk, and the reservations of those not yet built, are within
\* max_package_storage_bytes through expiry, revocation and failed builds.
PackagesWithinQuota ==
    Sum(LAMBDA k : package[k].archive
                   + (IF package[k].status = "preparing" THEN package[k].bytes ELSE 0),
        Packages) <= MaxPackageStorage
=============================================================================
