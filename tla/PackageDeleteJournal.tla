------------------------ MODULE PackageDeleteJournal ------------------------
(***************************************************************************)
(* How the archive of one package is deleted (delete_claimed_package_      *)
(* artifact): it is moved into a private directory with a manifest that    *)
(* says what is being deleted, and unlinked there.  A deleter may die      *)
(* after any change of the file system; the next one recovers what it      *)
(* finds.  An archive is an inode; its strong identity is the inode, and   *)
(* Damaged are those whose bytes are not what the database recorded.       *)
(***************************************************************************)
EXTENDS Integers, FiniteSets

CONSTANTS
    Deleters,     \* workers and maintenance, each with a claim of its own
    Inodes,       \* archives that may come to be at the canonical name
    Damaged,
    Captured,     \* the identity a deletion intent has captured, or None
    LegacyStates, \* what an earlier release may have left in its journal
    MaxFaults,    \* deaths and exceptions of the file system
    MaxPublished, \* builders that publish late
    None

VARIABLES
    canonical, \* the inode at <package>.zip
    entry,     \* the journal directory of the package
    legacy,    \* the directory of the journal of earlier releases
    published, \* inodes that have been at the canonical name
    op,        \* what each deleter is doing
    faults

vars == <<canonical, entry, legacy, published, op, faults>>

\* A directory is known by its generation: it is removed and made again.
NoEntry == [gen |-> 0, lock |-> None, manifest |-> "none", ident |-> None,
            next |-> FALSE, target |-> None]
Made(g) == [NoEntry EXCEPT !.gen = g]
NoLegacy == [manifest |-> "none", ident |-> None, target |-> None]
Idle == [pc |-> "idle", gen |-> 0, old |-> FALSE, removed |-> FALSE, pin |-> None,
         answer |-> "none"]

Generations == {0, 1, 2}
Fresh == CHOOSE g \in Generations \ {0} :
            \A d \in Deleters : op[d].gen # g

Goto(d, pc) == op' = [op EXCEPT ![d].pc = pc]
Unlocked(d) == IF entry.lock = d THEN [entry EXCEPT !.lock = None] ELSE entry

\* An exception closes the descriptors, and the lock with them.
Raise(d) ==
    /\ op' = [op EXCEPT ![d] = Idle]
    /\ entry' = Unlocked(d)
    /\ UNCHANGED <<canonical, legacy, published, faults>>

Answer(d, answer) == op' = [op EXCEPT ![d] = [Idle EXCEPT !.answer = answer]]

-----------------------------------------------------------------------------
(* The directory *)

make_entry(d) ==
    /\ op[d].pc = "idle"
    /\ entry' = IF entry.gen = 0 THEN Made(Fresh) ELSE entry
    /\ op' = [op EXCEPT ![d] = [Idle EXCEPT !.pc = "open", !.old = entry.gen # 0]]
    /\ UNCHANGED <<canonical, legacy, published, faults>>

open_entry(d) ==
    /\ op[d].pc = "open" /\ entry.gen # 0
    /\ op' = [op EXCEPT ![d].pc = "lock", ![d].gen = entry.gen]
    /\ UNCHANGED <<canonical, entry, legacy, published, faults>>

\* The directory that was locked is still the one that bears the name.
_locked_entry_metadata(d) == entry.lock = None /\ entry.gen = op[d].gen

lock_entry(d) ==
    /\ op[d].pc = "lock" /\ _locked_entry_metadata(d)
    /\ entry' = [entry EXCEPT !.lock = d]
    /\ Goto(d, IF op[d].old THEN "recover" ELSE "legacy")
    /\ UNCHANGED <<canonical, legacy, published, faults>>

\* The directory is gone, locked by another, or another one.
entry_lost(d) ==
    /\ \/ op[d].pc = "open" /\ entry.gen = 0
       \/ op[d].pc = "lock" /\ ~_locked_entry_metadata(d)
    /\ Raise(d)

EntryIsEmpty == entry.target = None /\ entry.manifest = "none" /\ ~entry.next
_remove_empty_entry == EntryIsEmpty /\ entry' = NoEntry

-----------------------------------------------------------------------------
(* Recovery of what an earlier deleter left *)

\* No manifest: nothing was moved yet.
recover_unprepared(d) ==
    /\ op[d].pc = "recover" /\ entry.manifest = "none"
    /\ IF entry.next
       THEN entry' = [entry EXCEPT !.next = FALSE] /\ UNCHANGED op
       ELSE _remove_empty_entry /\ op' = [op EXCEPT ![d].pc = "remake", ![d].gen = 0]
    /\ UNCHANGED <<canonical, legacy, published, faults>>

\* The manifest is there and the target is not: it was not moved, or it was
\* deleted already.
Untouched == entry.manifest = "prepared" /\ canonical = entry.ident
recover_without_target(d) ==
    /\ op[d].pc = "recover" /\ entry.manifest # "none" /\ entry.target = None
    /\ entry.manifest = "prepared" => Untouched
    /\ op' = [op EXCEPT ![d].pc = "clear",
                        ![d].removed = @ \/ entry.manifest = "moved"]
    /\ UNCHANGED <<canonical, entry, legacy, published, faults>>

Recoverable ==
    /\ entry.target = entry.ident
    /\ entry.manifest = "prepared" => entry.target \notin Damaged

\* The target is what the manifest says: the manifest is promoted, ...
recover_target(d) ==
    /\ op[d].pc = "recover" /\ entry.target # None /\ Recoverable
    /\ IF entry.manifest = "prepared"
       THEN /\ entry' = [entry EXCEPT !.manifest = "moved", !.next = FALSE]
            /\ UNCHANGED op
       ELSE /\ entry' = [entry EXCEPT !.target = None]
            /\ op' = [op EXCEPT ![d].pc = "clear", ![d].removed = TRUE]
    /\ UNCHANGED <<canonical, legacy, published, faults>>

recover_refused(d) ==
    /\ op[d].pc = "recover" /\ entry.manifest # "none"
    /\ IF entry.target = None THEN entry.manifest = "prepared" /\ ~Untouched
                              ELSE ~Recoverable
    /\ Raise(d)

\* ... the manifests go, and the directory.
clear_manifest(d) ==
    /\ op[d].pc = "clear"
    /\ IF entry.manifest # "none"
       THEN entry' = [entry EXCEPT !.manifest = "none", !.ident = None,
                                   !.next = FALSE] /\ UNCHANGED op
       ELSE _remove_empty_entry /\ op' = [op EXCEPT ![d].pc = "remake", ![d].gen = 0]
    /\ UNCHANGED <<canonical, legacy, published, faults>>

\* The second mkdir must not find a directory.
remake_entry(d) ==
    /\ op[d].pc = "remake" /\ entry.gen = 0
    /\ entry' = Made(Fresh)
    /\ op' = [op EXCEPT ![d].pc = "open", ![d].old = FALSE]
    /\ UNCHANGED <<canonical, legacy, published, faults>>

remake_refused(d) == op[d].pc = "remake" /\ entry.gen # 0 /\ Raise(d)

-----------------------------------------------------------------------------
(* The journal of earlier releases *)

LegacyMoved == legacy.target # None
LegacyValid ==
    IF LegacyMoved
    THEN /\ legacy.target = legacy.ident
         /\ legacy.manifest = "prepared" => legacy.target \notin Damaged
    ELSE legacy.manifest = "prepared" => canonical = legacy.ident

_recover_legacy_package_delete(d) ==
    /\ op[d].pc = "legacy"
    /\ \/ /\ legacy.manifest = "none"
          /\ Goto(d, "pin") /\ UNCHANGED legacy
       \/ /\ legacy.manifest # "none" /\ LegacyValid
          /\ IF LegacyMoved /\ legacy.manifest = "prepared"
             THEN legacy' = [legacy EXCEPT !.manifest = "moved"] /\ UNCHANGED op
             ELSE IF LegacyMoved
             THEN legacy' = [legacy EXCEPT !.target = None]
                  /\ op' = [op EXCEPT ![d].removed = TRUE]
             ELSE legacy' = NoLegacy
                  /\ op' = [op EXCEPT ![d].pc = "pin",
                                      ![d].removed = @ \/ legacy.manifest = "moved"]
    /\ UNCHANGED <<canonical, entry, published, faults>>

legacy_refused(d) ==
    op[d].pc = "legacy" /\ legacy.manifest # "none" /\ ~LegacyValid /\ Raise(d)

-----------------------------------------------------------------------------
(* The deletion *)

Pinnable == canonical # None /\ Captured \in {None, canonical}

pin_target(d) ==
    /\ op[d].pc = "pin" /\ Pinnable
    /\ op' = [op EXCEPT ![d].pc = "prepare", ![d].pin = canonical]
    /\ UNCHANGED <<canonical, entry, legacy, published, faults>>

pin_refused(d) == op[d].pc = "pin" /\ canonical # None /\ ~Pinnable /\ Raise(d)

\* Nothing to delete: the answer tells what recovery found.
target_absent(d) ==
    /\ op[d].pc = "pin" /\ canonical = None
    /\ _remove_empty_entry
    /\ Answer(d, IF op[d].removed THEN "removed" ELSE "absent")
    /\ UNCHANGED <<canonical, legacy, published, faults>>

\* The directory was made anew by another deleter after this one's mkdir, and
\* is not empty: it is left for the next one to recover.
entry_in_use(d) ==
    /\ \/ op[d].pc = "pin" /\ canonical = None /\ ~EntryIsEmpty
       \/ op[d].pc = "prepare" /\ entry.next
    /\ Raise(d)

\* manifest.next is written and takes the manifest's name.
write_manifest(d) ==
    /\ \/ /\ op[d].pc = "prepare" /\ ~entry.next
          /\ entry' = [entry EXCEPT !.next = TRUE]
          /\ Goto(d, "prepared")
       \/ /\ op[d].pc = "prepared"
          /\ entry' = [entry EXCEPT !.next = FALSE, !.manifest = "prepared",
                                    !.ident = op[d].pin]
          /\ Goto(d, "move")
    /\ UNCHANGED <<canonical, legacy, published, faults>>

\* rename takes whatever is at the name now.
move_target(d) ==
    /\ op[d].pc = "move" /\ canonical # None
    /\ entry' = [entry EXCEPT !.target = canonical]
    /\ canonical' = None
    /\ Goto(d, "promote")
    /\ UNCHANGED <<legacy, published, faults>>

IsPinned_assumed(d) == TRUE
IsPinned(d) == entry.target = op[d].pin

promote_manifest(d) ==
    /\ op[d].pc = "promote" /\ IsPinned(d)
    /\ IF ~entry.next
       THEN entry' = [entry EXCEPT !.next = TRUE] /\ UNCHANGED op
       ELSE /\ entry' = [entry EXCEPT !.next = FALSE, !.manifest = "moved"]
            /\ Goto(d, "unlink")
    /\ UNCHANGED <<canonical, legacy, published, faults>>

promote_refused(d) == op[d].pc = "promote" /\ ~IsPinned(d) /\ Raise(d)

unlink_target(d) ==
    /\ op[d].pc = "unlink"
    /\ entry' = [entry EXCEPT !.target = None]
    /\ Goto(d, "finish")
    /\ UNCHANGED <<canonical, legacy, published, faults>>

\* Twice it is made sure that no archive has come back: before the manifest
\* goes and after the directory is gone.
clear_moved(d) ==
    /\ op[d].pc = "finish" /\ canonical = None
    /\ entry' = [entry EXCEPT !.manifest = "none", !.ident = None]
    /\ Goto(d, "rmdir")
    /\ UNCHANGED <<canonical, legacy, published, faults>>

remove_entry(d) ==
    /\ op[d].pc = "rmdir"
    /\ _remove_empty_entry
    /\ op' = [op EXCEPT ![d].pc = "answer", ![d].gen = 0]
    /\ UNCHANGED <<canonical, legacy, published, faults>>

answer_removed(d) ==
    /\ op[d].pc = "answer" /\ canonical = None
    /\ Answer(d, "removed")
    /\ UNCHANGED <<canonical, entry, legacy, published, faults>>

canonical_reappeared(d) ==
    op[d].pc \in {"finish", "answer"} /\ canonical # None /\ Raise(d)

-----------------------------------------------------------------------------
(* Environment *)

\* The deleter dies, or the file system raises.
deleter_dies(d) ==
    /\ op[d].pc # "idle" /\ faults < MaxFaults
    /\ faults' = faults + 1
    /\ op' = [op EXCEPT ![d] = Idle]
    /\ entry' = Unlocked(d)
    /\ UNCHANGED <<canonical, legacy, published>>

\* publish_prepared_package of a builder that was slow: os.replace.
publish_late(i) ==
    /\ i \notin published /\ Cardinality(published) <= MaxPublished
    /\ canonical' = i /\ published' = published \cup {i}
    /\ UNCHANGED <<entry, legacy, op, faults>>

-----------------------------------------------------------------------------

Init ==
    /\ entry = NoEntry /\ faults = 0
    /\ op = [d \in Deleters |-> Idle]
    /\ \E i \in (IF Captured = None THEN Inodes ELSE {Captured}), l \in LegacyStates :
          /\ published = {i}
          /\ legacy = IF l = "none" THEN NoLegacy
                      ELSE [manifest |-> IF l \in {"prepared", "renamed"}
                                         THEN "prepared" ELSE "moved",
                            ident |-> i,
                            target |-> IF l \in {"renamed", "moved"} THEN i ELSE None]
          /\ canonical = IF l \in {"none", "prepared"} THEN i ELSE None

DeleterStep(d) ==
    \/ make_entry(d) \/ open_entry(d) \/ lock_entry(d) \/ entry_lost(d)
    \/ recover_unprepared(d) \/ recover_without_target(d) \/ recover_target(d)
    \/ recover_refused(d) \/ clear_manifest(d) \/ remake_entry(d) \/ remake_refused(d)
    \/ _recover_legacy_package_delete(d) \/ legacy_refused(d)
    \/ pin_target(d) \/ pin_refused(d) \/ target_absent(d)
    \/ write_manifest(d) \/ move_target(d)
    \/ promote_manifest(d) \/ promote_refused(d) \/ unlink_target(d)
    \/ clear_moved(d) \/ remove_entry(d) \/ answer_removed(d)
    \/ canonical_reappeared(d) \/ entry_in_use(d)

Next ==
    \/ \E d \in Deleters : DeleterStep(d) \/ deleter_dies(d)
    \/ \E i \in Inodes : publish_late(i)

Spec == Init /\ [][Next]_vars

\* The claims of the package worker and of maintenance are taken up again and
\* again; a deleter that runs goes on.
FairSpec == Spec /\ \A d \in Deleters : WF_vars(DeleterStep(d))

-----------------------------------------------------------------------------

Present == {canonical, entry.target, legacy.target} \ {None}

\* One deleter at a time is past the lock, and only it changes the directory;
\* a target in the directory is never without a manifest.
TypeOK ==
    /\ canonical \in Inodes \cup {None}
    /\ \A d \in Deleters :
          op[d].pc \notin {"idle", "open", "lock", "remake", "answer"} => entry.lock = d
    /\ entry.target # None => entry.manifest # "none"
    /\ entry.gen = 0 => entry = NoEntry

\* Only what the manifest names is unlinked: an archive that a slow builder
\* publishes meanwhile is kept, at its name or in the journal.
UnlinksNamed ==
    \A i \in Present \ Present' :
       \/ canonical = i /\ canonical' \in Inodes \ {i}
       \/ entry.manifest = "moved" /\ entry.ident = i
       \/ legacy.manifest = "moved" /\ legacy.ident = i

\* With an intent, only the archive it has captured is deleted.
DeletesCaptured ==
    Captured # None =>
       \A i \in Present \ Present' :
          i = Captured \/ (canonical = i /\ canonical' \in Inodes \ {i})

\* A deleter that answers, whatever it had to recover, leaves no archive
\* anywhere: _cleanup_claimed_expired_packages may write the space off.
AnswersTruly ==
    \A d \in Deleters :
       op'[d].answer # "none" /\ op[d].answer = "none" =>
          Present' = {} /\ legacy' = NoLegacy

\* Whatever died on the way, the archive goes and the journal with it.
DeletionCompletes ==
    []<>(Present = {} /\ \E d \in Deleters : op[d].answer # "none")
=============================================================================
