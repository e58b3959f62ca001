-------------------------- MODULE DeleteQuarantine --------------------------
(***************************************************************************)
(* How one managed file is unlinked (PinnedRegularFile.unlink): what is at *)
(* its name is moved into a quarantine directory of its own, compared with *)
(* what was pinned, and unlinked there; what is something else goes back.  *)
(* A process may exit after any change of the file system, and             *)
(* recover_delete_quarantines resolves the entries it finds.               *)
(***************************************************************************)
EXTENDS Integers, FiniteSets

CONSTANTS
    Attempts,   \* calls of unlink; each has a quarantine entry of its own
    Inodes,
    ExitsAt,    \* where a process may exit
    MaxExits,
    MaxRaises,  \* exceptions of the file system
    MaxRewrites,\* files changed in place
    MaxOthers,  \* files put at the name by others
    None

VARIABLES
    name,    \* the inode at the file's name
    ctime,   \* change time of an inode: every rename, link and write moves it
    content, \* what an inode holds
    others,  \* inodes that were at the name
    entry,   \* the quarantine entry of each attempt
    op,      \* what each attempt does
    rec,     \* what the recovery does
    exits, raises, rewrites

vars == <<name, ctime, content, others, entry, op, rec, exits, raises, rewrites>>
env == <<others, exits, raises, rewrites>>

NoEntry == [made |-> FALSE, lock |-> None, manifest |-> "none", ino |-> None,
            ct |-> 0, fp |-> 0, next |-> FALSE, target |-> None]
NoOp == [pc |-> "new", ino |-> None, ct |-> 0, fp |-> 0, result |-> "none"]
NoRec == [pc |-> "idle", e |-> None, ct |-> 0]
Recovery == "recovery"

Touch(i) == ctime' = [ctime EXCEPT ![i] = @ + 1]
Goto(a, pc) == op' = [op EXCEPT ![a].pc = pc]
Return(a, r) == op' = [op EXCEPT ![a].pc = "done", ![a].result = r]

\* Where an exception leads: a moved target is restored, otherwise the entry
\* is cleared.
Handler(a) ==
    IF entry[a].target # None THEN "restore"
    ELSE IF entry[a].made THEN "clear" ELSE "raised"

-----------------------------------------------------------------------------
(* PinnedRegularFile.unlink *)

\* pin_regular_file: the strong identity of what is at the name.
pin_regular_file(a) ==
    /\ op[a].pc = "new" /\ name # None
    /\ op' = [op EXCEPT ![a].pc = "open", ![a].ino = name, ![a].ct = ctime[name]]
    /\ UNCHANGED <<name, ctime, content, entry, rec, env>>

_verify_identity(a) == name = op[a].ino /\ ctime[name] = op[a].ct

\* The file is opened, compared with the pin and fingerprinted.
open_target(a) ==
    /\ op[a].pc = "open"
    /\ IF name = None THEN Return(a, "missing")
       ELSE IF _verify_identity(a)
       THEN op' = [op EXCEPT ![a].pc = "mkdir", ![a].fp = content[name]]
       ELSE Goto(a, "raised")
    /\ UNCHANGED <<name, ctime, content, entry, rec, env>>

make_entry(a) ==
    /\ op[a].pc = "mkdir"
    /\ entry' = [entry EXCEPT ![a].made = TRUE]
    /\ Goto(a, "lock")
    /\ UNCHANGED <<name, ctime, content, rec, env>>

\* flock waits for the recovery to let go of the entry.
lock_entry(a) ==
    /\ op[a].pc = "lock" /\ entry[a].lock = None
    /\ entry' = [entry EXCEPT ![a].lock = a]
    /\ Goto(a, "manifest")
    /\ UNCHANGED <<name, ctime, content, rec, env>>

\* The manifest is created, then written.
write_manifest(a) ==
    /\ op[a].pc = "manifest"
    /\ IF entry[a].manifest = "none"
       THEN entry' = [entry EXCEPT ![a].manifest = "torn"] /\ UNCHANGED op
       ELSE /\ entry' = [entry EXCEPT ![a].manifest = "prepared", ![a].ino = op[a].ino,
                                      ![a].ct = op[a].ct, ![a].fp = op[a].fp]
            /\ Goto(a, "rename")
    /\ UNCHANGED <<name, ctime, content, rec, env>>

\* rename moves whatever is at the name now.
move_target(a) ==
    /\ op[a].pc = "rename"
    /\ IF name = None
       THEN Goto(a, "clear") /\ UNCHANGED <<name, ctime, entry>>
       ELSE /\ entry' = [entry EXCEPT ![a].target = name]
            /\ name' = None /\ Touch(name)
            /\ op' = [op EXCEPT ![a].pc = "validate",
                                ![a].ct = IF name = op[a].ino THEN ctime[name] + 1 ELSE @]
    /\ UNCHANGED <<content, rec, env>>

MovedIsPinned(a) ==
    LET i == op[a].ino IN entry[a].target = i /\ content[i] = op[a].fp

validate_target(a) ==
    /\ op[a].pc = "validate"
    /\ IF MovedIsPinned(a)
       THEN op' = [op EXCEPT ![a].pc = "next", ![a].ct = ctime[entry[a].target]]
       ELSE Goto(a, Handler(a))
    /\ UNCHANGED <<name, ctime, content, entry, rec, env>>

\* manifest.next takes the manifest's name and says the target was moved.
write_next(a) ==
    /\ op[a].pc = "next"
    /\ entry' = [entry EXCEPT ![a].next = TRUE]
    /\ Goto(a, "promote")
    /\ UNCHANGED <<name, ctime, content, rec, env>>

promote_manifest(a) ==
    /\ op[a].pc = "promote"
    /\ entry' = [entry EXCEPT ![a].next = FALSE, ![a].manifest = "moved",
                              ![a].ct = op[a].ct]
    /\ Goto(a, "final")
    /\ UNCHANGED <<name, ctime, content, rec, env>>

StillPinned(a) ==
    ctime[entry[a].target] = op[a].ct /\ content[entry[a].target] = op[a].fp

final_check(a) ==
    /\ op[a].pc = "final"
    /\ Goto(a, IF StillPinned(a) THEN "unlink" ELSE Handler(a))
    /\ UNCHANGED <<name, ctime, content, entry, rec, env>>

unlink_target(a) ==
    /\ op[a].pc = "unlink"
    /\ Touch(entry[a].target)
    /\ entry' = [entry EXCEPT ![a].target = None]
    /\ Goto(a, "unlinked")
    /\ UNCHANGED <<name, content, rec, env>>

\* The manifest goes, the lock is released, the directory goes.
remove_manifest(a) ==
    /\ op[a].pc = "unlinked"
    /\ entry' = [entry EXCEPT ![a].manifest = "none", ![a].lock = None]
    /\ Goto(a, "rmdir")
    /\ UNCHANGED <<name, ctime, content, rec, env>>

remove_entry(a) ==
    /\ op[a].pc = "rmdir"
    /\ entry' = [entry EXCEPT ![a] = NoEntry]
    /\ Return(a, "removed")
    /\ UNCHANGED <<name, ctime, content, rec, env>>

-----------------------------------------------------------------------------
(* The exception handler of unlink *)

\* os.link refuses a name that is taken: the target stays in the quarantine.
restore_target(a) ==
    /\ op[a].pc = "restore"
    /\ IF name = None
       THEN /\ name' = entry[a].target /\ Touch(entry[a].target)
            /\ Goto(a, "untarget") /\ UNCHANGED entry
       ELSE /\ Goto(a, "raised")
            /\ entry' = [entry EXCEPT ![a].lock = None]
            /\ UNCHANGED <<name, ctime>>
    /\ UNCHANGED <<content, rec, env>>

drop_restored(a) ==
    /\ op[a].pc = "untarget"
    /\ Touch(entry[a].target)
    /\ entry' = [entry EXCEPT ![a].target = None]
    /\ Goto(a, "clear")
    /\ UNCHANGED <<name, content, rec, env>>

\* Manifest, then manifest.next, then the directory.
clear_entry(a) ==
    /\ op[a].pc = "clear"
    /\ IF entry[a].manifest # "none"
       THEN entry' = [entry EXCEPT ![a].manifest = "none"] /\ UNCHANGED op
       ELSE /\ entry' = [entry EXCEPT ![a] = NoEntry]
            /\ Goto(a, "raised")
    /\ UNCHANGED <<name, ctime, content, rec, env>>

-----------------------------------------------------------------------------
(* recover_delete_quarantines *)

\* An entry whose delete is still running is skipped.
EntryIsFree(e) == entry[e].lock = None

\* What the manifest names: prepared forgives the change time.
Matches(e) ==
    LET i == entry[e].target IN
    /\ i = entry[e].ino /\ content[i] = entry[e].fp
    /\ entry[e].manifest = "prepared" \/ ctime[i] = entry[e].ct

\* manifest.next is created exclusively.
Promotable(e) == entry[e].manifest = "moved" \/ ~entry[e].next

\* Without a manifest, with one that is torn, or with another file as the
\* target, the entry is left as it is.
Resolvable(e) ==
    /\ entry[e].manifest \in {"prepared", "moved"}
    /\ entry[e].target = None \/ (Matches(e) /\ Promotable(e))

inspect_entry(e) ==
    /\ rec.pc = "idle" /\ entry[e].made /\ EntryIsFree(e) /\ Resolvable(e)
    /\ entry' = [entry EXCEPT ![e].lock = Recovery]
    /\ rec' = [e |-> e, ct |-> IF entry[e].target = None THEN 0 ELSE ctime[entry[e].target],
               pc |-> IF entry[e].target = None THEN "next"
                     ELSE IF entry[e].manifest = "prepared" THEN "create" ELSE "unlink"]
    /\ UNCHANGED <<name, ctime, content, op, env>>

recover_promote ==
    /\ rec.pc \in {"create", "promote"}
    /\ IF rec.pc = "create"
       THEN entry' = [entry EXCEPT ![rec.e].next = TRUE]
       ELSE entry' = [entry EXCEPT ![rec.e].next = FALSE, ![rec.e].manifest = "moved",
                                   ![rec.e].ct = rec.ct]
    /\ rec' = [rec EXCEPT !.pc = IF @ = "create" THEN "promote" ELSE "unlink"]
    /\ UNCHANGED <<name, ctime, content, op, env>>

\* A target that has changed since it was inspected is left.
recover_unlink ==
    /\ rec.pc = "unlink"
    /\ IF ctime[entry[rec.e].target] = rec.ct
       THEN /\ Touch(entry[rec.e].target)
            /\ entry' = [entry EXCEPT ![rec.e].target = None]
            /\ rec' = [rec EXCEPT !.pc = "next"]
       ELSE /\ entry' = [entry EXCEPT ![rec.e].lock = None]
            /\ rec' = NoRec /\ UNCHANGED ctime
    /\ UNCHANGED <<name, content, op, env>>

\* manifest.next, the manifest, and the directory go.
recover_clear ==
    /\ rec.pc \in {"next", "manifest", "rmdir"}
    /\ entry' = CASE rec.pc = "next" -> [entry EXCEPT ![rec.e].next = FALSE]
                  [] rec.pc = "manifest" -> [entry EXCEPT ![rec.e].manifest = "none"]
                  [] rec.pc = "rmdir" -> [entry EXCEPT ![rec.e] = NoEntry]
    /\ rec' = CASE rec.pc = "next" -> [rec EXCEPT !.pc = "manifest"]
                [] rec.pc = "manifest" -> [rec EXCEPT !.pc = "rmdir"]
                [] rec.pc = "rmdir" -> NoRec
    /\ UNCHANGED <<name, ctime, content, op, env>>

-----------------------------------------------------------------------------
(* Environment *)

Running(a) == op[a].pc \notin {"new", "done", "raised", "dead"}

process_exits(a) ==
    /\ Running(a) /\ op[a].pc \in ExitsAt /\ exits < MaxExits
    /\ Goto(a, "dead") /\ exits' = exits + 1
    /\ entry' = IF entry[a].lock = a THEN [entry EXCEPT ![a].lock = None] ELSE entry
    /\ UNCHANGED <<name, ctime, content, rec, others, raises, rewrites>>

recovery_exits ==
    /\ rec.pc # "idle" /\ rec.pc \in ExitsAt /\ exits < MaxExits
    /\ rec' = NoRec /\ exits' = exits + 1
    /\ entry' = [entry EXCEPT ![rec.e].lock = None]
    /\ UNCHANGED <<name, ctime, content, op, others, raises, rewrites>>

\* Any call of unlink may raise; the handler runs.
call_raises(a) ==
    /\ op[a].pc \in {"mkdir", "lock", "manifest", "rename", "validate", "next",
                     "promote", "final", "unlink"}
    /\ raises < MaxRaises
    /\ Goto(a, Handler(a)) /\ raises' = raises + 1
    /\ UNCHANGED <<name, ctime, content, entry, rec, others, exits, rewrites>>

\* A writer that holds the file open changes it in place.
rewrite_file(i) ==
    /\ rewrites < MaxRewrites
    /\ rewrites' = rewrites + 1
    /\ content' = [content EXCEPT ![i] = @ + 1] /\ Touch(i)
    /\ UNCHANGED <<name, entry, op, rec, others, exits, raises>>

\* Another file is created at the name (managed files are created exclusively).
put_other(i) ==
    /\ name = None /\ i \notin others /\ Cardinality(others) <= MaxOthers
    /\ name' = i /\ others' = others \cup {i}
    /\ UNCHANGED <<ctime, content, entry, op, rec, exits, raises, rewrites>>

-----------------------------------------------------------------------------

Init ==
    /\ name \in Inodes /\ others = {name}
    /\ ctime = [i \in Inodes |-> 0] /\ content = [i \in Inodes |-> 0]
    /\ entry = [a \in Attempts |-> NoEntry] /\ op = [a \in Attempts |-> NoOp]
    /\ rec = NoRec /\ exits = 0 /\ raises = 0 /\ rewrites = 0

UnlinkStep(a) ==
    \/ open_target(a) \/ make_entry(a) \/ lock_entry(a) \/ write_manifest(a)
    \/ move_target(a) \/ validate_target(a) \/ write_next(a) \/ promote_manifest(a)
    \/ final_check(a) \/ unlink_target(a) \/ remove_manifest(a) \/ remove_entry(a)
    \/ restore_target(a) \/ drop_restored(a) \/ clear_entry(a)

RecoveryStep ==
    (\E e \in Attempts : inspect_entry(e)) \/ recover_promote \/ recover_unlink
    \/ recover_clear

Next ==
    \/ \E a \in Attempts : pin_regular_file(a) \/ UnlinkStep(a) \/ process_exits(a)
                           \/ call_raises(a)
    \/ RecoveryStep \/ recovery_exits
    \/ \E i \in Inodes : rewrite_file(i) \/ put_other(i)

Spec == Init /\ [][Next]_vars

\* A call that runs goes on, and maintenance looks again and again.
FairSpec ==
    Spec /\ WF_vars(RecoveryStep) /\ \A a \in Attempts : WF_vars(UnlinkStep(a))

-----------------------------------------------------------------------------

Links(i) == {a \in Attempts : entry[a].target = i}
Present == {i \in Inodes : name = i \/ Links(i) # {}}

\* A target is never in an entry without a manifest that is whole, and only
\* the holder of the entry's lock works on it.
TypeOK ==
    /\ name \in Inodes \cup {None}
    /\ \A a \in Attempts :
          /\ entry[a].target # None => entry[a].manifest \in {"prepared", "moved"}
          /\ rec.e = a => entry[a].lock = Recovery
          /\ op[a].pc \in {"manifest", "rename", "validate", "next", "promote", "final",
                           "unlink"} => entry[a].lock = a

\* A file leaves the disk only if an unlink has pinned and opened it: one that
\* was put at the name meanwhile, and moved instead, is kept, at the name or
\* in quarantine.
RemovesPinned ==
    \A i \in Present \ Present' :
       \E a \in Attempts : op[a].ino = i /\ op[a].pc # "open"

\* Once unlink has answered True, no handler of another unlink that was
\* restoring the same file brings it back to its name.
RemovedStaysAway ==
    \A a \in Attempts : op[a].result = "removed" => name # op[a].ino

\* Nothing an unlink does, its handler included, takes the name from a file
\* that has come to be there after the pinned one was moved.
LeavesName ==
    \A i \in Inodes : name = i /\ name' # i =>
       \E a \in Attempts : entry'[a].target = i

\* A process that exits between the rename and the unlink leaves an entry
\* that maintenance resolves.
MovedIsResolved ==
    \A a \in Attempts :
       []<>(op[a].pc # "dead" \/ entry[a].target = None)
=============================================================================
