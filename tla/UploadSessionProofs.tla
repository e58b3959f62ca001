------------------------- MODULE UploadSessionProofs -------------------------
(***************************************************************************)
(* What an upload session guarantees for any number of puts, completions,  *)
(* aborts, processes and faults.  The invariant says where a recorded      *)
(* candidate stands, what a put may discard, which parts a completion      *)
(* works with and what the file that it links is made of.  Every step is   *)
(* shown to move the row, the puts, the disk, the requests, the files and  *)
(* the answers in one of a few ways, and those ways to keep the invariant. *)
(***************************************************************************)
EXTENDS UploadSession, TLAPS

USE Zenon

\* What the proofs need to know of the constants.
Configured == UploadConstants /\ SizesAdd

(*---------------------------- the invariant ------------------------------*)

Statuses == {"initiated", "receiving", "finalizing", "completed", "aborted"}
RowType == [present : BOOLEAN, status : Statuses,
            parts : [PartNos -> Puts \cup {None}],
            lease : Completes \cup {None}, file : Completes \cup {None},
            key : Keys \cup {None}, expired : BOOLEAN,
            output : Completes \cup {None}, confirmed : BOOLEAN, stale : BOOLEAN]
PutPcs == {"idle", "validated", "open", "written", "bound", "unsure", "cleaning", "done"}
OpPcs == {"idle", "admitted", "keyed", "claimed", "assembled", "linked", "pinned",
          "failing", "cleaning", "confirming", "done"}

PutType == [pc : PutPcs, max : Int, old : Puts \cup {None}]
OpType == [pc : OpPcs, pending : BOOLEAN, lease : Completes \cup {None},
           file : Completes \cup {None}, paths : SUBSET Puts,
           expect : {None, "completed", "aborted"}, answer : Completes \cup {None}]

TypeInv ==
    /\ row \in RowType
    /\ idem \in [Keys -> Completes \cup {None, "pending"}]
    /\ disk \in SUBSET Puts
    /\ files \in [Completes -> (SUBSET Puts) \cup {None}]
    /\ put \in [Puts -> PutType]
    /\ op \in [Ops -> OpType]
    /\ leases \in SUBSET Requests

\* The row has a lease and a file to be made while it is finalized, and an
\* output once it is completed.
RowInv ==
    /\ row.status = "finalizing" <=> row.lease # None
    /\ row.status = "finalizing" <=> row.file # None
    /\ row.status = "completed" <=> row.output # None
    /\ row.confirmed => row.status \in Terminal

\* A put whose commit was issued.
Committed == {"bound", "unsure", "done"}

\* A recorded candidate sits where its part belongs, and its put has been
\* committed: no put that has yet to commit can be recorded.
PartsInPlace ==
    \A n \in PartNos : row.parts[n] # None =>
        PartOf[row.parts[n]] = n /\ put[row.parts[n]].pc \in Committed

\* What a put is about to discard is not recorded, and never will be again.
Superseded(p) ==
    put[p].old # None =>
        /\ put[put[p].old].pc \in Committed
        /\ (put[p].pc = "bound" \/ row.parts[PartOf[p]] = p) =>
              put[p].old \notin Recorded
SupersededInv == \A p \in Puts : put[p].pc \in {"bound", "unsure"} => Superseded(p)

\* Whoever cleans up the parts of the row has seen it end.
CleanersInv ==
    \A o \in Ops : op[o].pc \in {"cleaning", "confirming"} /\ row.present =>
        row.status \in Terminal

PartsInv == PartsInPlace /\ SupersededInv /\ CleanersInv /\ RecordedPartsExist

\* A completion that has claimed the row and has neither published nor failed.
Working == {"claimed", "assembled", "linked", "pinned"}
Whole(parts) == Size(parts) = Declared /\ parts \cap Corrupt = {}

\* A completion that has yet to claim it.
Early == {"idle", "admitted", "keyed"}

\* A file id is that of the completion that made it up when it claimed the row.
Known(f) == \/ f \in {row.file, row.output} \/ files[f] # None
            \/ \E c \in Completes : op[c].file = f
IdsAreFresh ==
    \A f \in Completes : Known(f) => op[f].pc \notin Early

\* Completions that work on one file took the same parts for it: those that the
\* row still has if the file is the one that the row waits for.
WorkInv ==
    \A c \in Completes : op[c].pc \in Working =>
        /\ op[c].file \in Completes
        /\ \A p, q \in op[c].paths : PartOf[p] = PartOf[q] => p = q
        /\ row.file = op[c].file => op[c].paths = Recorded
        /\ \A d \in Completes : op[d].pc \in Working /\ op[d].file = op[c].file =>
              op[d].paths = op[c].paths
        /\ op[c].pc = "assembled" => Whole(op[c].paths)
        /\ op[c].pc = "pinned" /\ row.present /\ row.file = op[c].file =>
              files[op[c].file] # None

\* A file is whole and made of the parts of those who work on it.
FilesInv ==
    \A f \in Completes : files[f] # None =>
        /\ Whole(files[f])
        /\ \A c \in Completes : op[c].pc \in Working /\ op[c].file = f =>
              op[c].paths = files[f]
        /\ row.file = f => files[f] = Recorded

\* A key that has an answer has that of the row.
KeysInv ==
    \A k \in Keys : idem[k] \in Completes =>
        row.present /\ row.status = "completed" /\ row.output = idem[k]

FileInv == IdsAreFresh /\ WorkInv /\ FilesInv /\ CompletedIsWhole
AnswerInv == KeysInv /\ AnswersAgree

IInv == TypeInv /\ RowInv /\ PartsInv /\ FileInv /\ AnswerInv /\ PartsWithinDeclared
(*---------------------- what a step does to the row ----------------------*)

\* The part of the row that the invariant is about stays.
Touched ==
    /\ row'.present = row.present /\ row'.status = row.status
    /\ row'.parts = row.parts /\ row'.lease = row.lease /\ row'.file = row.file
    /\ row'.output = row.output /\ row'.confirmed = row.confirmed

\* A put binds its candidate.
Binds(p) ==
    /\ put[p].pc = "written" /\ put'[p].pc \in Committed
    /\ Bindable(p) /\ disk' = disk
    /\ row'.status = "receiving" /\ row'.parts = [row.parts EXCEPT ![PartOf[p]] = p]
    /\ row'.present = row.present /\ row'.lease = row.lease /\ row'.file = row.file
    /\ row'.output = row.output /\ row'.confirmed = row.confirmed

\* A completion claims the row, with the file that the row waits for if any.
Claims(c) ==
    /\ op[c].pc = "keyed" /\ op'[c].pc \notin Early
    /\ row.present /\ row.status \in {"initiated", "receiving", "finalizing"}
    /\ row'.status = "finalizing" /\ row'.lease = c
    /\ row'.file = IF row.status = "finalizing" THEN row.file ELSE c
    /\ row'.present = row.present /\ row'.parts = row.parts
    /\ row'.output = row.output /\ row'.confirmed = row.confirmed

\* A completion publishes its file.
Publishes(c) ==
    /\ op[c].pc = "pinned" /\ Publishable(c)
    /\ row'.status = "completed" /\ row'.output = op[c].file
    /\ row'.lease = None /\ row'.file = None
    /\ row'.present = row.present /\ row'.parts = row.parts
    /\ row'.confirmed = row.confirmed

\* The row is released or aborted.
Ends ==
    /\ row.present /\ row.status # "completed"
    /\ \/ row'.status = "aborted"
       \/ row.status = "finalizing" /\ row'.status = "receiving" /\ ~row'.confirmed
    /\ row'.lease = None /\ row'.file = None
    /\ row'.present = row.present /\ row'.parts = row.parts
    /\ row'.output = row.output

\* Parts of a row that has ended are taken off it, or the row is removed.
Trims ==
    /\ row.present /\ row.status \in Terminal
    /\ row'.present \/ row.output = None
    /\ row.confirmed => row'.confirmed
    /\ \A n \in PartNos : row'.parts[n] \in {row.parts[n], None}
    /\ row'.status = row.status /\ row'.lease = row.lease /\ row'.file = row.file
    /\ row'.output = row.output

RowMoves ==
    /\ row' \in RowType
    /\ \/ Touched \/ Ends \/ Trims
       \/ \E p \in Puts : Binds(p)
       \/ \E c \in Completes : Claims(c) \/ Publishes(c)

(*-------------------- what a step does to the others ---------------------*)

\* A commit is not taken back, and a put that has one remembers what it
\* superseded.
PutsMove ==
    /\ put' \in [Puts -> PutType]
    /\ \A p \in Puts :
        /\ put[p].pc \in Committed => put'[p].pc \in Committed
        /\ put'[p].pc \in {"bound", "unsure"} =>
              \/ put'[p].pc = put[p].pc /\ put'[p].old = put[p].old
              \/ /\ put[p].pc = "written" /\ put'[p].old = row.parts[PartOf[p]]
                 /\ (put'[p].pc = "unsure" /\ Touched) \/ Binds(p)

\* No candidate that the row counts on is removed.
DiskMoves ==
    /\ disk' \in SUBSET Puts
    /\ row.present /\ row.status \notin Terminal => Recorded \cap disk \subseteq disk'

\* Cleaners are those who were, and those who see the row end.
CleanersMove ==
    \A o \in Ops : op'[o].pc \in {"cleaning", "confirming"} =>
        \/ op[o].pc \in {"cleaning", "confirming"}
        \/ ~row'.present \/ row'.status \in Terminal

\* A completion takes the parts of the row, and the file that it waits for.
Takes(c) ==
    /\ op[c].pc = "keyed" /\ op'[c].pc = "claimed"
    /\ \A d \in Completes \ {c} : op'[d] = op[d]
    /\ op'[c].paths = Recorded
    /\ op'[c].file = IF row.status = "finalizing" THEN row.file ELSE c
    /\ row.status # "finalizing" => Claims(c)

\* It works on the file with those parts until it gives up or has published.
Works(c) ==
    /\ op'[c].pc \in Working => op[c].pc \in Working /\ op'[c].paths = op[c].paths
    /\ op'[c].pc = "assembled" => op[c].pc = "assembled" \/ Whole(op[c].paths)
    /\ op'[c].pc = "pinned" =>
          op[c].pc = "pinned" \/ Done(c) \/ files[op[c].file] # None
    /\ op'[c].file = op[c].file
    /\ op'[c].pc \in Early =>
          op[c].pc \in Early

OpsMove ==
    /\ op' \in [Ops -> OpType]
    /\ \A c \in Completes : Works(c) \/ Takes(c)

\* A file is linked when there is none, and removed when nothing refers to it.
FilesMove ==
    /\ files' \in [Completes -> (SUBSET Puts) \cup {None}]
    /\ \A f \in Completes :
        \/ files'[f] = files[f]
        \/ files'[f] = None /\ ~Referenced(f) /\ row' = row
        \/ /\ files[f] = None
           /\ \E c \in Completes : op[c].pc = "assembled" /\ op[c].file = f
                                   /\ files'[f] = op[c].paths

\* An answer is the output of a completed upload.
Answered(f) == row'.present /\ row'.status = "completed" /\ row'.output = f
AnswersMove ==
    /\ idem' \in [Keys -> Completes \cup {None, "pending"}]
    /\ \A k \in Keys : idem'[k] \in {idem[k], None, "pending"} \/ Answered(idem'[k])
    /\ \A c \in Completes : op'[c].answer \in {op[c].answer, None}
                            \/ Answered(op'[c].answer)

Moves == /\ RowMoves /\ PutsMove /\ DiskMoves /\ CleanersMove
         /\ OpsMove /\ FilesMove /\ AnswersMove /\ leases' \in SUBSET Requests

(*------------------------ the row and its parts --------------------------*)

LEMMA Constants ==
    ASSUME Configured
    PROVE  /\ None \notin Puts /\ None \notin Completes
           /\ "pending" \notin Completes /\ None # "pending"
           /\ \A p \in Puts : PartOf[p] \in PartNos
           /\ \A c \in Completes : KeyOf[c] \in Keys
  BY DEF Configured, UploadConstants, Requests, Ops

LEMMA RecordedType ==
    ASSUME TypeInv
    PROVE  /\ row.parts \in [PartNos -> Puts \cup {None}]
           /\ Recorded \in SUBSET Puts
  <1>1. row.parts \in [PartNos -> Puts \cup {None}]
    BY DEF TypeInv, RowType
  <1>2. QED
    BY <1>1 DEF Recorded

\* An upload that has ended does not start again, and a completed one stays.
LEMMA EndIsFinal ==
    ASSUME RowInv, RowMoves
    PROVE  /\ row'.present => row.present
           /\ row.status \in Terminal => row'.status \in Terminal
           /\ StaysCompleted
  <1>1. CASE Touched
    BY <1>1 DEF Touched, StaysCompleted
  <1>2. CASE Ends
    BY <1>2 DEF Ends, StaysCompleted, Terminal
  <1>3. CASE Trims
    BY <1>3 DEF Trims, StaysCompleted, RowInv
  <1>4. ASSUME NEW p \in Puts, Binds(p)
        PROVE  /\ row'.present => row.present
               /\ row.status \in Terminal => row'.status \in Terminal
               /\ StaysCompleted
    BY <1>4 DEF Binds, Bindable, Receives, Terminal, StaysCompleted
  <1>5. ASSUME NEW c \in Completes, Claims(c)
        PROVE  /\ row'.present => row.present
               /\ row.status \in Terminal => row'.status \in Terminal
               /\ StaysCompleted
    BY <1>5 DEF Claims, Terminal, StaysCompleted
  <1>6. ASSUME NEW c \in Completes, Publishes(c)
        PROVE  /\ row'.present => row.present
               /\ row.status \in Terminal => row'.status \in Terminal
               /\ StaysCompleted
    BY <1>6 DEF Publishes, Publishable, Terminal, StaysCompleted
  <1>7. QED
    BY <1>1, <1>2, <1>3, <1>4, <1>5, <1>6 DEF RowMoves

LEMMA RowInvStep ==
    ASSUME Configured, RowInv, RowMoves, TypeInv,
           \A c \in Completes : op[c].pc \in Working => op[c].file \in Completes
    PROVE  RowInv'
  <1> USE Constants
  <1>1. CASE Touched
    BY <1>1 DEF Touched, RowInv
  <1>2. CASE Ends
    BY <1>2 DEF Ends, RowInv, Terminal
  <1>3. CASE Trims
    BY <1>3 DEF Trims, RowInv, Terminal
  <1>4. ASSUME NEW p \in Puts, Binds(p) PROVE RowInv'
    BY <1>4 DEF Binds, Bindable, Receives, RowInv, Terminal
  <1>5. ASSUME NEW c \in Completes, Claims(c) PROVE RowInv'
    BY <1>5 DEF Claims, RowInv, Terminal
  <1>6. ASSUME NEW c \in Completes, Publishes(c) PROVE RowInv'
    <2>1. op[c].file # None
      BY <1>6 DEF Publishes, Working
    <2>2. QED
      BY <1>6, <2>1 DEF Publishes, Publishable, RowInv, Terminal
  <1>7. QED
    BY <1>1, <1>2, <1>3, <1>4, <1>5, <1>6 DEF RowMoves

\* The parts stay as they are, one is bound, or some are taken off.
LEMMA PartsOfRow ==
    ASSUME Configured, RowMoves, TypeInv
    PROVE  \/ row'.parts = row.parts
           \/ \E p \in Puts : Binds(p)
           \/ Trims /\ \A n \in PartNos : row'.parts[n] \in {row.parts[n], None}
  BY DEF RowMoves, Touched, Ends, Trims, Claims, Publishes

\* What is recorded was so before, or has just been bound.
LEMMA RecordedParts ==
    ASSUME Configured, RowMoves, TypeInv, NEW q \in Recorded'
    PROVE  q \in Recorded \/ (q \in Puts /\ Binds(q))
  <1>1. PICK n \in PartNos : q = row'.parts[n] /\ q # None
    BY DEF Recorded
  <1>2. CASE row'.parts = row.parts
    BY <1>1, <1>2 DEF Recorded
  <1>3. CASE \A m \in PartNos : row'.parts[m] \in {row.parts[m], None}
    BY <1>1, <1>3 DEF Recorded
  <1>4. ASSUME NEW p \in Puts, Binds(p)
        PROVE  q \in Recorded \/ (q \in Puts /\ Binds(q))
    <2>1. row.parts \in [PartNos -> Puts \cup {None}]
      BY DEF TypeInv, RowType
    <2>2. n # PartOf[p] => row'.parts[n] = row.parts[n]
      BY <1>4, <2>1 DEF Binds
    <2>3. n = PartOf[p] => row'.parts[n] = p
      BY <1>4, <2>1 DEF Binds
    <2>4. QED
      BY <1>1, <1>4, <2>2, <2>3 DEF Recorded
  <1>5. QED
    BY <1>2, <1>3, <1>4, PartsOfRow

LEMMA PartsInPlaceStep ==
    ASSUME Configured, TypeInv, PartsInPlace, RowMoves, PutsMove
    PROVE  PartsInPlace'
  <1> USE Constants
  <1> SUFFICES ASSUME NEW n \in PartNos, row'.parts[n] # None
               PROVE  /\ PartOf[row'.parts[n]] = n
                      /\ put'[row'.parts[n]].pc \in Committed
    BY DEF PartsInPlace
  <1>1. row.parts \in [PartNos -> Puts \cup {None}]
    BY DEF TypeInv, RowType
  <1>2. CASE row'.parts[n] = row.parts[n]
    <2>1. row.parts[n] \in Puts
      BY <1>1, <1>2
    <2>2. PartOf[row.parts[n]] = n /\ put[row.parts[n]].pc \in Committed
      BY <1>2 DEF PartsInPlace
    <2>3. QED
      BY <1>2, <2>1, <2>2 DEF PutsMove
  <1>3. ASSUME NEW p \in Puts, Binds(p), row'.parts[n] # row.parts[n]
        PROVE  /\ PartOf[row'.parts[n]] = n
               /\ put'[row'.parts[n]].pc \in Committed
    <2>1. n = PartOf[p] /\ row'.parts[n] = p
      BY <1>1, <1>3 DEF Binds
    <2>2. QED
      BY <1>3, <2>1 DEF Binds
  <1>4. QED
    BY <1>2, <1>3, PartsOfRow

\* A put that has yet to commit is not recorded.
LEMMA WrittenIsNotRecorded ==
    ASSUME PartsInPlace, NEW p \in Puts, put[p].pc \notin Committed
    PROVE  p \notin Recorded
  BY DEF PartsInPlace, Recorded

\* Where a recorded candidate is recorded.
LEMMA RecordedAt ==
    ASSUME PartsInPlace, NEW q \in Recorded
    PROVE  PartOf[q] \in PartNos /\ row.parts[PartOf[q]] = q /\ q # None
  BY DEF PartsInPlace, Recorded

\* What a put has superseded stays off the row.
LEMMA SupersededStep ==
    ASSUME Configured, TypeInv, PartsInPlace, SupersededInv, RowMoves, PutsMove
    PROVE  SupersededInv'
  <1> USE Constants
  <1> SUFFICES ASSUME NEW p \in Puts, put'[p].pc \in {"bound", "unsure"},
                      put'[p].old # None
               PROVE  /\ put'[put'[p].old].pc \in Committed
                      /\ (put'[p].pc = "bound" \/ row'.parts[PartOf[p]] = p) =>
                            put'[p].old \notin Recorded'
    BY DEF SupersededInv, Superseded
  <1>1. row.parts \in [PartNos -> Puts \cup {None}]
    BY DEF TypeInv, RowType
  <1>2. put'[p].old \in Puts
    BY DEF PutsMove, PutType
  <1>3. PartsInPlace'
    BY PartsInPlaceStep
  <1>4. CASE put'[p].pc = put[p].pc /\ put'[p].old = put[p].old
    <2>1. Superseded(p) /\ put[put[p].old].pc \in Committed
      BY <1>4 DEF SupersededInv, Superseded
    <2>2. put'[put'[p].old].pc \in Committed
      BY <1>2, <1>4, <2>1 DEF PutsMove
    <2>3. ASSUME put'[p].pc = "bound" \/ row'.parts[PartOf[p]] = p,
                 put'[p].old \in Recorded'
          PROVE  FALSE
      <3>1. ~Binds(put'[p].old)
        BY <1>4, <2>1 DEF Binds, Committed
      <3>2. put[p].old \in Recorded
        BY <1>4, <2>3, <3>1, RecordedParts
      <3>3. put[p].pc = "unsure" /\ row'.parts[PartOf[p]] = p /\ row.parts[PartOf[p]] # p
        BY <1>4, <2>1, <2>3, <3>2 DEF Superseded
      <3>4. p \in Recorded'
        BY <3>3 DEF Recorded
      <3>5. Binds(p) \/ p \in Recorded
        BY <3>4, RecordedParts
      <3>6. QED
        BY <3>3, <3>5, RecordedAt DEF Binds
    <2>4. QED
      BY <2>2, <2>3
  <1>5. CASE /\ put[p].pc = "written" /\ put'[p].old = row.parts[PartOf[p]]
             /\ Touched
    <2>1. put'[put'[p].old].pc \in Committed
      BY <1>2, <1>5 DEF PartsInPlace, PutsMove
    <2>2. p \notin Recorded
      BY <1>5, WrittenIsNotRecorded DEF Committed
    <2>3. row'.parts[PartOf[p]] # p
      BY <1>5, <2>2 DEF Touched, Recorded
    <2>4. put'[p].pc # "bound" \/ Binds(p)
      BY <1>5 DEF PutsMove
    <2>5. ~Binds(p)
      BY <1>1, <1>5, <2>3 DEF Binds, Touched
    <2>6. QED
      BY <2>1, <2>3, <2>4, <2>5
  <1>6. CASE /\ put[p].pc = "written" /\ put'[p].old = row.parts[PartOf[p]]
             /\ Binds(p)
    <2>1. put'[put'[p].old].pc \in Committed
      BY <1>2, <1>6 DEF PartsInPlace, PutsMove
    <2>2. put'[p].old # p
      BY <1>6, WrittenIsNotRecorded DEF Recorded, Committed
    <2>3. row'.parts[PartOf[p]] = p
      BY <1>1, <1>6 DEF Binds
    <2>4. PartOf[put'[p].old] = PartOf[p]
      BY <1>6 DEF PartsInPlace
    <2>5. ASSUME NEW n \in PartNos PROVE row'.parts[n] # put'[p].old
      <3>1. row'.parts[n] # None => PartOf[row'.parts[n]] = n
        BY <1>3 DEF PartsInPlace
      <3>2. row'.parts[PartOf[p]] # put'[p].old
        BY <2>2, <2>3
      <3>3. QED
        BY <2>4, <3>1, <3>2
    <2>6. QED
      BY <2>1, <2>5 DEF Recorded
  <1>7. QED
    BY <1>4, <1>5, <1>6 DEF PutsMove

LEMMA CleanersStep ==
    ASSUME RowInv, RowMoves, CleanersInv, CleanersMove
    PROVE  CleanersInv'
  BY EndIsFinal DEF CleanersInv, CleanersMove

LEMMA RecordedExistStep ==
    ASSUME Configured, TypeInv, RowInv, RecordedPartsExist, RowMoves, DiskMoves
    PROVE  RecordedPartsExist'
  <1> SUFFICES ASSUME row'.present, row'.status \notin Terminal, NEW q \in Recorded'
               PROVE  q \in disk'
    BY DEF RecordedPartsExist
  <1>1. row.present /\ row.status \notin Terminal
    BY EndIsFinal
  <1>2. CASE q \in Recorded
    BY <1>1, <1>2 DEF RecordedPartsExist, DiskMoves
  <1>3. CASE q \in Puts /\ Binds(q)
    BY <1>3 DEF Binds, Bindable
  <1>4. QED
    BY <1>2, <1>3, RecordedParts

LEMMA PartsInvStep ==
    ASSUME Configured, TypeInv, RowInv, PartsInv, RowMoves, PutsMove, DiskMoves,
           CleanersMove
    PROVE  PartsInv'
  BY PartsInPlaceStep, SupersededStep, CleanersStep, RecordedExistStep DEF PartsInv

\* A bound part takes the room of the one that it supersedes.
LEMMA DeclaredStep ==
    ASSUME Configured, TypeInv, PartsInPlace, PartsWithinDeclared, RowMoves, PutsMove
    PROVE  PartsWithinDeclared'
  <1> USE Constants
  <1>1. row.parts \in [PartNos -> Puts \cup {None}]
    BY RecordedType
  <1>2. Recorded \in SUBSET Puts
    BY RecordedType
  <1>3. ASSUME Recorded' \subseteq Recorded PROVE PartsWithinDeclared'
    <2>1. Size(Recorded) \in Nat /\ Size(Recorded') \in Nat
      BY <1>2, <1>3 DEF Configured, SizesAdd
    <2>2. Size(Recorded') <= Size(Recorded)
      BY <1>2, <1>3 DEF Configured, SizesAdd
    <2>3. Declared \in Nat
      BY DEF Configured, UploadConstants
    <2>4. QED
      BY <2>1, <2>2, <2>3, SMT DEF PartsWithinDeclared
  <1>4. ASSUME NEW p \in Puts, Binds(p) PROVE PartsWithinDeclared'
    <2> DEFINE kept == Recorded \ {row.parts[PartOf[p]]}
    <2>1. row'.parts = [row.parts EXCEPT ![PartOf[p]] = p]
      BY <1>4 DEF Binds
    <2>2. p \notin Recorded
      BY <1>4, WrittenIsNotRecorded DEF Binds, Committed
    <2>3. Recorded' \subseteq kept \cup {p}
      <3> SUFFICES ASSUME NEW n \in PartNos, row'.parts[n] # None,
                          row'.parts[n] # p
                   PROVE  row'.parts[n] \in kept
        BY DEF Recorded
      <3>1. row'.parts[n] = row.parts[n] /\ n # PartOf[p]
        BY <1>1, <2>1
      <3>2. row.parts[n] # row.parts[PartOf[p]]
        BY <3>1 DEF PartsInPlace
      <3>3. QED
        BY <3>1, <3>2 DEF Recorded
    <2>4. kept \in SUBSET Puts /\ p \in Puts \ kept
      BY <1>2, <2>2
    <2>5. kept \cup {p} \in SUBSET Puts /\ Recorded' \in SUBSET (kept \cup {p})
      BY <2>3, <2>4
    <2> HIDE DEF kept
    <2>6. Size(kept \cup {p}) = Size(kept) + SizeOf[p]
      BY <2>4 DEF Configured, SizesAdd
    <2>7. Size(Recorded') <= Size(kept \cup {p})
      BY <2>5 DEF Configured, SizesAdd
    <2>8. Size(kept) \in Nat /\ Size(kept \cup {p}) \in Nat /\ Size(Recorded') \in Nat
      BY <2>4, <2>5 DEF Configured, SizesAdd
    <2>9. SizeOf[p] \in Nat /\ Declared \in Nat
      BY SMT DEF Configured, UploadConstants
    <2>10. SizeOf[p] <= Declared - Size(kept)
      BY <1>4 DEF Binds, Bindable, Remaining, kept
    <2>11. Size(Recorded') <= Declared
      BY <2>6, <2>7, <2>8, <2>9, <2>10, SMT
    <2>12. QED
      BY <2>11 DEF PartsWithinDeclared
  <1>5. CASE \A n \in PartNos : row'.parts[n] \in {row.parts[n], None}
    BY <1>3, <1>5 DEF Recorded
  <1>6. CASE row'.parts = row.parts
    BY <1>3, <1>6 DEF Recorded
  <1>7. QED
    BY <1>4, <1>5, <1>6, PartsOfRow

(*------------------------------ the files --------------------------------*)

\* The file that the row waits for is the one it waited for, with the parts it
\* had, or that of a completion that has just claimed it.
LEMMA RowFile ==
    ASSUME Configured, TypeInv, RowInv, RowMoves, row'.file # None
    PROVE  /\ Recorded' = Recorded
           /\ \/ row'.file = row.file
              \/ \E c \in Completes : Claims(c) /\ row'.file = c
  <1> USE Constants
  <1>1. CASE Touched
    BY <1>1 DEF Touched, Recorded
  <1>2. CASE Ends
    BY <1>2 DEF Ends
  <1>3. CASE Trims
    BY <1>3 DEF Trims, RowInv, Terminal
  <1>4. ASSUME NEW p \in Puts, Binds(p) PROVE FALSE
    BY <1>4 DEF Binds, Bindable, Receives, RowInv
  <1>5. ASSUME NEW c \in Completes, Claims(c)
        PROVE  /\ Recorded' = Recorded
               /\ row'.file = row.file \/ row'.file = c
    BY <1>5, ZenonT(40) DEF Claims, Recorded
  <1>6. ASSUME NEW c \in Completes, Publishes(c) PROVE FALSE
    BY <1>6 DEF Publishes
  <1>7. QED
    BY <1>1, <1>2, <1>3, <1>4, <1>5, <1>6 DEF RowMoves

\* A file that is known has been made up: nobody makes it up again.
LEMMA KnownIsNotClaimed ==
    ASSUME IdsAreFresh, NEW f \in Completes, Known(f)
    PROVE  ~Claims(f) /\ ~Takes(f)
  BY DEF IdsAreFresh, Claims, Takes, Early

\* A known file that the row waits for is the one it waited for.
LEMMA RowFileKnown ==
    ASSUME Configured, TypeInv, RowInv, RowMoves, IdsAreFresh,
           NEW f \in Completes, Known(f), row'.file = f
    PROVE  row.file = f /\ Recorded' = Recorded
  BY RowFile, KnownIsNotClaimed, Constants

LEMMA RowOutput ==
    ASSUME RowMoves
    PROVE  \/ row'.output = row.output
           \/ \E c \in Completes : Publishes(c) /\ row'.output = op[c].file
  BY DEF RowMoves, Touched, Ends, Trims, Binds, Claims, Publishes

LEMMA IdsStep ==
    ASSUME Configured, TypeInv, RowInv, IdsAreFresh, RowMoves, OpsMove, FilesMove
    PROVE  IdsAreFresh'
  <1> USE Constants
  <1> SUFFICES ASSUME NEW f \in Completes, Known(f)'
               PROVE  op'[f].pc \notin Early
    BY DEF IdsAreFresh
  <1>1. CASE Known(f)
    <2>1. Works(f)
      BY <1>1, KnownIsNotClaimed DEF OpsMove
    <2>2. QED
      BY <1>1, <2>1 DEF IdsAreFresh, Works
  <1>2. CASE row'.file = f
    <2>1. row.file = f \/ Claims(f)
      BY <1>2, RowFile
    <2>2. QED
      BY <1>1, <2>1 DEF Known, Claims, Early
  <1>3. CASE row'.output = f
    BY <1>1, <1>3, RowOutput DEF Known
  <1>4. CASE files'[f] # None
    BY <1>1, <1>4 DEF FilesMove, Known
  <1>5. ASSUME NEW c \in Completes, op'[c].file = f
        PROVE  op'[f].pc \notin Early
    <2>1. CASE Works(c)
      BY <1>1, <1>5, <2>1 DEF Works, Known
    <2>2. CASE Takes(c)
      <3>1. row.file = f \/ c = f
        BY <1>5, <2>2 DEF Takes
      <3>2. QED
        BY <1>1, <2>2, <3>1 DEF Takes, Known, Early
    <2>3. QED
      BY <2>1, <2>2 DEF OpsMove
  <1>6. QED
    BY <1>2, <1>3, <1>4, <1>5 DEF Known

\* What is referred to and there stays.
LEMMA FileStays ==
    ASSUME FilesMove, NEW f \in Completes, files[f] # None, Referenced(f)
    PROVE  files'[f] = files[f]
  BY DEF FilesMove

\* Who works on a file in the next state does so with the same parts as who
\* works on it now.
LEMMA SameParts ==
    ASSUME Configured, TypeInv, RowInv, IdsAreFresh, WorkInv, OpsMove,
           NEW c \in Completes, op[c].pc \in Working,
           NEW d \in Completes, op'[d].pc \in Working, op'[d].file = op[c].file
    PROVE  op'[d].paths = op[c].paths
  <1>1. CASE Works(d)
    BY <1>1 DEF Works, WorkInv
  <1>2. CASE Takes(d)
    <2>1. op[c].file \in Completes
      BY DEF WorkInv
    <2>2. Known(op[c].file)
      BY DEF Known
    <2>3. op[c].file # d
      BY <1>2, <2>1, <2>2, KnownIsNotClaimed
    <2>4. row.file = op[c].file
      BY <1>2, <2>3 DEF Takes
    <2>5. QED
      BY <1>2, <2>4 DEF Takes, WorkInv
  <1>3. QED
    BY <1>1, <1>2 DEF OpsMove

LEMMA WorkStep ==
    ASSUME Configured, TypeInv, RowInv, PartsInPlace, IdsAreFresh, WorkInv,
           RowMoves, OpsMove, FilesMove
    PROVE  WorkInv'
  <1> USE Constants
  <1> SUFFICES ASSUME NEW c \in Completes, op'[c].pc \in Working
               PROVE  /\ op'[c].file \in Completes
                      /\ \A p, q \in op'[c].paths : PartOf[p] = PartOf[q] => p = q
                      /\ row'.file = op'[c].file => op'[c].paths = Recorded'
                      /\ \A d \in Completes :
                            op'[d].pc \in Working /\ op'[d].file = op'[c].file =>
                              op'[d].paths = op'[c].paths
                      /\ op'[c].pc = "assembled" => Whole(op'[c].paths)
                      /\ op'[c].pc = "pinned" /\ row'.present
                         /\ row'.file = op'[c].file => files'[op'[c].file] # None
    BY DEF WorkInv, Whole
  <1>1. CASE Works(c)
    <2>1. /\ op[c].pc \in Working /\ op'[c].paths = op[c].paths
          /\ op'[c].file = op[c].file
      BY <1>1 DEF Works
    <2>2. /\ op[c].file \in Completes
          /\ \A p, q \in op[c].paths : PartOf[p] = PartOf[q] => p = q
          /\ row.file = op[c].file => op[c].paths = Recorded
          /\ op[c].pc = "assembled" => Whole(op[c].paths)
          /\ op[c].pc = "pinned" /\ row.present /\ row.file = op[c].file =>
                files[op[c].file] # None
      BY <2>1 DEF WorkInv
    <2>3. Known(op[c].file)
      BY DEF Known
    <2>4. row'.file = op[c].file => row.file = op[c].file /\ Recorded' = Recorded
      BY <2>2, <2>3, RowFileKnown
    <2>5. \A d \in Completes : op'[d].pc \in Working /\ op'[d].file = op'[c].file =>
            op'[d].paths = op'[c].paths
      BY <2>1, SameParts
    <2>6. op'[c].pc = "assembled" => Whole(op[c].paths)
      BY <1>1, <2>2 DEF Works
    <2>7. ASSUME op'[c].pc = "pinned", row'.present, row'.file = op[c].file
          PROVE  files'[op[c].file] # None
      <3>1. row.present /\ row.file = op[c].file
        BY <2>4, <2>7, EndIsFinal
      <3>2. ~Done(c)
        BY <2>2, <3>1 DEF Done, RowInv
      <3>3. files[op[c].file] # None
        BY <1>1, <2>2, <2>7, <3>1, <3>2 DEF Works
      <3>4. QED
        BY <2>2, <3>1, <3>3, FileStays DEF Referenced
    <2>8. QED
      BY <2>1, <2>2, <2>4, <2>5, <2>6, <2>7
  <1>2. CASE Takes(c)
    <2>1. /\ op[c].pc = "keyed" /\ op'[c].pc = "claimed" /\ op'[c].paths = Recorded
          /\ \A d \in Completes \ {c} : op'[d] = op[d]
      BY <1>2 DEF Takes
    <2>2. row.status = "finalizing" => row.file \in Completes
      BY DEF TypeInv, RowType, RowInv
    <2>3. op'[c].file \in Completes
      BY <1>2, <2>2 DEF Takes
    <2>4. \A p, q \in Recorded : PartOf[p] = PartOf[q] => p = q
      BY RecordedAt
    <2>5. row'.file = op'[c].file => Recorded' = Recorded
      BY <2>3, RowFile
    <2>6. ASSUME NEW d \in Completes, op'[d].pc \in Working,
                 op'[d].file = op'[c].file, d # c
          PROVE  op'[d].paths = op'[c].paths
      <3>1. op'[d] = op[d]
        BY <2>1, <2>6
      <3>2. QED
        BY <2>6, <3>1, SameParts
    <2>7. QED
      BY <2>1, <2>3, <2>4, <2>5, <2>6
  <1>3. QED
    BY <1>1, <1>2 DEF OpsMove

LEMMA FilesStep ==
    ASSUME Configured, TypeInv, RowInv, IdsAreFresh, WorkInv, FilesInv,
           RowMoves, OpsMove, FilesMove
    PROVE  FilesInv'
  <1> USE Constants
  <1> SUFFICES ASSUME NEW f \in Completes, files'[f] # None
               PROVE  /\ Whole(files'[f])
                      /\ \A c \in Completes : op'[c].pc \in Working /\ op'[c].file = f =>
                            op'[c].paths = files'[f]
                      /\ row'.file = f => files'[f] = Recorded'
    BY DEF FilesInv, Whole
  <1>1. CASE files'[f] = files[f]
    <2>1. /\ Whole(files[f])
          /\ \A c \in Completes : op[c].pc \in Working /\ op[c].file = f =>
                op[c].paths = files[f]
          /\ row.file = f => files[f] = Recorded
      BY <1>1 DEF FilesInv
    <2>2. Known(f)
      BY <1>1 DEF Known
    <2>3. row'.file = f => row.file = f /\ Recorded' = Recorded
      BY <2>2, RowFileKnown
    <2>4. ASSUME NEW c \in Completes, op'[c].pc \in Working, op'[c].file = f
          PROVE  op'[c].paths = files[f]
      <3>1. CASE Works(c)
        BY <2>1, <2>4, <3>1 DEF Works
      <3>2. CASE Takes(c)
        <4>1. c # f
          BY <2>2, <3>2, KnownIsNotClaimed
        <4>2. QED
          BY <2>1, <2>4, <3>2, <4>1 DEF Takes
      <3>3. QED
        BY <3>1, <3>2 DEF OpsMove
    <2>5. QED
      BY <1>1, <2>1, <2>3, <2>4
  <1>2. ASSUME NEW c \in Completes, op[c].pc = "assembled", op[c].file = f,
               files'[f] = op[c].paths
        PROVE  /\ Whole(files'[f])
               /\ \A d \in Completes : op'[d].pc \in Working /\ op'[d].file = f =>
                     op'[d].paths = files'[f]
               /\ row'.file = f => files'[f] = Recorded'
    <2>1. op[c].pc \in Working
      BY <1>2 DEF Working
    <2>2. Whole(op[c].paths) /\ (row.file = f => op[c].paths = Recorded)
      BY <1>2, <2>1 DEF WorkInv
    <2>3. \A d \in Completes : op'[d].pc \in Working /\ op'[d].file = f =>
            op'[d].paths = op[c].paths
      BY <1>2, <2>1, SameParts
    <2>4. Known(f)
      BY <1>2 DEF Known
    <2>5. row'.file = f => row.file = f /\ Recorded' = Recorded
      BY <2>4, RowFileKnown
    <2>6. QED
      BY <1>2, <2>2, <2>3, <2>5
  <1>3. QED
    BY <1>1, <1>2 DEF FilesMove

LEMMA WholeStep ==
    ASSUME Configured, TypeInv, RowInv, IdsAreFresh, WorkInv, FilesInv,
           CompletedIsWhole, RowMoves, OpsMove, FilesMove
    PROVE  CompletedIsWhole'
  <1> USE Constants
  <1> SUFFICES ASSUME row'.present, row'.status = "completed"
               PROVE  /\ files'[row'.output] # None
                      /\ Whole(files'[row'.output])
                      /\ row'.confirmed \/ Recorded' \subseteq files'[row'.output]
    BY DEF CompletedIsWhole, Whole
  <1>1. CASE row.present /\ row.status = "completed"
    <2>1. /\ files[row.output] # None /\ Whole(files[row.output])
          /\ row.confirmed \/ Recorded \subseteq files[row.output]
      BY <1>1 DEF CompletedIsWhole, Whole
    <2>2. row.output \in Completes
      BY <1>1 DEF RowInv, TypeInv, RowType
    <2>3. row'.output = row.output
      BY <1>1, EndIsFinal DEF StaysCompleted
    <2>4. files'[row.output] = files[row.output]
      BY <1>1, <2>1, <2>2, FileStays DEF Referenced
    <2>5. \A p \in Puts : ~Binds(p)
      BY <1>1 DEF Binds, Bindable, Receives
    <2>6. Recorded' \subseteq Recorded
      BY <2>5, RecordedParts
    <2>7. row.confirmed => row'.confirmed
      BY <1>1, <2>5 DEF RowMoves, Touched, Ends, Trims, Claims, Publishes, Publishable
    <2>8. QED
      BY <2>1, <2>3, <2>4, <2>6, <2>7
  <1>2. ASSUME NEW c \in Completes, Publishes(c)
        PROVE  /\ files'[row'.output] # None
               /\ Whole(files'[row'.output])
               /\ row'.confirmed \/ Recorded' \subseteq files'[row'.output]
    <2>1. /\ op[c].pc = "pinned" /\ row.present /\ row.file = op[c].file
          /\ row'.output = op[c].file /\ row'.parts = row.parts
      BY <1>2 DEF Publishes, Publishable
    <2>2. op[c].file \in Completes /\ files[op[c].file] # None
      BY <2>1 DEF WorkInv, Working
    <2>3. files'[op[c].file] = files[op[c].file]
      BY <2>1, <2>2, FileStays DEF Referenced
    <2>4. Whole(files[op[c].file]) /\ files[op[c].file] = Recorded
      BY <2>1, <2>2 DEF FilesInv
    <2>5. Recorded' = Recorded
      BY <2>1 DEF Recorded
    <2>6. QED
      BY <2>1, <2>2, <2>3, <2>4, <2>5
  <1>3. (row.present /\ row.status = "completed") \/ \E c \in Completes : Publishes(c)
    BY DEF RowMoves, Touched, Ends, Trims, Claims, Binds
  <1>4. QED
    BY <1>1, <1>2, <1>3

LEMMA FileInvStep ==
    ASSUME Configured, TypeInv, RowInv, PartsInPlace, FileInv,
           RowMoves, OpsMove, FilesMove
    PROVE  FileInv'
  BY IdsStep, WorkStep, FilesStep, WholeStep DEF FileInv

(*----------------------------- the answers -------------------------------*)

LEMMA AnswerInvStep ==
    ASSUME Configured, TypeInv, RowInv, AnswerInv, RowMoves, AnswersMove
    PROVE  AnswerInv'
  <1> USE Constants
  <1>1. StaysCompleted
    BY EndIsFinal
  <1>2. ASSUME NEW k \in Keys, idem'[k] \in Completes
        PROVE  Answered(idem'[k])
    <2>1. CASE idem'[k] = idem[k]
      BY <1>1, <1>2, <2>1 DEF AnswerInv, KeysInv, StaysCompleted, Answered
    <2>2. QED
      BY <1>2, <2>1 DEF AnswersMove
  <1>3. ASSUME NEW c \in Completes, op'[c].answer # None
        PROVE  Answered(op'[c].answer)
    <2>1. CASE op'[c].answer = op[c].answer
      BY <1>1, <1>3, <2>1 DEF AnswerInv, AnswersAgree, StaysCompleted, Answered
    <2>2. QED
      BY <1>3, <2>1 DEF AnswersMove
  <1>4. QED
    BY <1>2, <1>3 DEF AnswerInv, KeysInv, AnswersAgree, Answered

\* Every step that moves the parts of the state as described keeps the
\* invariant.
LEMMA MovesKeep ==
    ASSUME Configured, IInv, Moves
    PROVE  IInv'
  <1>1. TypeInv'
    BY DEF Moves, RowMoves, PutsMove, DiskMoves, OpsMove, FilesMove, AnswersMove, TypeInv
  <1>2. \A c \in Completes : op[c].pc \in Working => op[c].file \in Completes
    BY DEF IInv, FileInv, WorkInv
  <1>3. RowInv'
    BY <1>2, RowInvStep DEF IInv, Moves
  <1>4. PartsInv' /\ PartsWithinDeclared'
    BY PartsInvStep, DeclaredStep DEF IInv, Moves, PartsInv
  <1>5. FileInv' /\ AnswerInv'
    BY FileInvStep, AnswerInvStep DEF IInv, Moves, PartsInv
  <1>6. QED
    BY <1>1, <1>3, <1>4, <1>5 DEF IInv

(*----------------------- what stays, and what goes -----------------------*)

LEMMA RowStays ==
    ASSUME TypeInv, row' = row
    PROVE  RowMoves /\ Touched
  BY DEF RowMoves, Touched, TypeInv

LEMMA PutsStay ==
    ASSUME TypeInv, put' = put
    PROVE  PutsMove
  BY DEF PutsMove, TypeInv

LEMMA DiskStays ==
    ASSUME TypeInv, disk' = disk
    PROVE  DiskMoves
  BY DEF DiskMoves, TypeInv

LEMMA FilesStay ==
    ASSUME TypeInv, files' = files
    PROVE  FilesMove
  BY DEF FilesMove, TypeInv

LEMMA OpsStay ==
    ASSUME TypeInv, op' = op
    PROVE  OpsMove /\ CleanersMove
  BY DEF OpsMove, Works, CleanersMove, TypeInv

LEMMA AnswersStay ==
    ASSUME TypeInv, op' = op, idem' = idem
    PROVE  AnswersMove
  BY DEF AnswersMove, TypeInv

\* One put goes on, not to a commit.
LEMMA PutGoes ==
    ASSUME TypeInv, NEW p \in Puts, NEW x \in PutPcs \ {"bound", "unsure"}, Goto(p, x),
           put[p].pc \in Committed => x \in Committed
    PROVE  PutsMove
  <1>1. put \in [Puts -> PutType]
    BY DEF TypeInv
  <1>2. [put[p] EXCEPT !.pc = x] \in PutType /\ [put[p] EXCEPT !.pc = x].pc = x
    BY <1>1 DEF PutType
  <1>3. put' = [put EXCEPT ![p] = [put[p] EXCEPT !.pc = x]]
    BY DEF Goto
  <1>4. put' \in [Puts -> PutType] /\ put'[p].pc = x
    BY <1>1, <1>2, <1>3
  <1>5. \A q \in Puts : q # p => put'[q] = put[q]
    BY <1>1, <1>3
  <1>6. QED
    BY <1>4, <1>5 DEF PutsMove

\* What is unlinked is not what the row counts on.
LEMMA UnlinkMoves ==
    ASSUME TypeInv, NEW set, Unlink(set),
           row.present /\ row.status \notin Terminal => set \cap Recorded = {}
    PROVE  DiskMoves
  BY DEF Unlink, DiskMoves, TypeInv

\* One request changes what it remembers.
LEMMA OneOp ==
    ASSUME TypeInv, NEW o \in Ops, NEW r \in OpType, op' = [op EXCEPT ![o] = r]
    PROVE  op' \in [Ops -> OpType] /\ op'[o] = r /\ \A d \in Ops : d # o => op'[d] = op[d]
  BY DEF TypeInv

LEMMA OpsMoveOne ==
    ASSUME TypeInv, NEW o \in Ops, op' \in [Ops -> OpType],
           \A d \in Ops : d # o => op'[d] = op[d],
           o \in Completes => Works(o) \/ Takes(o)
    PROVE  OpsMove
  <1>1. ASSUME NEW c \in Completes, c # o PROVE Works(c)
    BY <1>1 DEF Works, Ops
  <1>2. QED
    BY <1>1 DEF OpsMove

LEMMA CleanersMoveOne ==
    ASSUME NEW o \in Ops, \A d \in Ops : d # o => op'[d] = op[d],
           op'[o].pc \in {"cleaning", "confirming"} =>
              \/ op[o].pc \in {"cleaning", "confirming"}
              \/ ~row'.present \/ row'.status \in Terminal
    PROVE  CleanersMove
  BY DEF CleanersMove

LEMMA AnswersMoveOne ==
    ASSUME NEW o \in Ops, \A d \in Ops : d # o => op'[d] = op[d],
           idem' \in [Keys -> Completes \cup {None, "pending"}],
           \A k \in Keys : idem'[k] \in {idem[k], None, "pending"} \/ Answered(idem'[k]),
           op'[o].answer \in {op[o].answer, None} \/ Answered(op'[o].answer)
    PROVE  AnswersMove
  BY DEF AnswersMove, Ops

\* One request goes on, not to work.
LEMMA OpGoes ==
    ASSUME TypeInv, NEW o \in Ops, NEW x \in OpPcs, OpGoto(o, x)
    PROVE  /\ op' \in [Ops -> OpType]
           /\ \A d \in Ops : d # o => op'[d] = op[d]
           /\ op'[o].pc = x /\ op'[o].file = op[o].file /\ op'[o].paths = op[o].paths
           /\ op'[o].answer = op[o].answer
  <1>1. op \in [Ops -> OpType]
    BY DEF TypeInv
  <1> DEFINE r == [op[o] EXCEPT !.pc = x]
  <1>2. /\ r \in OpType /\ r.pc = x /\ r.file = op[o].file /\ r.paths = op[o].paths
        /\ r.answer = op[o].answer
    BY <1>1 DEF OpType
  <1>3. op' = [op EXCEPT ![o] = r]
    BY DEF OpGoto
  <1> HIDE DEF r
  <1>4. QED
    BY <1>2, <1>3, OneOp

\* A request that ends, or goes on where nothing is at stake.
LEMMA OpGoesOn ==
    ASSUME TypeInv, NEW o \in Ops, NEW x \in OpPcs, OpGoto(o, x),
           x \notin Working, x \in Early => op[o].pc \in Early,
           x \in {"cleaning", "confirming"} => op[o].pc \in {"cleaning", "confirming"}
    PROVE  OpsMove /\ CleanersMove /\ (idem' = idem => AnswersMove)
  <1>1. /\ op' \in [Ops -> OpType]
        /\ \A d \in Ops : d # o => op'[d] = op[d]
        /\ op'[o].pc = x /\ op'[o].file = op[o].file /\ op'[o].answer = op[o].answer
    BY OpGoes
  <1>2. Works(o)
    BY <1>1 DEF Works, Working
  <1>3. OpsMove /\ CleanersMove
    BY <1>1, <1>2, OpsMoveOne, CleanersMoveOne
  <1>4. ASSUME idem' = idem PROVE AnswersMove
    BY <1>1, <1>4, AnswersMoveOne DEF TypeInv
  <1>5. QED
    BY <1>3, <1>4

(*-------------------------------- puts -----------------------------------*)

LEMMA TouchedRow ==
    ASSUME TypeInv, NEW b \in BOOLEAN,
           row' = [row EXCEPT !.stale = b] \/ row' = [row EXCEPT !.expired = b]
    PROVE  RowMoves /\ Touched
  <1>1. row \in RowType
    BY DEF TypeInv
  <1>2. row' \in RowType /\ Touched
    BY <1>1 DEF RowType, Touched
  <1>3. QED
    BY <1>2 DEF RowMoves

LEMMA BoundRow ==
    ASSUME Configured, TypeInv, NEW p \in Puts
    PROVE  /\ Bound(p) \in RowType /\ Bound(p).present = row.present
           /\ Bound(p).status = "receiving"
           /\ Bound(p).parts = [row.parts EXCEPT ![PartOf[p]] = p]
           /\ Bound(p).lease = row.lease /\ Bound(p).file = row.file
           /\ Bound(p).output = row.output /\ Bound(p).confirmed = row.confirmed
  <1>1. row \in RowType /\ PartOf[p] \in PartNos
    BY Constants DEF TypeInv
  <1>2. QED
    BY <1>1 DEF RowType, Bound, Statuses

LEMMA ValidateMoves ==
    ASSUME Configured, IInv, NEW p \in Puts, validate_upload_before_stream(p)
    PROVE  Moves
  <1> DEFINE room == Remaining(PartOf[p])
  <1>1. TypeInv /\ put \in [Puts -> PutType]
    BY DEF IInv, TypeInv
  <1>2. op' = op /\ idem' = idem /\ disk' = disk /\ files' = files /\ leases' = leases
    BY DEF validate_upload_before_stream
  <1>3. CASE Receives /\ room > 0
    <2>1. row.parts \in [PartNos -> Puts \cup {None}]
      BY <1>1 DEF TypeInv, RowType
    <2>2. Recorded \ {row.parts[PartOf[p]]} \in SUBSET Puts
      BY <2>1 DEF Recorded
    <2>3. Size(Recorded \ {row.parts[PartOf[p]]}) \in Nat /\ Declared \in Nat
      BY <2>2 DEF Configured, UploadConstants, SizesAdd
    <2>4. room \in Int
      BY <2>3, SMT DEF Remaining
    <2> HIDE DEF room
    <2>5. put' = [put EXCEPT ![p] = [put[p] EXCEPT !.pc = "validated", !.max = room]]
      BY <1>1, <1>3 DEF validate_upload_before_stream, room
    <2>6. /\ [put[p] EXCEPT !.pc = "validated", !.max = room] \in PutType
          /\ [put[p] EXCEPT !.pc = "validated", !.max = room].pc = "validated"
      BY <1>1, <2>4 DEF PutType, PutPcs
    <2>7. put' \in [Puts -> PutType] /\ put'[p].pc = "validated"
      BY <1>1, <2>5, <2>6
    <2>8. \A q \in Puts : q # p => put'[q] = put[q]
      BY <1>1, <2>5
    <2>9. put[p].pc = "idle"
      BY DEF validate_upload_before_stream, At
    <2>10. PutsMove
      BY <2>7, <2>8, <2>9 DEF PutsMove, Committed
    <2>11. row' = [row EXCEPT !.stale = FALSE]
      BY <1>3 DEF validate_upload_before_stream, room
    <2>12. RowMoves
      BY <1>1, <2>11, TouchedRow
    <2>13. QED
      BY <1>1, <1>2, <2>10, <2>12, DiskStays, FilesStay, OpsStay, AnswersStay
         DEF Moves, TypeInv
  <1>4. CASE ~(Receives /\ room > 0)
    <2>1. row' = row /\ Goto(p, "done") /\ put[p].pc = "idle"
      BY <1>4 DEF validate_upload_before_stream, At
    <2>2. PutsMove
      BY <1>1, <2>1, PutGoes DEF PutPcs, Committed
    <2>3. QED
      BY <1>1, <1>2, <2>1, <2>2, RowStays, DiskStays, FilesStay, OpsStay, AnswersStay
         DEF Moves, TypeInv
  <1>5. QED
    BY <1>3, <1>4

\* A put that changes neither the row nor what others work on.
LEMMA PutOnly ==
    ASSUME TypeInv, row' = row, idem' = idem, files' = files, op' = op,
           PutsMove, DiskMoves, leases' \in SUBSET Requests
    PROVE  Moves
  BY RowStays, FilesStay, OpsStay, AnswersStay DEF Moves

LEMMA AcquireMoves ==
    ASSUME IInv, NEW p \in Puts, try_acquire(p)
    PROVE  Moves
  <1>1. TypeInv /\ put[p].pc = "validated"
    BY DEF IInv, try_acquire, At
  <1>2. Goto(p, "open") \/ Goto(p, "done")
    BY DEF try_acquire
  <1>3. PutsMove
    BY <1>1, <1>2, PutGoes DEF PutPcs, Committed
  <1>4. leases' \in SUBSET Requests /\ DiskMoves
    BY <1>1 DEF try_acquire, TypeInv, Requests, DiskMoves
  <1>5. QED
    BY <1>1, <1>3, <1>4, PutOnly DEF try_acquire

LEMMA WriteMoves ==
    ASSUME IInv, NEW p \in Puts, write_limited_body(p) \/ body_timeout(p)
    PROVE  Moves
  <1>1. TypeInv /\ put[p].pc = "open" /\ disk' = disk /\ leases' = leases
    BY DEF IInv, write_limited_body, body_timeout, At
  <1>2. Goto(p, "written") \/ Goto(p, "cleaning")
    BY DEF write_limited_body, body_timeout
  <1>3. PutsMove
    BY <1>1, <1>2, PutGoes DEF PutPcs, Committed
  <1>4. QED
    BY <1>1, <1>3, PutOnly, DiskStays DEF write_limited_body, body_timeout, TypeInv

\* A put that gives up, or tidies up, and ends.
LEMMA PutEnds ==
    ASSUME IInv, NEW p \in Puts, DiskMoves, Release(p), Goto(p, "done"),
           UNCHANGED <<row, idem, files, op>>
    PROVE  Moves
  <1>1. TypeInv /\ leases' \in SUBSET Requests
    BY DEF IInv, TypeInv, Release
  <1>2. PutsMove
    BY <1>1, PutGoes DEF PutPcs, Committed
  <1>3. QED
    BY <1>1, <1>2, PutOnly

LEMMA GiveUpMoves ==
    ASSUME IInv, NEW p \in Puts,
           body_fails(p) \/ _finish_timed_out_body(p) \/ bind_refused(p)
    PROVE  Moves
  <1>1. TypeInv /\ PartsInPlace
    BY DEF IInv, PartsInv
  <1>2. put[p].pc \notin Committed /\ Unlink({p})
    BY DEF body_fails, _finish_timed_out_body, bind_refused, At, Committed
  <1>3. p \notin Recorded
    BY <1>1, <1>2, WrittenIsNotRecorded
  <1>4. DiskMoves
    BY <1>1, <1>2, <1>3, UnlinkMoves
  <1>5. QED
    BY <1>4, PutEnds DEF body_fails, _finish_timed_out_body, bind_refused

LEMMA DiscardMoves ==
    ASSUME Configured, IInv, NEW p \in Puts, discard_superseded_part(p)
    PROVE  Moves
  <1>1. TypeInv /\ put[p].pc = "bound" /\ Unlink({put[p].old}) /\ SupersededInv
    BY DEF IInv, PartsInv, discard_superseded_part, At
  <1>2. put[p].old \notin Recorded
    BY <1>1 DEF SupersededInv, Superseded, Recorded
  <1>3. DiskMoves
    BY <1>1, <1>2, UnlinkMoves
  <1>4. QED
    BY <1>3, PutEnds DEF discard_superseded_part

LEMMA CommitMoves ==
    ASSUME Configured, IInv, NEW p \in Puts, commit_prepared_part(p)
    PROVE  Moves
  <1>1. TypeInv /\ put[p].pc = "unsure" /\ SupersededInv /\ PartsInPlace
    BY DEF IInv, PartsInv, commit_prepared_part, At
  <1>2. row.present => Doomed(p) \cap Recorded = {}
    <2>1. CASE row.present /\ row.parts[PartOf[p]] = p
      <3>1. put[p].old \notin Recorded
        BY <1>1, <2>1 DEF SupersededInv, Superseded, Recorded
      <3>2. QED
        BY <2>1, <3>1 DEF Doomed
    <2>2. CASE row.present /\ row.parts[PartOf[p]] # p
      <3>1. p \notin Recorded
        BY <1>1, <2>2, RecordedAt
      <3>2. QED
        BY <2>2, <3>1 DEF Doomed
    <2>3. QED
      BY <2>1, <2>2
  <1>3. DiskMoves
    BY <1>1, <1>2, UnlinkMoves, DiskStays DEF commit_prepared_part
  <1>4. QED
    BY <1>3, PutEnds DEF commit_prepared_part

LEMMA BindMoves ==
    ASSUME Configured, IInv, NEW p \in Puts, bind_and_commit_part(p)
    PROVE  Moves
  <1>1. TypeInv /\ put \in [Puts -> PutType]
    BY DEF IInv, TypeInv
  <1>2. /\ put[p].pc = "written" /\ Bindable(p)
        /\ UNCHANGED <<idem, disk, files, op, leases>>
    BY DEF bind_and_commit_part, At
  <1>3. row.parts[PartOf[p]] \in Puts \cup {None}
    BY <1>1, Constants DEF TypeInv, RowType
  <1>4. PICK x \in {"bound", "unsure"} :
          /\ put' = [put EXCEPT ![p].pc = x, ![p].old = row.parts[PartOf[p]]]
          /\ row' = Bound(p) \/ (x = "unsure" /\ row' = row)
    BY DEF bind_and_commit_part
  <1> DEFINE new == [put[p] EXCEPT !.pc = x, !.old = row.parts[PartOf[p]]]
  <1>5. put' = [put EXCEPT ![p] = new]
    BY <1>1, <1>4
  <1>6. new \in PutType /\ new.pc = x /\ new.old = row.parts[PartOf[p]]
    BY <1>1, <1>3 DEF PutType, PutPcs
  <1> HIDE DEF new
  <1>7. /\ put' \in [Puts -> PutType] /\ put'[p].pc = x
        /\ put'[p].old = row.parts[PartOf[p]]
    BY <1>1, <1>5, <1>6
  <1>8. \A q \in Puts : q # p => put'[q] = put[q]
    BY <1>1, <1>5
  <1>9. row' = Bound(p) => RowMoves /\ Binds(p)
    BY <1>1, <1>2, <1>7, BoundRow DEF RowMoves, Binds, Committed
  <1>10. row' = row => RowMoves /\ Touched
    BY <1>1, RowStays
  <1>11. PutsMove
    BY <1>2, <1>4, <1>7, <1>8, <1>9, <1>10 DEF PutsMove, Committed
  <1>12. QED
    BY <1>1, <1>2, <1>4, <1>9, <1>10, <1>11, DiskStays, FilesStay, OpsStay, AnswersStay
       DEF Moves, TypeInv

LEMMA PutMoves ==
    ASSUME Configured, IInv, NEW p \in Puts, PutStep(p)
    PROVE  Moves
  BY ValidateMoves, AcquireMoves, WriteMoves, GiveUpMoves, DiscardMoves, CommitMoves,
     BindMoves DEF PutStep

(*----------------------------- completions -------------------------------*)

\* What a row that is released looks like.
LEMMA UnleasedRow ==
    ASSUME NEW r \in RowType
    PROVE  /\ Unleased(r) \in RowType /\ Unleased(r).present = r.present
           /\ Unleased(r).status = r.status /\ Unleased(r).parts = r.parts
           /\ Unleased(r).lease = None /\ Unleased(r).file = None
           /\ Unleased(r).output = r.output /\ Unleased(r).confirmed = r.confirmed
  BY DEF RowType, Unleased

\* A request that leaves the row and the puts alone.
LEMMA OpOnly ==
    ASSUME TypeInv, row' = row, disk' = disk, files' = files, put' = put,
           OpsMove, CleanersMove, AnswersMove, leases' \in SUBSET Requests
    PROVE  Moves
  BY RowStays, DiskStays, FilesStay, PutsStay DEF Moves

\* A request goes on and changes nothing else.
LEMMA OpGoesOnly ==
    ASSUME TypeInv, UNCHANGED <<row, idem, disk, files, put>>,
           leases' \in SUBSET Requests,
           NEW o \in Ops, NEW x \in OpPcs, OpGoto(o, x),
           x \notin Working, x \in Early => op[o].pc \in Early,
           x \in {"cleaning", "confirming"} => op[o].pc \in {"cleaning", "confirming"}
    PROVE  Moves
  BY OpGoesOn, OpOnly

LEMMA ExclusiveMoves ==
    ASSUME IInv, NEW o \in Ops, exclusive_upload_operation(o)
    PROVE  Moves
  <1>1. TypeInv /\ op[o].pc \in Early
    BY DEF IInv, exclusive_upload_operation, OpAt, Early
  <1>2. leases' \in SUBSET Requests
    BY <1>1 DEF exclusive_upload_operation, TypeInv, Requests
  <1>3. OpGoto(o, "admitted") \/ OpGoto(o, "done")
    BY DEF exclusive_upload_operation
  <1>4. QED
    BY <1>1, <1>2, <1>3, OpGoesOnly
       DEF exclusive_upload_operation, OpPcs, Working, Early

LEMMA ReplayMoves ==
    ASSUME IInv, NEW c \in Completes, is_pending_completion_replay(c)
    PROVE  Moves
  <1>1. TypeInv /\ op \in [Ops -> OpType] /\ c \in Ops /\ op[c].pc = "admitted"
    BY DEF IInv, TypeInv, is_pending_completion_replay, OpAt, Ops
  <1>2. PICK b \in BOOLEAN : op' = [op EXCEPT ![c].pc = "keyed", ![c].pending = b]
    BY DEF is_pending_completion_replay
  <1> DEFINE r == [op[c] EXCEPT !.pc = "keyed", !.pending = b]
  <1>3. /\ r \in OpType /\ r.pc = "keyed" /\ r.file = op[c].file
        /\ r.answer = op[c].answer
    BY <1>1 DEF OpType, OpPcs
  <1>4. op' = [op EXCEPT ![c] = r]
    BY <1>1, <1>2
  <1> HIDE DEF r
  <1>5. /\ op' \in [Ops -> OpType] /\ \A d \in Ops : d # c => op'[d] = op[d]
        /\ op'[c].pc = "keyed" /\ op'[c].file = op[c].file
        /\ op'[c].answer = op[c].answer
    BY <1>1, <1>3, <1>4, OneOp
  <1>6. Works(c)
    BY <1>1, <1>5 DEF Works, Working, Early
  <1>7. OpsMove /\ CleanersMove
    BY <1>1, <1>5, <1>6, OpsMoveOne, CleanersMoveOne
  <1>8. AnswersMove
    BY <1>1, <1>5, AnswersMoveOne DEF is_pending_completion_replay, TypeInv
  <1>9. QED
    BY <1>1, <1>7, <1>8, OpOnly DEF is_pending_completion_replay, TypeInv

\* The end of a request that changes the row and the keys.
LEMMA EndMoves ==
    ASSUME TypeInv, NEW o \in Ops, End(o), UNCHANGED <<disk, files, put>>, RowMoves,
           idem' \in [Keys -> Completes \cup {None, "pending"}],
           \A k \in Keys : idem'[k] \in {idem[k], None, "pending"} \/ Answered(idem'[k])
    PROVE  Moves
  <1>1. OpGoto(o, "done") /\ leases' \in SUBSET Requests
    BY DEF End, Release, TypeInv
  <1>2. OpsMove /\ CleanersMove
    BY <1>1, OpGoesOn DEF OpPcs, Working, Early
  <1>3. /\ \A d \in Ops : d # o => op'[d] = op[d]
        /\ op'[o].answer = op[o].answer
    BY <1>1, OpGoes DEF OpPcs
  <1>4. AnswersMove
    BY <1>3, AnswersMoveOne
  <1>5. QED
    BY <1>1, <1>2, <1>4, DiskStays, FilesStay, PutsStay DEF Moves

\* What a completion remembers of its claim.
LEMMA ClaimedOp ==
    ASSUME Configured, TypeInv, NEW c \in Completes
    PROVE  /\ Claim(c) \in [Ops -> OpType]
           /\ \A d \in Ops : d # c => Claim(c)[d] = op[d]
           /\ Claim(c)[c].pc = "claimed" /\ Claim(c)[c].paths = Recorded
           /\ Claim(c)[c].file = IF row.status = "finalizing" THEN row.file ELSE c
           /\ Claim(c)[c].answer = op[c].answer
  <1>1. op \in [Ops -> OpType] /\ c \in Ops
    BY DEF TypeInv, Ops
  <1>2. row.lease \in Completes \cup {None} /\ row.file \in Completes \cup {None}
    BY DEF TypeInv, RowType
  <1>3. Recorded \in SUBSET Puts
    BY RecordedType
  <1> DEFINE lease == IF Resumes(c) THEN row.lease ELSE c
             file == IF row.status = "finalizing" THEN row.file ELSE c
             r == [op[c] EXCEPT !.pc = "claimed", !.lease = lease, !.file = file,
                                !.paths = Recorded]
  <1>4. lease \in Completes \cup {None} /\ file \in Completes \cup {None}
    BY <1>2
  <1>5. Claim(c) = [op EXCEPT ![c] = [op[c] EXCEPT !.pc = "claimed", !.lease = lease,
                                       !.file = file, !.paths = Recorded]]
    BY <1>1 DEF Claim
  <1> HIDE DEF lease, file
  <1>6. /\ r \in OpType /\ r.pc = "claimed" /\ r.paths = Recorded /\ r.file = file
        /\ r.answer = op[c].answer
    BY <1>1, <1>3, <1>4, ZenonT(40) DEF OpType, OpPcs
  <1> HIDE DEF r
  <1>7. Claim(c) = [op EXCEPT ![c] = r]
    BY <1>5 DEF r
  <1>8. /\ Claim(c) \in [Ops -> OpType] /\ Claim(c)[c] = r
        /\ \A d \in Ops : d # c => Claim(c)[d] = op[d]
    BY <1>1, <1>6, <1>7
  <1>9. QED
    BY <1>6, <1>8 DEF file

LEMMA ClaimedRowIs ==
    ASSUME Configured, TypeInv, NEW c \in Completes, ~Resumes(c)
    PROVE  LET new == ClaimedRow(c) IN
           /\ new \in RowType /\ new.status = "finalizing" /\ new.lease = c
           /\ new.file = IF row.status = "finalizing" THEN row.file ELSE c
           /\ new.present = row.present /\ new.parts = row.parts
           /\ new.output = row.output /\ new.confirmed = row.confirmed
  <1> DEFINE file == Claim(c)[c].file
  <1>1. row \in RowType /\ KeyOf[c] \in Keys /\ row.file \in Completes \cup {None}
    BY Constants DEF TypeInv, RowType
  <1>2. file = IF row.status = "finalizing" THEN row.file ELSE c
    BY ClaimedOp
  <1>3. ClaimedRow(c) = [row EXCEPT !.status = "finalizing", !.lease = c,
                           !.expired = FALSE, !.file = file, !.key = KeyOf[c],
                           !.stale = FALSE]
    BY DEF ClaimedRow
  <1> HIDE DEF file
  <1>4. file \in Completes \cup {None}
    BY <1>1, <1>2
  <1>5. /\ ClaimedRow(c) \in RowType /\ ClaimedRow(c).status = "finalizing"
        /\ ClaimedRow(c).lease = c /\ ClaimedRow(c).file = file
        /\ ClaimedRow(c).present = row.present /\ ClaimedRow(c).parts = row.parts
        /\ ClaimedRow(c).output = row.output
        /\ ClaimedRow(c).confirmed = row.confirmed
    BY <1>1, <1>3, <1>4 DEF RowType, Statuses
  <1>6. QED
    BY <1>2, <1>5

LEMMA ClaimMoves ==
    ASSUME Configured, IInv, NEW c \in Completes, claim_completion(c)
    PROVE  Moves
  <1> USE Constants
  <1> DEFINE reserved == [idem EXCEPT ![KeyOf[c]] = IF @ = None THEN "pending" ELSE @]
  <1>1. /\ TypeInv /\ c \in Ops /\ op[c].pc = "keyed" /\ Claimable(c)
        /\ UNCHANGED <<disk, files, put>>
    BY DEF IInv, claim_completion, OpAt, Ops
  <1>2. /\ idem \in [Keys -> Completes \cup {None, "pending"}]
        /\ op \in [Ops -> OpType]
    BY <1>1 DEF TypeInv
  <1>3. idem' = idem \/ idem' = reserved
    BY DEF claim_completion
  <1>4. /\ idem' \in [Keys -> Completes \cup {None, "pending"}]
        /\ \A k \in Keys : idem'[k] \in {idem[k], None, "pending"}
    BY <1>2, <1>3
  <1>5. row.present /\ row.status \in {"initiated", "receiving", "finalizing"}
    BY <1>1 DEF Claimable, Receives, Recovers, Resumes
  <1>6. ASSUME row' = ClaimedRow(c), op'[c].pc \notin Early
        PROVE  RowMoves /\ (row.status # "finalizing" => Claims(c))
    <2>1. CASE Resumes(c)
      BY <1>1, <1>6, <2>1, RowStays DEF ClaimedRow, Resumes
    <2>2. CASE ~Resumes(c)
      <3>1. Claims(c) /\ row' \in RowType
        BY <1>1, <1>5, <1>6, <2>2, ClaimedRowIs DEF Claims
      <3>2. QED
        BY <3>1 DEF RowMoves
    <2>3. QED
      BY <2>1, <2>2
  <1>7. CASE /\ row' = ClaimedRow(c) /\ op' = Claim(c) /\ leases' = leases
    <2>1. /\ op' \in [Ops -> OpType] /\ \A d \in Ops : d # c => op'[d] = op[d]
          /\ op'[c].pc = "claimed" /\ op'[c].paths = Recorded
          /\ op'[c].file = IF row.status = "finalizing" THEN row.file ELSE c
          /\ op'[c].answer = op[c].answer
      BY <1>1, <1>7, ClaimedOp
    <2>2. RowMoves /\ (row.status # "finalizing" => Claims(c))
      BY <1>6, <1>7, <2>1 DEF Early
    <2>3. Takes(c)
      BY <1>1, <2>1, <2>2 DEF Takes, Ops
    <2>4. OpsMove /\ CleanersMove
      BY <1>1, <2>1, <2>3, OpsMoveOne, CleanersMoveOne
    <2>5. AnswersMove
      BY <1>1, <1>4, <2>1, AnswersMoveOne
    <2>6. QED
      BY <1>1, <1>7, <2>2, <2>4, <2>5, DiskStays, FilesStay, PutsStay DEF Moves, TypeInv
  <1>8. CASE (row' = ClaimedRow(c) \/ row' = row) /\ End(c)
    <2>1. op'[c].pc = "done"
      BY <1>1, <1>8, OpGoes DEF End, OpPcs
    <2>2. RowMoves
      BY <1>1, <1>6, <1>8, <2>1, RowStays DEF Early
    <2>3. QED
      BY <1>1, <1>4, <1>8, <2>2, EndMoves
  <1>9. QED
    BY <1>7, <1>8 DEF claim_completion

\* A key that has been answered has been answered with the output.
LEMMA AgainMoves ==
    ASSUME Configured, IInv, NEW c \in Completes, complete_again(c)
    PROVE  Moves
  <1> USE Constants
  <1>1. /\ TypeInv /\ c \in Ops /\ op \in [Ops -> OpType]
        /\ idem \in [Keys -> Completes \cup {None, "pending"}] /\ KeyOf[c] \in Keys
    BY DEF IInv, TypeInv, Ops
  <1>2. /\ row.present /\ row.status = "completed" /\ op[c].pc = "keyed"
        /\ UNCHANGED <<row, disk, files, put, leases>>
    BY DEF complete_again, OpAt
  <1>3. row.output \in Completes
    BY <1>1, <1>2 DEF IInv, RowInv, TypeInv, RowType
  <1>4. idem[KeyOf[c]] \notin {None, "pending"} => idem[KeyOf[c]] = row.output
    BY <1>1 DEF IInv, AnswerInv, KeysInv
  <1>5. idem' = [idem EXCEPT ![KeyOf[c]] = row.output]
    BY <1>1, <1>4 DEF complete_again
  <1> DEFINE r == [op[c] EXCEPT !.pc = "cleaning", !.paths = Recorded,
                                !.expect = "completed", !.answer = row.output]
  <1>6. Recorded \in SUBSET Puts
    BY <1>1, RecordedType
  <1>7. op' = [op EXCEPT ![c] = r]
    BY <1>1, <1>4 DEF complete_again
  <1>8. /\ r \in OpType /\ r.pc = "cleaning" /\ r.file = op[c].file
        /\ r.answer = row.output
    BY <1>1, <1>3, <1>6, ZenonT(40) DEF OpType, OpPcs
  <1> HIDE DEF r
  <1>9. /\ op' \in [Ops -> OpType] /\ \A d \in Ops : d # c => op'[d] = op[d]
        /\ op'[c].pc = "cleaning" /\ op'[c].file = op[c].file
        /\ op'[c].answer = row.output
    BY <1>1, <1>7, <1>8, OneOp
  <1>10. Works(c)
    BY <1>9 DEF Works, Working, Early
  <1>11. OpsMove /\ CleanersMove
    BY <1>1, <1>2, <1>9, <1>10, OpsMoveOne, CleanersMoveOne DEF Terminal
  <1>12. Answered(row.output)
    BY <1>2 DEF Answered
  <1>13. /\ idem' \in [Keys -> Completes \cup {None, "pending"}]
         /\ \A k \in Keys : idem'[k] = idem[k] \/ idem'[k] = row.output
    BY <1>1, <1>3, <1>5
  <1>14. AnswersMove
    BY <1>1, <1>9, <1>12, <1>13, AnswersMoveOne
  <1>15. QED
    BY <1>1, <1>2, <1>11, <1>14, OpOnly DEF TypeInv

\* A row that can be claimed has not been completed: no key has an answer.
LEMMA RefusedMoves ==
    ASSUME Configured, IInv, NEW c \in Completes, complete_refused(c)
    PROVE  Moves
  <1> USE Constants
  <1>1. /\ TypeInv /\ c \in Ops /\ op \in [Ops -> OpType]
        /\ idem \in [Keys -> Completes \cup {None, "pending"}] /\ KeyOf[c] \in Keys
    BY DEF IInv, TypeInv, Ops
  <1>2. /\ ~(row.present /\ row.status = "completed") /\ op[c].pc = "keyed"
        /\ UNCHANGED <<row, idem, disk, files, put>> /\ Release(c)
    BY DEF complete_refused, OpAt
  <1>3. idem[KeyOf[c]] \in {None, "pending"}
    BY <1>1, <1>2 DEF IInv, AnswerInv, KeysInv
  <1> DEFINE r == [op[c] EXCEPT !.pc = "done", !.answer = None]
  <1>4. op' = [op EXCEPT ![c] = r]
    BY <1>1, <1>3 DEF complete_refused
  <1>5. /\ r \in OpType /\ r.pc = "done" /\ r.file = op[c].file /\ r.answer = None
    BY <1>1 DEF OpType, OpPcs
  <1> HIDE DEF r
  <1>6. /\ op' \in [Ops -> OpType] /\ \A d \in Ops : d # c => op'[d] = op[d]
        /\ op'[c].pc = "done" /\ op'[c].file = op[c].file /\ op'[c].answer = None
    BY <1>1, <1>4, <1>5, OneOp
  <1>7. Works(c)
    BY <1>6 DEF Works, Working, Early
  <1>8. OpsMove /\ CleanersMove
    BY <1>1, <1>6, <1>7, OpsMoveOne, CleanersMoveOne
  <1>9. AnswersMove
    BY <1>1, <1>2, <1>6, AnswersMoveOne
  <1>10. QED
    BY <1>1, <1>2, <1>8, <1>9, OpOnly DEF TypeInv, Release

\* One completion goes on to x, whatever it is told to expect.
LEMMA WorkerMoves ==
    ASSUME TypeInv, NEW c \in Completes, UNCHANGED <<row, idem, disk, put>>,
           FilesMove, leases' \in SUBSET Requests,
           op' \in [Ops -> OpType], \A d \in Ops : d # c => op'[d] = op[d],
           Works(c), op'[c].pc \notin {"cleaning", "confirming"},
           op'[c].answer = op[c].answer
    PROVE  Moves
  <1>1. c \in Ops
    BY DEF Ops
  <1>2. OpsMove /\ CleanersMove
    BY <1>1, OpsMoveOne, CleanersMoveOne
  <1>3. AnswersMove
    BY <1>1, AnswersMoveOne DEF TypeInv
  <1>4. QED
    BY <1>2, <1>3, RowStays, DiskStays, PutsStay DEF Moves

LEMMA FailingOp ==
    ASSUME TypeInv, NEW c \in Completes, NEW e \in {None, "completed", "aborted"},
           op' = [op EXCEPT ![c].pc = "failing", ![c].expect = e]
    PROVE  /\ op' \in [Ops -> OpType] /\ \A d \in Ops : d # c => op'[d] = op[d]
           /\ op'[c].pc = "failing" /\ op'[c].file = op[c].file
           /\ op'[c].answer = op[c].answer /\ Works(c)
  <1>1. op \in [Ops -> OpType] /\ c \in Ops
    BY DEF TypeInv, Ops
  <1> DEFINE r == [op[c] EXCEPT !.pc = "failing", !.expect = e]
  <1>2. r \in OpType /\ r.pc = "failing" /\ r.file = op[c].file /\ r.answer = op[c].answer
    BY <1>1, ZenonT(40) DEF OpType, OpPcs
  <1>3. op' = [op EXCEPT ![c] = r]
    BY <1>1
  <1> HIDE DEF r
  <1>4. /\ op' \in [Ops -> OpType] /\ \A d \in Ops : d # c => op'[d] = op[d]
        /\ op'[c].pc = "failing" /\ op'[c].file = op[c].file
        /\ op'[c].answer = op[c].answer
    BY <1>1, <1>2, <1>3, OneOp
  <1>5. QED
    BY <1>4 DEF Works, Working, Early

\* The parts are put together in the order of their numbers, each once.
LEMMA MadeOfPaths ==
    ASSUME Configured, NEW paths \in SUBSET Puts,
           \A p, q \in paths : PartOf[p] = PartOf[q] => p = q
    PROVE  LET parts == [n \in PartNos |-> IF \E p \in paths : PartOf[p] = n
                                           THEN CHOOSE p \in paths : PartOf[p] = n
                                           ELSE None]
           IN  Made(parts) = paths
  <1> USE Constants
  <1> DEFINE parts == [n \in PartNos |-> IF \E p \in paths : PartOf[p] = n
                                         THEN CHOOSE p \in paths : PartOf[p] = n
                                         ELSE None]
  <1>1. ASSUME NEW p \in paths PROVE parts[PartOf[p]] = p
    <2>1. PartOf[p] \in PartNos
      OBVIOUS
    <2>2. \E q \in paths : PartOf[q] = PartOf[p]
      OBVIOUS
    <2> DEFINE q == CHOOSE q \in paths : PartOf[q] = PartOf[p]
    <2>3. q \in paths /\ PartOf[q] = PartOf[p]
      BY <2>2
    <2>4. parts[PartOf[p]] = q
      BY <2>1, <2>2
    <2>5. QED
      BY <2>3, <2>4
  <1>2. ASSUME NEW n \in PartNos, parts[n] # None PROVE parts[n] \in paths
    <2>1. \E p \in paths : PartOf[p] = n
      BY <1>2
    <2>2. PICK p \in paths : PartOf[p] = n
      BY <2>1
    <2>3. QED
      BY <1>1, <2>2
  <1> HIDE DEF parts
  <1>3. Made(parts) \subseteq paths
    BY <1>2 DEF Made
  <1>4. paths \subseteq Made(parts)
    BY <1>1 DEF Made
  <1>5. Made(parts) = paths
    BY <1>3, <1>4
  <1>6. QED
    BY <1>5 DEF parts

LEMMA AssembleMoves ==
    ASSUME Configured, IInv, NEW c \in Completes, assemble(c)
    PROVE  Moves
  <1> DEFINE parts == [n \in PartNos |-> IF \E p \in op[c].paths : PartOf[p] = n
                                         THEN CHOOSE p \in op[c].paths : PartOf[p] = n
                                         ELSE None]
  <1>1. /\ TypeInv /\ op[c].pc = "claimed" /\ c \in Ops
        /\ UNCHANGED <<row, idem, disk, files, put, leases>>
    BY DEF IInv, assemble, OpAt, Ops
  <1>2. \/ OpGoto(c, "linked")
        \/ OpGoto(c, "assembled") /\ Valid(parts)
        \/ op' = [op EXCEPT ![c].pc = "failing", ![c].expect = "aborted"]
    BY DEF assemble
  <1>3. op[c].paths \in SUBSET Puts
    BY <1>1 DEF TypeInv, OpType
  <1>4. \A p, q \in op[c].paths : PartOf[p] = PartOf[q] => p = q
    BY <1>1 DEF IInv, FileInv, WorkInv, Working
  <1>5. Made(parts) = op[c].paths
    BY <1>3, <1>4, MadeOfPaths
  <1> HIDE DEF parts
  <1>6. Valid(parts) => Whole(op[c].paths)
    BY <1>5 DEF Valid, Whole
  <1>7. FilesMove /\ leases' \in SUBSET Requests
    BY <1>1, FilesStay DEF TypeInv
  <1>8. CASE OpGoto(c, "linked")
    BY <1>1, <1>7, <1>8, OpGoes, WorkerMoves DEF OpPcs, Works, Working, Early
  <1>9. CASE OpGoto(c, "assembled") /\ Valid(parts)
    BY <1>1, <1>6, <1>7, <1>9, OpGoes, WorkerMoves DEF OpPcs, Works, Working, Early
  <1>10. CASE op' = [op EXCEPT ![c].pc = "failing", ![c].expect = "aborted"]
    BY <1>1, <1>7, <1>10, FailingOp, WorkerMoves
  <1>11. QED
    BY <1>2, <1>8, <1>9, <1>10

LEMMA LinkMoves ==
    ASSUME Configured, IInv, NEW c \in Completes, link(c)
    PROVE  Moves
  <1> USE Constants
  <1>1. /\ TypeInv /\ op[c].pc = "assembled" /\ c \in Ops /\ OpGoto(c, "linked")
        /\ UNCHANGED <<row, idem, disk, put, leases>>
    BY DEF IInv, link, OpAt, Ops
  <1>2. op[c].file \in Completes /\ op[c].paths \in SUBSET Puts
    BY <1>1 DEF IInv, FileInv, WorkInv, Working, TypeInv, OpType
  <1>3. files \in [Completes -> (SUBSET Puts) \cup {None}]
    BY <1>1 DEF TypeInv
  <1>4. Reuses(c) => FilesMove
    BY <1>1, FilesStay DEF link
  <1>5. ASSUME ~Reuses(c) PROVE FilesMove
    <2>1. files' = [files EXCEPT ![op[c].file] = op[c].paths]
      BY <1>5 DEF link
    <2>2. files' \in [Completes -> (SUBSET Puts) \cup {None}]
      BY <1>2, <1>3, <2>1
    <2>3. \A f \in Completes : f # op[c].file => files'[f] = files[f]
      BY <1>3, <2>1
    <2>4. files'[op[c].file] = op[c].paths /\ files[op[c].file] = None
      BY <1>2, <1>3, <1>5, <2>1 DEF Reuses
    <2>5. QED
      BY <1>1, <2>2, <2>3, <2>4 DEF FilesMove
  <1>6. QED
    <2>1. FilesMove
      BY <1>4, <1>5
    <2>2. leases' \in SUBSET Requests
      BY <1>1 DEF TypeInv
    <2>3. QED
      BY <1>1, <2>1, <2>2, OpGoes, WorkerMoves DEF OpPcs, Works, Working, Early

LEMMA FailMoves ==
    ASSUME IInv, NEW c \in Completes, finalize_fails(c)
    PROVE  Moves
  <1>1. TypeInv /\ UNCHANGED <<row, idem, disk, files, put, leases>>
    BY DEF IInv, finalize_fails
  <1>2. op' = [op EXCEPT ![c].pc = "failing", ![c].expect = None]
    BY DEF finalize_fails
  <1>3. FilesMove /\ leases' \in SUBSET Requests
    BY <1>1, FilesStay DEF TypeInv
  <1>4. QED
    BY <1>1, <1>2, <1>3, FailingOp, WorkerMoves

LEMMA PinMoves ==
    ASSUME IInv, NEW c \in Completes, pin_finalized_file(c)
    PROVE  Moves
  <1>1. /\ TypeInv /\ op[c].pc = "linked" /\ c \in Ops
        /\ UNCHANGED <<row, idem, disk, files, put>>
    BY DEF IInv, pin_finalized_file, OpAt, Ops
  <1>2. CASE (Done(c) \/ files[op[c].file] # None) /\ OpGoto(c, "pinned")
             /\ leases' = leases
    <2>1. FilesMove /\ leases' \in SUBSET Requests
      BY <1>1, <1>2, FilesStay DEF TypeInv
    <2>2. QED
      BY <1>1, <1>2, <2>1, OpGoes, WorkerMoves DEF OpPcs, Works, Working, Early
  <1>3. CASE End(c)
    BY <1>1, <1>3, EndMoves, RowStays DEF TypeInv
  <1>4. QED
    BY <1>2, <1>3 DEF pin_finalized_file

\* A cleaner starts on a row that has ended.
LEMMA CleaningOp ==
    ASSUME TypeInv, NEW o \in Ops, NEW e \in {None, "completed", "aborted"},
           NEW paths \in SUBSET Puts, NEW a \in Completes \cup {None},
           op' = [op EXCEPT ![o] = [op[o] EXCEPT !.pc = "cleaning", !.paths = paths,
                                                 !.expect = e, !.answer = a]],
           row'.status \in Terminal
    PROVE  /\ OpsMove /\ CleanersMove /\ op'[o].answer = a
           /\ \A d \in Ops : d # o => op'[d] = op[d]
  <1>1. op \in [Ops -> OpType]
    BY DEF TypeInv
  <1> DEFINE r == [op[o] EXCEPT !.pc = "cleaning", !.paths = paths,
                                !.expect = e, !.answer = a]
  <1>2. r \in OpType /\ r.pc = "cleaning" /\ r.file = op[o].file /\ r.answer = a
    BY <1>1, ZenonT(40) DEF OpType, OpPcs
  <1>3. op' = [op EXCEPT ![o] = r]
    OBVIOUS
  <1> HIDE DEF r
  <1>4. /\ op' \in [Ops -> OpType] /\ \A d \in Ops : d # o => op'[d] = op[d]
        /\ op'[o].pc = "cleaning" /\ op'[o].file = op[o].file /\ op'[o].answer = a
    BY <1>2, <1>3, OneOp
  <1>5. Works(o)
    BY <1>4 DEF Works, Working, Early
  <1>6. QED
    BY <1>4, <1>5, OpsMoveOne, CleanersMoveOne

LEMMA ReleaseMoves ==
    ASSUME Configured, IInv, NEW c \in Completes, release_failed_completion(c)
    PROVE  Moves
  <1> USE Constants
  <1> DEFINE aborts == op[c].expect = "aborted"
             mine == row.present /\ row.status = "finalizing" /\ row.lease = op[c].lease
             status == IF aborts THEN "aborted" ELSE "receiving"
             confirmed == IF aborts THEN FALSE ELSE Unleased(row).confirmed
             freed == [Unleased(row) EXCEPT !.status = status, !.confirmed = confirmed,
                                            !.stale = FALSE]
  <1>1. /\ TypeInv /\ RowInv /\ c \in Ops /\ row \in RowType
        /\ op \in [Ops -> OpType] /\ idem \in [Keys -> Completes \cup {None, "pending"}]
    BY DEF IInv, TypeInv, Ops
  <1>2. /\ op[c].pc = "failing" /\ UNCHANGED <<disk, files, put>>
        /\ row' = IF mine THEN freed ELSE row
        /\ idem' = idem \/ idem' = [idem EXCEPT ![KeyOf[c]] = None]
    BY DEF release_failed_completion, OpAt
  <1>3. /\ idem' \in [Keys -> Completes \cup {None, "pending"}]
        /\ \A k \in Keys : idem'[k] \in {idem[k], None, "pending"}
    BY <1>1, <1>2
  <1>4. ASSUME mine
        PROVE  RowMoves /\ row'.status = status
    <2>1. /\ status \in {"aborted", "receiving"} /\ confirmed \in BOOLEAN
          /\ status = "receiving" => ~confirmed
      BY <1>1, <1>4, UnleasedRow DEF RowInv, Terminal, RowType
    <2>2. row' = [Unleased(row) EXCEPT !.status = status, !.confirmed = confirmed,
                                       !.stale = FALSE]
      BY <1>2, <1>4
    <2> HIDE DEF status, confirmed
    <2>3. /\ row' \in RowType /\ row'.status = status /\ row'.confirmed = confirmed
          /\ row'.present = Unleased(row).present /\ row'.parts = Unleased(row).parts
          /\ row'.lease = Unleased(row).lease /\ row'.file = Unleased(row).file
          /\ row'.output = Unleased(row).output
      <3>1. Unleased(row) \in RowType
        BY <1>1, UnleasedRow
      <3>2. QED
        BY <2>1, <2>2, <3>1 DEF RowType, Statuses
    <2>4. Ends
      BY <1>1, <1>4, <2>1, <2>3, UnleasedRow DEF Ends
    <2>5. QED
      BY <2>3, <2>4 DEF RowMoves
  <1>5. RowMoves
    BY <1>1, <1>2, <1>4, RowStays
  <1>6. CASE mine /\ aborts
    <2>1. /\ op' = [op EXCEPT ![c].pc = "cleaning", ![c].paths = Recorded]
          /\ leases' = leases
      BY <1>6 DEF release_failed_completion
    <2> DEFINE r == [op[c] EXCEPT !.pc = "cleaning", !.paths = Recorded]
    <2>2. op' = [op EXCEPT ![c] = r]
      BY <1>1, <2>1
    <2>3. Recorded \in SUBSET Puts
      BY <1>1, RecordedType
    <2>4. r \in OpType /\ r.pc = "cleaning" /\ r.file = op[c].file
          /\ r.answer = op[c].answer
      BY <1>1, <2>3, ZenonT(40) DEF OpType, OpPcs
    <2> HIDE DEF r
    <2>5. /\ op' \in [Ops -> OpType] /\ \A d \in Ops : d # c => op'[d] = op[d]
          /\ op'[c].pc = "cleaning" /\ op'[c].file = op[c].file
          /\ op'[c].answer = op[c].answer
      BY <1>1, <2>2, <2>4, OneOp
    <2>6. Works(c) /\ row'.status \in Terminal
      BY <1>4, <1>6, <2>5 DEF Works, Working, Early, Terminal
    <2>7. OpsMove /\ CleanersMove
      BY <1>1, <2>5, <2>6, OpsMoveOne, CleanersMoveOne
    <2>8. AnswersMove
      BY <1>1, <1>3, <2>5, AnswersMoveOne
    <2>9. QED
      BY <1>1, <1>2, <1>5, <2>1, <2>7, <2>8, DiskStays, FilesStay, PutsStay
         DEF Moves, TypeInv
  <1>7. CASE ~(mine /\ aborts)
    <2>1. End(c)
      BY <1>7 DEF release_failed_completion
    <2>2. QED
      BY <1>1, <1>2, <1>3, <1>5, <2>1, EndMoves
  <1>8. QED
    BY <1>6, <1>7

LEMMA PublishMoves ==
    ASSUME Configured, IInv, NEW c \in Completes, publish_completion(c)
    PROVE  Moves
  <1> USE Constants
  <1> DEFINE output == [Unleased(row) EXCEPT !.status = "completed",
                                             !.output = op[c].file, !.stale = FALSE]
             answered == [idem EXCEPT ![KeyOf[c]] = op[c].file]
             new == IF Done(c) THEN row ELSE output
             paths == IF Done(c) THEN Recorded ELSE op[c].paths
             r == [op[c] EXCEPT !.pc = "cleaning", !.expect = "completed",
                                !.paths = paths, !.answer = op[c].file]
  <1>1. /\ TypeInv /\ RowInv /\ c \in Ops /\ row \in RowType /\ KeyOf[c] \in Keys
        /\ op \in [Ops -> OpType] /\ idem \in [Keys -> Completes \cup {None, "pending"}]
    BY DEF IInv, TypeInv, Ops
  <1>2. /\ op[c].pc = "pinned" /\ (Done(c) \/ Publishable(c))
        /\ UNCHANGED <<disk, files, put>>
    BY DEF publish_completion, OpAt
  <1>3. op[c].file \in Completes
    BY <1>2 DEF IInv, FileInv, WorkInv, Working
  <1>4. ASSUME row' = new
        PROVE  RowMoves /\ Answered(op[c].file)
    <2>1. CASE Done(c)
      BY <1>1, <1>4, <2>1, RowStays DEF Done, Answered
    <2>2. CASE ~Done(c)
      <3>1. row' = output
        BY <1>4, <2>2
      <3>2. /\ row' \in RowType /\ row'.status = "completed"
            /\ row'.output = op[c].file /\ row'.present = Unleased(row).present
            /\ row'.parts = Unleased(row).parts /\ row'.lease = Unleased(row).lease
            /\ row'.file = Unleased(row).file
            /\ row'.confirmed = Unleased(row).confirmed
        <4>1. Unleased(row) \in RowType
          BY <1>1, UnleasedRow
        <4>2. QED
          BY <1>3, <3>1, <4>1 DEF RowType, Statuses
      <3>3. Publishes(c)
        BY <1>1, <1>2, <2>2, <3>2, UnleasedRow DEF Publishes
      <3>4. row'.present
        BY <3>3 DEF Publishes, Publishable
      <3>5. QED
        BY <3>2, <3>3, <3>4 DEF RowMoves, Answered
    <2>3. QED
      BY <2>1, <2>2
  <1>5. ASSUME idem' = answered
        PROVE  /\ idem' \in [Keys -> Completes \cup {None, "pending"}]
               /\ \A k \in Keys : idem'[k] = idem[k] \/ idem'[k] = op[c].file
    BY <1>1, <1>3, <1>5
  <1>6. CASE row' = new /\ idem' = answered /\ leases' = leases
             /\ op' = [op EXCEPT ![c].pc = "cleaning", ![c].expect = "completed",
                                 ![c].paths = IF Done(c) THEN Recorded ELSE @,
                                 ![c].answer = op[c].file]
    <2>1. op' = [op EXCEPT ![c] = r]
      BY <1>1, <1>6
    <2>2. paths \in SUBSET Puts
      BY <1>1, RecordedType DEF OpType
    <2> HIDE DEF paths, new, answered
    <2>3. r \in OpType /\ r.pc = "cleaning" /\ r.file = op[c].file
          /\ r.answer = op[c].file
      BY <1>1, <1>3, <2>2, ZenonT(40) DEF OpType, OpPcs
    <2> HIDE DEF r
    <2>4. /\ op' \in [Ops -> OpType] /\ \A d \in Ops : d # c => op'[d] = op[d]
          /\ op'[c].pc = "cleaning" /\ op'[c].file = op[c].file
          /\ op'[c].answer = op[c].file
      BY <1>1, <2>1, <2>3, OneOp
    <2>5. Works(c)
      BY <2>4 DEF Works, Working, Early
    <2>6. RowMoves /\ Answered(op[c].file)
      BY <1>4, <1>6
    <2>7. row'.status \in Terminal
      BY <2>6 DEF Answered, Terminal
    <2>8. OpsMove /\ CleanersMove
      BY <1>1, <2>4, <2>5, <2>7, OpsMoveOne, CleanersMoveOne
    <2>9. AnswersMove
      BY <1>1, <1>5, <1>6, <2>4, <2>6, AnswersMoveOne
    <2>10. QED
      BY <1>1, <1>2, <1>6, <2>6, <2>8, <2>9, DiskStays, FilesStay, PutsStay
         DEF Moves, TypeInv
  <1>7. CASE row' = new /\ idem' = answered /\ End(c)
    BY <1>1, <1>2, <1>4, <1>5, <1>7, EndMoves
  <1>8. CASE row' = row /\ idem' = idem /\ End(c)
    BY <1>1, <1>2, <1>8, EndMoves, RowStays
  <1>9. QED
    BY <1>6, <1>7, <1>8 DEF publish_completion

LEMMA PublishRefusedMoves ==
    ASSUME IInv, NEW c \in Completes, publish_refused(c)
    PROVE  Moves
  <1>1. TypeInv /\ c \in Ops /\ End(c) /\ UNCHANGED <<row, idem, disk, files, put>>
    BY DEF IInv, publish_refused, Ops
  <1>2. QED
    BY <1>1, EndMoves, RowStays DEF TypeInv

(*------------------------- aborts and cleanups ---------------------------*)

LEMMA AbortMoves ==
    ASSUME Configured, IInv, NEW a \in Aborts, prepare_abort(a)
    PROVE  Moves
  <1>1. /\ TypeInv /\ RowInv /\ a \in Ops /\ row \in RowType /\ op \in [Ops -> OpType]
        /\ UNCHANGED <<idem, disk, files, put>>
    BY DEF IInv, TypeInv, Ops, prepare_abort
  <1>2. CASE Abortable
    <2>1. row' = [row EXCEPT !.status = "aborted", !.confirmed = FALSE, !.stale = FALSE]
      BY <1>2 DEF prepare_abort
    <2>2. /\ row' \in RowType /\ row'.status = "aborted"
          /\ row'.present = row.present /\ row'.parts = row.parts
          /\ row'.lease = row.lease /\ row'.file = row.file
          /\ row'.output = row.output
      BY <1>1, <2>1 DEF RowType, Statuses
    <2>3. Ends
      BY <1>1, <1>2, <2>2 DEF Ends, Abortable, RowInv
    <2>4. RowMoves /\ row'.status \in Terminal
      BY <2>2, <2>3 DEF RowMoves, Terminal
    <2> DEFINE r == [op[a] EXCEPT !.pc = "cleaning", !.paths = Recorded,
                                  !.expect = "aborted"]
    <2>5. op' = [op EXCEPT ![a] = r] /\ leases' = leases
      BY <1>1, <1>2 DEF prepare_abort
    <2>6. Recorded \in SUBSET Puts
      BY <1>1, RecordedType
    <2>7. r \in OpType /\ r.pc = "cleaning" /\ r.file = op[a].file
          /\ r.answer = op[a].answer
      BY <1>1, <2>6 DEF OpType, OpPcs
    <2> HIDE DEF r
    <2>8. /\ op' \in [Ops -> OpType] /\ \A d \in Ops : d # a => op'[d] = op[d]
          /\ op'[a].pc = "cleaning" /\ op'[a].file = op[a].file
          /\ op'[a].answer = op[a].answer
      BY <1>1, <2>5, <2>7, OneOp
    <2>9. Works(a)
      BY <2>8 DEF Works, Working, Early
    <2>10. OpsMove /\ CleanersMove
      BY <1>1, <2>4, <2>8, <2>9, OpsMoveOne, CleanersMoveOne
    <2>11. AnswersMove
      BY <1>1, <2>8, AnswersMoveOne DEF TypeInv
    <2>12. QED
      BY <1>1, <2>4, <2>5, <2>10, <2>11, DiskStays, FilesStay, PutsStay
         DEF Moves, TypeInv
  <1>3. CASE row' = row /\ End(a)
    BY <1>1, <1>3, EndMoves, RowStays DEF TypeInv
  <1>4. QED
    BY <1>2, <1>3 DEF prepare_abort

LEMMA CleanupMoves ==
    ASSUME IInv, NEW o \in Ops, cleanup_committed_parts(o)
    PROVE  Moves
  <1>1. /\ TypeInv /\ CleanersInv /\ op[o].pc = "cleaning"
        /\ UNCHANGED <<row, idem, files, put>>
    BY DEF IInv, PartsInv, cleanup_committed_parts, OpAt
  <1>2. ~(row.present /\ row.status \notin Terminal)
    BY <1>1 DEF CleanersInv
  <1>3. disk' \in SUBSET Puts
    BY <1>1 DEF cleanup_committed_parts, TypeInv
  <1>4. DiskMoves
    BY <1>2, <1>3 DEF DiskMoves
  <1>5. OpGoto(o, "confirming") \/ OpGoto(o, "done")
    BY DEF cleanup_committed_parts, End
  <1>6. leases' \in SUBSET Requests
    BY <1>1 DEF cleanup_committed_parts, End, Release, TypeInv
  <1>7. OpsMove /\ CleanersMove /\ AnswersMove
    BY <1>1, <1>5, OpGoesOn DEF OpPcs, Working, Early
  <1>8. QED
    BY <1>1, <1>4, <1>6, <1>7, RowStays, FilesStay, PutsStay DEF Moves

\* A row that has ended is rid of parts.
LEMMA TrimmedRow ==
    ASSUME Configured, TypeInv, NEW parts \in [PartNos -> Puts \cup {None}],
           \A n \in PartNos : parts[n] \in {row.parts[n], None},
           row.present, row.status \in Terminal,
           \/ row' = [row EXCEPT !.parts = parts, !.confirmed = TRUE, !.stale = FALSE]
           \/ row' = [row EXCEPT !.present = FALSE, !.parts = parts] /\ row.output = None
           \/ row' = [row EXCEPT !.stale = FALSE, !.parts = parts]
    PROVE  RowMoves
  <1>1. row \in RowType
    BY DEF TypeInv
  <1>2. /\ row' \in RowType /\ row'.parts = parts /\ row'.status = row.status
        /\ row'.lease = row.lease /\ row'.file = row.file /\ row'.output = row.output
        /\ row.confirmed => row'.confirmed
        /\ row'.present \/ row.output = None
    <2>1. CASE row' = [row EXCEPT !.parts = parts, !.confirmed = TRUE, !.stale = FALSE]
      BY <1>1, <2>1 DEF RowType
    <2>2. CASE row' = [row EXCEPT !.present = FALSE, !.parts = parts]
               /\ row.output = None
      BY <1>1, <2>2 DEF RowType
    <2>3. CASE row' = [row EXCEPT !.stale = FALSE, !.parts = parts]
      BY <1>1, <2>3 DEF RowType
    <2>4. QED
      BY <2>1, <2>2, <2>3
  <1>3. QED
    BY <1>2 DEF RowMoves, Trims

LEMMA NoPartsLeft ==
    /\ NoParts \in [PartNos -> Puts \cup {None}]
    /\ \A n \in PartNos : NoParts[n] \in {row.parts[n], None}
  BY DEF NoParts

LEMMA ConfirmMoves ==
    ASSUME Configured, IInv, NEW o \in Ops, confirm_part_cleanup(o)
    PROVE  Moves
  <1>1. /\ TypeInv /\ CleanersInv /\ op[o].pc = "confirming" /\ End(o)
        /\ UNCHANGED <<idem, disk, files, put>>
    BY DEF IInv, PartsInv, confirm_part_cleanup, OpAt
  <1>2. row.present => row.status \in Terminal
    BY <1>1 DEF CleanersInv
  <1>3. RowMoves
    BY <1>1, <1>2, RowStays, TrimmedRow, NoPartsLeft DEF confirm_part_cleanup
  <1>4. QED
    BY <1>1, <1>3, EndMoves DEF TypeInv

(*---------------------- maintenance, clock and crash ---------------------*)

LEMMA ReapMoves ==
    ASSUME Configured, IInv, _claim_terminal_or_stale_uploads
    PROVE  Moves
  <1>1. /\ TypeInv /\ RowInv /\ row \in RowType /\ row.present /\ row' = Reaped
        /\ UNCHANGED <<idem, disk, files, put, op, leases>>
    BY DEF IInv, TypeInv, _claim_terminal_or_stale_uploads
  <1>3. ASSUME row.status \notin Terminal PROVE RowMoves
    <2>1. Unleased(row) \in RowType
      BY <1>1, UnleasedRow
    <2>2. row' = [Unleased(row) EXCEPT !.status = "aborted", !.stale = FALSE]
      BY <1>1, <1>3 DEF Reaped
    <2>3. /\ row' \in RowType /\ row'.status = "aborted"
          /\ row'.present = Unleased(row).present /\ row'.parts = Unleased(row).parts
          /\ row'.lease = Unleased(row).lease /\ row'.file = Unleased(row).file
          /\ row'.output = Unleased(row).output
      BY <2>1, <2>2 DEF RowType, Statuses
    <2>4. Ends
      BY <1>1, <1>3, <2>3, UnleasedRow DEF Ends, Terminal
    <2>5. QED
      BY <2>3, <2>4 DEF RowMoves
  <1>4. RowMoves
    BY <1>1, <1>3, TouchedRow DEF Reaped
  <1>5. QED
    BY <1>1, <1>4, PutsStay, DiskStays, FilesStay, OpsStay, AnswersStay
       DEF Moves, TypeInv

LEMMA SweepMoves ==
    ASSUME Configured, IInv, _cleanup_claimed_upload_parts
    PROVE  Moves
  <1>1. TypeInv /\ UNCHANGED <<idem, files, put, op, leases>>
    BY DEF IInv, _cleanup_claimed_upload_parts
  <1>2. /\ row.parts \in [PartNos -> Puts \cup {None}] /\ disk \in SUBSET Puts
    BY <1>1, RecordedType DEF TypeInv
  <1>3. CASE row' = row /\ disk' = disk
    BY <1>1, <1>3, RowStays, DiskStays, PutsStay, FilesStay, OpsStay, AnswersStay
       DEF Moves, TypeInv
  <1>4. CASE row.present /\ row.status \in Terminal
    <2>1. disk' \in SUBSET Puts
      BY <1>2, <1>4 DEF _cleanup_claimed_upload_parts
    <2>2. DiskMoves
      BY <1>4, <2>1 DEF DiskMoves
    <2>3. CASE row' = Cleaned
      <3>1. RowMoves
        BY <1>1, <1>4, <2>3, TrimmedRow, NoPartsLeft DEF Cleaned
      <3>2. QED
        BY <1>1, <2>2, <3>1, PutsStay, FilesStay, OpsStay, AnswersStay
           DEF Moves, TypeInv
    <2>4. CASE row' = row
      BY <1>1, <2>2, <2>4, RowStays, PutsStay, FilesStay, OpsStay, AnswersStay
         DEF Moves, TypeInv
    <2>5. ASSUME NEW left, row' = [row EXCEPT !.stale = FALSE,
                    !.parts = [n \in PartNos |-> IF @[n] \in left THEN @[n] ELSE None]]
          PROVE  Moves
      <3> DEFINE parts == [n \in PartNos |-> IF row.parts[n] \in left
                                             THEN row.parts[n] ELSE None]
      <3>1. row' = [row EXCEPT !.stale = FALSE, !.parts = parts]
        BY <1>1, <2>5 DEF TypeInv, RowType
      <3>2. /\ parts \in [PartNos -> Puts \cup {None}]
            /\ \A n \in PartNos : parts[n] \in {row.parts[n], None}
        BY <1>2
      <3> HIDE DEF parts
      <3>3. RowMoves
        BY <1>1, <1>4, <3>1, <3>2, TrimmedRow
      <3>4. QED
        BY <1>1, <2>2, <3>3, PutsStay, FilesStay, OpsStay, AnswersStay
           DEF Moves, TypeInv
    <2>6. QED
      BY <1>4, <2>3, <2>4, <2>5 DEF _cleanup_claimed_upload_parts
  <1>5. QED
    BY <1>3, <1>4 DEF _cleanup_claimed_upload_parts

LEMMA OrphanPartMoves ==
    ASSUME IInv, NEW p \in Puts, _cleanup_orphan_upload_parts(p)
    PROVE  Moves
  <1>1. TypeInv /\ UNCHANGED <<row, idem, files, put, op, leases>>
    BY DEF IInv, _cleanup_orphan_upload_parts
  <1>2. disk' = disk \ {p} /\ (row.present => p \notin Recorded)
    BY DEF _cleanup_orphan_upload_parts, Orphaned
  <1>3. DiskMoves
    BY <1>1, <1>2 DEF DiskMoves, TypeInv
  <1>4. QED
    BY <1>1, <1>3, RowStays, PutsStay, FilesStay, OpsStay, AnswersStay
       DEF Moves, TypeInv

LEMMA OrphanFileMoves ==
    ASSUME IInv, NEW f \in Completes, _cleanup_orphan_managed_files(f)
    PROVE  Moves
  <1>1. /\ TypeInv /\ UNCHANGED <<row, idem, disk, put, op, leases>>
        /\ files \in [Completes -> (SUBSET Puts) \cup {None}]
    BY DEF IInv, TypeInv, _cleanup_orphan_managed_files
  <1>2. files' = [files EXCEPT ![f] = None] /\ ~Referenced(f)
    BY DEF _cleanup_orphan_managed_files
  <1>3. files' \in [Completes -> (SUBSET Puts) \cup {None}]
    BY <1>1, <1>2
  <1>4. FilesMove
    <2>1. files'[f] = None
      BY <1>1, <1>2
    <2>2. \A g \in Completes : g # f => files'[g] = files[g]
      BY <1>1, <1>2
    <2>3. QED
      BY <1>1, <1>2, <1>3, <2>1, <2>2 DEF FilesMove
  <1>5. QED
    BY <1>1, <1>4, RowStays, PutsStay, DiskStays, OpsStay, AnswersStay
       DEF Moves, TypeInv

LEMMA ClockMoves ==
    ASSUME IInv, lease_expires \/ grows_stale
    PROVE  Moves
  <1>1. TypeInv /\ UNCHANGED <<idem, disk, files, put, op, leases>>
    BY DEF IInv, lease_expires, grows_stale
  <1>2. row' = [row EXCEPT !.stale = TRUE] \/ row' = [row EXCEPT !.expired = TRUE]
    BY DEF lease_expires, grows_stale
  <1>3. RowMoves
    BY <1>1, <1>2, TouchedRow
  <1>4. QED
    BY <1>1, <1>3, PutsStay, DiskStays, FilesStay, OpsStay, AnswersStay
       DEF Moves, TypeInv

\* A crash takes requests where they end, and nothing else.
LEMMA CrashMoves ==
    ASSUME IInv, NEW x \in Processes, process_dies(x)
    PROVE  Moves
  <1>1. /\ TypeInv /\ UNCHANGED <<row, idem, disk, files>>
        /\ put \in [Puts -> PutType] /\ op \in [Ops -> OpType]
    BY DEF IInv, TypeInv, process_dies
  <1>2. leases' \in SUBSET Requests
    BY <1>1 DEF process_dies, TypeInv
  <1>3. ASSUME NEW p \in Puts
        PROVE  /\ put'[p] \in PutType
               /\ put'[p] = put[p] \/ put'[p].pc = "done"
    <2>1. put'[p] = put[p] \/ put'[p] = [put[p] EXCEPT !.pc = "done"]
      BY <1>3 DEF process_dies
    <2>2. put[p] \in PutType
      BY <1>1
    <2>3. /\ [put[p] EXCEPT !.pc = "done"] \in PutType
          /\ [put[p] EXCEPT !.pc = "done"].pc = "done"
      BY <2>2 DEF PutType, PutPcs
    <2>4. QED
      BY <2>1, <2>2, <2>3
  <1>4. PutsMove
    <2>1. put' \in [Puts -> PutType]
      BY <1>3 DEF process_dies
    <2>2. QED
      BY <1>3, <2>1 DEF PutsMove, Committed
  <1>5. ASSUME NEW o \in Ops
        PROVE  /\ op'[o] \in OpType
               /\ op'[o] = op[o]
                  \/ (/\ op'[o].pc = "done" /\ op'[o].file = op[o].file
                      /\ op'[o].answer = op[o].answer)
    <2>1. op'[o] = op[o] \/ op'[o] = [op[o] EXCEPT !.pc = "done"]
      BY <1>5 DEF process_dies
    <2>2. op[o] \in OpType
      BY <1>1
    <2>3. /\ [op[o] EXCEPT !.pc = "done"] \in OpType
          /\ [op[o] EXCEPT !.pc = "done"].pc = "done"
          /\ [op[o] EXCEPT !.pc = "done"].file = op[o].file
          /\ [op[o] EXCEPT !.pc = "done"].answer = op[o].answer
      BY <2>2 DEF OpType, OpPcs
    <2>4. QED
      BY <2>1, <2>2, <2>3
  <1>6. op' \in [Ops -> OpType]
    BY <1>5 DEF process_dies
  <1>7. ASSUME NEW c \in Completes PROVE Works(c)
    BY <1>5 DEF Works, Ops, Working, Early
  <1>8. OpsMove /\ CleanersMove
    BY <1>5, <1>6, <1>7 DEF OpsMove, CleanersMove
  <1>9. AnswersMove
    BY <1>1, <1>5 DEF AnswersMove, Ops, TypeInv
  <1>10. QED
    BY <1>1, <1>2, <1>4, <1>8, <1>9, RowStays, DiskStays, FilesStay DEF Moves

(*------------------------- every step is a move -------------------------*)

LEMMA NextMoves ==
    ASSUME Configured, IInv, Next
    PROVE  Moves
  <1>1. ASSUME NEW c \in Completes, complete_upload(c) PROVE Moves
    <2>1. c \in Ops
      BY DEF Ops
    <2>2. QED
      BY <1>1, <2>1, ExclusiveMoves, ReplayMoves, ClaimMoves, AgainMoves, RefusedMoves,
         AssembleMoves, LinkMoves, FailMoves, ReleaseMoves, PinMoves, PublishMoves,
         PublishRefusedMoves, CleanupMoves, ConfirmMoves DEF complete_upload, CleanupStep
  <1>2. ASSUME NEW a \in Aborts, abort_upload(a) PROVE Moves
    <2>1. a \in Ops
      BY DEF Ops
    <2>2. QED
      BY <1>2, <2>1, ExclusiveMoves, AbortMoves, CleanupMoves, ConfirmMoves
         DEF abort_upload, CleanupStep
  <1>3. CASE Maintenance
    BY <1>3, ReapMoves, SweepMoves, OrphanPartMoves, OrphanFileMoves DEF Maintenance
  <1>4. QED
    BY <1>1, <1>2, <1>3, PutMoves, ClockMoves, CrashMoves DEF Next

LEMMA InitInv ==
    ASSUME Configured, Init
    PROVE  IInv
  <1> USE Constants
  <1>1. TypeInv
    <2>1. row \in RowType
      BY DEF Init, Fresh, NoParts, RowType, Statuses
    <2>2. NoPut \in PutType
      BY SMT DEF NoPut, PutType, PutPcs
    <2>3. NoOp \in OpType
      BY DEF NoOp, OpType, OpPcs
    <2>4. idem \in [Keys -> Completes \cup {None, "pending"}]
      BY DEF Init
    <2>5. files \in [Completes -> (SUBSET Puts) \cup {None}]
      BY DEF Init
    <2>6. put \in [Puts -> PutType] /\ op \in [Ops -> OpType]
      BY <2>2, <2>3 DEF Init
    <2>7. disk \in SUBSET Puts /\ leases \in SUBSET Requests
      BY DEF Init
    <2>8. QED
      BY <2>1, <2>4, <2>5, <2>6, <2>7 DEF TypeInv
  <1>2. /\ row.status = "initiated" /\ row.lease = None /\ row.file = None
        /\ row.output = None /\ row.confirmed = FALSE
        /\ \A n \in PartNos : row.parts[n] = None
    BY DEF Init, Fresh, NoParts
  <1>3. RowInv
    BY <1>2 DEF RowInv
  <1>4. /\ \A p \in Puts : put[p].pc = "idle"
        /\ \A o \in Ops : op[o].pc = "idle" /\ op[o].file = None /\ op[o].answer = None
    BY DEF Init, NoPut, NoOp
  <1>5. Recorded = {}
    BY <1>2 DEF Recorded
  <1>6. PartsInv
    BY <1>2, <1>4, <1>5 DEF PartsInv, PartsInPlace, SupersededInv, CleanersInv,
                            RecordedPartsExist
  <1>7. \A f \in Completes : files[f] = None
    BY DEF Init
  <1>8. FileInv
    BY <1>2, <1>4, <1>7 DEF FileInv, IdsAreFresh, Known, WorkInv, Working, FilesInv,
                            CompletedIsWhole, Ops
  <1>9. AnswerInv
    BY <1>4 DEF Init, AnswerInv, KeysInv, AnswersAgree, Ops
  <1>10. PartsWithinDeclared
    <2>1. Size({}) = 0 /\ Declared \in Nat
      BY DEF Configured, SizesAdd, UploadConstants
    <2>2. Size({}) <= Declared
      BY <2>1, SMT
    <2>3. QED
      BY <1>5, <2>2 DEF PartsWithinDeclared
  <1>11. QED
    BY <1>1, <1>3, <1>6, <1>8, <1>9, <1>10 DEF IInv

LEMMA Invariance ==
    ASSUME Configured
    PROVE  Spec => []IInv
  <1>1. Init => IInv
    BY InitInv
  <1>2. IInv /\ [Next]_vars => IInv'
    <2> SUFFICES ASSUME IInv, [Next]_vars PROVE IInv'
      OBVIOUS
    <2>1. CASE Next
      BY <2>1, NextMoves, MovesKeep
    <2>2. CASE UNCHANGED vars
      <3>1. Moves
        BY <2>2, RowStays, PutsStay, DiskStays, FilesStay, OpsStay, AnswersStay
           DEF vars, IInv, Moves, TypeInv
      <3>2. QED
        BY <3>1, MovesKeep
    <2>3. QED
      BY <2>1, <2>2
  <1>3. QED
    BY <1>1, <1>2, PTL DEF Spec

(*------------------------ candidates and leases --------------------------*)

Kept(p) == row.present /\ p \in Recorded

\* As long as nothing goes wrong, a put keeps its lease until its candidate is
\* gone or bound and what it superseded is gone; a candidate that was taken off
\* the row is about to be discarded by the put that superseded it.
PutInv(p) ==
    /\ put[p].pc \in {"open", "written", "cleaning", "bound"} => p \in leases
    /\ put[p].pc # "unsure"
    /\ p \in disk => put[p].pc \notin {"idle", "validated"}
    /\ p \in disk /\ put[p].pc \in {"bound", "done"} /\ ~Kept(p) =>
          \E q \in Puts : put[q].pc = "bound" /\ put[q].old = p

\* Parts are taken off the row once they are off the disk.
CleanerInv(o) ==
    row.present => /\ op[o].pc = "cleaning" => Recorded \subseteq op[o].paths
                   /\ op[o].pc = "confirming" => Recorded \cap disk = {}

Orderly == (\A p \in Puts : PutInv(p)) /\ (\A o \in Ops : CleanerInv(o))
StrayInv == faults \in Nat /\ (faults = 0 => Orderly)

LEMMA GotoPut ==
    ASSUME TypeInv, NEW p \in Puts, NEW pc \in PutPcs, Goto(p, pc)
    PROVE  /\ put'[p].pc = pc /\ put'[p].old = put[p].old
           /\ \A q \in Puts : q # p => put'[q] = put[q]
  <1>1. put \in [Puts -> PutType] /\ put[p] \in PutType
    BY DEF TypeInv
  <1> DEFINE r == [put[p] EXCEPT !.pc = pc]
  <1>2. r.pc = pc /\ r.old = put[p].old
    BY <1>1 DEF PutType
  <1>3. put' = [put EXCEPT ![p] = r]
    BY DEF Goto
  <1> HIDE DEF r
  <1>4. put'[p] = r /\ \A q \in Puts : q # p => put'[q] = put[q]
    BY <1>1, <1>3
  <1>5. QED
    BY <1>2, <1>4

LEMMA GotoOp ==
    ASSUME TypeInv, NEW o \in Ops, NEW pc \in OpPcs, OpGoto(o, pc)
    PROVE  /\ op'[o].pc = pc /\ op'[o].paths = op[o].paths
           /\ \A d \in Ops : d # o => op'[d] = op[d]
  <1>1. op \in [Ops -> OpType] /\ op[o] \in OpType
    BY DEF TypeInv
  <1> DEFINE r == [op[o] EXCEPT !.pc = pc]
  <1>2. r.pc = pc /\ r.paths = op[o].paths
    BY <1>1 DEF OpType
  <1>3. op' = [op EXCEPT ![o] = r]
    BY DEF OpGoto
  <1> HIDE DEF r
  <1>4. op'[o] = r /\ \A d \in Ops : d # o => op'[d] = op[d]
    BY <1>1, <1>3
  <1>5. QED
    BY <1>2, <1>4

\* The leases of the puts are not those of the other requests.
LEMMA ReleaseOp ==
    ASSUME Configured, NEW o \in Ops, Release(o)
    PROVE  leases \cap Puts \subseteq leases'
  BY DEF Configured, UploadConstants, Release

\* The puts do nothing, and what they wrote stays on the row or goes.
LEMMA PutsAtRest ==
    ASSUME Orderly, put' = put, leases \cap Puts \subseteq leases', disk' \subseteq disk,
           \A p \in disk' : Kept(p) => Kept(p)'
    PROVE  \A p \in Puts : PutInv(p)'
  <1> SUFFICES ASSUME NEW p \in Puts PROVE PutInv(p)'
    OBVIOUS
  <1>1. PutInv(p)
    BY DEF Orderly
  <1>2. QED
    BY <1>1 DEF PutInv

\* A cleaner at rest: the row has ended, so that its parts can only become less.
LEMMA CleanerAtRest ==
    ASSUME Configured, IInv, Orderly, Moves, NEW o \in Ops,
           \A p \in disk' : p \in disk \/ (p \in Puts /\ put[p].pc = "validated"),
           op'[o].pc = op[o].pc, op'[o].paths = op[o].paths
    PROVE  CleanerInv(o)'
  <1> SUFFICES ASSUME row'.present, op[o].pc \in {"cleaning", "confirming"}
               PROVE  CleanerInv(o)'
    BY DEF CleanerInv
  <1>1. TypeInv /\ RowInv /\ CleanersInv /\ PartsInPlace /\ RowMoves
    BY DEF IInv, PartsInv, Moves
  <1>2. row.present /\ row.status \in Terminal
    BY <1>1, EndIsFinal DEF CleanersInv
  <1>3. ASSUME NEW q \in Recorded' PROVE q \in Recorded
    BY <1>1, <1>2, <1>3, RecordedParts DEF Binds, Bindable, Receives, Terminal
  <1>4. ASSUME NEW q \in Recorded PROVE put[q].pc # "validated"
    <2>1. PICK n \in PartNos : q = row.parts[n] /\ row.parts[n] # None
      BY <1>4 DEF Recorded
    <2>2. put[q].pc \in Committed
      BY <1>1, <2>1 DEF PartsInPlace
    <2>3. QED
      BY <2>2 DEF Committed
  <1>5. CleanerInv(o)
    BY DEF Orderly
  <1>6. QED
    BY <1>2, <1>3, <1>4, <1>5 DEF CleanerInv

\* One operation takes a step that takes nothing off the row that is still there.
LEMMA OpActs ==
    ASSUME Configured, IInv, Orderly, Moves, NEW o \in Ops, put' = put,
           leases \cap Puts \subseteq leases', disk' \subseteq disk,
           \A p \in disk' : Kept(p) => Kept(p)',
           \A d \in Ops : d # o => op'[d] = op[d], CleanerInv(o)'
    PROVE  Orderly'
  <1>1. \A p \in Puts : PutInv(p)'
    BY PutsAtRest
  <1>2. ASSUME NEW d \in Ops, d # o PROVE CleanerInv(d)'
    BY <1>2, CleanerAtRest
  <1>3. QED
    BY <1>1, <1>2 DEF Orderly

\* The row keeps its parts.
RowKeeps == row'.present = row.present /\ row'.parts = row.parts

LEMMA SameRecorded ==
    ASSUME RowKeeps
    PROVE  Recorded' = Recorded /\ \A p : Kept(p)' <=> Kept(p)
  BY DEF RowKeeps, Recorded, Kept

\* A put goes on, or ends without its candidate.
LEMMA PutGoesOn ==
    ASSUME Configured, IInv, Orderly, Moves, NEW p \in Puts, RowKeeps, op' = op,
           put[p].pc \notin {"bound", "unsure"},
           put'[p].pc \in {"validated", "open", "written", "cleaning", "done"},
           \A q \in Puts : q # p => put'[q] = put[q],
           leases \ {p} \subseteq leases', disk' \ {p} \subseteq disk,
           p \in disk' => p \in disk \/ put[p].pc = "validated",
           p \in disk' => put'[p].pc \in {"open", "written", "cleaning"},
           put'[p].pc \in {"open", "written", "cleaning"} => p \in leases'
    PROVE  Orderly'
  <1>1. PutInv(p)'
    <2>1. p \in disk' => put'[p].pc \notin {"bound", "done", "idle", "validated"}
      OBVIOUS
    <2>2. put'[p].pc \notin {"unsure", "bound"}
      OBVIOUS
    <2>3. QED
      BY <2>1, <2>2 DEF PutInv
  <1>2. ASSUME NEW q \in Puts, q # p PROVE PutInv(q)'
    <2>1. PutInv(q) /\ put'[q] = put[q] /\ (Kept(q)' <=> Kept(q))
      BY <1>2, SameRecorded DEF Orderly
    <2>2. \A r \in Puts : put[r].pc = "bound" => put'[r] = put[r]
      OBVIOUS
    <2>3. q \in disk' => q \in disk
      BY <1>2
    <2>4. QED
      BY <1>2, <2>1, <2>2, <2>3 DEF PutInv
  <1>3. disk' \in SUBSET Puts
    BY DEF Moves, DiskMoves
  <1>4. ASSUME NEW o \in Ops PROVE CleanerInv(o)'
    BY <1>3, CleanerAtRest
  <1>5. QED
    BY <1>1, <1>2, <1>4 DEF Orderly

LEMMA PutStepOrderly ==
    ASSUME Configured, IInv, Orderly, Moves, NEW p \in Puts, PutStep(p), ~Fault
    PROVE  Orderly'
  <1>1. /\ TypeInv /\ PutInv(p) /\ row \in RowType /\ put \in [Puts -> PutType]
        /\ disk' \in SUBSET Puts /\ disk \in SUBSET Puts
    BY DEF IInv, TypeInv, Orderly, Moves, DiskMoves
  <1>2. put[p].pc # "unsure" /\ op' = op
    BY <1>1 DEF PutInv, PutStep, validate_upload_before_stream, try_acquire,
           write_limited_body, body_fails, body_timeout, _finish_timed_out_body,
           bind_and_commit_part, bind_refused, discard_superseded_part, commit_prepared_part
  <1>3. CASE validate_upload_before_stream(p)
    <2>1. /\ put[p].pc = "idle" /\ p \notin disk /\ UNCHANGED <<disk, leases>>
      BY <1>1, <1>3 DEF validate_upload_before_stream, At, PutInv
    <2>2. RowKeeps
      BY <1>1, <1>3 DEF validate_upload_before_stream, RowType, RowKeeps
    <2>3. CASE Goto(p, "done")
      BY <1>1, <1>2, <2>1, <2>2, <2>3, GotoPut, PutGoesOn DEF PutPcs
    <2>4. CASE put' = [put EXCEPT ![p].pc = "validated", ![p].max = Remaining(PartOf[p])]
      <3> DEFINE r == [put[p] EXCEPT !.pc = "validated", !.max = Remaining(PartOf[p])]
      <3>1. put' = [put EXCEPT ![p] = r]
        BY <1>1, <2>4
      <3>2. r.pc = "validated"
        BY <1>1 DEF PutType
      <3> HIDE DEF r
      <3>3. put'[p].pc = "validated" /\ \A q \in Puts : q # p => put'[q] = put[q]
        BY <1>1, <3>1, <3>2
      <3>4. QED
        BY <1>2, <2>1, <2>2, <3>3, PutGoesOn
    <2>5. QED
      BY <1>3, <2>3, <2>4 DEF validate_upload_before_stream
  <1>4. CASE try_acquire(p)
    <2>1. put[p].pc = "validated" /\ p \notin disk /\ RowKeeps
      BY <1>1, <1>4 DEF try_acquire, At, PutInv, RowKeeps
    <2>2. CASE leases' = leases \cup {p} /\ disk' = disk \cup {p} /\ Goto(p, "open")
      BY <1>1, <1>2, <2>1, <2>2, GotoPut, PutGoesOn DEF PutPcs
    <2>3. CASE Goto(p, "done") /\ UNCHANGED <<leases, disk>>
      BY <1>1, <1>2, <2>1, <2>3, GotoPut, PutGoesOn DEF PutPcs
    <2>4. QED
      BY <1>4, <2>2, <2>3 DEF try_acquire
  <1>5. CASE write_limited_body(p) \/ body_timeout(p)
    <2>1. /\ put[p].pc = "open" /\ p \in leases /\ RowKeeps /\ UNCHANGED <<disk, leases>>
          /\ Goto(p, "written") \/ Goto(p, "cleaning")
      BY <1>1, <1>5 DEF write_limited_body, body_timeout, At, PutInv, RowKeeps
    <2>2. QED
      BY <1>1, <1>2, <2>1, GotoPut, PutGoesOn DEF PutPcs
  <1>6. CASE body_fails(p) \/ _finish_timed_out_body(p) \/ bind_refused(p)
    <2>1. /\ put[p].pc \in {"open", "cleaning", "written"} /\ RowKeeps
          /\ disk' = disk \ {p} /\ leases' = leases \ {p} /\ Goto(p, "done")
      BY <1>6 DEF body_fails, _finish_timed_out_body, bind_refused, At, Unlink, Release,
                  RowKeeps
    <2>2. QED
      BY <1>1, <1>2, <2>1, GotoPut, PutGoesOn DEF PutPcs
  <1>7. CASE bind_and_commit_part(p)
    <2> DEFINE n == PartOf[p]
               r == [put[p] EXCEPT !.pc = "bound", !.old = row.parts[n]]
    <2>1. /\ put[p].pc = "written" /\ Receives /\ row' = Bound(p) /\ UNCHANGED <<disk, leases>>
          /\ put' = [put EXCEPT ![p].pc = "bound", ![p].old = row.parts[n]]
      BY <1>7 DEF bind_and_commit_part, At, Bindable
    <2>2. put' = [put EXCEPT ![p] = r]
      BY <1>1, <2>1
    <2>3. r.pc = "bound" /\ r.old = row.parts[n]
      BY <1>1 DEF PutType
    <2>4. n \in PartNos
      BY Constants
    <2>5. row'.present /\ row'.parts = [row.parts EXCEPT ![n] = p]
      BY <1>1, <2>1 DEF Receives, Bound, RowType
    <2> HIDE DEF r, n
    <2>6. /\ put'[p].pc = "bound" /\ put'[p].old = row.parts[n]
          /\ \A q \in Puts : q # p => put'[q] = put[q]
      BY <1>1, <2>2, <2>3
    <2>7. p \in Recorded' /\ \A q \in Recorded : q \in Recorded' \/ q = row.parts[n]
      <3>1. row.parts \in [PartNos -> Puts \cup {None}] /\ p # None
        BY <1>1, RecordedType, Constants
      <3>2. row'.parts[n] = p /\ \A m \in PartNos : m # n => row'.parts[m] = row.parts[m]
        BY <2>4, <2>5, <3>1
      <3>3. QED
        BY <2>4, <3>1, <3>2 DEF Recorded
    <2>8. PutInv(p)'
      BY <1>1, <2>1, <2>5, <2>6, <2>7 DEF PutInv, Kept
    <2>9. ASSUME NEW q \in Puts, q # p PROVE PutInv(q)'
      <3>1. PutInv(q) /\ put'[q] = put[q]
        BY <2>6, <2>9 DEF Orderly
      <3>2. Kept(q) => Kept(q)' \/ q = put'[p].old
        BY <2>5, <2>6, <2>7 DEF Kept
      <3>3. \A x \in Puts : put[x].pc = "bound" => put'[x] = put[x]
        BY <2>1, <2>6
      <3>4. QED
        BY <2>1, <2>6, <3>1, <3>2, <3>3 DEF PutInv
    <2>10. ASSUME NEW o \in Ops PROVE CleanerInv(o)'
      BY <1>2, <2>1, CleanerAtRest
    <2>11. QED
      BY <2>8, <2>9, <2>10 DEF Orderly
  <1>8. CASE discard_superseded_part(p)
    <2>1. /\ put[p].pc = "bound" /\ RowKeeps /\ disk' = disk \ {put[p].old}
          /\ leases' = leases \ {p} /\ Goto(p, "done")
      BY <1>8 DEF discard_superseded_part, At, Unlink, Release, RowKeeps
    <2>2. /\ put'[p].pc = "done" /\ \A q \in Puts : q # p => put'[q] = put[q]
      BY <1>1, <2>1, GotoPut DEF PutPcs
    <2>3. ASSUME NEW q \in Puts PROVE PutInv(q)'
      <3>1. PutInv(q) /\ (Kept(q)' <=> Kept(q))
        BY <2>1, SameRecorded DEF Orderly
      <3>2. ASSUME q \in disk', put'[q].pc \in {"bound", "done"}, ~Kept(q)'
            PROVE  \E x \in Puts : put'[x].pc = "bound" /\ put'[x].old = q
        <4>1. put[q].pc \in {"bound", "done"} /\ q \in disk /\ q # put[p].old
          BY <2>1, <2>2, <3>2
        <4>2. PICK x \in Puts : put[x].pc = "bound" /\ put[x].old = q
          BY <3>1, <3>2, <4>1 DEF PutInv
        <4>3. x # p
          BY <4>1, <4>2
        <4>4. QED
          BY <2>2, <4>2, <4>3
      <3>3. CASE q = p
        BY <2>2, <3>2, <3>3 DEF PutInv
      <3>4. CASE q # p
        BY <2>1, <2>2, <3>1, <3>2, <3>4 DEF PutInv
      <3>5. QED
        BY <3>3, <3>4
    <2>4. ASSUME NEW o \in Ops PROVE CleanerInv(o)'
      BY <1>2, <2>1, CleanerAtRest
    <2>5. QED
      BY <2>3, <2>4 DEF Orderly
  <1>9. QED
    BY <1>2, <1>3, <1>4, <1>5, <1>6, <1>7, <1>8 DEF PutStep, commit_prepared_part, At

\* An operation that does not come to clean anything.
LEMMA OpMovesOn ==
    ASSUME Configured, IInv, Orderly, Moves, NEW o \in Ops, RowKeeps, put' = put,
           leases \cap Puts \subseteq leases', disk' \subseteq disk,
           \A d \in Ops : d # o => op'[d] = op[d],
           op'[o].pc \notin {"cleaning", "confirming"}
    PROVE  Orderly'
  <1>1. op'[o].pc # "cleaning" /\ op'[o].pc # "confirming"
    OBVIOUS
  <1>2. CleanerInv(o)'
    BY <1>1 DEF CleanerInv
  <1>3. QED
    BY <1>2, SameRecorded, OpActs

\* An operation that has come to clean up the parts of the row.
LEMMA OpCleans ==
    ASSUME Configured, IInv, Orderly, Moves, NEW o \in Ops, RowKeeps, put' = put,
           leases' = leases, disk' = disk, NEW r,
           op' = [op EXCEPT ![o] = r], r.pc = "cleaning", Recorded \subseteq r.paths
    PROVE  Orderly'
  <1>1. op'[o] = r /\ \A d \in Ops : d # o => op'[d] = op[d]
    BY DEF IInv, TypeInv
  <1>2. CleanerInv(o)'
    BY <1>1, SameRecorded DEF CleanerInv
  <1>3. QED
    BY <1>1, <1>2, SameRecorded, OpActs

LEMMA OpEnds ==
    ASSUME Configured, IInv, Orderly, Moves, NEW o \in Ops, RowKeeps, put' = put,
           disk' = disk, End(o)
    PROVE  Orderly'
  <1>1. TypeInv /\ OpGoto(o, "done") /\ Release(o)
    BY DEF IInv, End
  <1>2. op'[o].pc = "done" /\ \A d \in Ops : d # o => op'[d] = op[d]
    BY <1>1, GotoOp DEF OpPcs
  <1>3. QED
    BY <1>1, <1>2, ReleaseOp, OpMovesOn

LEMMA CompleteOrderly ==
    ASSUME Configured, IInv, Orderly, Moves, NEW c \in Completes, ~Fault,
           \/ exclusive_upload_operation(c) \/ is_pending_completion_replay(c)
           \/ claim_completion(c) \/ complete_again(c) \/ complete_refused(c)
           \/ assemble(c) \/ link(c) \/ finalize_fails(c)
    PROVE  Orderly'
  <1>1. /\ TypeInv /\ c \in Ops /\ row \in RowType /\ op \in [Ops -> OpType]
        /\ op[c] \in OpType /\ disk' = disk /\ put' = put
    BY DEF IInv, TypeInv, Ops, exclusive_upload_operation, is_pending_completion_replay,
           claim_completion, complete_again, complete_refused, assemble, link,
           finalize_fails
  <1>2. ASSUME RowKeeps, leases \cap Puts \subseteq leases', NEW r,
               op' = [op EXCEPT ![c] = r], r.pc \notin {"cleaning", "confirming"}
        PROVE  Orderly'
    <2>1. op'[c] = r /\ \A d \in Ops : d # c => op'[d] = op[d]
      BY <1>1, <1>2
    <2>2. QED
      BY <1>1, <1>2, <2>1, OpMovesOn
  <1>3. ASSUME RowKeeps, leases \cap Puts \subseteq leases',
               NEW pc \in OpPcs \ {"cleaning", "confirming"}, OpGoto(c, pc)
        PROVE  Orderly'
    BY <1>1, <1>3, GotoOp, OpMovesOn
  <1>4. CASE exclusive_upload_operation(c)
    <2>1. /\ RowKeeps /\ leases \cap Puts \subseteq leases'
          /\ OpGoto(c, "admitted") \/ OpGoto(c, "done")
      BY <1>4 DEF exclusive_upload_operation, RowKeeps
    <2>2. QED
      BY <1>3, <2>1 DEF OpPcs
  <1>5. CASE is_pending_completion_replay(c)
    <2> DEFINE r == [op[c] EXCEPT !.pc = "keyed", !.pending = (idem[KeyOf[c]] = "pending")]
    <2>1. op' = [op EXCEPT ![c] = r] /\ RowKeeps /\ leases' = leases
      BY <1>1, <1>5 DEF is_pending_completion_replay, RowKeeps
    <2>2. r.pc = "keyed"
      BY <1>1 DEF OpType
    <2> HIDE DEF r
    <2>3. QED
      BY <1>2, <2>1, <2>2
  <1>6. CASE claim_completion(c)
    <2>1. row' = ClaimedRow(c) /\ op' = Claim(c) /\ leases' = leases
      BY <1>6 DEF claim_completion
    <2>2. RowKeeps
      BY <1>1, <2>1 DEF ClaimedRow, RowKeeps, RowType
    <2> DEFINE lease == IF Resumes(c) THEN row.lease ELSE c
               file == IF row.status = "finalizing" THEN row.file ELSE c
               r == [op[c] EXCEPT !.pc = "claimed", !.lease = lease, !.file = file,
                                  !.paths = Recorded]
    <2>3. op' = [op EXCEPT ![c] = r]
      BY <1>1, <2>1 DEF Claim
    <2> HIDE DEF lease, file
    <2>4. r.pc = "claimed"
      BY <1>1 DEF OpType
    <2> HIDE DEF r
    <2>5. QED
      BY <1>2, <2>1, <2>2, <2>3, <2>4
  <1>7. CASE complete_again(c)
    <2> DEFINE file == IF idem[KeyOf[c]] \in {None, "pending"} THEN row.output
                       ELSE idem[KeyOf[c]]
               r == [op[c] EXCEPT !.pc = "cleaning", !.paths = Recorded,
                                  !.expect = "completed", !.answer = file]
    <2>1. op' = [op EXCEPT ![c] = r] /\ RowKeeps /\ leases' = leases
      BY <1>1, <1>7 DEF complete_again, RowKeeps
    <2> HIDE DEF file
    <2>2. r.pc = "cleaning" /\ r.paths = Recorded
      BY <1>1 DEF OpType
    <2> HIDE DEF r
    <2>3. QED
      BY <1>1, <2>1, <2>2, OpCleans
  <1>8. CASE complete_refused(c)
    <2> DEFINE answer == IF Claimable(c) /\ idem[KeyOf[c]] # "pending"
                         THEN idem[KeyOf[c]] ELSE None
               r == [op[c] EXCEPT !.pc = "done", !.answer = answer]
    <2>1. op' = [op EXCEPT ![c] = r] /\ RowKeeps /\ Release(c)
      BY <1>1, <1>8 DEF complete_refused, RowKeeps
    <2> HIDE DEF answer
    <2>2. r.pc = "done"
      BY <1>1 DEF OpType
    <2> HIDE DEF r
    <2>3. QED
      BY <1>1, <1>2, <2>1, <2>2, ReleaseOp
  <1>9. CASE assemble(c)
    <2>1. /\ RowKeeps /\ leases' = leases
          /\ \/ OpGoto(c, "linked") \/ OpGoto(c, "assembled")
             \/ op' = [op EXCEPT ![c].pc = "failing", ![c].expect = "aborted"]
      BY <1>9 DEF assemble, RowKeeps
    <2>2. CASE op' = [op EXCEPT ![c].pc = "failing", ![c].expect = "aborted"]
      <3>1. op'[c].pc = "failing" /\ \A d \in Ops : d # c => op'[d] = op[d]
        BY <1>1, <2>2, FailingOp
      <3>2. QED
        BY <1>1, <2>1, <3>1, OpMovesOn
    <2>3. QED
      BY <1>3, <2>1, <2>2 DEF OpPcs
  <1>10. CASE link(c)
    <2>1. RowKeeps /\ leases' = leases /\ OpGoto(c, "linked")
      BY <1>10 DEF link, RowKeeps
    <2>2. QED
      BY <1>3, <2>1 DEF OpPcs
  <1>11. QED
    BY <1>4, <1>5, <1>6, <1>7, <1>8, <1>9, <1>10 DEF finalize_fails

\* A completion that publishes has the parts that the row still has.
LEMMA PublishOrderly ==
    ASSUME Configured, IInv, Orderly, Moves, NEW c \in Completes, ~Fault,
           \/ release_failed_completion(c) \/ pin_finalized_file(c)
           \/ publish_completion(c) \/ publish_refused(c)
    PROVE  Orderly'
  <1>1. /\ TypeInv /\ c \in Ops /\ row \in RowType /\ op \in [Ops -> OpType]
        /\ op[c] \in OpType /\ disk' = disk /\ put' = put
    BY DEF IInv, TypeInv, Ops, release_failed_completion, pin_finalized_file,
           publish_completion, publish_refused
  <1>2. CASE release_failed_completion(c)
    <2> DEFINE aborts == op[c].expect = "aborted"
               status == IF aborts THEN "aborted" ELSE "receiving"
               confirmed == IF aborts THEN FALSE ELSE row.confirmed
               freed == [Unleased(row) EXCEPT !.status = status,
                           !.confirmed = IF aborts THEN FALSE ELSE @, !.stale = FALSE]
    <2>1. Unleased(row) \in RowType /\ Unleased(row).parts = row.parts
          /\ Unleased(row).present = row.present
      BY <1>1 DEF Unleased, RowType
    <2>2. row' = row \/ row' = freed
      BY <1>2 DEF release_failed_completion
    <2>3. freed.parts = row.parts /\ freed.present = row.present
      BY <2>1 DEF RowType
    <2>4. RowKeeps
      BY <2>2, <2>3 DEF RowKeeps
    <2> HIDE DEF freed
    <2> DEFINE r == [op[c] EXCEPT !.pc = "cleaning", !.paths = Recorded]
    <2>5. r.pc = "cleaning" /\ r.paths = Recorded
      BY <1>1 DEF OpType
    <2>6. End(c) \/ (op' = [op EXCEPT ![c] = r] /\ leases' = leases)
      <3>1. \/ End(c)
            \/ /\ op' = [op EXCEPT ![c].pc = "cleaning", ![c].paths = Recorded]
               /\ UNCHANGED leases
        BY <1>2 DEF release_failed_completion
      <3>2. QED
        BY <1>1, <3>1
    <2> HIDE DEF r
    <2>7. QED
      BY <1>1, <2>4, <2>5, <2>6, OpEnds, OpCleans
  <1>3. CASE pin_finalized_file(c)
    <2>1. RowKeeps /\ (End(c) \/ (OpGoto(c, "pinned") /\ leases' = leases))
      BY <1>3 DEF pin_finalized_file, RowKeeps
    <2>2. CASE OpGoto(c, "pinned") /\ leases' = leases
      BY <1>1, <2>1, <2>2, GotoOp, OpMovesOn DEF OpPcs
    <2>3. QED
      BY <1>1, <2>1, <2>2, OpEnds
  <1>4. CASE publish_completion(c)
    <2> DEFINE output == [Unleased(row) EXCEPT !.status = "completed",
                                               !.output = op[c].file, !.stale = FALSE]
               paths == IF Done(c) THEN Recorded ELSE op[c].paths
               r == [op[c] EXCEPT !.pc = "cleaning", !.expect = "completed",
                                  !.paths = paths, !.answer = op[c].file]
    <2>1. /\ OpAt(c, "pinned") /\ (Done(c) \/ Publishable(c)) /\ leases' = leases
          /\ row' = IF Done(c) THEN row ELSE output
          /\ op' = [op EXCEPT ![c] = r]
      BY <1>1, <1>4 DEF publish_completion
    <2>2. Unleased(row) \in RowType /\ Unleased(row).parts = row.parts
          /\ Unleased(row).present = row.present
      BY <1>1 DEF Unleased, RowType
    <2>3. output.parts = row.parts /\ output.present = row.present
      BY <2>2 DEF RowType
    <2> HIDE DEF output
    <2>4. RowKeeps
      BY <2>1, <2>3 DEF RowKeeps
    <2>5. paths = Recorded
      BY <2>1 DEF IInv, FileInv, WorkInv, Working, OpAt, Publishable
    <2> HIDE DEF paths
    <2>6. r.pc = "cleaning" /\ r.paths = paths
      BY <1>1 DEF OpType
    <2> HIDE DEF r
    <2>7. QED
      BY <1>1, <2>1, <2>4, <2>5, <2>6, OpCleans
  <1>5. CASE publish_refused(c)
    BY <1>1, <1>5, OpEnds DEF publish_refused, RowKeeps
  <1>6. QED
    BY <1>2, <1>3, <1>4, <1>5

\* What is taken off the row has been taken off the disk.
LEMMA CleanupOrderly ==
    ASSUME Configured, IInv, Orderly, Moves, NEW o \in Ops, ~Fault,
           cleanup_committed_parts(o) \/ confirm_part_cleanup(o)
    PROVE  Orderly'
  <1>1. TypeInv /\ op[o] \in OpType /\ CleanerInv(o) /\ row \in RowType /\ put' = put
    BY DEF IInv, TypeInv, Orderly, cleanup_committed_parts, confirm_part_cleanup
  <1>2. CASE cleanup_committed_parts(o)
    <2>1. /\ op[o].pc = "cleaning" /\ disk' = disk \ op[o].paths
          /\ OpGoto(o, "confirming") /\ leases' = leases /\ row' = row
      BY <1>2 DEF cleanup_committed_parts, OpAt
    <2>2. RowKeeps
      BY <2>1 DEF RowKeeps
    <2>3. op'[o].pc = "confirming" /\ \A d \in Ops : d # o => op'[d] = op[d]
      BY <1>1, <2>1, GotoOp DEF OpPcs
    <2>4. CleanerInv(o)'
      BY <1>1, <2>1, <2>2, <2>3, SameRecorded DEF CleanerInv
    <2>5. QED
      BY <1>1, <2>1, <2>2, <2>3, <2>4, SameRecorded, OpActs
  <1>3. CASE confirm_part_cleanup(o)
    <2>1. /\ op[o].pc = "confirming" /\ End(o) /\ disk' = disk
          /\ \/ row' = row
             \/ row' = [row EXCEPT !.parts = NoParts, !.confirmed = TRUE, !.stale = FALSE]
      BY <1>3 DEF confirm_part_cleanup, OpAt
    <2>2. OpGoto(o, "done") /\ leases \cap Puts \subseteq leases'
      BY <2>1, ReleaseOp DEF End
    <2>3. op'[o].pc = "done" /\ \A d \in Ops : d # o => op'[d] = op[d]
      BY <1>1, <2>2, GotoOp DEF OpPcs
    <2>4. ASSUME NEW p \in disk', Kept(p) PROVE FALSE
      BY <1>1, <2>1, <2>4 DEF CleanerInv, Kept
    <2>5. CleanerInv(o)'
      BY <2>3 DEF CleanerInv
    <2>6. QED
      BY <1>1, <2>1, <2>2, <2>3, <2>4, <2>5, OpActs
  <1>4. QED
    BY <1>2, <1>3

LEMMA AbortOrderly ==
    ASSUME Configured, IInv, Orderly, Moves, NEW a \in Aborts,
           exclusive_upload_operation(a) \/ prepare_abort(a)
    PROVE  Orderly'
  <1>1. /\ TypeInv /\ a \in Ops /\ row \in RowType /\ op \in [Ops -> OpType]
        /\ op[a] \in OpType /\ disk' = disk /\ put' = put
    BY DEF IInv, TypeInv, Ops, exclusive_upload_operation, prepare_abort
  <1>2. CASE exclusive_upload_operation(a)
    <2>1. /\ RowKeeps /\ leases \cap Puts \subseteq leases'
          /\ OpGoto(a, "admitted") \/ OpGoto(a, "done")
      BY <1>2 DEF exclusive_upload_operation, RowKeeps
    <2>2. QED
      BY <1>1, <2>1, GotoOp, OpMovesOn DEF OpPcs
  <1>3. CASE prepare_abort(a)
    <2> DEFINE r == [op[a] EXCEPT !.pc = "cleaning", !.paths = Recorded,
                                  !.expect = "aborted"]
               ended == [row EXCEPT !.status = "aborted", !.confirmed = FALSE,
                                    !.stale = FALSE]
    <2>1. \/ row' = row /\ End(a)
          \/ row' = ended /\ op' = [op EXCEPT ![a] = r] /\ leases' = leases
      BY <1>1, <1>3 DEF prepare_abort
    <2>2. ended.parts = row.parts /\ ended.present = row.present
      BY <1>1 DEF RowType
    <2> HIDE DEF ended
    <2>3. RowKeeps
      BY <2>1, <2>2 DEF RowKeeps
    <2>4. r.pc = "cleaning" /\ r.paths = Recorded
      BY <1>1 DEF OpType
    <2> HIDE DEF r
    <2>5. QED
      BY <1>1, <2>1, <2>3, <2>4, OpEnds, OpCleans
  <1>4. QED
    BY <1>2, <1>3

\* The maintenance and the clock.
LEMMA RestOrderly ==
    ASSUME Configured, IInv, Orderly, Moves, ~Fault,
           Maintenance \/ lease_expires \/ grows_stale
    PROVE  Orderly'
  <1>1. /\ TypeInv /\ row \in RowType /\ UNCHANGED <<put, op, leases>>
    BY DEF IInv, TypeInv, Maintenance, _claim_terminal_or_stale_uploads,
           _cleanup_claimed_upload_parts, _cleanup_orphan_upload_parts,
           _cleanup_orphan_managed_files, lease_expires, grows_stale
  <1>2. disk' \subseteq disk /\ (disk' = disk \ Recorded \/ RowKeeps)
    <2>1. CASE _claim_terminal_or_stale_uploads
      <3>1. Unleased(row) \in RowType /\ Unleased(row).parts = row.parts
            /\ Unleased(row).present = row.present
        BY <1>1 DEF Unleased, RowType
      <3> DEFINE u == Unleased(row)
                 x == [u EXCEPT !.status = "aborted", !.stale = FALSE]
                 y == [row EXCEPT !.stale = FALSE]
      <3>2. row' = x \/ row' = y
        BY <2>1 DEF _claim_terminal_or_stale_uploads, Reaped
      <3>3. y.parts = row.parts /\ y.present = row.present
        BY <1>1 DEF RowType
      <3> HIDE DEF u, y
      <3>4. x.parts = u.parts /\ x.present = u.present
        BY <3>1 DEF RowType, u
      <3> HIDE DEF x
      <3>5. RowKeeps
        BY <3>1, <3>2, <3>3, <3>4 DEF RowKeeps, u
      <3>6. QED
        BY <2>1, <3>5 DEF _claim_terminal_or_stale_uploads
    <2>2. CASE _cleanup_claimed_upload_parts
      <3>1. UNCHANGED <<row, disk>> \/ disk' = disk \ Recorded
        BY <2>2 DEF _cleanup_claimed_upload_parts
      <3>2. QED
        BY <3>1 DEF RowKeeps
    <2>3. CASE \/ \E p \in Puts : _cleanup_orphan_upload_parts(p)
               \/ \E f \in Completes : _cleanup_orphan_managed_files(f)
      BY <2>3 DEF _cleanup_orphan_upload_parts, _cleanup_orphan_managed_files, RowKeeps
    <2>4. CASE lease_expires \/ grows_stale
      <3>1. \/ row' = [row EXCEPT !.expired = TRUE]
            \/ row' = [row EXCEPT !.stale = TRUE]
        BY <2>4 DEF lease_expires, grows_stale
      <3>2. RowKeeps
        BY <1>1, <3>1 DEF RowKeeps, RowType
      <3>3. QED
        BY <2>4, <3>2 DEF lease_expires, grows_stale
    <2>5. QED
      BY <2>1, <2>2, <2>3, <2>4 DEF Maintenance
  <1>3. ASSUME NEW p \in disk', Kept(p) PROVE Kept(p)'
    BY <1>2, <1>3, SameRecorded DEF Kept
  <1>4. \A p \in Puts : PutInv(p)'
    BY <1>1, <1>2, <1>3, PutsAtRest
  <1>5. ASSUME NEW o \in Ops PROVE CleanerInv(o)'
    BY <1>1, <1>2, CleanerAtRest
  <1>6. QED
    BY <1>4, <1>5 DEF Orderly

LEMMA StrayNext ==
    ASSUME Configured, IInv, StrayInv, [Next]_vars
    PROVE  StrayInv'
  <1>1. \/ faults' = faults \/ faults' = faults + 1
    <2>1. \A p \in Puts : PutStep(p) => faults' = faults \/ faults' = faults + 1
      BY DEF PutStep, validate_upload_before_stream, try_acquire, write_limited_body,
             body_fails, body_timeout, _finish_timed_out_body, bind_and_commit_part,
             bind_refused, discard_superseded_part, commit_prepared_part, Unlink,
             Fault, NoFault
    <2>2. \A o \in Ops : CleanupStep(o) => faults' = faults \/ faults' = faults + 1
      BY DEF CleanupStep, cleanup_committed_parts, confirm_part_cleanup, Fault, NoFault
    <2>3. ASSUME NEW c \in Completes, complete_upload(c)
          PROVE  faults' = faults \/ faults' = faults + 1
      <3>1. CASE \/ exclusive_upload_operation(c) \/ is_pending_completion_replay(c)
                 \/ complete_again(c) \/ complete_refused(c) \/ assemble(c) \/ link(c)
                 \/ release_failed_completion(c) \/ pin_finalized_file(c)
                 \/ publish_refused(c)
        BY <3>1 DEF exclusive_upload_operation, is_pending_completion_replay,
                    complete_again, complete_refused, assemble, link,
                    release_failed_completion, pin_finalized_file, publish_refused
      <3>2. CASE claim_completion(c) \/ publish_completion(c) \/ finalize_fails(c)
        BY <3>2 DEF claim_completion, publish_completion, finalize_fails, Fault, NoFault
      <3>3. CASE CleanupStep(c)
        BY <2>2, <3>3 DEF Ops
      <3>4. QED
        BY <2>3, <3>1, <3>2, <3>3 DEF complete_upload
    <2>4. \A a \in Aborts : abort_upload(a) => faults' = faults \/ faults' = faults + 1
      BY <2>2 DEF Ops, abort_upload, exclusive_upload_operation, prepare_abort
    <2>5. Maintenance \/ lease_expires \/ grows_stale \/ UNCHANGED vars
             => faults' = faults \/ faults' = faults + 1
      BY DEF Maintenance, _claim_terminal_or_stale_uploads,
             _cleanup_claimed_upload_parts, _cleanup_orphan_upload_parts,
             _cleanup_orphan_managed_files, lease_expires, grows_stale, vars, Fault, NoFault
    <2>6. \A x \in Processes : process_dies(x) => faults' = faults + 1
      BY DEF process_dies, Fault
    <2>7. QED
      BY <2>1, <2>3, <2>4, <2>5, <2>6 DEF Next
  <1>2. faults \in Nat /\ faults' \in Nat /\ (faults' = 0 => faults = 0 /\ ~Fault)
    BY <1>1, SMT DEF StrayInv, Fault
  <1> SUFFICES ASSUME faults' = 0 PROVE Orderly'
    BY <1>2 DEF StrayInv
  <1>3. Orderly /\ ~Fault
    BY <1>2 DEF StrayInv
  <1>4. CASE UNCHANGED vars
    <2>1. UNCHANGED <<row, disk, put, op, leases>> /\ RowKeeps
      BY <1>4 DEF vars, RowKeeps
    <2>2. \A p \in Puts : PutInv(p)'
      BY <1>3, <2>1, SameRecorded, PutsAtRest
    <2>3. ASSUME NEW o \in Ops PROVE CleanerInv(o)'
      BY <1>3, <2>1, SameRecorded DEF Orderly, CleanerInv
    <2>4. QED
      BY <2>2, <2>3 DEF Orderly
  <1>5. CASE Next
    <2>1. Moves
      BY <1>5, NextMoves
    <2>2. ASSUME NEW c \in Completes, complete_upload(c) PROVE Orderly'
      BY <1>3, <2>1, <2>2, CompleteOrderly, PublishOrderly, CleanupOrderly
         DEF complete_upload, CleanupStep, Ops
    <2>3. ASSUME NEW a \in Aborts, abort_upload(a) PROVE Orderly'
      BY <1>3, <2>1, <2>3, AbortOrderly, CleanupOrderly DEF abort_upload, CleanupStep, Ops
    <2>4. ~ \E x \in Processes : process_dies(x)
      BY <1>3 DEF process_dies
    <2>5. QED
      BY <1>3, <1>5, <2>1, <2>2, <2>3, <2>4, PutStepOrderly, RestOrderly DEF Next
  <1>6. QED
    BY <1>4, <1>5

(*------------------------------ theorems ---------------------------------*)

\* Every variable keeps its type; a row has a lease exactly while it is
\* finalized, and its parts are confirmed to be gone only after its end.
THEOREM TypeCorrectness ==
    ASSUME Configured
    PROVE  Spec => []TypeOK
  <1>1. IInv => TypeOK
    BY DEF IInv, TypeInv, RowInv, RowType, Statuses, TypeOK
  <1>2. QED
    BY <1>1, Invariance, PTL

\* A part that the row counts on is on the disk as long as the upload can still
\* be completed, whatever puts, completions, aborts, maintenance and crashes
\* run beside one another (discard_superseded_part, commit_prepared_part,
\* cleanup_committed_parts and maintenance_cleanup.py remove candidates).
THEOREM RecordedPartsStay ==
    ASSUME Configured
    PROVE  Spec => []RecordedPartsExist
  <1>1. IInv => RecordedPartsExist
    BY DEF IInv, PartsInv
  <1>2. QED
    BY <1>1, Invariance, PTL

\* What publish_completion has published is there, has the declared size and
\* bytes that are a valid file, and is made of the parts that the row held:
\* neither a completion that lost its claim nor the maintenance changes that.
THEOREM PublishedIsWhole ==
    ASSUME Configured
    PROVE  Spec => []CompletedIsWhole
  <1>1. IInv => CompletedIsWhole
    BY DEF IInv, FileInv
  <1>2. QED
    BY <1>1, Invariance, PTL

\* All completions that are answered name one file, the one of the row, across
\* replays, lost answers, recovered leases and the keys they came with
\* (claim_completion, publish_completion, the idempotency records).
THEOREM OneAnswer ==
    ASSUME Configured
    PROVE  Spec => []AnswersAgree
  <1>1. IInv => AnswersAgree
    BY DEF IInv, AnswerInv
  <1>2. QED
    BY <1>1, Invariance, PTL

\* The recorded parts never exceed the declared size: put_part_file checks the
\* room once more under the row lock.
THEOREM PartsFit ==
    ASSUME Configured
    PROVE  Spec => []PartsWithinDeclared
  <1>1. IInv => PartsWithinDeclared
    BY DEF IInv
  <1>2. QED
    BY <1>1, Invariance, PTL

\* A completed upload stays completed with its file: no abort, no failed
\* completion and no cleanup takes the row back.
THEOREM CompletionIsFinal ==
    ASSUME Configured
    PROVE  Spec => [][StaysCompleted]_vars
  <1>1. IInv /\ [Next]_vars => [StaysCompleted]_vars
    <2> SUFFICES ASSUME IInv, Next PROVE StaysCompleted
      OBVIOUS
    <2>1. RowInv /\ RowMoves
      BY NextMoves DEF IInv, Moves
    <2>2. QED
      BY <2>1, EndIsFinal
  <1>2. QED
    BY <1>1, Invariance, PTL DEF Spec

\* The limiter bounds what an upload can leave behind: unless a process died, an
\* answer was lost or a file could not be removed, a candidate that no row knows
\* of belongs to a put that holds its lease, or is the one which that put has
\* superseded and is about to discard.
THEOREM StrayCandidates ==
    ASSUME Configured
    PROVE  Spec => []StrayCandidatesBounded
  <1>1. Init => StrayInv
    <2> SUFFICES ASSUME Init PROVE StrayInv
      OBVIOUS
    <2>1. faults \in Nat
      BY SMT DEF Init
    <2>2. disk = {} /\ put = [p \in Puts |-> NoPut] /\ op = [o \in Ops |-> NoOp]
      BY DEF Init
    <2>3. \A p \in Puts : put[p].pc = "idle"
      BY <2>2 DEF NoPut
    <2>4. \A o \in Ops : op[o].pc = "idle"
      BY <2>2 DEF NoOp
    <2>5. QED
      BY <2>1, <2>2, <2>3, <2>4 DEF StrayInv, Orderly, PutInv, CleanerInv
  <1>2. ASSUME IInv, StrayInv, [Next]_vars PROVE StrayInv'
    BY <1>2, StrayNext
  <1>3. ASSUME IInv, StrayInv PROVE StrayCandidatesBounded
    <2> SUFFICES ASSUME faults = 0,
                        NEW p \in disk, p \notin (IF row.present THEN Recorded ELSE {})
                 PROVE  p \in leases \cap Puts
                        \/ \E q \in leases \cap Puts : put[q].old = p
      BY DEF StrayCandidatesBounded
    <2>1. p \in Puts /\ put[p] \in PutType /\ Orderly /\ ~Kept(p)
      BY <1>3 DEF IInv, TypeInv, StrayInv, Kept
    <2>2. PutInv(p) /\ put[p].pc \in PutPcs
      BY <2>1 DEF Orderly, PutType
    <2>3. CASE put[p].pc = "done"
      <3>1. PICK q \in Puts : put[q].pc = "bound" /\ put[q].old = p
        BY <2>1, <2>2, <2>3 DEF PutInv
      <3>2. q \in leases
        BY <2>1, <3>1 DEF Orderly, PutInv
      <3>3. QED
        BY <3>1, <3>2
    <2>4. CASE put[p].pc # "done"
      BY <2>1, <2>2, <2>4 DEF PutInv, PutPcs
    <2>5. QED
      BY <2>3, <2>4
  <1>4. QED
    BY <1>1, <1>2, <1>3, Invariance, PTL DEF Spec

==============================================================================
