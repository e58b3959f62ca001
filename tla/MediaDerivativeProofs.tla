------------------------ MODULE MediaDerivativeProofs ------------------------
(***************************************************************************)
(* What a task of the media worker guarantees for any number of workers,   *)
(* claims, attempts and lost files, and what one worker at a time          *)
(* guarantees of the file.                                                 *)
(***************************************************************************)
EXTENDS MediaDerivative, TLAPS

USE Zenon

(*---------------------------- the invariant ------------------------------*)

TaskType == [status : {"queued", "running", "ready", "failed"},
             lease : 0 .. MaxClaims, leased : BOOLEAN,
             attempts : 0 .. MaxAttempts, due : BOOLEAN]
Outcomes == {"none", "skipped", "retry", "fatal"}
JobType == [pc : Pcs, claim : 0 .. MaxClaims, inode : 0 .. MaxClaims, new : BOOLEAN,
            outcome : Outcomes]

\* A worker that has a whole file in hand, its own or one that it found.
Made == {"made", "linking", "linked", "committing", "unsure", "discarding"}

\* What a job knows of its claim and of its file: the file does not exist, is
\* being written by nobody else, or is whole.
JobOK(j) ==
    /\ j.pc # "idle" => j.claim \in Claims /\ j.claim <= claims
    /\ j.pc = "looking" => content[j.claim] = NoFile
    /\ j.pc = "making" => content[j.claim] = "partial" /\ j.inode = j.claim
    /\ j.pc \in Made => j.inode \in Claims /\ content[j.inode] \in Digests

JobsInv ==
    /\ \A w \in Workers : JobOK(job[w])
    /\ \A v, w \in Workers :
          job[v].pc # "idle" /\ job[w].pc # "idle" /\ job[v].claim = job[w].claim => v = w
    /\ \A c \in Claims : ~(c <= claims) => content[c] = NoFile

\* A row is made for whole bytes only, and a ready task has one.
RowsInv ==
    /\ fileRow \in Digests \cup {NoFile}
    /\ pointer => fileRow \in Digests
    /\ task.status = "ready" => pointer

IInv == TypeOK /\ JobsInv /\ RowsInv

(*-------------------------- types and constants --------------------------*)

LEMMA Bounds ==
    ASSUME MediaConstants
    PROVE  /\ \A c \in Claims : c \in 0 .. MaxClaims /\ c # 0
           /\ 0 \in 0 .. MaxClaims
           /\ 0 \in 0 .. MaxAttempts
           /\ 0 \in 0 .. MaxRepairs
           /\ \A c \in 0 .. MaxClaims : c # 0 => c \in Claims
           /\ NoFile \notin Digests /\ NoFile # "partial" /\ "partial" \notin Digests
  BY SMT DEF MediaConstants, Claims

LEMMA IdleJob ==
    ASSUME MediaConstants
    PROVE  Idle \in JobType /\ Idle.pc = "idle"
  BY Bounds DEF Idle, JobType, Pcs, Outcomes

LEMMA Types ==
    ASSUME TypeOK
    PROVE  /\ task \in TaskType /\ job \in [Workers -> JobType]
           /\ content \in [Claims -> Digests \cup {NoFile, "partial"}]
           /\ claims \in 0 .. MaxClaims /\ staging \in 0 .. MaxClaims
           /\ dest \in 0 .. MaxClaims /\ pointer \in BOOLEAN
           /\ withdrawn \in BOOLEAN /\ lost \in 0 .. MaxRepairs
           /\ fileRow \in Digests \cup {"partial", NoFile}
  BY DEF TypeOK, TaskType, JobType, Outcomes

LEMMA TypesNext ==
    ASSUME task' \in TaskType, job' \in [Workers -> JobType],
           content' \in [Claims -> Digests \cup {NoFile, "partial"}],
           claims' \in 0 .. MaxClaims, staging' \in 0 .. MaxClaims,
           dest' \in 0 .. MaxClaims, pointer' \in BOOLEAN,
           withdrawn' \in BOOLEAN, lost' \in 0 .. MaxRepairs,
           fileRow' \in Digests \cup {"partial", NoFile}
    PROVE  TypeOK'
  BY DEF TypeOK, TaskType, JobType, Outcomes

\* How a worker goes on, fails and stops.
LEMMA Goes ==
    ASSUME TypeOK, NEW w \in Workers, NEW pc \in Pcs, Goto(w, pc)
    PROVE  /\ job' = [job EXCEPT ![w] = job'[w]] /\ job'[w] \in JobType
           /\ job'[w].pc = pc /\ job'[w].claim = job[w].claim
           /\ job'[w].inode = job[w].inode /\ job'[w].new = job[w].new
           /\ job'[w].outcome = job[w].outcome
  <1>1. job \in [Workers -> JobType] /\ job[w] \in JobType
    BY Types
  <1> DEFINE j == [job[w] EXCEPT !.pc = pc]
  <1>2. /\ j \in JobType /\ j.pc = pc /\ j.claim = job[w].claim
        /\ j.inode = job[w].inode /\ j.new = job[w].new /\ j.outcome = job[w].outcome
    BY <1>1 DEF JobType
  <1>3. job' = [job EXCEPT ![w] = j]
    BY DEF Goto
  <1> HIDE DEF j
  <1>4. job'[w] = j
    BY <1>1, <1>3
  <1>5. QED
    BY <1>2, <1>3, <1>4

LEMMA Fails ==
    ASSUME TypeOK, NEW w \in Workers, NEW pc \in Pcs, NEW o \in Outcomes, Fail(w, pc, o)
    PROVE  /\ job' = [job EXCEPT ![w] = job'[w]] /\ job'[w] \in JobType
           /\ job'[w].pc = pc /\ job'[w].claim = job[w].claim
           /\ job'[w].inode = job[w].inode /\ job'[w].new = job[w].new
           /\ job'[w].outcome = o
  <1>1. job \in [Workers -> JobType] /\ job[w] \in JobType
    BY Types
  <1> DEFINE j == [job[w] EXCEPT !.pc = pc, !.outcome = o]
  <1>2. /\ j \in JobType /\ j.pc = pc /\ j.claim = job[w].claim
        /\ j.inode = job[w].inode /\ j.new = job[w].new /\ j.outcome = o
    BY <1>1 DEF JobType
  <1>3. job' = [job EXCEPT ![w] = j]
    BY <1>1 DEF Fail
  <1> HIDE DEF j
  <1>4. job'[w] = j
    BY <1>1, <1>3
  <1>5. QED
    BY <1>2, <1>3, <1>4

LEMMA Stops ==
    ASSUME MediaConstants, TypeOK, NEW w \in Workers, Stop(w)
    PROVE  /\ job' = [job EXCEPT ![w] = job'[w]] /\ job'[w] \in JobType
           /\ job'[w].pc = "idle"
  <1>1. job \in [Workers -> JobType]
    BY Types
  <1>2. job'[w] = Idle
    BY <1>1 DEF Stop
  <1>3. QED
    BY <1>2, IdleJob DEF Stop

LEMMA EndedTask ==
    ASSUME MediaConstants, NEW t \in TaskType,
           NEW s \in {"queued", "running", "ready", "failed"}
    PROVE  /\ Ended(t, s) \in TaskType /\ Ended(t, s).status = s
           /\ Ended(t, s).attempts = t.attempts /\ Ended(t, s).due = t.due
  BY Bounds DEF TaskType, Ended

(*------------------------- one worker takes a step -----------------------*)

\* A worker that goes on with its claim, and with a file that is as its place
\* wants it, disturbs no other.
LEMMA JobStep ==
    ASSUME TypeOK, JobsInv, NEW w \in Workers, NEW j \in JobType,
           job' = [job EXCEPT ![w] = j], content' = content, claims' = claims,
           j.pc # "idle" => job[w].pc # "idle" /\ j.claim = job[w].claim,
           j.pc = "looking" => content[j.claim] = NoFile,
           j.pc = "making" => content[j.claim] = "partial" /\ j.inode = j.claim,
           j.pc \in Made => j.inode \in Claims /\ content[j.inode] \in Digests
    PROVE  job' \in [Workers -> JobType] /\ JobsInv'
  <1>1. job \in [Workers -> JobType]
    BY Types
  <1>2. /\ job' \in [Workers -> JobType] /\ job'[w] = j
        /\ \A v \in Workers : v # w => job'[v] = job[v]
    BY <1>1
  <1>3. JobOK(j)
    BY DEF JobsInv, JobOK
  <1>4. \A v \in Workers : JobOK(job'[v])
    BY <1>2, <1>3 DEF JobsInv
  <1>5. \A v \in Workers : JobOK(job[v])'
    BY <1>4 DEF JobOK
  <1>6. ASSUME NEW v \in Workers, NEW u \in Workers, job'[v].pc # "idle",
               job'[u].pc # "idle", job'[v].claim = job'[u].claim
        PROVE  v = u
    <2>1. /\ job[v].pc # "idle" /\ job'[v].claim = job[v].claim
          /\ job[u].pc # "idle" /\ job'[u].claim = job[u].claim
      BY <1>2, <1>6
    <2>2. QED
      BY <1>6, <2>1 DEF JobsInv
  <1>7. QED
    BY <1>2, <1>5, <1>6 DEF JobsInv

\* The one who writes the file of a claim is the one who has the claim.
LEMMA WriteStep ==
    ASSUME MediaConstants, TypeOK, JobsInv, NEW w \in Workers, NEW j \in JobType,
           NEW bytes \in Digests \cup {"partial"},
           job[w].pc \in {"looking", "making"},
           job' = [job EXCEPT ![w] = j], claims' = claims,
           content' = [content EXCEPT ![job[w].claim] = bytes],
           j.claim = job[w].claim, j.inode = j.claim,
           \/ j.pc = "making" /\ bytes = "partial"
           \/ j.pc = "made" /\ bytes \in Digests
           \/ j.pc = "failing"
    PROVE  /\ job' \in [Workers -> JobType] /\ JobsInv'
           /\ content' \in [Claims -> Digests \cup {NoFile, "partial"}]
           /\ \A c \in Claims : content[c] \in Digests => content'[c] = content[c]
  <1> USE Bounds
  <1>1. /\ job \in [Workers -> JobType]
        /\ content \in [Claims -> Digests \cup {NoFile, "partial"}]
    BY Types
  <1> DEFINE c == job[w].claim
  <1>2. c \in Claims /\ c <= claims /\ content[c] \in {NoFile, "partial"}
    BY DEF JobsInv, JobOK
  <1>3. /\ content' \in [Claims -> Digests \cup {NoFile, "partial"}]
        /\ content'[c] = bytes
    BY <1>1, <1>2
  <1>4. \A d \in Claims : d # c => content'[d] = content[d]
    BY <1>1
  <1>5. /\ job' \in [Workers -> JobType] /\ job'[w] = j
        /\ \A v \in Workers : v # w => job'[v] = job[v]
    BY <1>1
  <1> HIDE DEF c
  <1>6. j.claim = c /\ j.inode = c
    BY DEF c
  <1>7. JobOK(j)'
    BY <1>2, <1>3, <1>6 DEF JobOK, Made
  <1>8. ASSUME NEW v \in Workers, v # w PROVE JobOK(job[v])'
    <2>1. JobOK(job[v])
      BY DEF JobsInv
    <2>2. job[v].pc # "idle" => job[v].claim # c
      BY <1>8 DEF JobsInv, c
    <2>3. job[v].pc \in Made => job[v].inode # c
      BY <1>2, <2>1 DEF JobOK
    <2>4. job'[v] = job[v]
      BY <1>5, <1>8
    <2>5. /\ job[v].pc # "idle" => content'[job[v].claim] = content[job[v].claim]
          /\ job[v].pc \in Made => content'[job[v].inode] = content[job[v].inode]
      BY <1>4, <2>1, <2>2, <2>3 DEF JobOK
    <2>6. QED
      BY <2>1, <2>4, <2>5 DEF JobOK
  <1>9. \A v \in Workers : JobOK(job[v])'
    BY <1>5, <1>7, <1>8
  <1>10. ASSUME NEW v \in Workers, NEW u \in Workers, job'[v].pc # "idle",
                job'[u].pc # "idle", job'[v].claim = job'[u].claim
         PROVE  v = u
    <2>1. /\ job[v].pc # "idle" /\ job'[v].claim = job[v].claim
          /\ job[u].pc # "idle" /\ job'[u].claim = job[u].claim
      BY <1>5, <1>6, <1>10 DEF c
    <2>2. QED
      BY <1>10, <2>1 DEF JobsInv
  <1>11. \A d \in Claims : ~(d <= claims') => content'[d] = NoFile
    BY <1>2, <1>4 DEF JobsInv
  <1>12. \A d \in Claims : content[d] \in Digests => content'[d] = content[d]
    BY <1>2, <1>4
  <1>13. QED
    BY <1>3, <1>5, <1>9, <1>10, <1>11, <1>12 DEF JobsInv

\* A worker with a file in hand goes on with it; any worker may fail or stop.
LEMMA GoesOn ==
    ASSUME TypeOK, JobsInv, NEW w \in Workers, NEW pc \in Made \cup {"failing"},
           job[w].pc \in Made, Goto(w, pc), content' = content, claims' = claims
    PROVE  job' \in [Workers -> JobType] /\ JobsInv'
  <1>1. pc \in Pcs /\ pc \notin {"idle", "looking", "making"}
    BY DEF Made, Pcs
  <1>2. job[w].pc # "idle" /\ job[w].inode \in Claims /\ content[job[w].inode] \in Digests
    BY DEF JobsInv, JobOK, Made
  <1>3. /\ job' = [job EXCEPT ![w] = job'[w]] /\ job'[w] \in JobType
        /\ job'[w].pc = pc /\ job'[w].claim = job[w].claim
        /\ job'[w].inode = job[w].inode
    BY <1>1, Goes
  <1>4. QED
    BY <1>1, <1>2, <1>3, JobStep

LEMMA FailsOn ==
    ASSUME TypeOK, JobsInv, NEW w \in Workers, NEW o \in Outcomes,
           NEW pc \in Made \cup {"failing"}, job[w].pc # "idle",
           pc = "failing" \/ job[w].pc \in Made,
           Fail(w, pc, o), content' = content, claims' = claims
    PROVE  job' \in [Workers -> JobType] /\ JobsInv'
  <1>1. pc \in Pcs /\ pc \notin {"idle", "looking", "making"}
    BY DEF Made, Pcs
  <1>2. job[w].pc \in Made => job[w].inode \in Claims /\ content[job[w].inode] \in Digests
    BY DEF JobsInv, JobOK
  <1>3. /\ job' = [job EXCEPT ![w] = job'[w]] /\ job'[w] \in JobType
        /\ job'[w].pc = pc /\ job'[w].claim = job[w].claim
        /\ job'[w].inode = job[w].inode
    BY <1>1, Fails
  <1>4. pc \in Made => job[w].pc \in Made
    BY DEF Made
  <1>5. QED
    BY <1>1, <1>2, <1>3, <1>4, JobStep

LEMMA StopsOn ==
    ASSUME MediaConstants, TypeOK, JobsInv, NEW w \in Workers, Stop(w),
           content' = content, claims' = claims
    PROVE  job' \in [Workers -> JobType] /\ JobsInv'
  <1>1. /\ job' = [job EXCEPT ![w] = job'[w]] /\ job'[w] \in JobType
        /\ job'[w].pc = "idle"
    BY Stops
  <1>2. QED
    BY <1>1, JobStep DEF Made

\* A step that leaves the rows alone.
LEMMA RowsStay ==
    ASSUME IInv, UNCHANGED <<rows, claims, env>>, JobsInv',
           job' \in [Workers -> JobType],
           content' \in [Claims -> Digests \cup {NoFile, "partial"}],
           staging' \in 0 .. MaxClaims, dest' \in 0 .. MaxClaims
    PROVE  IInv'
  <1>1. TypeOK /\ RowsInv
    BY DEF IInv
  <1>2. TypeOK'
    BY <1>1, Types, TypesNext DEF rows, env
  <1>3. RowsInv'
    BY <1>1 DEF RowsInv, rows
  <1>4. QED
    BY <1>2, <1>3 DEF IInv

\* A step that leaves the bytes alone, too.
LEMMA BytesStay ==
    ASSUME IInv, UNCHANGED <<rows, content, claims, env>>,
           job' \in [Workers -> JobType] /\ JobsInv',
           staging' \in 0 .. MaxClaims, dest' \in 0 .. MaxClaims
    PROVE  IInv'
  BY RowsStay, Types DEF IInv

LEMMA ClaimKeeps ==
    ASSUME MediaConstants, IInv, NEW w \in Workers, _claim_task(w)
    PROVE  IInv'
  <1> USE Bounds
  <1>1. /\ TypeOK /\ JobsInv /\ RowsInv /\ job[w].pc = "idle"
        /\ UNCHANGED <<fileRow, pointer, files, env>>
    BY DEF IInv, _claim_task
  <1>2. /\ task \in TaskType /\ job \in [Workers -> JobType]
        /\ content \in [Claims -> Digests \cup {NoFile, "partial"}]
        /\ claims \in 0 .. MaxClaims
    BY <1>1, Types
  <1>3. CASE withdrawn \/ task.attempts >= MaxAttempts
    <2>1. task' = Ended(task, "failed") /\ UNCHANGED <<job, claims>>
      BY <1>3 DEF _claim_task
    <2>2. task' \in TaskType /\ task'.status = "failed"
      BY <1>2, <2>1, EndedTask
    <2>3. TypeOK'
      BY <1>1, <2>1, <2>2, Types, TypesNext DEF files, env
    <2>4. JobsInv'
      BY <1>1, <2>1 DEF JobsInv, JobOK, files
    <2>5. RowsInv'
      BY <1>1, <2>2 DEF RowsInv
    <2>6. QED
      BY <2>3, <2>4, <2>5 DEF IInv
  <1>4. CASE ~(withdrawn \/ task.attempts >= MaxAttempts)
    <2>1. /\ claims < MaxClaims /\ claims' = claims + 1
          /\ task' = [status |-> "running", lease |-> claims', leased |-> TRUE,
                      attempts |-> task.attempts + 1, due |-> TRUE]
          /\ job' = [job EXCEPT ![w] = [Idle EXCEPT !.pc = "looking", !.claim = claims']]
      BY <1>4 DEF _claim_task
    <2>2. /\ claims' \in 0 .. MaxClaims /\ claims' \in Claims /\ claims' <= claims'
          /\ ~(claims' <= claims)
          /\ \A c \in Claims : c <= claims => c <= claims'
      BY <1>2, <2>1, SMT DEF MediaConstants, Claims
    <2>3. task.attempts + 1 \in 0 .. MaxAttempts
      <3>1. task.attempts \in 0 .. MaxAttempts
        BY <1>2 DEF TaskType
      <3>2. ~(task.attempts >= MaxAttempts)
        BY <1>4
      <3>3. QED
        BY <3>1, <3>2, SMT DEF MediaConstants
    <2>4. task' \in TaskType /\ task'.status = "running"
      BY <2>1, <2>2, <2>3 DEF TaskType
    <2> DEFINE j == [Idle EXCEPT !.pc = "looking", !.claim = claims']
    <2>5. j \in JobType /\ j.pc = "looking" /\ j.claim = claims'
      BY <2>2, IdleJob DEF JobType, Pcs
    <2>6. job' = [job EXCEPT ![w] = j]
      BY <2>1
    <2> HIDE DEF j
    <2>7. /\ job' \in [Workers -> JobType] /\ job'[w] = j
          /\ \A v \in Workers : v # w => job'[v] = job[v]
      BY <1>2, <2>5, <2>6
    <2>8. content' = content /\ content[claims'] = NoFile
      BY <1>1, <2>2 DEF files, JobsInv
    <2>9. JobOK(job[w])'
      BY <2>2, <2>5, <2>7, <2>8 DEF JobOK, Made
    <2>10. ASSUME NEW v \in Workers, v # w
           PROVE  /\ JobOK(job[v])'
                  /\ job[v].pc # "idle" => job[v].claim # claims'
      BY <1>1, <2>2, <2>7, <2>8, <2>10 DEF JobsInv, JobOK
    <2>11. ASSUME NEW v \in Workers, NEW u \in Workers, job'[v].pc # "idle",
                  job'[u].pc # "idle", job'[v].claim = job'[u].claim
           PROVE  v = u
      <3>1. ASSUME NEW x \in Workers, x # w, job'[x].pc # "idle"
            PROVE  job[x].pc # "idle" /\ job'[x].claim = job[x].claim /\ job[x].claim # claims'
        BY <2>7, <2>10, <3>1
      <3>2. job'[w].claim = claims'
        BY <2>5, <2>7
      <3>3. CASE v = w \/ u = w
        BY <2>11, <3>1, <3>2, <3>3
      <3>4. CASE v # w /\ u # w
        BY <1>1, <2>11, <3>1, <3>4 DEF JobsInv
      <3>5. QED
        BY <3>3, <3>4
    <2>12. \A c \in Claims : ~(c <= claims') => content'[c] = NoFile
      BY <1>1, <2>2, <2>8 DEF JobsInv
    <2>13. JobsInv'
      BY <2>9, <2>10, <2>11, <2>12 DEF JobsInv
    <2>14. TypeOK'
      BY <1>1, <2>2, <2>4, <2>7, Types, TypesNext DEF files, env
    <2>15. RowsInv'
      BY <1>1, <2>4 DEF RowsInv
    <2>16. QED
      BY <2>13, <2>14, <2>15 DEF IInv
  <1>5. QED
    BY <1>3, <1>4

LEMMA PrepareKeeps ==
    ASSUME MediaConstants, IInv, NEW w \in Workers,
           \/ _reuse_published_derivative(w) \/ create_staging(w)
           \/ transform_ends(w) \/ lose_lease(w)
           \/ \E outcome \in {"retry", "fatal"} : transform_fails(w, outcome)
    PROVE  IInv'
  <1> USE Bounds
  <1>1. TypeOK /\ JobsInv
    BY DEF IInv
  <1>2. /\ job \in [Workers -> JobType] /\ job[w] \in JobType
        /\ content \in [Claims -> Digests \cup {NoFile, "partial"}]
        /\ staging \in 0 .. MaxClaims /\ dest \in 0 .. MaxClaims
    BY <1>1, Types
  <1>3. CASE _reuse_published_derivative(w)
    <2>1. /\ job[w].pc = "looking" /\ dest # NoName
          /\ UNCHANGED <<rows, files, claims, env>>
      BY <1>3 DEF _reuse_published_derivative
    <2>2. CASE content[dest] \in Digests
      <3> DEFINE j == [job[w] EXCEPT !.pc = "made", !.inode = dest]
      <3>1. job' = [job EXCEPT ![w] = j]
        BY <1>2, <1>3, <2>2 DEF _reuse_published_derivative
      <3>2. j \in JobType /\ j.pc = "made" /\ j.claim = job[w].claim /\ j.inode = dest
        BY <1>2 DEF JobType, Pcs
      <3> HIDE DEF j
      <3>3. dest \in Claims
        BY <1>2, <2>1 DEF NoName
      <3>4. job' \in [Workers -> JobType] /\ JobsInv'
        BY <1>1, <2>1, <2>2, <3>1, <3>2, <3>3, JobStep DEF files
      <3>5. QED
        BY <1>2, <2>1, <3>4, BytesStay DEF files
    <2>3. CASE content[dest] \notin Digests
      <3>1. Fail(w, "failing", "fatal")
        BY <1>3, <2>3 DEF _reuse_published_derivative
      <3>2. job' \in [Workers -> JobType] /\ JobsInv'
        BY <1>1, <2>1, <3>1, FailsOn DEF files, Outcomes
      <3>3. QED
        BY <1>2, <2>1, <3>2, BytesStay DEF files
    <2>4. QED
      BY <2>2, <2>3
  <1>4. CASE create_staging(w)
    <2>1. /\ job[w].pc = "looking" /\ staging' = job[w].claim
          /\ content' = [content EXCEPT ![job[w].claim] = "partial"]
          /\ UNCHANGED <<rows, dest, claims, env>>
      BY <1>4 DEF create_staging
    <2> DEFINE j == [job[w] EXCEPT !.pc = "making", !.inode = job[w].claim]
    <2>2. job' = [job EXCEPT ![w] = j]
      BY <1>2, <1>4 DEF create_staging
    <2>3. j \in JobType /\ j.pc = "making" /\ j.claim = job[w].claim /\ j.inode = j.claim
      BY <1>2 DEF JobType, Pcs
    <2> HIDE DEF j
    <2>4. /\ job' \in [Workers -> JobType] /\ JobsInv'
          /\ content' \in [Claims -> Digests \cup {NoFile, "partial"}]
      BY <1>1, <2>1, <2>2, <2>3, WriteStep
    <2>5. staging' \in 0 .. MaxClaims /\ dest' \in 0 .. MaxClaims
      BY <1>2, <2>1 DEF JobType
    <2>6. QED
      BY <2>1, <2>4, <2>5, RowsStay
  <1>5. CASE transform_ends(w)
    <2>1. job[w].pc = "making" /\ UNCHANGED <<rows, staging, dest, claims, env>>
      BY <1>5 DEF transform_ends
    <2>2. PICK digest \in Digests : content' = [content EXCEPT ![job[w].claim] = digest]
      BY <1>5 DEF transform_ends
    <2>3. /\ job' = [job EXCEPT ![w] = job'[w]] /\ job'[w] \in JobType
          /\ job'[w].pc \in {"made", "failing"} /\ job'[w].claim = job[w].claim
          /\ job'[w].inode = job[w].inode
      <3>1. CASE staging = job[w].claim
        BY <1>1, <1>5, <3>1, Goes DEF transform_ends, Pcs
      <3>2. CASE staging # job[w].claim
        BY <1>1, <1>5, <3>2, Fails DEF transform_ends, Pcs, Outcomes
      <3>3. QED
        BY <3>1, <3>2
    <2>4. job'[w].inode = job'[w].claim
      BY <1>1, <2>1, <2>3 DEF JobsInv, JobOK
    <2>5. /\ job' \in [Workers -> JobType] /\ JobsInv'
          /\ content' \in [Claims -> Digests \cup {NoFile, "partial"}]
      BY <1>1, <2>1, <2>2, <2>3, <2>4, WriteStep
    <2>6. QED
      BY <1>2, <2>1, <2>5, RowsStay
  <1>6. CASE lose_lease(w)
    <2>1. /\ Stop(w) /\ UNCHANGED <<rows, dest, content, claims, env>>
          /\ staging' \in 0 .. MaxClaims
      BY <1>2, <1>6 DEF lose_lease, Without, NoName
    <2>2. QED
      BY <1>1, <1>2, <2>1, StopsOn, BytesStay
  <1>7. ASSUME NEW outcome \in {"retry", "fatal"}, transform_fails(w, outcome) PROVE IInv'
    <2>1. /\ Fail(w, "failing", outcome) /\ UNCHANGED <<rows, dest, content, claims, env>>
          /\ staging' \in 0 .. MaxClaims /\ job[w].pc # "idle" /\ outcome \in Outcomes
      BY <1>2, <1>7 DEF transform_fails, Without, NoName, Outcomes
    <2>2. job' \in [Workers -> JobType] /\ JobsInv'
      BY <1>1, <2>1, FailsOn
    <2>3. QED
      BY <1>2, <2>1, <2>2, BytesStay
  <1>8. QED
    BY <1>3, <1>4, <1>5, <1>6, <1>7

LEMMA LinkKeeps ==
    ASSUME MediaConstants, IInv, NEW w \in Workers,
           \/ _lease_is_current(w) \/ link_free_name(w) \/ link_taken_name(w)
           \/ unlink_staging(w)
    PROVE  IInv'
  <1> USE Bounds
  <1>1. TypeOK /\ JobsInv
    BY DEF IInv
  <1>2. /\ job \in [Workers -> JobType] /\ job[w] \in JobType
        /\ staging \in 0 .. MaxClaims /\ dest \in 0 .. MaxClaims
    BY <1>1, Types
  <1>3. job[w].pc \in Made /\ job[w].pc # "idle"
    BY DEF Made, _lease_is_current, link_free_name, link_taken_name, unlink_staging
  <1>4. /\ UNCHANGED <<rows, content, claims, env>>
        /\ staging' \in 0 .. MaxClaims /\ dest' \in 0 .. MaxClaims
    <2>1. CASE _lease_is_current(w)
      BY <1>2, <2>1 DEF _lease_is_current, Without, NoName
    <2>2. CASE link_free_name(w)
      BY <1>2, <2>2 DEF link_free_name
    <2>3. CASE link_taken_name(w)
      BY <1>2, <2>3 DEF link_taken_name, Without, NoName
    <2>4. CASE unlink_staging(w)
      <3>1. /\ UNCHANGED <<rows, content, claims, env>> /\ dest' \in {dest, TakenBack(w)}
            /\ staging' \in {staging, NoName}
        BY <2>4 DEF unlink_staging
      <3>2. QED
        BY <1>2, <3>1 DEF TakenBack, Without, NoName
    <2>5. QED
      BY <2>1, <2>2, <2>3, <2>4
  <1>5. job' \in [Workers -> JobType] /\ JobsInv'
    <2>1. ASSUME Stop(w) PROVE job' \in [Workers -> JobType] /\ JobsInv'
      BY <1>1, <1>4, <2>1, StopsOn
    <2>2. ASSUME NEW pc \in Made, Goto(w, pc) PROVE job' \in [Workers -> JobType] /\ JobsInv'
      BY <1>1, <1>3, <1>4, <2>2, GoesOn
    <2>3. ASSUME NEW o \in Outcomes, Fail(w, "failing", o)
          PROVE  job' \in [Workers -> JobType] /\ JobsInv'
      BY <1>1, <1>3, <1>4, <2>3, FailsOn
    <2>4. CASE _lease_is_current(w)
      BY <2>1, <2>2, <2>4 DEF _lease_is_current, Made
    <2>5. CASE link_free_name(w)
      <3>1. \/ Fail(w, "failing", "retry") \/ Fail(w, "failing", "fatal")
            \/ job' = [job EXCEPT ![w].pc = "linked", ![w].new = TRUE]
        BY <2>5 DEF link_free_name
      <3>2. CASE job' = [job EXCEPT ![w].pc = "linked", ![w].new = TRUE]
        <4> DEFINE j == [job[w] EXCEPT !.pc = "linked", !.new = TRUE]
        <4>1. job' = [job EXCEPT ![w] = j]
          BY <1>2, <3>2
        <4>2. /\ j \in JobType /\ j.pc = "linked" /\ j.claim = job[w].claim
              /\ j.inode = job[w].inode
          BY <1>2 DEF JobType, Pcs
        <4> HIDE DEF j
        <4>3. job[w].inode \in Claims /\ content[job[w].inode] \in Digests
          BY <1>1, <1>3 DEF JobsInv, JobOK
        <4>4. QED
          BY <1>1, <1>3, <1>4, <4>1, <4>2, <4>3, JobStep
      <3>3. QED
        BY <2>3, <3>1, <3>2 DEF Outcomes
    <2>6. CASE link_taken_name(w)
      BY <2>2, <2>3, <2>6 DEF link_taken_name, Made, Outcomes
    <2>7. CASE unlink_staging(w)
      <3>1. \/ Stop(w) \/ Goto(w, "committing")
            \/ Fail(w, "failing", "retry") \/ Fail(w, "failing", "fatal")
        BY <2>7 DEF unlink_staging
      <3>2. QED
        BY <2>1, <2>2, <2>3, <3>1 DEF Made, Outcomes
    <2>8. QED
      BY <2>4, <2>5, <2>6, <2>7
  <1>6. QED
    BY <1>4, <1>5, BytesStay

\* The one who commits gives the row the bytes of the file in hand.
LEMMA CommitKeeps ==
    ASSUME MediaConstants, IInv, NEW w \in Workers, job[w].pc \in Made, Commit(w),
           job' \in [Workers -> JobType] /\ JobsInv', UNCHANGED <<files, claims, env>>
    PROVE  IInv'
  <1>1. TypeOK /\ JobsInv
    BY DEF IInv
  <1>2. content[job[w].inode] \in Digests
    BY <1>1 DEF JobsInv, JobOK
  <1>3. task' \in TaskType /\ fileRow' \in Digests /\ pointer' = TRUE
    BY <1>1, <1>2, Types, EndedTask DEF Commit
  <1>4. TypeOK'
    BY <1>1, <1>3, Types, TypesNext DEF files, env
  <1>5. RowsInv'
    BY <1>3 DEF RowsInv
  <1>6. QED
    BY <1>4, <1>5 DEF IInv

\* The task changes hands, and nothing else does.
LEMMA TaskKeeps ==
    ASSUME IInv, task' \in TaskType,
           task'.status = "ready" => task.status = "ready",
           job' \in [Workers -> JobType] /\ JobsInv',
           UNCHANGED <<fileRow, pointer, files, claims, env>>
    PROVE  IInv'
  <1>1. TypeOK'
    BY Types, TypesNext DEF IInv, files, env
  <1>2. RowsInv'
    BY DEF IInv, RowsInv
  <1>3. QED
    BY <1>1, <1>2 DEF IInv

LEMMA PublishKeeps ==
    ASSUME MediaConstants, IInv, NEW w \in Workers,
           \/ _publish_database(w) \/ commit_unknown(w)
           \/ _publication_database_state(w) \/ _discard_uncommitted_publication(w)
    PROVE  IInv'
  <1> USE Bounds
  <1>1. TypeOK /\ JobsInv
    BY DEF IInv
  <1>2. /\ job \in [Workers -> JobType] /\ job[w] \in JobType
        /\ staging \in 0 .. MaxClaims /\ dest \in 0 .. MaxClaims
    BY <1>1, Types
  <1>3. job[w].pc \in Made /\ job[w].pc # "idle"
    BY DEF Made, _publish_database, commit_unknown, _publication_database_state,
           _discard_uncommitted_publication
  <1>4. /\ UNCHANGED <<content, claims, env, staging>> /\ dest' \in 0 .. MaxClaims
        /\ UNCHANGED rows \/ (UNCHANGED dest /\ Commit(w))
    <2>1. CASE _publish_database(w)
      BY <1>2, <2>1 DEF _publish_database, files
    <2>2. CASE commit_unknown(w)
      BY <1>2, <2>2 DEF commit_unknown, files
    <2>3. CASE _publication_database_state(w)
      BY <1>2, <2>3 DEF _publication_database_state, files
    <2>4. CASE _discard_uncommitted_publication(w)
      BY <1>2, <2>4 DEF _discard_uncommitted_publication, TakenBack, Without, NoName
    <2>5. QED
      BY <2>1, <2>2, <2>3, <2>4
  <1>5. job' \in [Workers -> JobType] /\ JobsInv'
    <2>1. ASSUME Stop(w) PROVE job' \in [Workers -> JobType] /\ JobsInv'
      BY <1>1, <1>4, <2>1, StopsOn
    <2>2. ASSUME NEW pc \in Made \cup {"failing"}, Goto(w, pc)
          PROVE  job' \in [Workers -> JobType] /\ JobsInv'
      BY <1>1, <1>3, <1>4, <2>2, GoesOn
    <2>3. ASSUME NEW pc \in Made, NEW o \in Outcomes, Fail(w, pc, o)
          PROVE  job' \in [Workers -> JobType] /\ JobsInv'
      BY <1>1, <1>3, <1>4, <2>3, FailsOn
    <2>4. CASE _publish_database(w)
      <3>1. Fail(w, "discarding", "skipped") \/ Stop(w) \/ Fail(w, "unsure", "fatal")
        BY <2>4 DEF _publish_database
      <3>2. QED
        BY <2>1, <2>3, <3>1 DEF Made, Outcomes
    <2>5. CASE commit_unknown(w)
      BY <2>3, <2>5 DEF commit_unknown, Made, Outcomes
    <2>6. CASE _publication_database_state(w)
      BY <2>1, <2>2, <2>6 DEF _publication_database_state, Made
    <2>7. CASE _discard_uncommitted_publication(w)
      BY <2>1, <2>2, <2>7 DEF _discard_uncommitted_publication
    <2>8. QED
      BY <2>4, <2>5, <2>6, <2>7
  <1>6. CASE UNCHANGED rows
    BY <1>2, <1>4, <1>5, <1>6, BytesStay
  <1>7. CASE UNCHANGED dest /\ Commit(w)
    BY <1>3, <1>4, <1>5, <1>7, CommitKeeps DEF files
  <1>8. QED
    BY <1>4, <1>6, <1>7

\* Another status, deadline or number of attempts is still a task.
LEMMA RetriedTask ==
    ASSUME MediaConstants, task \in TaskType
    PROVE  /\ [Ended(task, "queued") EXCEPT !.due = FALSE] \in TaskType
           /\ [Ended(task, "queued") EXCEPT !.due = FALSE].status = "queued"
           /\ [Ended(task, "queued") EXCEPT !.attempts = 0, !.due = TRUE] \in TaskType
           /\ [Ended(task, "queued") EXCEPT !.attempts = 0, !.due = TRUE].status = "queued"
           /\ [task EXCEPT !.leased = FALSE] \in TaskType
           /\ [task EXCEPT !.leased = FALSE].status = task.status
           /\ [task EXCEPT !.due = TRUE] \in TaskType
           /\ [task EXCEPT !.due = TRUE].status = task.status
  <1> DEFINE t == Ended(task, "queued")
  <1>1. t \in TaskType /\ t.status = "queued"
    BY EndedTask
  <1> HIDE DEF t
  <1>2. [t EXCEPT !.due = FALSE] \in TaskType /\ [t EXCEPT !.due = FALSE].status = "queued"
    BY <1>1 DEF TaskType
  <1>3. /\ [t EXCEPT !.attempts = 0, !.due = TRUE] \in TaskType
        /\ [t EXCEPT !.attempts = 0, !.due = TRUE].status = "queued"
    BY <1>1, Bounds DEF TaskType
  <1>4. /\ [task EXCEPT !.leased = FALSE] \in TaskType
        /\ [task EXCEPT !.leased = FALSE].status = task.status
    BY DEF TaskType
  <1>5. /\ [task EXCEPT !.due = TRUE] \in TaskType
        /\ [task EXCEPT !.due = TRUE].status = task.status
    BY DEF TaskType
  <1>6. QED
    BY <1>2, <1>3, <1>4, <1>5 DEF t

LEMMA FailureKeeps ==
    ASSUME MediaConstants, IInv, NEW w \in Workers, _record_failure(w) \/ worker_dies(w)
    PROVE  IInv'
  <1>1. /\ TypeOK /\ JobsInv /\ task \in TaskType
        /\ staging \in 0 .. MaxClaims /\ dest \in 0 .. MaxClaims
    BY Types DEF IInv
  <1>2. Stop(w) /\ UNCHANGED <<fileRow, pointer, files, claims, env>>
    BY DEF _record_failure, worker_dies, rows
  <1>3. job' \in [Workers -> JobType] /\ JobsInv'
    BY <1>1, <1>2, StopsOn DEF files
  <1>4. \/ task' = task \/ task' = Ended(task, "failed")
        \/ task' = [Ended(task, "queued") EXCEPT !.due = FALSE]
    BY DEF _record_failure, worker_dies, rows
  <1>5. task' \in TaskType /\ (task'.status = "ready" => task.status = "ready")
    BY <1>1, <1>4, EndedTask, RetriedTask
  <1>6. QED
    BY <1>2, <1>3, <1>5, TaskKeeps

LEMMA EnvironmentKeeps ==
    ASSUME MediaConstants, IInv, Environment
    PROVE  IInv'
  <1>1. /\ TypeOK /\ JobsInv /\ RowsInv /\ task \in TaskType /\ job \in [Workers -> JobType]
        /\ staging \in 0 .. MaxClaims /\ dest \in 0 .. MaxClaims
        /\ content \in [Claims -> Digests \cup {NoFile, "partial"}]
    BY Types DEF IInv
  <1>2. ASSUME UNCHANGED <<job, content, claims>> PROVE JobsInv'
    BY <1>1, <1>2 DEF JobsInv, JobOK
  <1>3. CASE lease_expires \/ retry_falls_due \/ requeue_missing_ready_derivative
    <2>1. /\ UNCHANGED <<fileRow, pointer, files, job, claims, env>>
          /\ \/ task' = [task EXCEPT !.leased = FALSE] \/ task' = [task EXCEPT !.due = TRUE]
             \/ task' = [Ended(task, "queued") EXCEPT !.attempts = 0, !.due = TRUE]
      BY <1>3 DEF lease_expires, retry_falls_due, requeue_missing_ready_derivative
    <2>2. task' \in TaskType /\ (task'.status = "ready" => task.status = "ready")
      BY <1>1, <2>1, RetriedTask
    <2>3. QED
      BY <1>1, <1>2, <2>1, <2>2, TaskKeeps DEF files
  <1>4. CASE _cleanup_orphan_managed_files
    <2>1. UNCHANGED <<rows, staging, content, job, claims, env>> /\ dest' = NoName
      BY <1>4 DEF _cleanup_orphan_managed_files
    <2>2. QED
      BY <1>1, <1>2, <2>1, BytesStay, Bounds DEF NoName
  <1>5. CASE withdraw \/ lose_file
    <2>1. /\ UNCHANGED <<rows, staging, content, job, claims>>
          /\ dest' \in {dest, NoName} /\ withdrawn' \in {withdrawn, TRUE}
      BY <1>5 DEF withdraw, lose_file, files
    <2>2. lost' \in 0 .. MaxRepairs
      <3>1. lost \in 0 .. MaxRepairs
        BY <1>1, Types
      <3>2. CASE withdraw
        BY <3>1, <3>2 DEF withdraw
      <3>3. CASE lose_file
        <4>1. lost < MaxRepairs /\ lost' = lost + 1
          BY <3>3 DEF lose_file
        <4>2. QED
          BY <3>1, <4>1, SMT DEF MediaConstants
      <3>4. QED
        BY <1>5, <3>2, <3>3
    <2>3. TypeOK'
      BY <1>1, <2>1, <2>2, Types, TypesNext, Bounds DEF rows, NoName
    <2>4. JobsInv' /\ RowsInv'
      BY <1>1, <1>2, <2>1 DEF RowsInv, rows
    <2>5. QED
      BY <2>3, <2>4 DEF IInv
  <1>6. QED
    BY <1>3, <1>4, <1>5 DEF Environment

(*---------------------------- any workers --------------------------------*)

LEMMA InitInv ==
    ASSUME MediaConstants, Init
    PROVE  IInv
  <1>1. task \in TaskType
    BY Bounds DEF Init, TaskType
  <1>2. job \in [Workers -> JobType] /\ \A w \in Workers : job[w].pc = "idle"
    BY IdleJob DEF Init
  <1>3. TypeOK
    BY <1>1, <1>2, Bounds DEF Init, TypeOK, TaskType, JobType, Outcomes, NoName
  <1>4. JobsInv
    BY <1>2 DEF JobsInv, JobOK, Init, Made
  <1>5. RowsInv
    BY DEF RowsInv, Init
  <1>6. QED
    BY <1>3, <1>4, <1>5 DEF IInv

LEMMA NextInv ==
    ASSUME MediaConstants, IInv, [Next]_vars
    PROVE  IInv'
  <1>1. ASSUME NEW w \in Workers, Step(w) \/ Fault(w) PROVE IInv'
    BY <1>1, ClaimKeeps, PrepareKeeps, LinkKeeps, PublishKeeps, FailureKeeps DEF Step, Fault
  <1>2. CASE UNCHANGED vars
    BY <1>2, Types, TaskKeeps
       DEF vars, rows, files, env, IInv, JobsInv, JobOK
  <1>3. QED
    BY <1>1, <1>2, EnvironmentKeeps DEF Next

LEMMA Invariance ==
    ASSUME MediaConstants
    PROVE  Spec => []IInv
  BY InitInv, NextInv, PTL DEF Spec

(*--------------------------- one worker alone ----------------------------*)

Holding == {"looking", "making", "made", "linking", "linked", "committing", "discarding"}

\* The only worker holds the task from its claim to the end of its job, or to a
\* commit whose answer it has not got; no file comes between it and its names.
AloneInv(w) ==
    lost = 0 =>
      /\ job[w].pc \in Holding => task.status = "running" /\ task.lease = job[w].claim
      /\ job[w].pc = "making" => staging = job[w].claim /\ dest = NoName
      /\ job[w].pc = "made" /\ Reused(w) => dest = job[w].inode
      /\ \/ job[w].pc = "made" /\ ~Reused(w)
         \/ job[w].pc = "linking"
         => staging = job[w].inode /\ dest = NoName
      /\ job[w].pc = "linked" => staging = job[w].inode /\ dest = job[w].inode
      /\ job[w].pc = "committing" => dest = job[w].inode
      /\ job[w].pc = "unsure" =>
            /\ dest = job[w].inode
            /\ \/ task.status = "running" /\ task.lease = job[w].claim
               \/ Committed(w)
      /\ task.status = "ready" => dest # NoName /\ content[dest] = fileRow

LEMMA AlonePrepares ==
    ASSUME MediaConstants, IInv, NEW w, Workers = {w}, AloneInv(w), lost = 0,
           \/ _claim_task(w) \/ _reuse_published_derivative(w) \/ create_staging(w)
           \/ transform_ends(w)
    PROVE  AloneInv(w)'
  <1> USE Bounds
  <1>1. /\ TypeOK /\ JobsInv /\ w \in Workers /\ JobOK(job[w])
        /\ job \in [Workers -> JobType] /\ job[w] \in JobType
        /\ content \in [Claims -> Digests \cup {NoFile, "partial"}]
        /\ task \in TaskType /\ dest \in 0 .. MaxClaims
    BY Types DEF IInv, JobsInv
  <1>2. CASE _claim_task(w)
    <2>1. CASE withdrawn \/ task.attempts >= MaxAttempts
      <3>1. /\ task' = Ended(task, "failed") /\ job' = job /\ job[w].pc = "idle"
        BY <1>2, <2>1 DEF _claim_task
      <3>2. task'.status = "failed"
        BY <1>1, <3>1, EndedTask
      <3>3. QED
        BY <3>1, <3>2 DEF AloneInv, Holding
    <2>2. CASE ~(withdrawn \/ task.attempts >= MaxAttempts)
      <3>0. /\ task' = [status |-> "running", lease |-> claims', leased |-> TRUE,
                        attempts |-> task.attempts + 1, due |-> TRUE]
            /\ job' = [job EXCEPT ![w] = [Idle EXCEPT !.pc = "looking", !.claim = claims']]
        BY <1>2, <2>2 DEF _claim_task
      <3>1. /\ task'.status = "running" /\ task'.lease = claims'
            /\ job' = [job EXCEPT ![w] = [Idle EXCEPT !.pc = "looking", !.claim = claims']]
        BY <3>0
      <3>2. job'[w] = [Idle EXCEPT !.pc = "looking", !.claim = claims']
        BY <1>1, <3>1
      <3>3. job'[w].pc = "looking" /\ job'[w].claim = claims'
        BY <3>2 DEF Idle
      <3>4. QED
        BY <3>1, <3>3 DEF AloneInv
    <2>3. QED
      BY <2>1, <2>2
  <1>3. CASE _reuse_published_derivative(w)
    <2>1. /\ job[w].pc = "looking" /\ dest # NoName
          /\ UNCHANGED <<task, dest, content, fileRow>>
      BY <1>3 DEF _reuse_published_derivative, rows, files
    <2>2. task.status = "running" /\ task.lease = job[w].claim
      BY <2>1 DEF AloneInv, Holding
    <2>3. CASE content[dest] \in Digests
      <3> DEFINE j == [job[w] EXCEPT !.pc = "made", !.inode = dest]
      <3>1. job' = [job EXCEPT ![w] = j]
        BY <1>1, <1>3, <2>3 DEF _reuse_published_derivative
      <3>2. j.pc = "made" /\ j.claim = job[w].claim /\ j.inode = dest
        BY <1>1 DEF JobType
      <3> HIDE DEF j
      <3>3. job'[w] = j
        BY <1>1, <3>1
      <3>4. dest # job[w].claim
        BY <1>1, <2>1, <2>3 DEF JobOK
      <3>5. QED
        BY <2>1, <2>2, <3>2, <3>3, <3>4 DEF AloneInv, Reused
    <2>4. CASE content[dest] \notin Digests
      <3>1. Fail(w, "failing", "fatal")
        BY <1>3, <2>4 DEF _reuse_published_derivative
      <3>2. job'[w].pc = "failing"
        BY <1>1, <3>1, Fails DEF Pcs, Outcomes
      <3>3. QED
        BY <2>1, <2>2, <3>2 DEF AloneInv, Holding
    <2>5. QED
      BY <2>3, <2>4
  <1>4. CASE create_staging(w)
    <2>1. /\ job[w].pc = "looking" /\ staging' = job[w].claim /\ dest = NoName
          /\ UNCHANGED <<task, dest>>
      BY <1>4 DEF create_staging, rows
    <2>2. task.status = "running" /\ task.lease = job[w].claim
      BY <2>1 DEF AloneInv, Holding
    <2> DEFINE j == [job[w] EXCEPT !.pc = "making", !.inode = job[w].claim]
    <2>3. job' = [job EXCEPT ![w] = j]
      BY <1>1, <1>4 DEF create_staging
    <2>4. j.pc = "making" /\ j.claim = job[w].claim /\ j.inode = j.claim
      BY <1>1 DEF JobType
    <2> HIDE DEF j
    <2>5. job'[w] = j
      BY <1>1, <2>3
    <2>6. QED
      BY <2>1, <2>2, <2>4, <2>5 DEF AloneInv
  <1>5. CASE transform_ends(w)
    <2>1. job[w].pc = "making" /\ UNCHANGED <<task, staging, dest>>
      BY <1>5 DEF transform_ends, rows
    <2>2. /\ task.status = "running" /\ task.lease = job[w].claim
          /\ staging = job[w].claim /\ dest = NoName /\ job[w].inode = job[w].claim
      BY <1>1, <2>1 DEF AloneInv, Holding, JobOK
    <2>3. Goto(w, "made")
      BY <1>5, <2>2 DEF transform_ends
    <2>4. /\ job'[w].pc = "made" /\ job'[w].claim = job[w].claim
          /\ job'[w].inode = job[w].inode
      BY <1>1, <2>3, Goes DEF Pcs
    <2>5. QED
      BY <2>1, <2>2, <2>4 DEF AloneInv, Reused
  <1>6. QED
    BY <1>2, <1>3, <1>4, <1>5

\* A worker that stops, or goes to report a failure, leaves a ready task alone.
LEMMA AloneEnds ==
    ASSUME NEW w, AloneInv(w), lost = 0, job'[w].pc \in {"idle", "failing"},
           \/ task'.status # "ready"
           \/ /\ task.status = "ready" /\ UNCHANGED <<dest, content, fileRow>>
    PROVE  AloneInv(w)'
  BY DEF AloneInv, Holding

LEMMA AloneLinks ==
    ASSUME MediaConstants, IInv, NEW w, Workers = {w}, AloneInv(w), lost = 0,
           \/ lose_lease(w) \/ _lease_is_current(w) \/ link_free_name(w)
           \/ link_taken_name(w) \/ unlink_staging(w)
           \/ \E outcome \in {"retry", "fatal"} : transform_fails(w, outcome)
    PROVE  AloneInv(w)'
  <1> USE Bounds
  <1>1. /\ TypeOK /\ JobsInv /\ w \in Workers /\ JobOK(job[w])
        /\ job \in [Workers -> JobType] /\ job[w] \in JobType
    BY Types DEF IInv, JobsInv
  <1>2. /\ UNCHANGED <<rows, content>>
        /\ job[w].pc \in Holding /\ task.status = "running" /\ task.lease = job[w].claim
    <2>1. /\ UNCHANGED <<rows, content>>
          /\ job[w].pc \in {"looking", "making", "made", "linking", "linked"}
      BY DEF lose_lease, _lease_is_current, link_free_name, link_taken_name,
             unlink_staging, transform_fails
    <2>2. QED
      BY <2>1 DEF AloneInv, Holding
  <1>3. ASSUME job'[w].pc \in {"idle", "failing"} PROVE AloneInv(w)'
    BY <1>2, <1>3, AloneEnds DEF rows
  <1>4. ASSUME Stop(w) PROVE AloneInv(w)'
    BY <1>1, <1>3, <1>4, Stops
  <1>5. ASSUME NEW o \in Outcomes, Fail(w, "failing", o) PROVE AloneInv(w)'
    BY <1>1, <1>3, <1>5, Fails DEF Pcs
  <1>6. CASE lose_lease(w) \/ \E outcome \in {"retry", "fatal"} : transform_fails(w, outcome)
    BY <1>4, <1>5, <1>6 DEF lose_lease, transform_fails, Outcomes
  <1>7. CASE _lease_is_current(w)
    <2>1. job[w].pc = "made" /\ dest' = dest
      BY <1>7 DEF _lease_is_current
    <2>2. CASE Reused(w) /\ Goto(w, "committing")
      <3>1. job'[w].pc = "committing" /\ job'[w].claim = job[w].claim
            /\ job'[w].inode = job[w].inode
        BY <1>1, <2>2, Goes DEF Pcs
      <3>2. dest = job[w].inode
        BY <2>1, <2>2 DEF AloneInv
      <3>3. QED
        BY <1>2, <2>1, <3>1, <3>2 DEF AloneInv, rows
    <2>3. CASE ~Reused(w) /\ Goto(w, "linking") /\ UNCHANGED staging
      <3>1. job'[w].pc = "linking" /\ job'[w].claim = job[w].claim
            /\ job'[w].inode = job[w].inode
        BY <1>1, <2>3, Goes DEF Pcs
      <3>2. staging = job[w].inode /\ dest = NoName
        BY <2>1, <2>3 DEF AloneInv
      <3>3. QED
        BY <1>2, <2>1, <2>3, <3>1, <3>2 DEF AloneInv, rows
    <2>4. QED
      BY <1>4, <1>7, <2>2, <2>3 DEF _lease_is_current
  <1>8. CASE link_free_name(w)
    <2>1. job[w].pc = "linking" /\ dest' = staging /\ UNCHANGED staging
      BY <1>8 DEF link_free_name
    <2>2. staging = job[w].inode /\ staging # NoName
      BY <1>1, <2>1 DEF AloneInv, JobOK, Made, NoName
    <2> DEFINE j == [job[w] EXCEPT !.pc = "linked", !.new = TRUE]
    <2>3. job' = [job EXCEPT ![w].pc = "linked", ![w].new = TRUE]
      BY <1>8, <2>2 DEF link_free_name
    <2>4. job' = [job EXCEPT ![w] = j]
      BY <1>1, <2>3
    <2>5. j.pc = "linked" /\ j.claim = job[w].claim /\ j.inode = job[w].inode
      BY <1>1 DEF JobType
    <2> HIDE DEF j
    <2>6. job'[w] = j
      BY <1>1, <2>4
    <2>7. QED
      BY <1>2, <2>1, <2>2, <2>5, <2>6 DEF AloneInv, rows
  <1>9. CASE link_taken_name(w)
    BY <1>9 DEF link_taken_name, AloneInv
  <1>10. CASE unlink_staging(w)
    <2>1. job[w].pc = "linked"
      BY <1>10 DEF unlink_staging
    <2>2. staging = job[w].inode /\ staging # NoName /\ dest = job[w].inode
      BY <1>1, <2>1 DEF AloneInv, JobOK, Made, NoName
    <2>3. Stop(w) \/ (Goto(w, "committing") /\ UNCHANGED dest)
      BY <1>10, <2>2 DEF unlink_staging
    <2>4. CASE Goto(w, "committing") /\ UNCHANGED dest
      <3>1. job'[w].pc = "committing" /\ job'[w].claim = job[w].claim
            /\ job'[w].inode = job[w].inode
        BY <1>1, <2>4, Goes DEF Pcs
      <3>2. QED
        BY <1>2, <2>2, <2>4, <3>1 DEF AloneInv, rows
    <2>5. QED
      BY <1>4, <2>3, <2>4
  <1>11. QED
    BY <1>6, <1>7, <1>8, <1>9, <1>10

\* The commit of the only worker records the file that has the name.
LEMMA AloneCommits ==
    ASSUME MediaConstants, IInv, NEW w, Workers = {w}, AloneInv(w), lost = 0,
           \/ _publish_database(w) \/ commit_unknown(w)
           \/ _publication_database_state(w) \/ _discard_uncommitted_publication(w)
           \/ _record_failure(w) \/ worker_dies(w)
    PROVE  AloneInv(w)'
  <1> USE Bounds
  <1>1. /\ TypeOK /\ JobsInv /\ w \in Workers /\ JobOK(job[w])
        /\ job \in [Workers -> JobType] /\ job[w] \in JobType /\ task \in TaskType
    BY Types DEF IInv, JobsInv
  <1>2. ASSUME Stop(w) PROVE job'[w].pc = "idle"
    BY <1>1, <1>2, Stops
  <1>3. ASSUME NEW pc \in Pcs, NEW o \in Outcomes, Fail(w, pc, o)
        PROVE  /\ job'[w].pc = pc /\ job'[w].claim = job[w].claim
               /\ job'[w].inode = job[w].inode
    BY <1>1, <1>3, Fails
  <1>4. ASSUME NEW pc \in Pcs, Goto(w, pc)
        PROVE  /\ job'[w].pc = pc /\ job'[w].claim = job[w].claim
               /\ job'[w].inode = job[w].inode
    BY <1>1, <1>4, Goes
  <1>5. CASE _publish_database(w) \/ commit_unknown(w)
    <2>1. /\ job[w].pc = "committing" /\ UNCHANGED files
      BY <1>5 DEF _publish_database, commit_unknown
    <2>2. /\ task.status = "running" /\ task.lease = job[w].claim
          /\ dest = job[w].inode /\ dest # NoName
      BY <1>1, <2>1 DEF AloneInv, Holding, JobOK, Made, NoName
    <2>3. \/ UNCHANGED rows /\ Fail(w, "discarding", "skipped")
          \/ UNCHANGED rows /\ Fail(w, "unsure", "fatal")
          \/ UNCHANGED rows /\ Fail(w, "unsure", "retry")
          \/ Commit(w) /\ Stop(w)
          \/ Commit(w) /\ Fail(w, "unsure", "retry")
      BY <1>5, <2>2 DEF _publish_database, commit_unknown
    <2>4. ASSUME Commit(w)
          PROVE  /\ task'.status = "ready" /\ fileRow' = content'[dest'] /\ dest' # NoName
                 /\ pointer'
      BY <1>1, <2>1, <2>2, <2>4, EndedTask DEF Commit, files
    <2>5. CASE UNCHANGED rows /\ Fail(w, "discarding", "skipped")
      <3>1. job'[w].pc = "discarding" /\ job'[w].claim = job[w].claim
        BY <1>3, <2>5 DEF Pcs, Outcomes
      <3>2. QED
        BY <2>2, <2>5, <3>1 DEF AloneInv, rows
    <2>6. CASE UNCHANGED rows /\ \E o \in {"fatal", "retry"} : Fail(w, "unsure", o)
      <3>1. /\ job'[w].pc = "unsure" /\ job'[w].claim = job[w].claim
            /\ job'[w].inode = job[w].inode
        BY <1>3, <2>6 DEF Pcs, Outcomes
      <3>2. QED
        BY <2>1, <2>2, <2>6, <3>1 DEF AloneInv, Holding, rows, files
    <2>7. CASE Commit(w) /\ Stop(w)
      BY <1>2, <2>4, <2>7 DEF AloneInv, Holding
    <2>8. CASE Commit(w) /\ Fail(w, "unsure", "retry")
      <3>1. job'[w].pc = "unsure" /\ job'[w].inode = job[w].inode
        BY <1>3, <2>8 DEF Pcs, Outcomes
      <3>2. dest' = job'[w].inode /\ Committed(w)'
        BY <2>1, <2>2, <2>4, <2>8, <3>1 DEF Committed, files
      <3>3. QED
        BY <2>4, <2>8, <3>1, <3>2 DEF AloneInv, Holding
    <2>9. QED
      BY <2>3, <2>5, <2>6, <2>7, <2>8
  <1>6. CASE _publication_database_state(w)
    <2>1. job[w].pc = "unsure" /\ UNCHANGED <<rows, files>>
      BY <1>6 DEF _publication_database_state
    <2>2. task.status = "ready" => dest # NoName /\ content[dest] = fileRow
      BY DEF AloneInv
    <2>3. CASE job'[w].pc \in {"idle", "failing"}
      BY <2>1, <2>3, AloneEnds DEF rows, files
    <2>4. CASE ~Committed(w) /\ Goto(w, "discarding")
      <3>1. job'[w].pc = "discarding" /\ job'[w].claim = job[w].claim
        BY <1>4, <2>4 DEF Pcs
      <3>2. task.status = "running" /\ task.lease = job[w].claim
        BY <2>1, <2>4 DEF AloneInv
      <3>3. QED
        BY <2>1, <3>1, <3>2 DEF AloneInv, rows
    <2>5. QED
      <3>1. Stop(w) \/ Goto(w, "failing") \/ (~Committed(w) /\ Goto(w, "discarding"))
        BY <1>6 DEF _publication_database_state
      <3>2. QED
        BY <1>2, <1>4, <2>3, <2>4, <3>1 DEF Pcs
  <1>7. CASE _discard_uncommitted_publication(w)
    <2>1. /\ job[w].pc = "discarding" /\ UNCHANGED rows
          /\ Stop(w) \/ Goto(w, "failing")
      BY <1>7 DEF _discard_uncommitted_publication
    <2>2. task.status = "running"
      BY <2>1 DEF AloneInv, Holding
    <2>3. QED
      BY <1>2, <1>4, <2>1, <2>2, AloneEnds DEF Pcs, rows
  <1>8. CASE _record_failure(w) \/ worker_dies(w)
    <2>1. Stop(w) /\ UNCHANGED <<dest, content, fileRow>>
      BY <1>8 DEF _record_failure, worker_dies, rows, files
    <2>2. \/ task' = task \/ task' = Ended(task, "failed")
          \/ task' = [Ended(task, "queued") EXCEPT !.due = FALSE]
      BY <1>8 DEF _record_failure, worker_dies, rows
    <2>3. task' = task \/ task'.status # "ready"
      BY <1>1, <2>2, EndedTask, RetriedTask
    <2>4. QED
      BY <1>2, <2>1, <2>3, AloneEnds
  <1>9. QED
    BY <1>5, <1>6, <1>7, <1>8

LEMMA AloneRests ==
    ASSUME MediaConstants, IInv, NEW w, Workers = {w}, AloneInv(w), lost = 0, lost' = 0,
           Environment \/ UNCHANGED vars
    PROVE  AloneInv(w)'
  <1>1. task \in TaskType /\ RowsInv
    BY Types DEF IInv
  <1>2. ~lose_file /\ ~requeue_missing_ready_derivative
    <2>1. ~lose_file
      BY SMT DEF lose_file
    <2>2. QED
      BY <2>1 DEF requeue_missing_ready_derivative, AloneInv
  <1>3. CASE lease_expires \/ retry_falls_due
    <2>1. /\ UNCHANGED <<fileRow, pointer, files, job>>
          /\ \/ task' = [task EXCEPT !.leased = FALSE] \/ task' = [task EXCEPT !.due = TRUE]
      BY <1>3 DEF lease_expires, retry_falls_due
    <2>2. task'.status = task.status /\ task'.lease = task.lease
      BY <1>1, <2>1 DEF TaskType
    <2>3. QED
      BY <2>1, <2>2 DEF AloneInv, Reused, Committed, files
  <1>4. CASE _cleanup_orphan_managed_files
    <2>1. /\ fileRow = NoFile /\ task.status \notin {"queued", "running"}
          /\ UNCHANGED <<task, job>>
      BY <1>4 DEF _cleanup_orphan_managed_files, Orphaned, rows
    <2>2. task.status # "ready"
      BY <1>1, <2>1, Bounds DEF RowsInv
    <2>3. job[w].pc \notin Holding /\ job[w].pc # "unsure"
      BY <2>1, <2>2 DEF AloneInv, Committed
    <2>4. QED
      BY <2>1, <2>2, <2>3 DEF AloneInv, Holding
  <1>5. CASE withdraw \/ UNCHANGED vars
    <2>1. UNCHANGED <<rows, files, job>>
      BY <1>5 DEF withdraw, vars
    <2>2. QED
      BY <2>1 DEF AloneInv, Reused, Committed, rows, files
  <1>6. QED
    BY <1>2, <1>3, <1>4, <1>5 DEF Environment

LEMMA AloneNext ==
    ASSUME MediaConstants, IInv, NEW w, Workers = {w}, AloneInv(w), [Next]_vars
    PROVE  AloneInv(w)'
  <1> SUFFICES ASSUME lost' = 0 PROVE AloneInv(w)'
    BY DEF AloneInv
  <1>1. lost = 0
    <2>1. lost \in 0 .. MaxRepairs
      BY Types DEF IInv
    <2>2. lost' = lost \/ lost' = lost + 1
      BY DEF Next, Step, Fault, Environment, _claim_task, _reuse_published_derivative,
             create_staging, transform_ends, transform_fails, lose_lease, _lease_is_current,
             link_free_name, link_taken_name, unlink_staging, _publish_database,
             commit_unknown, _publication_database_state, _discard_uncommitted_publication,
             _record_failure, worker_dies, lease_expires, retry_falls_due, withdraw,
             _cleanup_orphan_managed_files, lose_file, requeue_missing_ready_derivative,
             vars, env
    <2>3. QED
      BY <2>1, <2>2, SMT DEF MediaConstants
  <1>2. CASE Step(w) \/ Fault(w)
    BY <1>1, <1>2, AlonePrepares, AloneLinks, AloneCommits DEF Step, Fault
  <1>3. QED
    BY <1>1, <1>2, AloneRests DEF Next

(*------------------------------- theorems --------------------------------*)

\* The variables keep their types for any number of workers, claims, attempts
\* and lost files.
THEOREM TypeCorrectness ==
    ASSUME MediaConstants
    PROVE  Spec => []TypeOK
  <1>1. IInv => TypeOK
    BY DEF IInv
  <1>2. QED
    BY <1>1, Invariance, PTL

\* Only whole bytes are ever recorded: the row that _publish_database makes is
\* of a file that some transform_ends completed, or that the validation of
\* _reuse_published_derivative found whole, and a ready task has one.
THEOREM OnlyWholeFilesAreRecorded ==
    ASSUME MediaConstants
    PROVE  Spec => [](/\ fileRow \in Digests \cup {NoFile}
                      /\ task.status = "ready" => pointer /\ fileRow \in Digests)
  <1>1. IInv => /\ fileRow \in Digests \cup {NoFile}
                /\ task.status = "ready" => pointer /\ fileRow \in Digests
    BY DEF IInv, RowsInv
  <1>2. QED
    BY <1>1, Invariance, PTL

\* A version's pointer, once given, stays, and the row that it names keeps its
\* digest, whoever else publishes, fails, or is requeued afterwards.
THEOREM PointersAreKept ==
    ASSUME MediaConstants
    PROVE  Spec => [][PointerKept]_vars
  <1>1. ASSUME IInv, [Next]_vars PROVE [PointerKept]_vars
    <2>1. ASSUME NEW w \in Workers, Commit(w), ~Conflicts(w), pointer
          PROVE  pointer' /\ fileRow' = fileRow
      <3>1. fileRow # NoFile
        BY <1>1, <2>1, Bounds DEF IInv, RowsInv
      <3>2. QED
        BY <2>1, <3>1 DEF Commit, Conflicts
    <2>2. ASSUME NEW w \in Workers, Step(w) \/ Fault(w)
          PROVE  UNCHANGED <<fileRow, pointer>> \/ (Commit(w) /\ ~Conflicts(w))
      BY <2>2 DEF Step, Fault, _claim_task, _reuse_published_derivative,
             create_staging, transform_ends, transform_fails, lose_lease, _lease_is_current,
             link_free_name, link_taken_name, unlink_staging, _publish_database,
             commit_unknown, _publication_database_state, _discard_uncommitted_publication,
             _record_failure, worker_dies, rows
    <2>3. ASSUME Environment \/ UNCHANGED vars PROVE UNCHANGED <<fileRow, pointer>>
      BY <2>3 DEF Environment, lease_expires, retry_falls_due, withdraw,
             _cleanup_orphan_managed_files, lose_file, requeue_missing_ready_derivative,
             vars, rows
    <2>4. QED
      BY <1>1, <2>1, <2>2, <2>3 DEF Next, PointerKept
  <1>2. QED
    BY <1>1, Invariance, PTL DEF Spec

\* Whatever a worker that lost its lease still does, it leaves the task alone:
\* _publish_database and _record_failure look at the lease in the transaction
\* that writes, and a claim is made by an idle worker only.
THEOREM StaleWorkersAreHarmless ==
    ASSUME MediaConstants
    PROVE  Spec => [][StaleIsHarmless]_vars
  <1>1. ASSUME IInv, [Next]_vars PROVE [StaleIsHarmless]_vars
    <2>1. job \in [Workers -> JobType] /\ TypeOK
      BY <1>1, Types DEF IInv
    <2>2. ASSUME NEW v \in Workers, NEW w \in Workers, v # w, Step(v) \/ Fault(v)
          PROVE  job'[w] = job[w]
      <3>1. \/ job' = job \/ \E j : job' = [job EXCEPT ![v] = j]
        BY <2>1, <2>2 DEF Step, Fault, _claim_task, _reuse_published_derivative,
             create_staging, transform_ends, transform_fails, lose_lease, _lease_is_current,
             link_free_name, link_taken_name, unlink_staging, _publish_database,
             commit_unknown, _publication_database_state, _discard_uncommitted_publication,
             _record_failure, worker_dies, Goto, Stop, Fail
      <3>2. QED
        BY <2>1, <2>2, <3>1
    <2>3. ASSUME NEW w \in Workers, Step(w) \/ Fault(w), job[w].pc # "idle", ~Holds(w)
          PROVE  task' = task
      BY <2>3 DEF Step, Fault, _claim_task, _reuse_published_derivative,
             create_staging, transform_ends, transform_fails, lose_lease, _lease_is_current,
             link_free_name, link_taken_name, unlink_staging, _publish_database, Skips,
             commit_unknown, _publication_database_state, _discard_uncommitted_publication,
             _record_failure, worker_dies, rows
    <2>4. ASSUME Environment \/ UNCHANGED vars PROVE job' = job
      BY <2>4 DEF Environment, lease_expires, retry_falls_due, withdraw,
             _cleanup_orphan_managed_files, lose_file, requeue_missing_ready_derivative,
             vars
    <2>5. QED
      BY <1>1, <2>2, <2>3, <2>4 DEF Next, StaleIsHarmless
  <1>2. QED
    BY <1>1, Invariance, PTL DEF Spec

\* One worker at a time: a ready task has its file under the published name,
\* with the bytes of its row, through deaths at any step, expired leases,
\* commits of unknown outcome, retries and the orphan cleanup, for any number
\* of claims and attempts, as long as the disk loses nothing.
THEOREM AloneReadyHasFile ==
    ASSUME MediaConstants, NEW w, Workers = {w}
    PROVE  Spec => []ReadyHasFile
  <1>1. ASSUME Init PROVE AloneInv(w)
    BY <1>1, IdleJob DEF Init, AloneInv, Holding
  <1>2. ASSUME IInv, AloneInv(w), [Next]_vars PROVE AloneInv(w)'
    BY <1>2, AloneNext
  <1>3. AloneInv(w) => ReadyHasFile
    BY DEF AloneInv, ReadyHasFile
  <1>4. QED
    BY <1>1, <1>2, <1>3, Invariance, PTL DEF Spec

==============================================================================
