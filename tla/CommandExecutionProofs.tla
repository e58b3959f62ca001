------------------------ MODULE CommandExecutionProofs ------------------------
(***************************************************************************)
(* A command takes effect once, an answer is that of a committed           *)
(* execution, and the operation log does not call failed what took effect: *)
(* for any number of requests, targets and retries, whatever commits lose  *)
(* their client.  Three facts carry the argument.  At most one transaction *)
(* holds a target, and while it does no record of it is committed unless a *)
(* damaged package is repaired; a transaction stays tied to the attempt    *)
(* that opened it, because a request is not sent again before the server   *)
(* has ended it; and the lock of the identity makes the log of an unknown  *)
(* outcome wait for that end.                                              *)
(***************************************************************************)
EXTENDS CommandExecution, TLAPS

USE Zenon

(*-------------------------- the inductive invariant ----------------------*)

Labels == {"idle", "received", "reserve", "insert", "repair", "execute", "log",
           "commit", "failed", "uncertain", "answered", "lost"}
Open == {"reserve", "insert", "repair", "execute", "log", "commit"}

Txs == [state : {"none", "open", "inflight"}, exec : Execs \cup {None},
        holds : BOOLEAN, identity : BOOLEAN]
Answers == [kind : {"none", "ok", "fenced", "error", "unknown"},
            exec : Execs \cup {None}]
Rows == [identity : {_operation_identity_hash(r) : r \in Requests},
         result : {"ok", "error", "unknown"}, by : Execs]

TypeInv ==
    /\ pc \in [Requests -> Labels]
    /\ attempt \in [Requests -> Nat]
    /\ tx \in [Requests -> Txs]
    /\ record \in [Targets -> Records \cup {None}]
    /\ effects \in SUBSET Execs
    /\ log \in SUBSET Rows
    /\ damaged \in SUBSET Repairable

\* A transaction is open while its request runs, and in flight only after the
\* commit was sent; both commit and flight are under the lock of its identity.
TxFollowsRequest ==
    \A r \in Requests :
       /\ tx[r].state = "open" <=> pc[r] \in Open
       /\ tx[r].state = "inflight" =>
             pc[r] \in {"uncertain", "answered", "lost"} /\ tx[r].identity
       /\ tx[r].state = "none" => ~tx[r].holds
       /\ pc[r] = "commit" => tx[r].identity

\* One transaction holds a target, from the reservation on; its execution is
\* that of the present attempt.
OneHolder ==
    /\ \A q, r \in Requests :
          tx[q].holds /\ tx[r].holds /\ TargetOf[q] = TargetOf[r] => q = r
    /\ \A r \in Requests : tx[r].holds =>
          /\ pc[r] \notin {"reserve", "insert", "repair"}
          /\ pc[r] # "execute" => tx[r].exec = Exec(r)
    /\ \A r \in Requests : pc[r] = "execute" => tx[r].holds

\* No record is committed for a target that is held, unless it is repaired.
HeldIsUnrecorded ==
    \A r \in Requests :
       /\ pc[r] = "repair" => TargetOf[r] \in Repairable
       /\ tx[r].holds /\ TargetOf[r] \notin Repairable => record[TargetOf[r]] = None

\* Request r may be answered with execution e.
AnswersFor(r, e) ==
    /\ e \in effects
    /\ TargetOf[e[1]] = TargetOf[r]
    /\ BodyOf[e[1]] = BodyOf[r]
    /\ PrincipalOf[e[1]] = PrincipalOf[r]

\* Effects and records go together, and a replay is that of a record.
RecordsMatch ==
    /\ \A e \in effects : record[TargetOf[e[1]]] # None
    /\ \A t \in Targets : record[t] # None =>
          /\ record[t].exec \in effects
          /\ TargetOf[record[t].exec[1]] = t
          /\ BodyOf[record[t].exec[1]] = record[t].body
          /\ PrincipalOf[record[t].exec[1]] = record[t].principal
    /\ \A r \in Requests :
          pc[r] \in {"log", "commit"} /\ ~tx[r].holds => AnswersFor(r, tx[r].exec)

\* The execution of an attempt has no effect before its commit, and an effect
\* has its row in the log.
EffectsFollowCommit ==
    /\ \A e \in effects : e[2] <= attempt[e[1]] /\ HasOutcome(e[1], "ok")
    /\ \A r \in Requests :
          pc[r] \in Open \cup {"received", "failed"} \/ tx[r].state = "inflight" =>
             Exec(r) \notin effects

\* What the log calls failed or unknown is over.
FailuresAreOver ==
    \A row \in log : row.result # "ok" =>
       /\ row.by \notin effects
       /\ row.by[2] <= attempt[row.by[1]]
       /\ row.by[2] = attempt[row.by[1]] =>
             pc[row.by[1]] = "answered" /\ tx[row.by[1]].state = "none"

ServerInv ==
    /\ TypeInv
    /\ TxFollowsRequest
    /\ OneHolder
    /\ HeldIsUnrecorded
    /\ RecordsMatch
    /\ EffectsFollowCommit
    /\ FailuresAreOver
    /\ ExecutedOnce

\* What the clients were told.
ClientInv ==
    /\ answer \in [Requests -> Answers]
    /\ AnswersAreCommitted
    /\ UnknownIsRecorded

CommandInv == ServerInv /\ ClientInv

(*------------------------------ preservation ------------------------------*)

(*------------------------------ preservation ------------------------------*)

\* Request r is at label next, the others stay where they are.
Moves(r, next) ==
    /\ pc' \in [Requests -> Labels]
    /\ pc'[r] = next
    /\ \A q \in Requests \ {r} : pc'[q] = pc[q]

\* Its transaction becomes x, the others stay as they are.
Transacts(r, x) ==
    /\ tx' \in [Requests -> Txs]
    /\ tx'[r] = x
    /\ \A q \in Requests \ {r} : tx'[q] = tx[q]

LEMMA GotoMoves ==
    ASSUME TypeInv, NEW r \in Requests, NEW next \in Labels, Goto(r, next)
    PROVE  Moves(r, next)
  BY DEF TypeInv, Goto, Moves

LEMMA TxIsTyped ==
    /\ NoTx \in Txs
    /\ \A x \in Txs : /\ [x EXCEPT !.holds = TRUE] \in Txs
                      /\ [x EXCEPT !.identity = TRUE] \in Txs
                      /\ [x EXCEPT !.state = "open"] \in Txs
                      /\ [x EXCEPT !.state = "inflight"] \in Txs
                      /\ \A e \in Execs : [x EXCEPT !.exec = e] \in Txs
  <1>1. NoTx \in Txs
    BY DEF NoTx, Txs
  <1> SUFFICES ASSUME NEW x \in Txs
               PROVE  /\ [x EXCEPT !.holds = TRUE] \in Txs
                      /\ [x EXCEPT !.identity = TRUE] \in Txs
                      /\ [x EXCEPT !.state = "open"] \in Txs
                      /\ [x EXCEPT !.state = "inflight"] \in Txs
                      /\ \A e \in Execs : [x EXCEPT !.exec = e] \in Txs
    BY <1>1
  <1>2. [x EXCEPT !.holds = TRUE] \in Txs
    BY DEF Txs
  <1>3. [x EXCEPT !.identity = TRUE] \in Txs
    BY DEF Txs
  <1>4. [x EXCEPT !.state = "open"] \in Txs
    BY DEF Txs
  <1>5. [x EXCEPT !.state = "inflight"] \in Txs
    BY DEF Txs
  <1>6. ASSUME NEW e \in Execs
        PROVE  [x EXCEPT !.exec = e] \in Txs
    BY DEF Txs
  <1> QED
    BY <1>2, <1>3, <1>4, <1>5, <1>6

LEMMA RollbackTransacts ==
    ASSUME TypeInv, NEW r \in Requests, Rollback(r)
    PROVE  Transacts(r, NoTx)
  BY TxIsTyped DEF TypeInv, Rollback, Transacts

LEMMA ExceptTransacts ==
    ASSUME TypeInv, NEW r \in Requests, NEW x \in Txs, tx' = [tx EXCEPT ![r] = x]
    PROVE  Transacts(r, x)
  BY DEF TypeInv, Transacts

\* A request goes on, or its transaction ends; nothing is committed.  What the
\* new transaction x must satisfy is what the invariant says of the new label.
LEMMA RequestGoesOn ==
    ASSUME ServerInv, NEW r \in Requests, NEW next \in Labels, NEW x \in Txs,
           Moves(r, next), Transacts(r, x),
           pc[r] # "answered" \/ tx[r].state = "inflight",
           UNCHANGED <<attempt, record, effects, log, damaged>>,
           x.state = "open" <=> next \in Open,
           x.state = "inflight" => 
              next \in {"uncertain", "answered", "lost"} /\ x.identity,
           x.state = "none" => ~x.holds,
           x.holds => /\ tx[r].holds \/ TargetIsFree(r)
                      /\ next \notin {"reserve", "insert", "repair"}
                      /\ next # "execute" => x.exec = Exec(r)
                      /\ TargetOf[r] \notin Repairable => record[TargetOf[r]] = None,
           next = "execute" => x.holds,
           next = "commit" => x.identity,
           next = "repair" => TargetOf[r] \in Repairable,
           next \in {"log", "commit"} /\ ~x.holds => AnswersFor(r, x.exec),
           next \in Open \cup {"received", "failed"} \/ x.state = "inflight" =>
              Exec(r) \notin effects
    PROVE  ServerInv'
  <1>1. TypeInv'
    BY DEF ServerInv, TypeInv, Moves, Transacts
  <1>2. TxFollowsRequest'
    BY SMTT(10) DEF ServerInv, TxFollowsRequest, Moves, Transacts
  <1>3. OneHolder'
    BY SMTT(10) DEF ServerInv, OneHolder, Moves, Transacts, TargetIsFree, Exec
  <1>4. HeldIsUnrecorded'
    BY SMTT(10) DEF ServerInv, HeldIsUnrecorded, Moves, Transacts
  <1>5. RecordsMatch'
    BY SMTT(10) DEF ServerInv, RecordsMatch, Moves, Transacts, AnswersFor
  <1>6. EffectsFollowCommit'
    BY SMTT(10) DEF ServerInv, EffectsFollowCommit, Moves, Transacts, Exec, HasOutcome
  <1>7. FailuresAreOver'
    BY SMTT(10) DEF ServerInv, FailuresAreOver, Moves, Transacts, TypeInv, Rows, Execs
  <1>8. ExecutedOnce'
    BY DEF ServerInv, ExecutedOnce
  <1> QED
    BY <1>1, <1>2, <1>3, <1>4, <1>5, <1>6, <1>7, <1>8 DEF ServerInv

\* A transaction commits: the one moment at which effects and records change.
\* The request is then uncertain or answered, or was lost before.
LEMMA CommitKeeps ==
    ASSUME CommandConstants, ServerInv, NEW r \in Requests,
           pc[r] = "commit" \/ tx[r].state = "inflight",
           NEW next \in {"uncertain", "answered", "lost"}, Moves(r, next),
           Transacts(r, NoTx), Committed(r), UNCHANGED attempt,
           NEW e, e = tx[r].exec
    PROVE  /\ ServerInv'
           /\ effects \subseteq effects'
           /\ log \subseteq log'
           /\ AnswersFor(r, e)' \/ tx[r].state = "inflight"
  <1> DEFINE t == TargetOf[r]
             new == [exec |-> Exec(r), body |-> BodyOf[r], principal |-> PrincipalOf[r]]
  <1>1. /\ Exec(r) \in Execs
        /\ new \in Records
        /\ t \in Targets
    BY DEF ServerInv, TypeInv, Exec, Execs, Records, Targets
  <1>2. /\ ~NoTx.holds
        /\ NoTx.state = "none"
    BY DEF NoTx
  <1>3. tx[r].holds => tx[r].exec = Exec(r)
    BY DEF ServerInv, OneHolder, TxFollowsRequest
  <1>4. Row(r, "ok") \in Rows /\ log' = log \cup {Row(r, "ok")}
    BY <1>1 DEF Committed, Row, Rows
  <1>5. Exec(r) \notin effects
    BY DEF ServerInv, EffectsFollowCommit, Open
  <1>6. CASE tx[r].holds
    <2>1. /\ record' = [record EXCEPT ![t] = new]
          /\ effects' = effects \cup {Exec(r)}
          /\ damaged' = damaged \ {t}
      BY <1>3, <1>6 DEF Committed
    <2>2. TypeInv'
      BY <1>1, <1>4, <2>1 DEF ServerInv, TypeInv, Moves, Transacts
    <2>3. TxFollowsRequest'
      BY <1>2, SMTT(10) DEF ServerInv, TxFollowsRequest, Moves, Transacts, Open
    <2>4. OneHolder'
      BY <1>2, SMTT(10) DEF ServerInv, OneHolder, Moves, Transacts, Exec
    <2>5. HeldIsUnrecorded'
      BY <1>2, <1>6, <2>1, SMTT(10)
      DEF ServerInv, TypeInv, HeldIsUnrecorded, OneHolder, Moves, Transacts, Targets
    <2>6. RecordsMatch'
      <3>1. new # None /\ record'[t] = new /\ \A u \in Targets \ {t} : record'[u] = record[u]
        BY <1>1, <2>1 DEF ServerInv, TypeInv, CommandConstants
      <3>2. \A f \in effects' : record'[TargetOf[f[1]]] # None
        BY <2>1, <3>1, SMTT(10)
        DEF ServerInv, TypeInv, RecordsMatch, Exec, Execs, Targets
      <3>3. \A u \in Targets : record'[u] # None =>
               /\ record'[u].exec \in effects'
               /\ TargetOf[record'[u].exec[1]] = u
               /\ BodyOf[record'[u].exec[1]] = record'[u].body
               /\ PrincipalOf[record'[u].exec[1]] = record'[u].principal
        BY <2>1, <3>1, SMTT(10) DEF ServerInv, RecordsMatch, Exec
      <3>4. \A q \in Requests :
               pc'[q] \in {"log", "commit"} /\ ~tx'[q].holds => AnswersFor(q, tx[q].exec)'
        BY <1>2, <2>1, SMTT(10) DEF ServerInv, RecordsMatch, AnswersFor, Moves, Transacts
      <3> QED
        BY <3>2, <3>3, <3>4 DEF RecordsMatch
    <2>7. EffectsFollowCommit'
      BY <1>2, <1>4, <2>1, SMTT(10)
      DEF ServerInv, TypeInv, EffectsFollowCommit, HasOutcome, Row, Moves, Transacts, Exec, Execs, Open
    <2>8. FailuresAreOver'
      BY <1>4, <2>1, SMTT(10)
      DEF ServerInv, TypeInv, FailuresAreOver, Row, Rows, Moves, Transacts, Exec, Execs, TxFollowsRequest
    <2>9. ExecutedOnce'
      BY <1>6, <2>1, SMTT(10)
      DEF ServerInv, TypeInv, ExecutedOnce, RecordsMatch, HeldIsUnrecorded, Exec, Execs
    <2>10. AnswersFor(r, e)'
      BY <1>3, <1>6, <2>1, SMTT(10) DEF AnswersFor, Exec
    <2> QED
      BY <1>4, <2>1, <2>2, <2>3, <2>4, <2>5, <2>6, <2>7, <2>8, <2>9, <2>10
      DEF ServerInv
  <1>7. CASE ~tx[r].holds
    <2>1. UNCHANGED <<record, effects, damaged>>
      BY <1>7 DEF Committed
    <2>2. TypeInv'
      BY <1>1, <1>4, <2>1 DEF ServerInv, TypeInv, Moves, Transacts
    <2>3. TxFollowsRequest'
      BY <1>2, SMTT(10) DEF ServerInv, TxFollowsRequest, Moves, Transacts, Open
    <2>4. OneHolder'
      BY <1>2, SMTT(10) DEF ServerInv, OneHolder, Moves, Transacts, Exec
    <2>5. HeldIsUnrecorded'
      BY <1>2, <2>1, SMTT(10) DEF ServerInv, HeldIsUnrecorded, Moves, Transacts
    <2>6. RecordsMatch'
      BY <1>2, <2>1, SMTT(10) DEF ServerInv, RecordsMatch, AnswersFor, Moves, Transacts
    <2>7. EffectsFollowCommit'
      BY <1>2, <1>4, <2>1, SMTT(10)
      DEF ServerInv, EffectsFollowCommit, HasOutcome, Moves, Transacts, Exec, Open
    <2>8. FailuresAreOver'
      BY <1>4, <2>1, SMTT(10)
      DEF ServerInv, TypeInv, FailuresAreOver, Row, Rows, Moves, Transacts, Exec, Execs, TxFollowsRequest
    <2>9. ExecutedOnce'
      BY <2>1 DEF ServerInv, ExecutedOnce
    <2>10. AnswersFor(r, e)' \/ tx[r].state = "inflight"
      BY <1>7, <2>1, SMTT(10) DEF ServerInv, RecordsMatch, AnswersFor
    <2> QED
      BY <1>4, <2>1, <2>2, <2>3, <2>4, <2>5, <2>6, <2>7, <2>8, <2>9, <2>10
      DEF ServerInv
  <1> QED
    BY <1>6, <1>7

\* Effects and log only grow, and nothing is answered.
LEMMA NothingIsAnswered ==
    ASSUME ClientInv, effects \subseteq effects', log \subseteq log', UNCHANGED answer
    PROVE  ClientInv'
  <1>1. AnswersAreCommitted'
    BY DEF ClientInv, AnswersAreCommitted
  <1>2. UnknownIsRecorded'
    BY DEF ClientInv, UnknownIsRecorded, HasOutcome, _operation_identity_hash
  <1> QED
    BY <1>1, <1>2 DEF ClientInv

\* Request r gets an answer that is true at that moment.
LEMMA AnswerIsTrue ==
    ASSUME ClientInv, effects \subseteq effects', log \subseteq log', NEW r \in Requests,
           NEW kind \in {"none", "ok", "fenced", "error", "unknown"},
           NEW e \in Execs \cup {None},
           answer' = [answer EXCEPT ![r] = [kind |-> kind, exec |-> e]],
           kind = "ok" => AnswersFor(r, e)',
           kind = "unknown" /\ ~AuditMayFail =>
              HasOutcome(r, "ok")' \/ HasOutcome(r, "unknown")'
    PROVE  ClientInv'
  <1>1. [kind |-> kind, exec |-> e] \in Answers
    BY DEF Answers
  <1>2. /\ answer' \in [Requests -> Answers]
        /\ answer'[r].kind = kind /\ answer'[r].exec = e
        /\ \A q \in Requests \ {r} : answer'[q] = answer[q]
    BY <1>1 DEF ClientInv
  <1>3. AnswersAreCommitted'
    BY <1>2 DEF ClientInv, AnswersAreCommitted, AnswersFor
  <1>4. ASSUME NEW q \in Requests, answer'[q].kind = "unknown", ~AuditMayFail
        PROVE  HasOutcome(q, "ok")' \/ HasOutcome(q, "unknown")'
    <2>1. CASE q = r
      BY <1>2, <1>4, <2>1
    <2>2. CASE q # r
      BY <1>2, <1>4, <2>2
      DEF ClientInv, UnknownIsRecorded, HasOutcome, _operation_identity_hash
    <2> QED
      BY <2>1, <2>2
  <1> QED
    BY <1>2, <1>3, <1>4 DEF ClientInv, UnknownIsRecorded

\* What reserve_idempotency does with a committed record.
LEMMA ReplayKeeps ==
    ASSUME CommandConstants, ServerInv, NEW r \in Requests, pc[r] \in {"reserve", "insert"},
           record[TargetOf[r]] # None, _idempotency_replay(r, record[TargetOf[r]]),
           UNCHANGED <<attempt, record, effects, log, damaged>>
    PROVE  ServerInv'
  <1> DEFINE rec == record[TargetOf[r]]
  <1>1. /\ tx[r] \in Txs /\ tx[r].state = "open" /\ ~tx[r].holds
        /\ Exec(r) \notin effects
    BY SMTT(10) DEF ServerInv, TypeInv, TxFollowsRequest, OneHolder, EffectsFollowCommit, Open
  <1>2. rec.exec \in Execs
    BY SMTT(10) DEF ServerInv, TypeInv, Targets, Records
  <1>3. CASE Goto(r, "failed") /\ Rollback(r)
    <2>1. Moves(r, "failed") /\ Transacts(r, NoTx) /\ NoTx \in Txs
      BY <1>3, GotoMoves, RollbackTransacts, TxIsTyped DEF ServerInv, Labels
    <2> QED
      BY <1>1, <2>1, RequestGoesOn DEF Labels, Open, NoTx
  <1>4. CASE TargetOf[r] \in damaged /\ Goto(r, "repair") /\ UNCHANGED tx
    <2>1. Moves(r, "repair") /\ Transacts(r, tx[r])
      BY <1>4, GotoMoves DEF ServerInv, TypeInv, Transacts, Labels
    <2>2. TargetOf[r] \in Repairable
      BY <1>4 DEF ServerInv, TypeInv
    <2> QED
      BY <1>1, <2>1, <2>2, RequestGoesOn DEF Labels, Open
  <1>5. CASE /\ rec.principal = PrincipalOf[r] /\ rec.body = BodyOf[r]
             /\ Goto(r, "log") /\ tx' = [tx EXCEPT ![r].exec = rec.exec]
    <2> DEFINE x == [tx[r] EXCEPT !.exec = rec.exec]
    <2>1. /\ x \in Txs
          /\ x.state = "open" /\ ~x.holds /\ x.exec = rec.exec
      BY <1>1, <1>2, TxIsTyped DEF Txs
    <2>2. Moves(r, "log") /\ Transacts(r, x)
      BY <1>5, <2>1, GotoMoves, ExceptTransacts DEF ServerInv, Labels
    <2>3. AnswersFor(r, rec.exec)
      BY <1>5 DEF ServerInv, RecordsMatch, AnswersFor, Targets
    <2> QED
      BY <1>1, <2>1, <2>2, <2>3, RequestGoesOn DEF Labels, Open
  <1> QED
    BY <1>3, <1>4, <1>5 DEF _idempotency_replay

\* The steps of a request up to its commit.
LEMMA ExecutionKeeps ==
    ASSUME CommandConstants, CommandInv, NEW r \in Requests,
           \/ validate(r) \/ reserve_read(r) \/ reserve_insert(r) \/ reset_record(r)
           \/ execute(r) \/ add_operation_log(r) \/ request_is_lost(r)
    PROVE  CommandInv'
  <1>1. UNCHANGED <<attempt, answer, record, effects, log, damaged>>
    BY DEF validate, reserve_read, reserve_insert, reset_record, execute,
           add_operation_log, request_is_lost
  <1>2. ClientInv'
    BY <1>1, NothingIsAnswered DEF CommandInv
  <1>3. ServerInv /\ TypeInv /\ tx[r] \in Txs /\ NoTx \in Txs
    BY TxIsTyped DEF CommandInv, ServerInv, TypeInv
  <1>4. NoTx.state = "none" /\ ~NoTx.holds
    BY DEF NoTx
  <1>5. ASSUME validate(r) PROVE ServerInv'
    <2> DEFINE x == [NoTx EXCEPT !.state = "open"]
    <2>1. x \in Txs /\ x.state = "open" /\ ~x.holds
      BY TxIsTyped DEF NoTx
    <2>2. pc[r] = "received" /\ Exec(r) \notin effects /\ tx[r].state = "none" /\ ~tx[r].holds
      BY <1>3, <1>5, SMTT(10)
      DEF validate, ServerInv, EffectsFollowCommit, TxFollowsRequest, Txs, Open
    <2>3. CASE Goto(r, "reserve") /\ tx' = [tx EXCEPT ![r] = x]
      <3>1. Moves(r, "reserve") /\ Transacts(r, x)
        BY <1>3, <2>1, <2>3, GotoMoves, ExceptTransacts DEF Labels
      <3> QED
        BY <1>1, <1>3, <2>1, <2>2, <3>1, RequestGoesOn DEF Labels, Open
    <2>4. CASE Goto(r, "failed") /\ UNCHANGED tx
      <3>1. Moves(r, "failed") /\ Transacts(r, tx[r])
        BY <1>3, <2>4, GotoMoves DEF TypeInv, Transacts, Labels
      <3> QED
        BY <1>1, <1>3, <2>2, <3>1, RequestGoesOn DEF Labels, Open
    <2> QED
      BY <1>5, <2>3, <2>4 DEF validate
  <1>6. ASSUME reserve_read(r) PROVE ServerInv'
    <2>1. CASE record[TargetOf[r]] # None
      BY <1>1, <1>3, <1>6, <2>1, ReplayKeeps DEF reserve_read
    <2>2. CASE record[TargetOf[r]] = None
      <3>1. Moves(r, "insert") /\ Transacts(r, tx[r])
        BY <1>3, <1>6, <2>2, GotoMoves DEF reserve_read, TypeInv, Transacts, Labels
      <3>2. pc[r] = "reserve" /\ pc[r] \in Open
        BY <1>6 DEF reserve_read, Open
      <3>3. tx[r].state = "open" /\ Exec(r) \notin effects
        BY <1>3, <3>2 DEF ServerInv, EffectsFollowCommit, TxFollowsRequest
      <3>4. ~tx[r].holds
        BY <1>3, <3>2 DEF ServerInv, OneHolder
      <3> QED
        BY <1>1, <1>3, <3>1, <3>2, <3>3, <3>4, RequestGoesOn DEF Labels, Open
    <2> QED
      BY <2>1, <2>2
  <1>7. ASSUME reserve_insert(r) PROVE ServerInv'
    <2>1. CASE record[TargetOf[r]] # None
      BY <1>1, <1>3, <1>7, <2>1, ReplayKeeps DEF reserve_insert
    <2>2. CASE record[TargetOf[r]] = None
      <3> DEFINE x == [tx[r] EXCEPT !.holds = TRUE]
      <3>1. pc[r] = "insert" /\ Exec(r) \notin effects /\ tx[r].state = "open"
        BY <1>3, <1>7, SMTT(10)
        DEF reserve_insert, ServerInv, EffectsFollowCommit, TxFollowsRequest, Open
      <3>2. x \in Txs /\ x.state = "open" /\ x.holds
        BY <1>3, <3>1, TxIsTyped DEF Txs
      <3>3. Moves(r, "execute") /\ Transacts(r, x) /\ TargetIsFree(r)
        BY <1>3, <1>7, <2>2, <3>2, GotoMoves, ExceptTransacts DEF reserve_insert, Labels
      <3> QED
        BY <1>1, <1>3, <2>2, <3>1, <3>2, <3>3, RequestGoesOn DEF Labels, Open
    <2> QED
      BY <2>1, <2>2
  <1>8. ASSUME reset_record(r) PROVE ServerInv'
    <2> DEFINE x == [tx[r] EXCEPT !.holds = TRUE]
    <2>1. /\ pc[r] = "repair" /\ Exec(r) \notin effects /\ tx[r].state = "open"
          /\ TargetOf[r] \in Repairable
      BY <1>3, <1>8, SMTT(10)
      DEF reset_record, ServerInv, EffectsFollowCommit, TxFollowsRequest, HeldIsUnrecorded, Open
    <2>2. x \in Txs /\ x.state = "open" /\ x.holds
      BY <1>3, <2>1, TxIsTyped DEF Txs
    <2>3. Moves(r, "execute") /\ Transacts(r, x) /\ TargetIsFree(r)
      BY <1>3, <1>8, <2>2, GotoMoves, ExceptTransacts DEF reset_record, Labels
    <2> QED
      BY <1>1, <1>3, <2>1, <2>2, <2>3, RequestGoesOn DEF Labels, Open
  <1>9. ASSUME execute(r) PROVE ServerInv'
    <2> DEFINE x == [tx[r] EXCEPT !.exec = Exec(r)]
    <2>1. /\ pc[r] = "execute" /\ Exec(r) \notin effects /\ tx[r].state = "open"
          /\ tx[r].holds
          /\ TargetOf[r] \notin Repairable => record[TargetOf[r]] = None
          /\ Exec(r) \in Execs
      BY <1>3, <1>9, SMTT(10)
      DEF execute, ServerInv, TypeInv, EffectsFollowCommit, TxFollowsRequest,
          OneHolder, HeldIsUnrecorded, Open, Exec, Execs
    <2>2. x \in Txs /\ x.state = "open" /\ x.holds /\ x.exec = Exec(r)
      BY <1>3, <2>1, TxIsTyped DEF Txs
    <2>3. CASE Goto(r, "log") /\ tx' = [tx EXCEPT ![r].exec = Exec(r)]
      <3>1. Moves(r, "log") /\ Transacts(r, x)
        BY <1>3, <2>2, <2>3, GotoMoves, ExceptTransacts DEF Labels
      <3> QED
        BY <1>1, <1>3, <2>1, <2>2, <3>1, RequestGoesOn DEF Labels, Open
    <2>4. CASE Goto(r, "failed") /\ Rollback(r)
      <3>1. Moves(r, "failed") /\ Transacts(r, NoTx)
        BY <1>3, <2>4, GotoMoves, RollbackTransacts DEF Labels
      <3> QED
        BY <1>1, <1>3, <1>4, <2>1, <3>1, RequestGoesOn DEF Labels, Open
    <2> QED
      BY <1>9, <2>3, <2>4 DEF execute
  <1>10. ASSUME add_operation_log(r) PROVE ServerInv'
    <2> DEFINE x == [tx[r] EXCEPT !.identity = TRUE]
    <2>1. /\ pc[r] = "log" /\ Exec(r) \notin effects /\ tx[r].state = "open"
          /\ tx[r].holds => /\ tx[r].exec = Exec(r)
                            /\ TargetOf[r] \notin Repairable => record[TargetOf[r]] = None
          /\ ~tx[r].holds => AnswersFor(r, tx[r].exec)
      BY <1>3, <1>10, SMTT(10)
      DEF add_operation_log, ServerInv, EffectsFollowCommit, TxFollowsRequest, OneHolder,
          HeldIsUnrecorded, RecordsMatch, Open
    <2>2. /\ x \in Txs /\ x.state = "open" /\ x.identity
          /\ x.holds <=> tx[r].holds
          /\ x.exec = tx[r].exec
      BY <1>3, <2>1, TxIsTyped DEF Txs
    <2>3. Moves(r, "commit") /\ Transacts(r, x)
      BY <1>3, <1>10, <2>2, GotoMoves, ExceptTransacts DEF add_operation_log, Labels
    <2> QED
      BY <1>1, <1>3, <2>1, <2>2, <2>3, RequestGoesOn DEF Labels, Open
  <1>11. ASSUME request_is_lost(r) PROVE ServerInv'
    <2>1. pc[r] # "answered" /\ Moves(r, "lost")
      BY <1>3, <1>11, GotoMoves DEF request_is_lost, Labels
    <2>2. CASE tx[r].state = "inflight" /\ UNCHANGED tx
      <3>1. Transacts(r, tx[r])
        BY <1>3, <2>2 DEF TypeInv, Transacts
      <3>2. /\ tx[r].identity /\ Exec(r) \notin effects /\ pc[r] \notin Open
            /\ tx[r].holds => /\ tx[r].exec = Exec(r)
                              /\ TargetOf[r] \notin Repairable => record[TargetOf[r]] = None
        <4>1. tx[r].identity /\ Exec(r) \notin effects /\ pc[r] \notin Open
          BY <1>3, <2>2 DEF ServerInv, EffectsFollowCommit, TxFollowsRequest
        <4>2. tx[r].holds => /\ tx[r].exec = Exec(r)
                             /\ TargetOf[r] \notin Repairable => record[TargetOf[r]] = None
          BY <1>3, <2>2 DEF ServerInv, TxFollowsRequest, OneHolder, HeldIsUnrecorded
        <4> QED
          BY <4>1, <4>2
      <3> QED
        BY <1>1, <1>3, <2>1, <2>2, <3>1, <3>2, RequestGoesOn DEF Labels, Open
    <2>3. CASE Rollback(r)
      <3>1. Transacts(r, NoTx)
        BY <1>3, <2>3, RollbackTransacts
      <3> QED
        BY <1>1, <1>3, <1>4, <2>1, <3>1, RequestGoesOn DEF Labels, Open
    <2> QED
      BY <1>11, <2>2, <2>3 DEF request_is_lost
  <1> QED
    BY <1>2, <1>5, <1>6, <1>7, <1>8, <1>9, <1>10, <1>11 DEF CommandInv

\* The commit, and what the server does when the client of the commit is gone.
LEMMA CommitStepKeeps ==
    ASSUME CommandConstants, CommandInv, NEW r \in Requests, commit(r)
    PROVE  CommandInv'
  <1>1. /\ ServerInv /\ ClientInv /\ TypeInv /\ tx[r] \in Txs /\ NoTx \in Txs
        /\ pc[r] = "commit" /\ UNCHANGED attempt
    BY TxIsTyped DEF CommandInv, ServerInv, TypeInv, commit
  <1>2. /\ Exec(r) \notin effects /\ tx[r].state = "open" /\ tx[r].identity
        /\ tx[r].holds => /\ tx[r].exec = Exec(r)
                          /\ TargetOf[r] \notin Repairable => record[TargetOf[r]] = None
    BY <1>1, SMTT(10)
    DEF ServerInv, EffectsFollowCommit, TxFollowsRequest, OneHolder, HeldIsUnrecorded, Open
  <1>3. NoTx.state = "none" /\ ~NoTx.holds
    BY DEF NoTx
  <1>4. ASSUME Committed(r), Rollback(r), NEW next \in {"uncertain", "answered"},
               Goto(r, next), NEW e, e = tx[r].exec
        PROVE  ServerInv' /\ effects \subseteq effects' /\ log \subseteq log' /\ AnswersFor(r, e)'
    <2>1. Moves(r, next) /\ Transacts(r, NoTx)
      BY <1>1, <1>4, GotoMoves, RollbackTransacts DEF Labels
    <2> QED
      BY <1>1, <1>2, <1>4, <2>1, CommitKeeps
  <1>5. CASE Committed(r) /\ Rollback(r) /\ Answer(r, "ok", tx[r].exec)
    <2>1. PICK e : e = tx[r].exec
      OBVIOUS
    <2>2. ServerInv' /\ effects \subseteq effects' /\ log \subseteq log' /\ AnswersFor(r, e)'
      BY <1>4, <1>5, <2>1 DEF Answer
    <2>3. e \in Execs \cup {None} /\ answer' = [answer EXCEPT ![r] = [kind |-> "ok", exec |-> e]]
      BY <1>1, <1>5, <2>1 DEF Answer, Txs
    <2>4. ClientInv'
      BY <1>1, <2>2, <2>3, AnswerIsTrue
    <2> QED
      BY <2>2, <2>4 DEF CommandInv
  <1>6. CASE Committed(r) /\ Rollback(r) /\ Goto(r, "uncertain") /\ UNCHANGED answer
    <2>1. ServerInv' /\ effects \subseteq effects' /\ log \subseteq log'
      BY <1>4, <1>6
    <2> QED
      BY <1>1, <1>6, <2>1, NothingIsAnswered DEF CommandInv
  <1>7. CASE /\ tx' = [tx EXCEPT ![r].state = "inflight"] /\ Goto(r, "uncertain")
             /\ UNCHANGED <<answer, record, effects, log, damaged>>
    <2> DEFINE x == [tx[r] EXCEPT !.state = "inflight"]
    <2>1. /\ x \in Txs /\ x.state = "inflight" /\ x.identity
          /\ x.holds <=> tx[r].holds
          /\ x.exec = tx[r].exec
      BY <1>1, <1>2, TxIsTyped DEF Txs
    <2>2. Moves(r, "uncertain") /\ Transacts(r, x)
      BY <1>1, <1>7, <2>1, GotoMoves, ExceptTransacts DEF Labels
    <2>3. ServerInv'
      BY <1>1, <1>2, <1>7, <2>1, <2>2, RequestGoesOn DEF Labels, Open
    <2> QED
      BY <1>1, <1>7, <2>3, NothingIsAnswered DEF CommandInv
  <1>8. ASSUME Rollback(r), NEW next \in {"failed", "answered"}, Goto(r, next),
               UNCHANGED <<record, effects, log, damaged>>
        PROVE  ServerInv'
    <2>1. Moves(r, next) /\ Transacts(r, NoTx)
      BY <1>1, <1>8, GotoMoves, RollbackTransacts DEF Labels
    <2> QED
      BY <1>1, <1>2, <1>3, <1>8, <2>1, RequestGoesOn DEF Labels, Open
  <1>9. CASE /\ Rollback(r) /\ Goto(r, "failed")
             /\ UNCHANGED <<answer, record, effects, log, damaged>>
    BY <1>1, <1>8, <1>9, NothingIsAnswered DEF CommandInv
  <1>10. CASE /\ Rollback(r) /\ Answer(r, "fenced", None)
              /\ UNCHANGED <<record, effects, log, damaged>>
    <2>1. ServerInv'
      BY <1>8, <1>10 DEF Answer
    <2>2. ClientInv'
      BY <1>1, <1>10, AnswerIsTrue DEF Answer
    <2> QED
      BY <2>1, <2>2 DEF CommandInv
  <1> QED
    BY <1>5, <1>6, <1>7, <1>9, <1>10 DEF commit

LEMMA ServerKeeps ==
    ASSUME CommandConstants, CommandInv, NEW r \in Requests, server_resolves(r)
    PROVE  CommandInv'
  <1>1. /\ ServerInv /\ ClientInv /\ TypeInv /\ NoTx \in Txs /\ tx[r].state = "inflight"
        /\ UNCHANGED <<pc, attempt, answer>>
    BY TxIsTyped DEF CommandInv, ServerInv, server_resolves
  <1>2. pc[r] \in {"uncertain", "answered", "lost"}
    BY <1>1 DEF ServerInv, TxFollowsRequest
  <1>3. Moves(r, pc[r]) /\ Transacts(r, NoTx)
    BY <1>1, RollbackTransacts DEF server_resolves, TypeInv, Moves
  <1>4. CASE Committed(r)
    <2>1. ServerInv' /\ effects \subseteq effects' /\ log \subseteq log'
      BY <1>1, <1>2, <1>3, <1>4, CommitKeeps
    <2> QED
      BY <1>1, <2>1, NothingIsAnswered DEF CommandInv
  <1>5. CASE UNCHANGED <<record, effects, log, damaged>>
    <2>1. ServerInv'
      BY <1>1, <1>2, <1>3, <1>5, RequestGoesOn DEF Labels, Open, NoTx
    <2> QED
      BY <1>1, <1>5, <2>1, NothingIsAnswered DEF CommandInv
  <1> QED
    BY <1>4, <1>5 DEF server_resolves

\* A request is answered and a row of the log may be written; when the row does
\* not say ok, its execution is over.
LEMMA RequestIsLogged ==
    ASSUME ServerInv, NEW r \in Requests, pc[r] \in {"failed", "uncertain"},
           Moves(r, "answered"), UNCHANGED <<attempt, tx, record, effects, damaged>>,
           log \subseteq log', NEW result \in {"error", "unknown"},
           log' \subseteq log \cup {Row(r, result)},
           log' = log \/ (tx[r].state = "none" /\ Exec(r) \notin effects)
    PROVE  ServerInv'
  <1>1. TypeInv'
    <2>1. Row(r, result) \in Rows
      BY SMTT(10) DEF ServerInv, TypeInv, Row, Rows, Exec, Execs
    <2> QED
      BY <2>1 DEF ServerInv, TypeInv, Moves
  <1>2. TxFollowsRequest'
    BY SMTT(10) DEF ServerInv, TxFollowsRequest, Moves, Open
  <1>3. OneHolder'
    BY SMTT(10) DEF ServerInv, OneHolder, Moves, Exec
  <1>4. HeldIsUnrecorded'
    BY SMTT(10) DEF ServerInv, HeldIsUnrecorded, Moves
  <1>5. RecordsMatch'
    BY SMTT(10) DEF ServerInv, RecordsMatch, AnswersFor, Moves
  <1>6. EffectsFollowCommit'
    <2>1. \A q : HasOutcome(q, "ok") => HasOutcome(q, "ok")'
      BY DEF HasOutcome, _operation_identity_hash
    <2> QED
      BY <2>1, SMTT(10) DEF ServerInv, EffectsFollowCommit, Moves, Exec, Open
  <1>7. FailuresAreOver'
    BY SMTT(10) DEF ServerInv, TypeInv, FailuresAreOver, Moves, Row, Rows, Exec, Execs
  <1>8. ExecutedOnce'
    BY DEF ServerInv, ExecutedOnce
  <1> QED
    BY <1>1, <1>2, <1>3, <1>4, <1>5, <1>6, <1>7, <1>8 DEF ServerInv

\* The log of a failure is written when its transaction is over.
LEMMA FailureIsLogged ==
    ASSUME CommandConstants, CommandInv, NEW r \in Requests, persist_failed_operation_log(r)
    PROVE  CommandInv'
  <1>1. /\ ServerInv /\ ClientInv /\ TypeInv /\ pc[r] = "failed"
        /\ log \subseteq log' /\ log' \subseteq log \cup {Row(r, "error")}
        /\ UNCHANGED <<attempt, tx, record, effects, damaged>>
    BY DEF CommandInv, ServerInv, persist_failed_operation_log
  <1>2. ClientInv'
    BY <1>1, AnswerIsTrue DEF persist_failed_operation_log, Answer
  <1>3. tx[r].state = "none" /\ Exec(r) \notin effects /\ Exec(r) \in Execs
    BY <1>1, SMTT(10) DEF ServerInv, TypeInv, Txs, TxFollowsRequest, EffectsFollowCommit,
                          Open, Exec, Execs
  <1>4. Moves(r, "answered")
    BY <1>1, GotoMoves DEF persist_failed_operation_log, Answer, Labels
  <1>5. ServerInv'
    BY <1>1, <1>3, <1>4, RequestIsLogged DEF Row
  <1> QED
    BY <1>2, <1>5 DEF CommandInv

\* So is the log of an unknown outcome: it waits for the lock of the identity,
\* and is not written when the execution did commit.
LEMMA UnknownIsLogged ==
    ASSUME CommandConstants, CommandInv, NEW r \in Requests, persist_uncertain_operation_log(r)
    PROVE  CommandInv'
  <1>1. /\ ServerInv /\ ClientInv /\ TypeInv /\ pc[r] = "uncertain"
        /\ UNCHANGED <<attempt, tx, record, effects, damaged>>
        /\ Answer(r, "unknown", None)
    BY DEF CommandInv, ServerInv, persist_uncertain_operation_log
  <1>2. Moves(r, "answered") /\ Exec(r) \in Execs
    BY <1>1, GotoMoves DEF Answer, Labels, TypeInv, Exec, Execs
  <1>3. CASE UNCHANGED log /\ (AuditMayFail \/ HasOutcome(r, "ok") \/ HasOutcome(r, "unknown"))
    <2>1. HasOutcome(r, "ok")' \/ HasOutcome(r, "unknown")' \/ AuditMayFail
      BY <1>3 DEF HasOutcome, _operation_identity_hash
    <2>2. ClientInv'
      BY <1>1, <1>3, <2>1, AnswerIsTrue DEF Answer
    <2>3. ServerInv'
      BY <1>1, <1>2, <1>3, RequestIsLogged
    <2> QED
      BY <2>2, <2>3 DEF CommandInv
  <1>4. CASE IdentityIsFree(r) /\ ~HasOutcome(r, "ok") /\ log' = log \cup {Row(r, "unknown")}
    <2>1. tx[r].state = "none"
      BY <1>1, <1>4, SMTT(10)
      DEF IdentityIsFree, ServerInv, TypeInv, Txs, TxFollowsRequest, Open
    <2>2. Exec(r) \notin effects
      BY <1>1, <1>4 DEF ServerInv, EffectsFollowCommit, Exec
    <2>3. HasOutcome(r, "unknown")'
      <3>1. /\ Row(r, "unknown").identity = _operation_identity_hash(r)
            /\ Row(r, "unknown").result = "unknown"
            /\ Row(r, "unknown") \in log'
        BY <1>4 DEF Row
      <3>2. _operation_identity_hash(r)' = _operation_identity_hash(r)
        BY DEF _operation_identity_hash
      <3> QED
        BY <3>1, <3>2 DEF HasOutcome
    <2>4. ClientInv'
      BY <1>1, <1>4, <2>3, AnswerIsTrue DEF Answer
    <2>5. ServerInv'
      BY <1>1, <1>2, <1>4, <2>1, <2>2, RequestIsLogged DEF Row
    <2> QED
      BY <2>4, <2>5 DEF CommandInv
  <1> QED
    BY <1>3, <1>4 DEF persist_uncertain_operation_log

\* A client sends a request again, after its transaction has ended.
LEMMA SendKeeps ==
    ASSUME CommandConstants, CommandInv, NEW r \in Requests, send(r)
    PROVE  CommandInv'
  <1>1. /\ ServerInv /\ ClientInv /\ TypeInv /\ tx[r].state = "none" /\ pc[r] \in {"idle", "lost", "answered"}
        /\ UNCHANGED <<tx, record, effects, log, damaged>>
    BY DEF CommandInv, ServerInv, send
  <1>2. ClientInv'
    BY <1>1, AnswerIsTrue DEF send, NoAnswer
  <1>3. /\ Moves(r, "received")
        /\ attempt' \in [Requests -> Nat]
        /\ attempt'[r] = attempt[r] + 1
        /\ \A q \in Requests \ {r} : attempt'[q] = attempt[q]
    BY <1>1, GotoMoves, SMTT(10) DEF send, Labels, TypeInv
  <1>4. TypeInv'
    BY <1>1, <1>3 DEF TypeInv, Moves
  <1>5. TxFollowsRequest'
    BY <1>1, <1>3, SMTT(10) DEF ServerInv, TxFollowsRequest, Moves, Open
  <1>6. OneHolder'
    BY <1>1, <1>3, SMTT(10) DEF ServerInv, OneHolder, TxFollowsRequest, Moves, Exec
  <1>7. HeldIsUnrecorded'
    BY <1>1, <1>3, SMTT(10) DEF ServerInv, HeldIsUnrecorded, Moves
  <1>8. RecordsMatch'
    BY <1>1, <1>3, SMTT(10) DEF ServerInv, RecordsMatch, AnswersFor, Moves
  <1>9. EffectsFollowCommit'
    <2>1. \A q : HasOutcome(q, "ok") => HasOutcome(q, "ok")'
      BY <1>1 DEF HasOutcome, _operation_identity_hash
    <2> QED
      BY <1>1, <1>3, <2>1, SMTT(10)
      DEF ServerInv, TypeInv, EffectsFollowCommit, Moves, Exec, Execs
  <1>10. FailuresAreOver'
    BY <1>1, <1>3, SMTT(10) DEF ServerInv, TypeInv, FailuresAreOver, Moves, Rows, Execs
  <1>11. ExecutedOnce'
    BY <1>1 DEF ServerInv, ExecutedOnce
  <1> QED
    BY <1>2, <1>4, <1>5, <1>6, <1>7, <1>8, <1>9, <1>10, <1>11 DEF CommandInv, ServerInv

LEMMA DamageKeeps ==
    ASSUME CommandConstants, CommandInv, NEW t \in Targets, archive_is_damaged(t)
    PROVE  CommandInv'
  <1>1. /\ damaged' \in SUBSET Repairable
        /\ UNCHANGED <<pc, attempt, answer, tx, record, effects, log>>
    BY DEF CommandInv, ServerInv, TypeInv, archive_is_damaged
  <1>2. ServerInv'
    <2>1. TypeInv'
      BY <1>1 DEF CommandInv, ServerInv, TypeInv
    <2>2. TxFollowsRequest' /\ OneHolder' /\ HeldIsUnrecorded' /\ ExecutedOnce'
      BY <1>1 DEF CommandInv, ServerInv, TxFollowsRequest, OneHolder, HeldIsUnrecorded,
                  ExecutedOnce, Exec
    <2>3. RecordsMatch' /\ EffectsFollowCommit' /\ FailuresAreOver'
      BY <1>1 DEF CommandInv, ServerInv, RecordsMatch, AnswersFor, EffectsFollowCommit,
                  FailuresAreOver, HasOutcome, _operation_identity_hash, Exec
    <2> QED
      BY <2>1, <2>2, <2>3 DEF ServerInv
  <1> QED
    BY <1>1, <1>2, NothingIsAnswered DEF CommandInv

(*------------------------------ the theorems ------------------------------*)

LEMMA InitKeeps == Init => CommandInv
  <1> SUFFICES ASSUME Init
               PROVE  CommandInv
    OBVIOUS
  <1>1. NoTx \in Txs /\ NoTx.state = "none" /\ ~NoTx.holds
    BY TxIsTyped DEF NoTx
  <1>2. NoAnswer \in Answers /\ NoAnswer.kind = "none"
    BY DEF NoAnswer, Answers
  <1>3. TypeInv
    BY <1>1, SMTT(10) DEF Init, TypeInv, Labels
  <1>4. TxFollowsRequest /\ OneHolder /\ HeldIsUnrecorded
    BY <1>1, SMTT(10) DEF Init, TxFollowsRequest, OneHolder, HeldIsUnrecorded, Open
  <1>5. RecordsMatch /\ EffectsFollowCommit /\ FailuresAreOver /\ ExecutedOnce
    BY <1>1, SMTT(10)
    DEF Init, RecordsMatch, EffectsFollowCommit, FailuresAreOver, ExecutedOnce, Open
  <1>6. ClientInv
    BY <1>2, SMTT(10) DEF Init, ClientInv, AnswersAreCommitted, UnknownIsRecorded
  <1> QED
    BY <1>3, <1>4, <1>5, <1>6 DEF CommandInv, ServerInv

LEMMA NextKeeps ==
    ASSUME CommandConstants, CommandInv, [Next]_vars
    PROVE  CommandInv'
  <1>1. ASSUME NEW r \in Requests, RequestStep(r)
        PROVE  CommandInv'
    BY <1>1, ExecutionKeeps, CommitStepKeeps, FailureIsLogged, UnknownIsLogged
    DEF RequestStep
  <1>2. CASE UNCHANGED vars
    <2>1. UNCHANGED <<pc, attempt, answer, tx, record, effects, log, damaged>>
      BY <1>2 DEF vars
    <2>2. TypeInv'
      BY <2>1 DEF CommandInv, ServerInv, TypeInv
    <2>3. TxFollowsRequest' /\ OneHolder' /\ HeldIsUnrecorded' /\ ExecutedOnce'
      BY <2>1 DEF CommandInv, ServerInv, TxFollowsRequest, OneHolder, HeldIsUnrecorded,
                  ExecutedOnce, Exec
    <2>4. RecordsMatch' /\ EffectsFollowCommit' /\ FailuresAreOver'
      BY <2>1 DEF CommandInv, ServerInv, RecordsMatch, AnswersFor, EffectsFollowCommit,
                  FailuresAreOver, HasOutcome, _operation_identity_hash, Exec
    <2>5. ClientInv'
      BY <2>1, NothingIsAnswered DEF CommandInv
    <2> QED
      BY <2>2, <2>3, <2>4, <2>5 DEF CommandInv, ServerInv
  <1> QED
    BY <1>1, <1>2, ExecutionKeeps, ServerKeeps, SendKeeps, DamageKeeps DEF Next

LEMMA Kept ==
    ASSUME CommandConstants
    PROVE  Spec => []CommandInv
  <1>1. CommandInv /\ [Next]_vars => CommandInv'
    BY NextKeeps
  <1> QED
    BY <1>1, InitKeeps, PTL DEF Spec

\* A command takes effect once for its idempotency key, and once for the
\* lock_version it expects, however often it is sent and whatever commits lose
\* their client (reserve_idempotency, run_command).
THEOREM CommandsExecuteOnce ==
    ASSUME CommandConstants
    PROVE  Spec => []ExecutedOnce
  <1>1. CommandInv => ExecutedOnce
    BY DEF CommandInv, ServerInv
  <1> QED
    BY <1>1, Kept, PTL

\* A successful answer is the response of a committed execution of the same
\* body for the same principal, also when it is a replay (_idempotency_replay).
THEOREM AnswersWereCommitted ==
    ASSUME CommandConstants
    PROVE  Spec => []AnswersAreCommitted
  <1>1. CommandInv => AnswersAreCommitted
    BY DEF CommandInv, ClientInv
  <1> QED
    BY <1>1, Kept, PTL

\* An execution that the operation log calls failed or unknown has no effect,
\* and never will (persist_failed_operation_log,
\* persist_uncertain_operation_log).
THEOREM LoggedFailuresAreHonest ==
    ASSUME CommandConstants
    PROVE  Spec => []FailuresAreHonest
  <1>1. CommandInv => FailuresAreHonest
    BY DEF CommandInv, ServerInv, FailuresAreOver, FailuresAreHonest
  <1> QED
    BY <1>1, Kept, PTL

\* A client that was told that the outcome is unknown finds a row of its
\* operation in the log, unless the log itself could not be written.
THEOREM UnknownOutcomesAreRecorded ==
    ASSUME CommandConstants
    PROVE  Spec => []UnknownIsRecorded
  <1>1. CommandInv => UnknownIsRecorded
    BY DEF CommandInv, ClientInv
  <1> QED
    BY <1>1, Kept, PTL
===============================================================================
