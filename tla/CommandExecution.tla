-------------------------- MODULE CommandExecution ---------------------------
(***************************************************************************)
(* run_command: a command is executed in one transaction together with its *)
(* idempotency record and its row of the operation log.  A client resends  *)
(* a request that got no answer, or an error, while its first transaction  *)
(* may still be open on the server: after a connection is lost in the      *)
(* commit, the outcome is unknown to the process that asked for it.        *)
(***************************************************************************)
EXTENDS Naturals, FiniteSets

CONSTANTS
    Requests,
    TargetOf,     \* the idempotency key of a request, or the row and the
                  \* lock_version it expects
    Keyed,        \* the targets that are idempotency keys
    Repairable,   \* the keys of PrepareFinalizedPackage
    BodyOf, PrincipalOf,
    MaxAttempts,  \* how often a client sends a request
    MaxDamages,   \* archives found damaged
    AuditMayFail, \* whether the log of a lost commit may be unavailable
    None

VARIABLES
    pc, attempt, answer,   \* the requests
    tx,        \* the transaction of a request as PostgreSQL sees it
    record,    \* the committed idempotency record or new row version
    effects,   \* the executions that are committed
    log,       \* the committed rows of operation_logs
    damaged,   \* the keys whose package is ready but damaged
    damages

vars == <<pc, attempt, answer, tx, record, effects, log, damaged, damages>>

Targets == {TargetOf[r] : r \in Requests}
Execs == Requests \X Nat
Records == [exec : Execs, body : {BodyOf[r] : r \in Requests},
            principal : {PrincipalOf[r] : r \in Requests}]

\* The absent record is no record.
CommandConstants == None \notin Records /\ MaxAttempts \in Nat
NoTx == [state |-> "none", exec |-> None, holds |-> FALSE, identity |-> FALSE]
NoAnswer == [kind |-> "none", exec |-> None]

\* The identity of an execution, and of an operation in the log.
Exec(r) == <<r, attempt[r]>>
_operation_identity_hash(r) == <<TargetOf[r], PrincipalOf[r]>>
Row(r, result) ==
    [identity |-> _operation_identity_hash(r), result |-> result, by |-> Exec(r)]

\* No other transaction holds the key or the row; none holds the identity.
TargetIsFree(r) == \A q \in Requests : tx[q].holds => TargetOf[q] # TargetOf[r]
IdentityIsFree(r) ==
    \A q \in Requests : tx[q].identity =>
        _operation_identity_hash(q) # _operation_identity_hash(r)

Goto(r, label) == pc' = [pc EXCEPT ![r] = label]
Rollback(r) == tx' = [tx EXCEPT ![r] = NoTx]

-----------------------------------------------------------------------------
(* CommandBus.execute *)

\* The envelope and the capabilities are checked; nothing is reserved.
validate(r) ==
    /\ pc[r] = "received"
    /\ \/ Goto(r, "reserve") /\ tx' = [tx EXCEPT ![r] = [NoTx EXCEPT !.state = "open"]]
       \/ Goto(r, "failed") /\ UNCHANGED tx
    /\ UNCHANGED <<attempt, answer, record, effects, log, damaged, damages>>

\* What reserve_idempotency makes of a committed record; a request without a
\* key finds that the row no longer has the version it expects.
_idempotency_replay(r, rec) ==
    IF \/ TargetOf[r] \notin Keyed
       \/ rec.principal # PrincipalOf[r] \/ rec.body # BodyOf[r]
    THEN Goto(r, "failed") /\ Rollback(r)
    ELSE IF TargetOf[r] \in damaged
    THEN Goto(r, "repair") /\ UNCHANGED tx
    ELSE Goto(r, "log") /\ tx' = [tx EXCEPT ![r].exec = rec.exec]

reserve_read(r) ==
    /\ pc[r] = "reserve"
    /\ IF record[TargetOf[r]] # None
       THEN _idempotency_replay(r, record[TargetOf[r]])
       ELSE Goto(r, "insert") /\ UNCHANGED tx
    /\ UNCHANGED <<attempt, answer, record, effects, log, damaged, damages>>

\* INSERT ... ON CONFLICT DO NOTHING waits for a transaction that inserted
\* the key; so does the UPDATE of a row another transaction changed.
reserve_insert(r) ==
    /\ pc[r] = "insert" /\ TargetIsFree(r)
    /\ IF record[TargetOf[r]] # None
       THEN _idempotency_replay(r, record[TargetOf[r]])
       ELSE Goto(r, "execute") /\ tx' = [tx EXCEPT ![r].holds = TRUE]
    /\ UNCHANGED <<attempt, answer, record, effects, log, damaged, damages>>

\* The record of a damaged package goes back to 102 and the command runs again.
reset_record(r) ==
    /\ pc[r] = "repair" /\ TargetIsFree(r)
    /\ Goto(r, "execute") /\ tx' = [tx EXCEPT ![r].holds = TRUE]
    /\ UNCHANGED <<attempt, answer, record, effects, log, damaged, damages>>

execute(r) ==
    /\ pc[r] = "execute"
    /\ \/ Goto(r, "log") /\ tx' = [tx EXCEPT ![r].exec = Exec(r)]
       \/ Goto(r, "failed") /\ Rollback(r)
    /\ UNCHANGED <<attempt, answer, record, effects, log, damaged, damages>>

-----------------------------------------------------------------------------
(* run_command after the execution *)

\* add_operation_log("ok") takes the lock of the operation's identity.
add_operation_log_unlocked(r) ==
    /\ pc[r] = "log"
    /\ Goto(r, "commit")
    /\ UNCHANGED <<attempt, answer, tx, record, effects, log, damaged, damages>>

add_operation_log(r) ==
    /\ pc[r] = "log" /\ IdentityIsFree(r)
    /\ Goto(r, "commit") /\ tx' = [tx EXCEPT ![r].identity = TRUE]
    /\ UNCHANGED <<attempt, answer, record, effects, log, damaged, damages>>

\* What the database does when the transaction of r commits.
Committed(r) ==
    LET t == TargetOf[r] IN
    /\ log' = log \cup {Row(r, "ok")}
    /\ IF tx[r].holds
       THEN /\ record' = [record EXCEPT ![t] =
                  [exec |-> tx[r].exec, body |-> BodyOf[r], principal |-> PrincipalOf[r]]]
            /\ effects' = effects \cup {tx[r].exec}
            /\ damaged' = damaged \ {t}
       ELSE UNCHANGED <<record, effects, damaged>>

Answer(r, kind, exec) ==
    answer' = [answer EXCEPT ![r] = [kind |-> kind, exec |-> exec]] /\ Goto(r, "answered")

commit(r) ==
    /\ pc[r] = "commit"
    /\ \/ /\ Committed(r) /\ Rollback(r)
          /\ \/ Answer(r, "ok", tx[r].exec)
             \/ Goto(r, "uncertain") /\ UNCHANGED answer
       \/ /\ tx' = [tx EXCEPT ![r].state = "inflight"]
          /\ Goto(r, "uncertain") /\ UNCHANGED <<answer, record, effects, log, damaged>>
       \/ /\ Rollback(r)
          /\ \/ Goto(r, "failed") /\ UNCHANGED answer
             \/ Answer(r, "fenced", None)
          /\ UNCHANGED <<record, effects, log, damaged>>
    /\ UNCHANGED <<attempt, damages>>

\* The server finishes the commit, or finds that the connection is gone.
server_resolves(r) ==
    /\ tx[r].state = "inflight" /\ Rollback(r)
    /\ \/ Committed(r)
       \/ UNCHANGED <<record, effects, log, damaged>>
    /\ UNCHANGED <<pc, attempt, answer, damages>>

\* The audit write may itself fail: it is logged and the answer stands.
persist_failed_operation_log(r) ==
    /\ pc[r] = "failed"
    /\ log' \in {log, log \cup {Row(r, "error")}}
    /\ Answer(r, "error", None)
    /\ UNCHANGED <<attempt, tx, record, effects, damaged, damages>>

HasOutcome(r, result) ==
    \E row \in log : row.identity = _operation_identity_hash(r) /\ row.result = result

\* An own transaction waits for the lock of the identity, so for the one
\* whose outcome is unknown; a second unknown row violates the unique index.
persist_uncertain_operation_log(r) ==
    /\ pc[r] = "uncertain"
    /\ \/ /\ IdentityIsFree(r)
          /\ log' = IF HasOutcome(r, "ok") \/ HasOutcome(r, "unknown")
                    THEN log ELSE log \cup {Row(r, "unknown")}
       \/ AuditMayFail /\ UNCHANGED log
    /\ Answer(r, "unknown", None)
    /\ UNCHANGED <<attempt, tx, record, effects, damaged, damages>>

-----------------------------------------------------------------------------
(* The clients, the backend process and the file system *)

\* A client sends a request again when it got no answer or an error; copies
\* that run beside an open transaction are further members of Requests.
send(r) ==
    /\ pc[r] \in {"idle", "lost"} \/ (pc[r] = "answered" /\ answer[r].kind # "ok")
    /\ attempt[r] < MaxAttempts /\ tx[r].state = "none"
    /\ attempt' = [attempt EXCEPT ![r] = @ + 1]
    /\ answer' = [answer EXCEPT ![r] = NoAnswer] /\ Goto(r, "received")
    /\ UNCHANGED <<tx, record, effects, log, damaged, damages>>

\* The process exits: its transactions are rolled back, or left to the server
\* when the commit was sent.
request_is_lost(r) ==
    /\ pc[r] \notin {"idle", "answered", "lost"} /\ Goto(r, "lost")
    /\ IF tx[r].state = "inflight" THEN UNCHANGED tx ELSE Rollback(r)
    /\ UNCHANGED <<attempt, answer, record, effects, log, damaged, damages>>

archive_is_damaged(t) ==
    /\ t \in Repairable \ damaged /\ record[t] # None /\ damages < MaxDamages
    /\ damaged' = damaged \cup {t} /\ damages' = damages + 1
    /\ UNCHANGED <<pc, attempt, answer, tx, record, effects, log>>

Init ==
    /\ pc = [r \in Requests |-> "idle"] /\ attempt = [r \in Requests |-> 0]
    /\ answer = [r \in Requests |-> NoAnswer] /\ tx = [r \in Requests |-> NoTx]
    /\ record = [t \in Targets |-> None] /\ effects = {} /\ log = {}
    /\ damaged = {} /\ damages = 0

RequestStep(r) ==
    \/ validate(r) \/ reserve_read(r) \/ reserve_insert(r) \/ reset_record(r)
    \/ execute(r) \/ add_operation_log(r) \/ commit(r)
    \/ persist_failed_operation_log(r) \/ persist_uncertain_operation_log(r)

Next ==
    \/ \E r \in Requests : RequestStep(r) \/ server_resolves(r) \/ send(r) \/ request_is_lost(r)
    \/ \E t \in Targets : archive_is_damaged(t)

Spec == Init /\ [][Next]_vars

\* Requests run; the server ends every transaction; clients send again.
FairSpec ==
    /\ Spec
    /\ \A r \in Requests : /\ WF_vars(RequestStep(r)) /\ WF_vars(server_resolves(r))
                           /\ WF_vars(send(r))

-----------------------------------------------------------------------------

TypeOK ==
    /\ attempt \in [Requests -> 0..MaxAttempts]
    /\ \A t \in Targets : Cardinality({r \in Requests : tx[r].holds /\ TargetOf[r] = t}) <= 1
    /\ damaged \subseteq Repairable /\ damages \in 0..MaxDamages

\* A command takes effect once for its idempotency key, and once for the
\* lock_version it expects, however often and from wherever it is sent; only
\* a package whose archive was damaged is prepared again.
ExecutedOnce ==
    \A e, f \in effects :
       TargetOf[e[1]] = TargetOf[f[1]] /\ TargetOf[e[1]] \notin Repairable => e = f

\* A successful answer is the response of a committed execution of the same
\* body for the same principal.
AnswersAreCommitted ==
    \A r \in Requests : answer[r].kind = "ok" =>
        /\ answer[r].exec \in effects
        /\ LET q == answer[r].exec[1] IN
           TargetOf[q] = TargetOf[r] /\ BodyOf[q] = BodyOf[r] /\ PrincipalOf[q] = PrincipalOf[r]

\* An execution the log calls failed or unknown has not taken effect and never
\* will: the row is written after the transaction has ended.
FailuresAreHonest == \A row \in log : row.result # "ok" => row.by \notin effects

\* A client that was told that the outcome is unknown can find it: the log
\* has a row of the operation, unless the log itself could not be written.
UnknownIsRecorded ==
    \A r \in Requests :
       answer[r].kind = "unknown" /\ ~AuditMayFail => HasOutcome(r, "ok") \/ HasOutcome(r, "unknown")

\* Every request that is sent is answered, or lost with its process: nobody
\* waits for a key or an identity for ever.
RequestsEnd == \A r \in Requests : []<>(pc[r] \in {"idle", "answered", "lost"})
=============================================================================
