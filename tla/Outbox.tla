------------------------------- MODULE Outbox --------------------------------
(***************************************************************************)
(* The outbox: a command writes its events in its own transaction, under   *)
(* an exclusive lock of the table that gives them the next numbers; a      *)
(* dispatcher claims rows, publishes them inside its transaction and       *)
(* commits the outcomes together; consumers record what they have consumed;*)
(* deleting an item deletes its events.                                    *)
(***************************************************************************)
EXTENDS Naturals, FiniteSets, Sequences, SequencesExt

CONSTANTS
    Events, ItemOf,   \* the events that may be written, and their items
    Writers, Dispatchers, Consumers,
    MaxAttempts,      \* max_attempts of the dispatcher
    Limit,            \* the batch of a dispatcher
    MaxDeaths,        \* dispatchers that exit
    None

VARIABLES
    row,        \* outbox_events as committed
    receipts,   \* outbox_consumer_receipts as committed
    pending,    \* the numbers a writer gave to events it has not committed
    claim,      \* the transaction of a dispatcher
    delivered,  \* how often an event reached the publisher
    consumed,   \* how often a consumer was told that it is the first
    deletedItems, deaths

vars == <<row, receipts, pending, claim, delivered, consumed, deletedItems, deaths>>

Items == {ItemOf[e] : e \in Events}
Visible == {e \in Events : row[e] # None}
NoClaim == [events |-> <<>>, next |-> 1, outcome |-> <<>>, open |-> FALSE]
Maximum(S) == CHOOSE m \in S \cup {0} : \A n \in S : n <= m

-----------------------------------------------------------------------------
(* The events of a command *)

TableIsFree_unlocked(w) == TRUE
\* LOCK TABLE ... IN EXCLUSIVE MODE is kept to the end of the transaction.
TableIsFree(w) ==
    /\ \A v \in Writers \ {w} : pending[v] = <<>>
    /\ \A d \in Dispatchers : ~claim[d].open

Written == UNION {{p.event : p \in ToSet(pending[w])} : w \in Writers}

_next_outbox_sequence_base == Maximum({row[e].sequence : e \in Visible})

_event(w, e) ==
    /\ TableIsFree(w)
    /\ row[e] = None /\ e \notin Written
    /\ ItemOf[e] \notin deletedItems
    /\ LET last == Maximum({_next_outbox_sequence_base}
                           \cup {p.sequence : p \in ToSet(pending[w])}) IN
       pending' = [pending EXCEPT ![w] = Append(@, [event |-> e, sequence |-> last + 1])]
    /\ UNCHANGED <<row, receipts, claim, delivered, consumed, deletedItems, deaths>>

command_commits(w) ==
    /\ pending[w] # <<>>
    /\ row' = [e \in Events |->
                 IF \E p \in ToSet(pending[w]) : p.event = e
                 THEN [sequence |-> (CHOOSE p \in ToSet(pending[w]) : p.event = e).sequence,
                       status |-> "pending", attempts |-> 0]
                 ELSE row[e]]
    /\ pending' = [pending EXCEPT ![w] = <<>>]
    /\ UNCHANGED <<receipts, claim, delivered, consumed, deletedItems, deaths>>

command_rolls_back(w) ==
    /\ pending[w] # <<>> /\ pending' = [pending EXCEPT ![w] = <<>>]
    /\ UNCHANGED <<row, receipts, claim, delivered, consumed, deletedItems, deaths>>

-----------------------------------------------------------------------------
(* OutboxDispatcher *)

Claimed == UNION {ToSet(claim[d].events) : d \in Dispatchers}
Due(e) == row[e].status \in {"pending", "failed"} /\ row[e].attempts < MaxAttempts

Batch(S) ==
    LET inOrder == SetToSortSeq(S, LAMBDA e, f : row[e].sequence < row[f].sequence)
    IN  SubSeq(inOrder, 1, IF Len(inOrder) < Limit THEN Len(inOrder) ELSE Limit)

dispatch_select_unskipped(d) ==
    LET due == {e \in Visible : Due(e)} IN
    /\ ~claim[d].open /\ \A w \in Writers : pending[w] = <<>>
    /\ due # {}
    /\ claim' = [claim EXCEPT ![d] = [NoClaim EXCEPT !.open = TRUE, !.events = Batch(due)]]
    /\ UNCHANGED <<row, receipts, pending, delivered, consumed, deletedItems, deaths>>

\* SELECT ... FOR UPDATE SKIP LOCKED; a dispatcher that finds nothing ends.
dispatch_select(d) ==
    LET due == {e \in Visible : Due(e)} \ Claimed IN
    /\ ~claim[d].open /\ \A w \in Writers : pending[w] = <<>>
    /\ due # {}
    /\ claim' = [claim EXCEPT ![d] = [NoClaim EXCEPT !.open = TRUE, !.events = Batch(due)]]
    /\ UNCHANGED <<row, receipts, pending, delivered, consumed, deletedItems, deaths>>

\* A publisher that raises may have delivered the event all the same.
publish(d) ==
    /\ claim[d].open /\ claim[d].next <= Len(claim[d].events)
    /\ \E outcome \in {"dispatched", "failed"}, reached \in BOOLEAN :
         /\ outcome = "dispatched" => reached
         /\ claim' = [claim EXCEPT ![d].next = @ + 1, ![d].outcome = Append(@, outcome)]
         /\ delivered' = IF reached
                         THEN [delivered EXCEPT ![claim[d].events[claim[d].next]] = @ + 1]
                         ELSE delivered
    /\ UNCHANGED <<row, receipts, pending, consumed, deletedItems, deaths>>

dispatch_commits(d) ==
    /\ claim[d].open /\ claim[d].next > Len(claim[d].events)
    /\ row' = [e \in Events |->
                 IF e \in ToSet(claim[d].events)
                 THEN [row[e] EXCEPT
                         !.attempts = @ + 1,
                         !.status = claim[d].outcome[CHOOSE i \in DOMAIN claim[d].events :
                                                       claim[d].events[i] = e]]
                 ELSE row[e]]
    /\ claim' = [claim EXCEPT ![d] = NoClaim]
    /\ UNCHANGED <<receipts, pending, delivered, consumed, deletedItems, deaths>>

\* The dispatcher exits before its commit: what it published is not recorded.
dispatch_dies(d) ==
    /\ claim[d].open /\ deaths < MaxDeaths
    /\ deaths' = deaths + 1 /\ claim' = [claim EXCEPT ![d] = NoClaim]
    /\ UNCHANGED <<row, receipts, pending, delivered, consumed, deletedItems>>

-----------------------------------------------------------------------------

\* The foreign key and the unique constraint of a receipt.
ReceiptIsAdmitted(e, c) == row[e] # None /\ <<e, c>> \notin receipts

\* Whoever runs into a constraint is answered False.
record_consumed(e, c) ==
    /\ delivered[e] > 0 /\ ReceiptIsAdmitted(e, c)
    /\ receipts' = receipts \cup {<<e, c>>}
    /\ consumed' = [consumed EXCEPT ![<<e, c>>] = @ + 1]
    /\ UNCHANGED <<row, pending, claim, delivered, deletedItems, deaths>>

\* The deletion of an item waits for the table and for the rows it deletes.
delete_events(i) ==
    LET gone == {e \in Visible : ItemOf[e] = i} IN
    /\ i \notin deletedItems /\ gone # {} /\ gone \cap Claimed = {}
    /\ \A w \in Writers : pending[w] = <<>>
    /\ row' = [e \in Events |-> IF e \in gone THEN None ELSE row[e]]
    /\ receipts' = {r \in receipts : r[1] \notin gone}
    /\ deletedItems' = deletedItems \cup {i}
    /\ UNCHANGED <<pending, claim, delivered, consumed, deaths>>

Init ==
    /\ row = [e \in Events |-> None] /\ receipts = {}
    /\ pending = [w \in Writers |-> <<>>] /\ claim = [d \in Dispatchers |-> NoClaim]
    /\ delivered = [e \in Events |-> 0] /\ consumed = [p \in Events \X Consumers |-> 0]
    /\ deletedItems = {} /\ deaths = 0

DispatcherStep(d) == dispatch_select(d) \/ publish(d) \/ dispatch_commits(d)

Next ==
    \/ \E w \in Writers : command_commits(w) \/ command_rolls_back(w) \/ \E e \in Events : _event(w, e)
    \/ \E d \in Dispatchers : DispatcherStep(d) \/ dispatch_dies(d)
    \/ \E e \in Events, c \in Consumers : record_consumed(e, c)
    \/ \E i \in Items : delete_events(i)

Spec == Init /\ [][Next]_vars

\* A command ends and its caller gets its turn; a dispatcher is run again and
\* again, also when the table is often locked.
FairSpec ==
    /\ Spec
    /\ \A w \in Writers : WF_vars(command_commits(w) \/ command_rolls_back(w))
    /\ \A d \in Dispatchers : WF_vars(publish(d) \/ dispatch_commits(d)) /\ SF_vars(dispatch_select(d))

-----------------------------------------------------------------------------

TypeOK ==
    /\ \A e \in Visible : row[e].sequence \in 1..Cardinality(Events) /\ row[e].attempts \in 0..MaxAttempts
    /\ receipts \subseteq Visible \X Consumers
    /\ deaths \in 0..MaxDeaths

\* Events become visible in the order of their numbers: a reader that has
\* seen a number will not find a smaller one later, though commands run side
\* by side.
AppearsInOrder ==
    \A e, f \in Events : (row[e] = None /\ row'[e] # None /\ row[f] # None) =>
                              row'[e].sequence > row[f].sequence

\* An event reaches the publisher more than once only for a failed attempt or
\* a dispatcher that exited: two dispatchers never publish it side by side.
DeliveriesAreCounted ==
    \A e \in Visible :
        delivered[e] <= row[e].attempts + deaths + (IF e \in Claimed THEN 1 ELSE 0)

\* A consumer is told once that it is the first to consume an event, however
\* often the event is delivered.
ConsumedOnce == \A p \in DOMAIN consumed : consumed[p] <= 1

\* Every event is dispatched, given up after max_attempts, or deleted.
EventsSettle ==
    \A e \in Events :
        []<>(row[e] = None \/ row[e].status = "dispatched" \/ row[e].attempts = MaxAttempts)

=============================================================================
