--------------------------- MODULE PackageContract ---------------------------
(***************************************************************************)
(* What the package subsystem promises, without leases, workers, retries   *)
(* or files.  A package is queued from the finalizations that are active   *)
(* at that moment, may be offered, is withdrawn in the very step that      *)
(* revokes one of them, never returns once withdrawn, and is gone in the   *)
(* end.  An item can be finalized again only when every package that holds *)
(* an earlier finalization of it is gone.                                  *)
(***************************************************************************)
EXTENDS Naturals

CONSTANTS Items, NumPackages, MaxFinalizations

Packages == 1..NumPackages
Finalizations == Items \X (1..MaxFinalizations)

VARIABLES
    active,     \* the active finalization of an item, 0 if there is none
    count,      \* finalizations made of an item
    phase,      \* of a package
    holds       \* the finalizations in a package

vars == <<active, count, phase, holds>>

Active == {f \in Finalizations : active[f[1]] = f[2]}

Init ==
    /\ active = [i \in Items |-> 0]
    /\ count = [i \in Items |-> 0]
    /\ phase = [p \in Packages |-> "absent"]
    /\ holds = [p \in Packages |-> {}]

Finalize(S) ==
    /\ \A i \in S :
         /\ active[i] = 0
         /\ \A p \in Packages : \A f \in holds[p] :
              f[1] = i => phase[p] = "gone"
    /\ count' = [i \in Items |-> IF i \in S THEN count[i] + 1 ELSE count[i]]
    /\ active' = [i \in Items |-> IF i \in S THEN count[i] + 1 ELSE active[i]]
    /\ UNCHANGED <<phase, holds>>

Revoke(S) ==
    /\ \A i \in S : active[i] # 0
    /\ active' = [i \in Items |-> IF i \in S THEN 0 ELSE active[i]]
    /\ phase' = [p \in Packages |->
         IF /\ phase[p] # "gone"
            /\ \E f \in holds[p] : f[1] \in S /\ f \in Active
         THEN "withdrawn" ELSE phase[p]]
    /\ UNCHANGED <<count, holds>>

\* Queueing a package may replace an offered one that lost its archive.
Queue(q, replaced) ==
    /\ phase[q] = "absent"
    /\ Active # {}
    /\ \A p \in Packages : phase[p] # "queued"
    /\ \A p \in replaced : phase[p] = "offered" /\ holds[p] = Active
    /\ holds' = [holds EXCEPT ![q] = Active]
    /\ \E end \in {"withdrawn", "gone"} :
         phase' = [p \in Packages |-> IF p = q THEN "queued"
                                      ELSE IF p \in replaced THEN end
                                      ELSE phase[p]]
    /\ UNCHANGED <<active, count>>

Advance(p, from, to) ==
    /\ phase[p] \in from
    /\ phase' = [phase EXCEPT ![p] = to]
    /\ UNCHANGED <<active, count, holds>>

Offer(p) == Advance(p, {"queued"}, "offered")
Withdraw(p) == Advance(p, {"queued", "offered"}, "withdrawn")
Reclaim(p) == Advance(p, {"queued", "offered", "withdrawn"}, "gone")

Next ==
    \/ \E S \in SUBSET Items : Finalize(S) \/ Revoke(S)
    \/ \E q \in Packages, replaced \in SUBSET Packages : Queue(q, replaced)
    \/ \E p \in Packages : Offer(p) \/ Withdraw(p) \/ Reclaim(p)

Spec == Init /\ [][Next]_vars
=============================================================================
