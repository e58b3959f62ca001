------------------------- MODULE MCPackageLifecycle -------------------------
(* Instances of PackageLifecycle for TLC. *)
EXTENDS PackageLifecycle, TLC

Sym == Permutations(Items) \cup Permutations(Workers)
          \cup Permutations(Clients)
=============================================================================
