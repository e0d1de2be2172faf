---------------------------- MODULE MCProductTask ----------------------------
(* Instances of ProductTask for TLC. *)
EXTENDS ProductTask, TLC

(* Tasks, proposals, requests and specialists are interchangeable.  Only   *)
(* for runs without a liveness property.                                   *)
Symmetry == Permutations(Tasks) \cup Permutations(Proposals) \cup Permutations(Requests)
=============================================================================
