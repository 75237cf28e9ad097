----------------------------- MODULE MCHostUpdate -----------------------------
(* Instances of HostUpdate for TLC. *)
EXTENDS HostUpdate, TLC

(* Command-line processes are interchangeable. *)
Symmetry == Permutations(Procs)
=============================================================================
