------------------------ MODULE MCComponentSupervisor ------------------------
(* Instances of ComponentSupervisor for TLC. *)
EXTENDS ComponentSupervisor, TLC

(* Two supervisor processes are interchangeable. *)
Symmetry == Permutations(Supervisors)
=============================================================================
