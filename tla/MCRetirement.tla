----------------------------- MODULE MCRetirement -----------------------------
(***************************************************************************)
(* Instances, for TLC, of two protocols that end native processes and must *)
(* come to their own end: the retirement of one namespace's Dolt by its    *)
(* supervisor, and the drain and release of the shared backend, with       *)
(* commands that outlive their clients.  They share no variables.  A       *)
(* behaviour picks one, and the other stands still.                        *)
(***************************************************************************)
EXTENDS ComponentSupervisor, ReleaseCertificate

CONSTANTS
    Kinds, MaxWork, MaxLate         \* BackendDrain

VARIABLES
    pick,
    tracker, sql, call, late, host, route, freed, main

drain == <<tracker, sql, call, late, host, intent, route, planned, freed, children, main,
           certificate>>
all == <<pick, vars, drain>>

Drain == INSTANCE BackendDrain

RetirementInit ==
    /\ pick \in {"supervisor", "drain"}
    /\ Init /\ Drain!Init

RetirementNext ==
    /\ UNCHANGED pick
    /\ pick # "supervisor" => UNCHANGED vars
    /\ pick # "drain" => UNCHANGED drain
    /\ \/ pick = "supervisor" /\ Next
       \/ pick = "drain" /\ Drain!Next

(* The fairness of ComponentSupervisor's and of BackendDrain's FairSpec.    *)
RetirementSpec ==
    /\ RetirementInit /\ [][RetirementNext]_all
    /\ \A p \in Supervisors :
         /\ WF_vars(pick = "supervisor" /\ SecondExited(p))
         /\ WF_vars(pick = "supervisor" /\ Probe(p))
         /\ WF_vars(pick = "supervisor" /\ FirstExited(p))
         /\ WF_vars(pick = "supervisor" /\ Cleanup(p))
         /\ WF_vars(pick = "supervisor" /\ CellerExit(p) /\ pc[p] = "stopping")
    /\ \A n \in Launches, x \in Procs :
         WF_vars(pick = "supervisor" /\ NativeExit(n, x) /\ n \in signaled)
    /\ WF_drain(pick = "drain" /\ Drain!Serve)
    /\ WF_drain(pick = "drain" /\ Drain!Release)
    /\ WF_drain(pick = "drain" /\ Drain!Host)
    /\ WF_drain(pick = "drain" /\ Drain!GiveUp)

(* A planned release ends the container (BackendDrain).                    *)
PlannedReleaseEnds == Drain!PlannedReleaseEnds
=============================================================================
