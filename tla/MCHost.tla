------------------------------- MODULE MCHost --------------------------------
(***************************************************************************)
(* Instances, for TLC, of two protocols of a host that must end: the       *)
(* upgrade of the shared backend, and the retirement of a container whose  *)
(* removal was intended.  They share no variables.  A behaviour picks one, *)
(* and the other stands still.                                             *)
(***************************************************************************)
EXTENDS HostUpdate

CONSTANTS
    Tickets, Launchers, Reconcilers, Watchers       \* ExecutionRecord

VARIABLES
    pick,
    record, removal, box, process, reported

execution == <<record, removal, box, process, reported>>
all == <<pick, vars, execution>>

Execution == INSTANCE ExecutionRecord WITH intent <- removal, proc <- process

HostInit ==
    /\ pick \in {"update", "execution"}
    /\ Init /\ Execution!Init

HostNext ==
    /\ UNCHANGED pick
    /\ pick # "update" => UNCHANGED vars
    /\ pick # "execution" => UNCHANGED execution
    /\ \/ pick = "update" /\ Next
       \/ pick = "execution" /\ Execution!Next

(* The fairness of HostUpdate's and of ExecutionRecord's FairSpec.          *)
HostSpec ==
    /\ HostInit /\ [][HostNext]_all
    /\ \A p \in Procs :
         /\ WF_vars(pick = "update" /\ Step(p))
         /\ WF_vars(pick = "update" /\ Fails(p))
         /\ WF_vars(pick = "update" /\ ResumeBegin(p))
    /\ WF_vars(pick = "update" /\ BackendExits)
    /\ \A p \in Watchers :
         /\ WF_execution(pick = "execution" /\ Execution!Step(p))
         /\ WF_execution(pick = "execution" /\ Execution!Stuck(p))
         /\ \A t \in Tickets :
              SF_execution(pick = "execution" /\ Execution!Removing(t) /\ Execution!Watch(p, t))

(* A removal that was intended is completed (ExecutionRecord).             *)
RemovalCompletes == Execution!RemovalCompletes
=============================================================================
