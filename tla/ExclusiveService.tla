-------------------------- MODULE ExclusiveService --------------------------
(***************************************************************************)
(* What the component supervisor promises about the data directory it      *)
(* guards: one owner at a time, one epoch of native processes at a time,   *)
(* ownership is given back only over a quiet directory, and an owner that  *)
(* disappears while it serves leaves the directory closed for good.        *)
(***************************************************************************)
EXTENDS Naturals

CONSTANT MaxLaunch          \* bound: launches in one behaviour

VARIABLES
    mode,      \* "Vacant", "Owned", or "Abandoned"
    running,   \* whether some native process of some epoch exists
    launches   \* epochs started so far

leaseVars == <<mode, running, launches>>

LeaseInit == mode = "Vacant" /\ running = FALSE /\ launches = 0

Take == mode = "Vacant" /\ mode' = "Owned" /\ ~running /\ UNCHANGED <<running, launches>>

LaunchEpoch ==
    /\ mode = "Owned" /\ mode' = "Owned"
    /\ ~running /\ running' = TRUE
    /\ launches < MaxLaunch /\ launches' = launches + 1

Settle == running /\ running' = FALSE /\ UNCHANGED <<mode, launches>>

Yield == mode = "Owned" /\ ~running /\ mode' = "Vacant" /\ UNCHANGED <<running, launches>>

Abandon ==
    /\ mode = "Owned" /\ mode' = "Abandoned"
    /\ running' \in {running, FALSE}
    /\ UNCHANGED launches

LeaseNext == Take \/ LaunchEpoch \/ Settle \/ Yield \/ Abandon

LeaseSpec == LeaseInit /\ [][LeaseNext]_leaseVars
=============================================================================
