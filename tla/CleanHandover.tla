---------------------------- MODULE CleanHandover ----------------------------
(***************************************************************************)
(* What the drain of a backend promises: its roles end only together, when *)
(* none of them admits work and none has any left, and the proof of their  *)
(* end exists only when all of them ended like that.                       *)
(***************************************************************************)
CONSTANT Roles

VARIABLES
    open,      \* roles that admit new work
    busy,      \* roles that have work
    gone,      \* roles that ended cleanly
    proven     \* whether the clean end of all of them is on record

vars == <<open, busy, gone, proven>>

Init == open = Roles /\ busy = {} /\ gone = {} /\ proven = FALSE

Work(r) ==
    /\ r \in open
    /\ busy' = busy \cup {r}
    /\ UNCHANGED <<open, gone, proven>>

Rest(r) ==
    /\ busy' = busy \ {r}
    /\ UNCHANGED <<open, gone, proven>>

Shut(r) ==
    /\ open' = open \ {r}
    /\ UNCHANGED <<busy, gone, proven>>

Reopen(r) ==
    /\ gone = {}
    /\ open' = open \cup {r}
    /\ UNCHANGED <<busy, gone, proven>>

Leave(r) ==
    /\ open = {} /\ busy = {}
    /\ gone' = gone \cup {r}
    /\ proven' = (gone' = Roles)
    /\ UNCHANGED <<open, busy>>

Next == \E r \in Roles : Work(r) \/ Rest(r) \/ Shut(r) \/ Reopen(r) \/ Leave(r)

Spec == Init /\ [][Next]_vars
=============================================================================
