----------------------------- MODULE OneShotWork -----------------------------
(***************************************************************************)
(* What an execution ticket promises: its work is made and started at most *)
(* once, and evidence that it is over is given only for work that came to  *)
(* its end, evidence that it never was only for work that was never made.  *)
(***************************************************************************)
CONSTANT Tickets

VARIABLES
    work,       \* work[t]: none, made, active, ended, or lost
    evidence    \* evidence[t]: none, void, or over

vars == <<work, evidence>>

Init ==
    /\ work = [t \in Tickets |-> "none"]
    /\ evidence = [t \in Tickets |-> "none"]

Moves(t, from, to) ==
    /\ work[t] = from
    /\ work' = [work EXCEPT ![t] = to]
    /\ UNCHANGED evidence

Make(t) == evidence[t] = "none" /\ Moves(t, "none", "made")
Activate(t) == evidence[t] = "none" /\ Moves(t, "made", "active")
End(t) == Moves(t, "active", "ended")
Lose(t) == Moves(t, "made", "lost") \/ Moves(t, "active", "lost")

Attest(t, of, as) ==
    /\ work[t] = of
    /\ evidence' = [evidence EXCEPT ![t] = as]
    /\ UNCHANGED work

Void(t) == Attest(t, "none", "void")
Judge(t) == Attest(t, "ended", "over")

Next ==
    \E t \in Tickets : Make(t) \/ Activate(t) \/ End(t) \/ Lose(t) \/ Void(t) \/ Judge(t)

Spec == Init /\ [][Next]_vars
=============================================================================
