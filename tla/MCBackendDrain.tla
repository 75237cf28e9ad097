---------------------------- MODULE MCBackendDrain ----------------------------
(* Instances of BackendDrain for TLC. *)
EXTENDS BackendDrain

(* Where MaxLate is 0 no command outlives its client, and a step of Next is *)
(* any but TakeLate, which has no command to take.                          *)
PromptNext ==
    \/ Arrive \/ Finish \/ Serve \/ Release \/ Host
    \/ GiveUp \/ HostDies \/ Disrupted

PromptSpec == Init /\ [][PromptNext]_vars
=============================================================================
