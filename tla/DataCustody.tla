----------------------------- MODULE DataCustody -----------------------------
(***************************************************************************)
(* What the host lifecycle promises about the one copy of the persistent   *)
(* data: at most one version has it open, its format moves only to a       *)
(* version for which a checkpoint was made while nobody had it open, and   *)
(* no other version ever opens it after that.                              *)
(***************************************************************************)
CONSTANTS Versions, Old, None

VARIABLES
    writer,   \* the version that has the data open, or None
    data,     \* the version that opened it last
    saved     \* the version a checkpoint authorises to open it, or None

vars == <<writer, data, saved>>

Init == writer = Old /\ data = Old /\ saved = None

Close ==
    /\ writer # None
    /\ writer' = None
    /\ UNCHANGED <<data, saved>>

Reopen ==
    /\ writer = None
    /\ writer' = data
    /\ UNCHANGED <<data, saved>>

Save(v) ==
    /\ writer = None
    /\ saved = None
    /\ saved' = v
    /\ UNCHANGED <<writer, data>>

Migrate ==
    /\ writer = None
    /\ saved # None
    /\ data' = saved
    /\ writer' = saved
    /\ UNCHANGED saved

(* The authorisation ends only when its version owns the data. *)
Complete ==
    /\ saved = data
    /\ saved' = None
    /\ UNCHANGED <<writer, data>>

Next == Close \/ Reopen \/ Migrate \/ Complete \/ \E v \in Versions : Save(v)

Spec == Init /\ [][Next]_vars
=============================================================================
