-------------------------- MODULE ReleaseCertificate --------------------------
(***************************************************************************)
(* What an update may rely on after it has released the shared backend:    *)
(* the ends of the three native processes, and the files in the backend    *)
(* container that speak of them.  BackendDrain says how they come about.   *)
(***************************************************************************)
Tracked == {"celler", "compiler"}
Roles == Tracked \cup {"dolt"}

VARIABLES
    intent,       \* update.json: none, draining, releasing, released
    planned,      \* /run/wrix/backend/planned-stop
    children,     \* the native processes: running, zero, failed
    certificate   \* native-release.json of this boot

(* The certificate that lets an update migrate the data says that every    *)
(* native process ended cleanly, in a stop the update had authorised.      *)
CertificateTruthful ==
    certificate => /\ \A r \in Roles : children[r] = "zero"
                   /\ planned /\ intent \in {"releasing", "released"}
=============================================================================
