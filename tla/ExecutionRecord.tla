--------------------------- MODULE ExecutionRecord ---------------------------
(***************************************************************************)
(* One-shot execution tickets and the containers they stand for:           *)
(*   crates/wrix-state/src/execution      the durable record of a ticket   *)
(*   crates/wrix-sandbox/src/execution    create, bind, start, reconcile   *)
(*                                                                         *)
(* Launchers, host reconciliations (`execution reconcile`) and watchers    *)
(* (the launcher's own wait and the pool owner's supervisor, which observe *)
(* a recorded binding) are separate processes that may die anywhere.  Each *)
(* container query and each transaction of the record is one step.  A step *)
(* the code refuses with an error is not enabled: the process then Dies.   *)
(***************************************************************************)
CONSTANTS
    Tickets,       \* reserved tickets, one container each
    Launchers,     \* processes that launch
    Reconcilers,   \* processes that run execution::reconcile
    Watchers,      \* processes that run retirement::reconcile
    None           \* no ticket

ASSUME ExecutionAssumption ==
    /\ None \notin Tickets
    /\ Launchers \cap Reconcilers = {}
    /\ Launchers \cap Watchers = {}
    /\ Reconcilers \cap Watchers = {}

VARIABLES
    record,     \* record[t]: the phase of the ticket in the store
    intent,     \* intent[t]: whether its removal intent is in the store
    box,        \* box[t]: its container
    proc,       \* what each process does, for which ticket
    reported    \* tickets somebody was told are retired

store == <<record, intent>>
vars == <<record, intent, box, proc, reported>>

Actors == Launchers \cup Reconcilers \cup Watchers
Phases == {"none", "Reserved", "Cancelled", "Launching", "Bound", "Retired"}

(* A container that is gone was removed after its exit, or before it. *)
Gone == {"buried", "lost"}
Boxes == {"none", "created", "running", "exited"} \cup Gone

LaunchPoints == {"create", "bind", "observe", "start"}
ReconcilePoints == {"inspect", "remove", "confirm", "retire"}
WatchPoints == ReconcilePoints
    \cup {"status", "exists", "again", "absent", "intend", "intended", "settle"}
Idle == [pc |-> "idle", ticket |-> None]

TypeOK ==
    /\ record \in [Tickets -> Phases]
    /\ intent \in [Tickets -> BOOLEAN]
    /\ box \in [Tickets -> Boxes]
    /\ proc \in [Actors -> [pc : LaunchPoints \cup WatchPoints, ticket : Tickets]
                            \cup {Idle}]
    /\ reported \in SUBSET Tickets

Init ==
    /\ record = [t \in Tickets |-> "none"]
    /\ intent = [t \in Tickets |-> FALSE]
    /\ box = [t \in Tickets |-> "none"]
    /\ proc = [p \in Actors |-> Idle]
    /\ reported = {}

-----------------------------------------------------------------------------
At(p, point) == proc[p].pc = point
Ticket(p) == proc[p].ticket
Goto(p, point) == proc' = [proc EXCEPT ![p].pc = point]
End(p) == proc' = [proc EXCEPT ![p] = Idle]
Enter(p, point, t) ==
    /\ proc[p] = Idle
    /\ proc' = [proc EXCEPT ![p] = [pc |-> point, ticket |-> t]]

(* Compare and set in one exclusive transaction. *)
Transition(t, expected, next) ==
    /\ record[t] = expected
    /\ record' = [record EXCEPT ![t] = next]
    /\ UNCHANGED intent

(* The caller is told that the ticket is retired. *)
Report(p) ==
    /\ reported' = reported \cup {Ticket(p)}
    /\ End(p)

(* What a generation-fenced binding reads of the store. *)
Removing(t) == record[t] = "Bound" /\ intent[t]

(* `container exists` fails to find it. *)
Absent(t) == box[t] \in Gone

-----------------------------------------------------------------------------
(* Launching. *)

Reserve(t) ==
    /\ record[t] = "none"
    /\ record' = [record EXCEPT ![t] = "Reserved"]
    /\ UNCHANGED <<intent, box, proc, reported>>

(* An attempt that was never handed off revokes its reservation. *)
Cancel(t) ==
    /\ Transition(t, "Reserved", "Cancelled")
    /\ UNCHANGED <<box, proc, reported>>

(* Mutant: any ticket that is not terminal may be handed off. *)
MutHandoff(p, t) ==
    /\ record[t] \notin {"none", "Cancelled", "Retired"}
    /\ record' = [record EXCEPT ![t] = "Launching"]
    /\ Enter(p, "create", t)
    /\ UNCHANGED <<intent, box, reported>>

Handoff(p, t) ==
    /\ Transition(t, "Reserved", "Launching")
    /\ Enter(p, "create", t)
    /\ UNCHANGED <<box, reported>>

Create(p) ==
    /\ At(p, "create")
    /\ box' = [box EXCEPT ![Ticket(p)] = "created"]
    /\ Goto(p, "bind")
    /\ UNCHANGED <<store, reported>>

(* A ticketed spawn starts what it bound; an approved one observes again. *)
Bind(p) ==
    /\ At(p, "bind")
    /\ Transition(Ticket(p), "Launching", "Bound")
    /\ Goto(p, "start") \/ Goto(p, "observe")
    /\ UNCHANGED <<box, reported>>

Observe(p) ==
    /\ At(p, "observe")
    /\ record[Ticket(p)] = "Bound"
    /\ Goto(p, "start")
    /\ UNCHANGED <<store, box, reported>>

(* `podman start` runs whatever container is left. *)
Start(p) ==
    /\ At(p, "start")
    /\ IF Absent(Ticket(p)) THEN UNCHANGED box
                            ELSE box' = [box EXCEPT ![Ticket(p)] = "running"]
    /\ End(p)
    /\ UNCHANGED <<store, reported>>

-----------------------------------------------------------------------------
(* Host reconciliation of a ticket; it leaves no removal intent. *)

Reconcile(p, t) ==
    /\ record[t] = "Bound"
    /\ Enter(p, "inspect", t)
    /\ UNCHANGED <<store, box, reported>>

ReconcileRetired(p, t) ==
    /\ proc[p] = Idle
    /\ record[t] = "Retired"
    /\ reported' = reported \cup {t}
    /\ UNCHANGED <<store, box, proc>>

(* Mutant: a container that never ran is inactive, too. *)
MutInactive(t) == box[t] \in {"created", "exited"}

(* inspect: exactly one object, exited. *)
Inactive(t) == box[t] = "exited"

ReconcileInspect(p) ==
    /\ At(p, "inspect")
    /\ Inactive(Ticket(p))
    /\ Goto(p, "remove")
    /\ UNCHANGED <<store, box, reported>>

(* `rm` without force; a container that does not run is removed. *)
Removed(t) == box' = [box EXCEPT ![t] = IF @ = "exited" THEN "buried" ELSE "lost"]
Removable(t) == box[t] \in {"created", "exited"}

Remove(p) ==
    /\ At(p, "remove")
    /\ Removable(Ticket(p))
    /\ Removed(Ticket(p))
    /\ Goto(p, "confirm")
    /\ UNCHANGED <<store, reported>>

Confirm(p) ==
    /\ At(p, "confirm")
    /\ Absent(Ticket(p))
    /\ Goto(p, "retire")
    /\ UNCHANGED <<store, box, reported>>

ReconcileRetire(p) ==
    /\ At(p, "retire")
    /\ Transition(Ticket(p), "Bound", "Retired")
    /\ Report(p)
    /\ UNCHANGED box

-----------------------------------------------------------------------------
(* Reconciliation of a recorded binding, behind a durable removal intent. *)

Watch(p, t) ==
    /\ record[t] \in {"Bound", "Retired"}
    /\ Enter(p, "status", t)
    /\ UNCHANGED <<store, box, reported>>

WatchStatus(p) ==
    LET t == Ticket(p)
    IN  /\ At(p, "status")
        /\ \/ record[t] = "Retired" /\ Report(p)
           \/ Removing(t) /\ Goto(p, "exists") /\ UNCHANGED reported
           \/ record[t] = "Bound" /\ ~intent[t] /\ Goto(p, "inspect") /\ UNCHANGED reported
        /\ UNCHANGED <<store, box>>

WatchExists(p) ==
    /\ At(p, "exists")
    /\ Goto(p, IF Absent(Ticket(p)) THEN "retire" ELSE "inspect")
    /\ UNCHANGED <<store, box, reported>>

WatchInspect(p) ==
    LET t == Ticket(p)
    IN  /\ At(p, "inspect")
        /\ Goto(p, IF Absent(t) THEN "again"
                   ELSE IF Inactive(t) THEN "intend" ELSE "settle")
        /\ UNCHANGED <<store, box, reported>>

(* The container cannot be inspected: somebody else may have finished. *)
WatchAgain(p) ==
    LET t == Ticket(p)
    IN  /\ At(p, "again")
        /\ \/ record[t] = "Retired" /\ Report(p)
           \/ Removing(t) /\ Goto(p, "absent") /\ UNCHANGED reported
        /\ UNCHANGED <<store, box>>

WatchAbsent(p) ==
    /\ At(p, "absent")
    /\ Absent(Ticket(p))
    /\ Goto(p, "retire")
    /\ UNCHANGED <<store, box, reported>>

(* It is active, or could not be removed: retired by somebody else, or not. *)
WatchSettle(p) ==
    /\ At(p, "settle")
    /\ IF record[Ticket(p)] = "Retired" THEN Report(p) ELSE End(p) /\ UNCHANGED reported
    /\ UNCHANGED <<store, box>>

(* Mutant: an intent that is there already is a conflict. *)
MutWatchIntend(p) ==
    LET t == Ticket(p)
    IN  /\ At(p, "intend")
        /\ record[t] \in {"Bound", "Retired"}
        /\ record[t] = "Retired" \/ ~intent[t]
        /\ intent' = [intent EXCEPT ![t] = @ \/ record[t] = "Bound"]
        /\ Goto(p, "intended")
        /\ UNCHANGED <<record, box, reported>>

(* Binding::update: a retired binding stays as it is. *)
WatchIntend(p) ==
    LET t == Ticket(p)
    IN  /\ At(p, "intend")
        /\ record[t] \in {"Bound", "Retired"}
        /\ intent' = [intent EXCEPT ![t] = @ \/ record[t] = "Bound"]
        /\ Goto(p, "intended")
        /\ UNCHANGED <<record, box, reported>>

WatchIntended(p) ==
    /\ At(p, "intended")
    /\ IF record[Ticket(p)] = "Retired" THEN Report(p)
                                        ELSE Goto(p, "remove") /\ UNCHANGED reported
    /\ UNCHANGED <<store, box>>

RemoveFails(p) ==
    /\ At(p, "remove")
    /\ ~Removable(Ticket(p))
    /\ Goto(p, "settle")
    /\ UNCHANGED <<store, box, reported>>

WatchRetire(p) ==
    LET t == Ticket(p)
    IN  /\ At(p, "retire")
        /\ \/ record[t] = "Retired" /\ UNCHANGED store
           \/ /\ Removing(t)
              /\ record' = [record EXCEPT ![t] = "Retired"]
              /\ intent' = [intent EXCEPT ![t] = FALSE]
        /\ Report(p)
        /\ UNCHANGED box

-----------------------------------------------------------------------------
(* The surroundings. *)

Exit(t) ==
    /\ box[t] = "running"
    /\ box' = [box EXCEPT ![t] = "exited"]
    /\ UNCHANGED <<store, proc, reported>>

(* Somebody removes a container by hand, by force if it runs. *)
ForeignRemove(t) ==
    /\ box[t] \in {"created", "running", "exited"}
    /\ Removed(t)
    /\ UNCHANGED <<store, proc, reported>>

(* A process is killed, times out, or returns an error. *)
Die(p) ==
    /\ proc[p] # Idle
    /\ End(p)
    /\ UNCHANGED <<store, box, reported>>

Launch(p) ==
    \/ \E t \in Tickets : Handoff(p, t)
    \/ Create(p) \/ Bind(p) \/ Observe(p) \/ Start(p)

Query(p) ==
    \/ \E t \in Tickets : Reconcile(p, t) \/ ReconcileRetired(p, t)
    \/ ReconcileInspect(p) \/ Remove(p) \/ Confirm(p) \/ ReconcileRetire(p)

Step(p) ==
    \/ WatchStatus(p) \/ WatchExists(p) \/ WatchInspect(p) \/ WatchAgain(p)
    \/ WatchAbsent(p) \/ WatchSettle(p) \/ WatchIntend(p) \/ WatchIntended(p)
    \/ Remove(p) \/ RemoveFails(p) \/ Confirm(p) \/ WatchRetire(p)

Next ==
    \/ \E t \in Tickets : Reserve(t) \/ Cancel(t) \/ Exit(t) \/ ForeignRemove(t)
    \/ \E p \in Launchers : Launch(p)
    \/ \E p \in Reconcilers : Query(p)
    \/ \E p \in Watchers : Step(p) \/ \E t \in Tickets : Watch(p, t)
    \/ \E p \in Actors : Die(p)

Spec == Init /\ [][Next]_vars

(* A binding with a recorded intent is looked at again and again, after an *)
(* error too (wait_for_retirement and the pool owner's watch loop).        *)
Stuck(p) == proc[p] # Idle /\ ~ENABLED Step(p) /\ Die(p)

FairSpec ==
    /\ Spec
    /\ \A p \in Watchers :
         /\ WF_vars(Step(p)) /\ WF_vars(Stuck(p))
         /\ \A t \in Tickets : SF_vars(Removing(t) /\ Watch(p, t))

-----------------------------------------------------------------------------
(* Properties. *)

(* Terminal evidence is true: a retired ticket's container ran, came to its *)
(* own end and is removed, and a cancelled ticket never had one. Absence    *)
(* alone, a forced removal included, never retires a ticket.               *)
TerminalIsTrue ==
    \A t \in Tickets :
        /\ record[t] = "Retired" => box[t] = "buried"
        /\ record[t] \in {"Reserved", "Cancelled"} => box[t] = "none"

(* Nobody is told of a retirement that is not on record. *)
ReportsAreRecorded == \A t \in reported : record[t] = "Retired"

(* A container runs only under its binding, and never under an intent to    *)
(* remove it: what was seen inactive is not started again.                 *)
RunsBound ==
    \A t \in Tickets : box[t] = "running" => record[t] = "Bound" /\ ~intent[t]

(* A removal that was intended is completed, whoever removed the container  *)
(* and wherever the remover died.                                          *)
RemovalCompletes ==
    <>[][\A p \in Watchers : Die(p) => Stuck(p)]_vars =>
        \A t \in Tickets : intent[t] ~> record[t] = "Retired"

(* A ticket implements one-shot work. *)
WorkOf == [none |-> "none", created |-> "made", running |-> "active",
           exited |-> "ended", buried |-> "ended", lost |-> "lost"]
OneShot == INSTANCE OneShotWork WITH
    work <- [t \in Tickets |-> WorkOf[box[t]]],
    evidence <- [t \in Tickets |-> IF record[t] = "Retired" THEN "over"
                                   ELSE IF record[t] = "Cancelled" THEN "void" ELSE "none"]

(* Every step of the records, the containers and their observers is one of *)
(* the abstract work, or none.                                             *)
ImplementsOneShot == OneShot!Spec
=============================================================================
