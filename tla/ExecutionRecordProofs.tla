------------------------ MODULE ExecutionRecordProofs ------------------------
(* Proofs of the safety properties of ExecutionRecord. *)
EXTENDS ExecutionRecord, TLAPS

Observers == Reconcilers \cup Watchers

(* Its container was seen exited: it neither starts again nor vanishes. *)
Past(t) == box[t] \in {"exited", "buried"}
Recorded(t) == record[t] \in {"Bound", "Retired"}

TicketInv ==
    \A t \in Tickets :
        /\ record[t] \in {"none", "Reserved", "Cancelled"} => box[t] = "none"
        /\ record[t] = "Launching" => box[t] \in {"none", "created", "lost"}
        /\ record[t] = "Retired" => box[t] = "buried"
        /\ intent[t] => Recorded(t) /\ Past(t)

(* A launcher at work is the only one that can start its container. *)
LaunchInv ==
    \A p \in Launchers :
        /\ proc[p].pc \in LaunchPoints \cup {"idle"}
        /\ At(p, "create") => record[Ticket(p)] = "Launching" /\ box[Ticket(p)] = "none"
        /\ At(p, "bind") => /\ record[Ticket(p)] = "Launching"
                            /\ box[Ticket(p)] \in {"created", "lost"}
        /\ At(p, "observe") \/ At(p, "start") => /\ record[Ticket(p)] = "Bound"
                                                /\ box[Ticket(p)] \in {"created", "lost"}

OneLauncher ==
    \A p, q \in Launchers :
        p # q /\ proc[p].pc # "idle" /\ proc[q].pc # "idle" => Ticket(p) # Ticket(q)

(* What an observer saw of the record and the container still stands. *)
ObserveInv ==
    \A p \in Observers :
        /\ proc[p].pc \in WatchPoints \cup {"idle"}
        /\ proc[p].pc # "idle" => Recorded(Ticket(p))
        /\ proc[p].pc \in {"exists", "absent", "intend", "intended", "remove"} => Past(Ticket(p))
        /\ proc[p].pc \in {"confirm", "retire"} => box[Ticket(p)] = "buried"

IInv ==
    /\ TypeOK
    /\ TicketInv
    /\ LaunchInv
    /\ OneLauncher
    /\ ObserveInv
    /\ ReportsAreRecorded

LEMMA Initially == Init => IInv
  BY ExecutionAssumption
  DEF Init, IInv, TypeOK, TicketInv, LaunchInv, OneLauncher, ObserveInv, ReportsAreRecorded,
      Phases, Boxes, Gone, Idle, At, Ticket, Actors, Observers

-----------------------------------------------------------------------------
(* How a step moves its process. *)

Points == LaunchPoints \cup WatchPoints
Jobs == [pc : Points, ticket : Tickets]
ProcTypes == proc \in [Actors -> Jobs \cup {Idle}]

(* Process p does now what job says, the others do what they did. *)
Turns(p, job) == proc' = [proc EXCEPT ![p] = job]

LEMMA JobTypes ==
  ASSUME TypeOK, NEW p \in Actors
  PROVE  /\ proc[p] \in Jobs \cup {Idle}
         /\ proc[p].pc \in Points \cup {"idle"}
         /\ proc[p].pc # "idle" => proc[p] \in Jobs /\ Ticket(p) \in Tickets
         /\ proc[p].pc = "idle" => proc[p] = Idle
  BY DEF TypeOK, Jobs, Points, Idle, Ticket, LaunchPoints, WatchPoints, ReconcilePoints

LEMMA GotoTurns ==
  ASSUME TypeOK, NEW p \in Actors, proc[p].pc # "idle", NEW point \in Points, Goto(p, point)
  PROVE  Turns(p, [pc |-> point, ticket |-> Ticket(p)])
  <1>1. proc[p] \in Jobs
    BY JobTypes
  <1>2. [proc[p] EXCEPT !.pc = point] = [pc |-> point, ticket |-> Ticket(p)]
    BY <1>1 DEF Jobs, Ticket
  <1>3. QED
    BY <1>2 DEF Goto, Turns

LEMMA TurnsTypes ==
  ASSUME TypeOK, NEW p \in Actors, NEW job \in Jobs \cup {Idle}, Turns(p, job)
  PROVE  /\ ProcTypes'
         /\ proc'[p] = job
         /\ \A q \in Actors : q # p => proc'[q] = proc[q]
  <1>1. proc \in [Actors -> Jobs \cup {Idle}]
    BY DEF TypeOK, Jobs, Points
  <1>2. QED
    BY <1>1 DEF ProcTypes, Turns
-----------------------------------------------------------------------------
(* Steps that leave the store and the containers alone. *)

(* An observer goes on to a point where it knows what that point asks for. *)
Fits(point, t) ==
    /\ Recorded(t)
    /\ point \in {"exists", "absent", "intend", "intended", "remove"} => Past(t)
    /\ point \in {"confirm", "retire"} => box[t] = "buried"

LEMMA Apart == Launchers \cap Observers = {} /\ Actors = Launchers \cup Observers
  BY ExecutionAssumption DEF Observers, Actors

LEMMA Walk ==
  ASSUME IInv, NEW p \in Observers, NEW point \in WatchPoints, NEW t \in Tickets,
         Fits(point, t), Turns(p, [pc |-> point, ticket |-> t]),
         UNCHANGED <<store, box, reported>>
  PROVE  IInv'
  <1>1. p \in Actors /\ p \notin Launchers
    BY Apart
  <1>2. [pc |-> point, ticket |-> t] \in Jobs \cup {Idle}
    BY DEF Jobs, Points
  <1>3. /\ ProcTypes'
        /\ proc'[p] = [pc |-> point, ticket |-> t]
        /\ \A q \in Actors : q # p => proc'[q] = proc[q]
    BY <1>1, <1>2, TurnsTypes DEF IInv
  <1>4. TypeOK'
    BY <1>3 DEF IInv, TypeOK, ProcTypes, Jobs, Points, store
  <1>5. TicketInv' /\ ReportsAreRecorded'
    BY DEF IInv, TicketInv, ReportsAreRecorded, store, Recorded, Past
  <1>6. LaunchInv' /\ OneLauncher'
    BY <1>1, <1>3, Apart DEF IInv, LaunchInv, OneLauncher, store, At, Ticket
  <1>7. ObserveInv'
    BY <1>3, Apart DEF IInv, ObserveInv, store, Ticket, Fits, Recorded, Past
  <1>8. QED
    BY <1>4, <1>5, <1>6, <1>7 DEF IInv

(* A process ends, and may report a ticket that is retired. *)
LEMMA Rest ==
  ASSUME IInv, NEW p \in Actors, Turns(p, Idle), UNCHANGED <<store, box>>,
         \/ UNCHANGED reported
         \/ \E t \in Tickets : record[t] = "Retired" /\ reported' = reported \cup {t}
  PROVE  IInv'
  <1>1. /\ ProcTypes'
        /\ proc'[p] = Idle
        /\ \A q \in Actors : q # p => proc'[q] = proc[q]
    BY TurnsTypes DEF IInv
  <1>2. TypeOK'
    BY <1>1 DEF IInv, TypeOK, ProcTypes, Jobs, Points, store
  <1>3. TicketInv' /\ ReportsAreRecorded'
    BY DEF IInv, TicketInv, ReportsAreRecorded, store, Recorded, Past
  <1>4. LaunchInv' /\ OneLauncher'
    BY <1>1, Apart DEF IInv, LaunchInv, OneLauncher, store, At, Ticket, Idle
  <1>5. ObserveInv'
    BY <1>1, Apart DEF IInv, ObserveInv, store, Ticket, Recorded, Past, Idle, WatchPoints
  <1>6. QED
    BY <1>2, <1>3, <1>4, <1>5 DEF IInv

-----------------------------------------------------------------------------
(* Steps of the surroundings and of tickets. *)

LEMMA TicketSteps ==
  ASSUME IInv, NEW t \in Tickets, Reserve(t) \/ Cancel(t) \/ Exit(t) \/ ForeignRemove(t)
  PROVE  IInv'
  <1>1. TypeOK'
    <2>1. CASE Reserve(t)
      BY <2>1 DEF IInv, TypeOK, Reserve, Phases
    <2>2. CASE Cancel(t)
      BY <2>2 DEF IInv, TypeOK, Cancel, Transition, Phases
    <2>3. CASE Exit(t)
      BY <2>3 DEF IInv, TypeOK, Exit, store, Boxes
    <2>4. CASE ForeignRemove(t)
      BY <2>4 DEF IInv, TypeOK, ForeignRemove, Removed, store, Boxes, Gone
    <2>5. QED
      BY <2>1, <2>2, <2>3, <2>4
  <1>2. /\ TicketInv' /\ LaunchInv' /\ ObserveInv' /\ ReportsAreRecorded'
    <2>1. CASE Reserve(t)
      BY <2>1, JobTypes, Apart DEF IInv, TypeOK, Reserve, TicketInv, LaunchInv, ObserveInv,
         ReportsAreRecorded, Recorded, Past, At, Ticket
    <2>2. CASE Cancel(t)
      BY <2>2, JobTypes, Apart DEF IInv, TypeOK, Cancel, Transition, TicketInv, LaunchInv,
         ObserveInv, ReportsAreRecorded, Recorded, Past, At, Ticket
    <2>3. CASE Exit(t)
      BY <2>3, JobTypes, Apart DEF IInv, TypeOK, Exit, store, TicketInv, LaunchInv, ObserveInv,
         ReportsAreRecorded, Recorded, Past, At, Ticket, Phases
    <2>4. CASE ForeignRemove(t)
      BY <2>4, JobTypes, Apart DEF IInv, TypeOK, ForeignRemove, Removed, store, TicketInv,
         LaunchInv, ObserveInv, ReportsAreRecorded, Recorded, Past, At, Ticket, Phases
    <2>5. QED
      BY <2>1, <2>2, <2>3, <2>4
  <1>3. OneLauncher'
    BY DEF IInv, OneLauncher, Reserve, Cancel, Exit, ForeignRemove, Ticket
  <1>4. QED
    BY <1>1, <1>2, <1>3 DEF IInv

(* Steps of launchers. *)

LEMMA HandoffStep ==
  ASSUME IInv, NEW p \in Launchers, NEW t \in Tickets, Handoff(p, t)
  PROVE  IInv'
  <1> DEFINE job == [pc |-> "create", ticket |-> t]
  <1>1. p \in Actors
    BY Apart
  <1>2. job \in Jobs \cup {Idle} /\ Turns(p, job)
    BY DEF Handoff, Enter, Turns, Jobs, Points, LaunchPoints
  <1>3. /\ ProcTypes'
        /\ proc'[p] = job
        /\ \A q \in Actors : q # p => proc'[q] = proc[q]
    BY <1>1, <1>2, TurnsTypes DEF IInv
  <1> HIDE DEF job
  <1>4. TypeOK'
    BY <1>1, <1>3, JobTypes
    DEF IInv, TypeOK, ProcTypes, Jobs, Points, Handoff, Transition, Enter, Phases, Boxes, Gone, At
  <1>5. TicketInv' /\ ReportsAreRecorded'
    BY <1>1, JobTypes, Apart
    DEF IInv, TypeOK, TicketInv, LaunchInv, ObserveInv, ReportsAreRecorded, Handoff, Transition,
        Enter, Recorded, Past, At, Ticket
  <1>6. LaunchInv' /\ OneLauncher'
    BY <1>1, <1>3, JobTypes, Apart
    DEF IInv, TypeOK, TicketInv, LaunchInv, OneLauncher, ObserveInv, job, Handoff, Transition,
        Enter, Recorded, Past, At, Ticket, LaunchPoints, Idle
  <1>7. ObserveInv'
    BY <1>1, <1>3, JobTypes, Apart
    DEF IInv, TypeOK, TicketInv, LaunchInv, ObserveInv, job, Handoff, Transition, Enter,
        Recorded, Past, At, Ticket, WatchPoints, Idle
  <1>8. QED
    BY <1>4, <1>5, <1>6, <1>7 DEF IInv

LEMMA CreateStep ==
  ASSUME IInv, NEW p \in Launchers, Create(p)
  PROVE  IInv'
  <1> DEFINE job == [pc |-> "bind", ticket |-> Ticket(p)]
  <1>1. p \in Actors
    BY Apart
  <1>2. job \in Jobs \cup {Idle} /\ Turns(p, job)
    BY <1>1, GotoTurns, JobTypes
    DEF IInv, At, Jobs, Points, LaunchPoints, WatchPoints, ReconcilePoints, Ticket, Create
  <1>3. /\ ProcTypes'
        /\ proc'[p] = job
        /\ \A q \in Actors : q # p => proc'[q] = proc[q]
    BY <1>1, <1>2, TurnsTypes DEF IInv
  <1> HIDE DEF job
  <1>4. TypeOK'
    BY <1>1, <1>3, JobTypes
    DEF IInv, TypeOK, ProcTypes, Jobs, Points, Create, store, Phases, Boxes, Gone, At
  <1>5. TicketInv' /\ ReportsAreRecorded'
    BY <1>1, JobTypes, Apart
    DEF IInv, TypeOK, TicketInv, LaunchInv, ObserveInv, ReportsAreRecorded, Create, store,
        Recorded, Past, At, Ticket
  <1>6. LaunchInv' /\ OneLauncher'
    BY <1>1, <1>3, JobTypes, Apart
    DEF IInv, TypeOK, TicketInv, LaunchInv, OneLauncher, ObserveInv, job, Create, store,
        Recorded, Past, At, Ticket, LaunchPoints, Idle
  <1>7. ObserveInv'
    BY <1>1, <1>3, JobTypes, Apart
    DEF IInv, TypeOK, TicketInv, LaunchInv, ObserveInv, job, Create, store, Recorded, Past, At,
        Ticket, WatchPoints, Idle
  <1>8. QED
    BY <1>4, <1>5, <1>6, <1>7 DEF IInv

LEMMA BindStep ==
  ASSUME IInv, NEW p \in Launchers, Bind(p), NEW point \in {"start", "observe"}, Goto(p, point)
  PROVE  IInv'
  <1> DEFINE job == [pc |-> point, ticket |-> Ticket(p)]
  <1>1. p \in Actors
    BY Apart
  <1>2. job \in Jobs \cup {Idle} /\ Turns(p, job)
    BY <1>1, GotoTurns, JobTypes
    DEF IInv, At, Jobs, Points, LaunchPoints, WatchPoints, ReconcilePoints, Ticket, Bind
  <1>3. /\ ProcTypes'
        /\ proc'[p] = job
        /\ \A q \in Actors : q # p => proc'[q] = proc[q]
    BY <1>1, <1>2, TurnsTypes DEF IInv
  <1> HIDE DEF job
  <1>4. TypeOK'
    BY <1>1, <1>3, JobTypes
    DEF IInv, TypeOK, ProcTypes, Jobs, Points, Bind, Transition, Phases, Boxes, Gone, At
  <1>5. TicketInv' /\ ReportsAreRecorded'
    BY <1>1, JobTypes, Apart
    DEF IInv, TypeOK, TicketInv, LaunchInv, ObserveInv, ReportsAreRecorded, Bind, Transition,
        Recorded, Past, At, Ticket
  <1>6. LaunchInv' /\ OneLauncher'
    BY <1>1, <1>3, JobTypes, Apart
    DEF IInv, TypeOK, TicketInv, LaunchInv, OneLauncher, ObserveInv, job, Bind, Transition,
        Recorded, Past, At, Ticket, LaunchPoints, Idle
  <1>7. ObserveInv'
    BY <1>1, <1>3, JobTypes, Apart
    DEF IInv, TypeOK, TicketInv, LaunchInv, ObserveInv, job, Bind, Transition, Recorded, Past,
        At, Ticket, WatchPoints, Idle
  <1>8. QED
    BY <1>4, <1>5, <1>6, <1>7 DEF IInv

LEMMA ObserveStep ==
  ASSUME IInv, NEW p \in Launchers, Observe(p)
  PROVE  IInv'
  <1> DEFINE job == [pc |-> "start", ticket |-> Ticket(p)]
  <1>1. p \in Actors
    BY Apart
  <1>2. job \in Jobs \cup {Idle} /\ Turns(p, job)
    BY <1>1, GotoTurns, JobTypes
    DEF IInv, At, Jobs, Points, LaunchPoints, WatchPoints, ReconcilePoints, Ticket, Observe
  <1>3. /\ ProcTypes'
        /\ proc'[p] = job
        /\ \A q \in Actors : q # p => proc'[q] = proc[q]
    BY <1>1, <1>2, TurnsTypes DEF IInv
  <1> HIDE DEF job
  <1>4. TypeOK'
    BY <1>1, <1>3, JobTypes
    DEF IInv, TypeOK, ProcTypes, Jobs, Points, Observe, store, Phases, Boxes, Gone, At
  <1>5. TicketInv' /\ ReportsAreRecorded'
    BY <1>1, JobTypes, Apart
    DEF IInv, TypeOK, TicketInv, LaunchInv, ObserveInv, ReportsAreRecorded, Observe, store,
        Recorded, Past, At, Ticket
  <1>6. LaunchInv' /\ OneLauncher'
    BY <1>1, <1>3, JobTypes, Apart
    DEF IInv, TypeOK, TicketInv, LaunchInv, OneLauncher, ObserveInv, job, Observe, store,
        Recorded, Past, At, Ticket, LaunchPoints, Idle
  <1>7. ObserveInv'
    BY <1>1, <1>3, JobTypes, Apart
    DEF IInv, TypeOK, TicketInv, LaunchInv, ObserveInv, job, Observe, store, Recorded, Past, At,
        Ticket, WatchPoints, Idle
  <1>8. QED
    BY <1>4, <1>5, <1>6, <1>7 DEF IInv

LEMMA StartStep ==
  ASSUME IInv, NEW p \in Launchers, Start(p)
  PROVE  IInv'
  <1> DEFINE job == Idle
  <1>1. p \in Actors
    BY Apart
  <1>2. job \in Jobs \cup {Idle} /\ Turns(p, job)
    BY DEF Start, End, Turns
  <1>3. /\ ProcTypes'
        /\ proc'[p] = job
        /\ \A q \in Actors : q # p => proc'[q] = proc[q]
    BY <1>1, <1>2, TurnsTypes DEF IInv
  <1> HIDE DEF job
  <1>4. TypeOK'
    BY <1>1, <1>3, JobTypes
    DEF IInv, TypeOK, ProcTypes, Jobs, Points, Start, store, Absent, Phases, Boxes, Gone, At
  <1>5. TicketInv' /\ ReportsAreRecorded'
    BY <1>1, JobTypes, Apart
    DEF IInv, TypeOK, TicketInv, LaunchInv, ObserveInv, ReportsAreRecorded, Start, store,
        Absent, Gone, Recorded, Past, At, Ticket
  <1>6. LaunchInv' /\ OneLauncher'
    BY <1>1, <1>3, JobTypes, Apart
    DEF IInv, TypeOK, TicketInv, LaunchInv, OneLauncher, ObserveInv, job, Start, store, Absent,
        Gone, Recorded, Past, At, Ticket, LaunchPoints, Idle
  <1>7. ObserveInv'
    BY <1>1, <1>3, JobTypes, Apart
    DEF IInv, TypeOK, TicketInv, LaunchInv, ObserveInv, job, Start, store, Absent, Gone,
        Recorded, Past, At, Ticket, WatchPoints, Idle
  <1>8. QED
    BY <1>4, <1>5, <1>6, <1>7 DEF IInv

(* Steps of observers that change the store or a container. *)

LEMMA RemoveStep ==
  ASSUME IInv, NEW p \in Observers, Remove(p)
  PROVE  IInv'
  <1> DEFINE job == [pc |-> "confirm", ticket |-> Ticket(p)]
  <1>1. p \in Actors
    BY Apart
  <1>2. job \in Jobs \cup {Idle} /\ Turns(p, job)
    BY <1>1, GotoTurns, JobTypes
    DEF IInv, At, Jobs, Points, LaunchPoints, WatchPoints, ReconcilePoints, Ticket, Remove
  <1>3. /\ ProcTypes'
        /\ proc'[p] = job
        /\ \A q \in Actors : q # p => proc'[q] = proc[q]
    BY <1>1, <1>2, TurnsTypes DEF IInv
  <1> HIDE DEF job
  <1>4. TypeOK'
    BY <1>1, <1>3, JobTypes
    DEF IInv, TypeOK, ProcTypes, Jobs, Points, Remove, Removable, Removed, store, Phases, Boxes,
        Gone, At
  <1>5. TicketInv' /\ ReportsAreRecorded'
    BY <1>1, JobTypes, Apart
    DEF IInv, TypeOK, TicketInv, LaunchInv, ObserveInv, ReportsAreRecorded, Remove, Removable,
        Removed, store, Recorded, Past, At, Ticket
  <1>6. LaunchInv' /\ OneLauncher'
    BY <1>1, <1>3, JobTypes, Apart
    DEF IInv, TypeOK, TicketInv, LaunchInv, OneLauncher, ObserveInv, job, Remove, Removable,
        Removed, store, Recorded, Past, At, Ticket, LaunchPoints, Idle
  <1>7. ObserveInv'
    <2>1. Ticket(p) \in Tickets /\ box' = [box EXCEPT ![Ticket(p)] = "buried"]
      BY <1>1, JobTypes DEF IInv, ObserveInv, Remove, Removable, Removed, Past, At
    <2>2. UNCHANGED record /\ Recorded(Ticket(p))
      BY DEF IInv, ObserveInv, Remove, store, At
    <2>3. \A t \in Tickets : /\ Past(t) => Past(t)'
                             /\ box[t] = "buried" => box'[t] = "buried"
                             /\ Recorded(t) => Recorded(t)'
      BY <2>1, <2>2 DEF IInv, TypeOK, Past, Recorded
    <2>4. box'[Ticket(p)] = "buried"
      BY <2>1 DEF IInv, TypeOK
    <2>5. QED
      BY <2>1, <2>2, <2>3, <2>4, <1>1, <1>3, JobTypes, Apart
      DEF IInv, ObserveInv, job, Recorded, Ticket, WatchPoints, ReconcilePoints, Idle
  <1>8. QED
    BY <1>4, <1>5, <1>6, <1>7 DEF IInv

LEMMA IntendStep ==
  ASSUME IInv, NEW p \in Observers, WatchIntend(p)
  PROVE  IInv'
  <1> DEFINE job == [pc |-> "intended", ticket |-> Ticket(p)]
  <1>1. p \in Actors
    BY Apart
  <1>2. job \in Jobs \cup {Idle} /\ Turns(p, job)
    BY <1>1, GotoTurns, JobTypes
    DEF IInv, At, Jobs, Points, LaunchPoints, WatchPoints, ReconcilePoints, Ticket, WatchIntend
  <1>3. /\ ProcTypes'
        /\ proc'[p] = job
        /\ \A q \in Actors : q # p => proc'[q] = proc[q]
    BY <1>1, <1>2, TurnsTypes DEF IInv
  <1> HIDE DEF job
  <1>4. TypeOK'
    BY <1>1, <1>3, JobTypes
    DEF IInv, TypeOK, ProcTypes, Jobs, Points, WatchIntend, Phases, Boxes, Gone, At
  <1>5. TicketInv' /\ ReportsAreRecorded'
    BY <1>1, JobTypes, Apart
    DEF IInv, TypeOK, TicketInv, LaunchInv, ObserveInv, ReportsAreRecorded, WatchIntend,
        Recorded, Past, At, Ticket
  <1>6. LaunchInv' /\ OneLauncher'
    BY <1>1, <1>3, JobTypes, Apart
    DEF IInv, TypeOK, TicketInv, LaunchInv, OneLauncher, ObserveInv, job, WatchIntend, Recorded,
        Past, At, Ticket, LaunchPoints, Idle
  <1>7. ObserveInv'
    BY <1>1, <1>3, JobTypes, Apart
    DEF IInv, TypeOK, TicketInv, LaunchInv, ObserveInv, job, WatchIntend, Recorded, Past, At,
        Ticket, WatchPoints, Idle
  <1>8. QED
    BY <1>4, <1>5, <1>6, <1>7 DEF IInv

LEMMA ReconcileRetireStep ==
  ASSUME IInv, NEW p \in Observers, ReconcileRetire(p)
  PROVE  IInv'
  <1> DEFINE job == Idle
  <1>1. p \in Actors
    BY Apart
  <1>2. job \in Jobs \cup {Idle} /\ Turns(p, job)
    BY DEF ReconcileRetire, Report, End, Turns
  <1>3. /\ ProcTypes'
        /\ proc'[p] = job
        /\ \A q \in Actors : q # p => proc'[q] = proc[q]
    BY <1>1, <1>2, TurnsTypes DEF IInv
  <1> HIDE DEF job
  <1>4. TypeOK'
    BY <1>1, <1>3, JobTypes
    DEF IInv, TypeOK, ProcTypes, Jobs, Points, ReconcileRetire, Transition, Report, Phases,
        Boxes, Gone, At
  <1>5. TicketInv' /\ ReportsAreRecorded'
    BY <1>1, JobTypes, Apart
    DEF IInv, TypeOK, TicketInv, LaunchInv, ObserveInv, ReportsAreRecorded, ReconcileRetire,
        Transition, Report, Recorded, Past, At, Ticket
  <1>6. LaunchInv' /\ OneLauncher'
    BY <1>1, <1>3, JobTypes, Apart
    DEF IInv, TypeOK, TicketInv, LaunchInv, OneLauncher, ObserveInv, job, ReconcileRetire,
        Transition, Report, Recorded, Past, At, Ticket, LaunchPoints, Idle
  <1>7. ObserveInv'
    BY <1>1, <1>3, JobTypes, Apart
    DEF IInv, TypeOK, TicketInv, LaunchInv, ObserveInv, job, ReconcileRetire, Transition,
        Report, Recorded, Past, At, Ticket, WatchPoints, Idle
  <1>8. QED
    BY <1>4, <1>5, <1>6, <1>7 DEF IInv

LEMMA WatchRetireStep ==
  ASSUME IInv, NEW p \in Observers, WatchRetire(p)
  PROVE  IInv'
  <1> DEFINE job == Idle
  <1>1. p \in Actors
    BY Apart
  <1>2. job \in Jobs \cup {Idle} /\ Turns(p, job)
    BY DEF WatchRetire, Report, End, Turns
  <1>3. /\ ProcTypes'
        /\ proc'[p] = job
        /\ \A q \in Actors : q # p => proc'[q] = proc[q]
    BY <1>1, <1>2, TurnsTypes DEF IInv
  <1> HIDE DEF job
  <1>4. TypeOK'
    <2>1. Ticket(p) \in Tickets
      BY <1>1, JobTypes DEF IInv, WatchRetire, At
    <2>2. record' \in [Tickets -> Phases] /\ intent' \in [Tickets -> BOOLEAN]
      BY <2>1 DEF IInv, TypeOK, WatchRetire, store, Phases
    <2>3. reported' \in SUBSET Tickets /\ UNCHANGED box
      BY <2>1 DEF IInv, TypeOK, WatchRetire, Report
    <2>4. QED
      BY <1>3, <2>2, <2>3 DEF IInv, TypeOK, ProcTypes, Jobs, Points
  <1>5. TicketInv' /\ ReportsAreRecorded'
    BY <1>1, JobTypes, Apart
    DEF IInv, TypeOK, TicketInv, LaunchInv, ObserveInv, ReportsAreRecorded, WatchRetire, Report,
        Removing, store, Recorded, Past, At, Ticket
  <1>6. LaunchInv' /\ OneLauncher'
    BY <1>1, <1>3, JobTypes, Apart
    DEF IInv, TypeOK, TicketInv, LaunchInv, OneLauncher, ObserveInv, job, WatchRetire, Report,
        Removing, store, Recorded, Past, At, Ticket, LaunchPoints, Idle
  <1>7. ObserveInv'
    BY <1>1, <1>3, JobTypes, Apart
    DEF IInv, TypeOK, TicketInv, LaunchInv, ObserveInv, job, WatchRetire, Report, Removing,
        store, Recorded, Past, At, Ticket, WatchPoints, Idle
  <1>8. QED
    BY <1>4, <1>5, <1>6, <1>7 DEF IInv

-----------------------------------------------------------------------------
(* Steps that only look, or end. *)

LEMMA QuerySteps ==
  ASSUME IInv, NEW p \in Reconcilers, Query(p)
  PROVE  IInv'
  <1>1. p \in Actors /\ p \in Observers
    BY DEF Actors, Observers
  <1>2. ASSUME NEW t \in Tickets, Reconcile(p, t) PROVE IInv'
    BY <1>1, <1>2, Walk DEF Reconcile, Enter, Turns, Fits, Recorded, WatchPoints, ReconcilePoints
  <1>3. ASSUME NEW t \in Tickets, ReconcileRetired(p, t) PROVE IInv'
    <2>1. Turns(p, Idle)
      BY <1>1, <1>3 DEF ReconcileRetired, Turns, IInv, TypeOK
    <2>2. QED
      BY <1>1, <1>3, <2>1, Rest DEF ReconcileRetired
  <1>4. CASE ReconcileInspect(p)
    <2>1. Ticket(p) \in Tickets /\ Fits("remove", Ticket(p))
      BY <1>1, <1>4, JobTypes DEF IInv, ReconcileInspect, At, Inactive, Fits, ObserveInv, Past
    <2>2. Turns(p, [pc |-> "remove", ticket |-> Ticket(p)])
      BY <1>1, <1>4, GotoTurns
      DEF IInv, ReconcileInspect, At, Points, WatchPoints, ReconcilePoints
    <2>3. QED
      BY <1>1, <1>4, <2>1, <2>2, Walk DEF ReconcileInspect, WatchPoints, ReconcilePoints
  <1>5. CASE Confirm(p)
    <2>1. Ticket(p) \in Tickets /\ Fits("retire", Ticket(p))
      BY <1>1, <1>5, JobTypes DEF IInv, Confirm, At, Fits, ObserveInv
    <2>2. Turns(p, [pc |-> "retire", ticket |-> Ticket(p)])
      BY <1>1, <1>5, GotoTurns DEF IInv, Confirm, At, Points, WatchPoints, ReconcilePoints
    <2>3. QED
      BY <1>1, <1>5, <2>1, <2>2, Walk DEF Confirm, WatchPoints, ReconcilePoints
  <1>6. QED
    BY <1>1, <1>2, <1>3, <1>4, <1>5, RemoveStep, ReconcileRetireStep DEF Query

(* A watcher at work goes on to a point it fits, or ends and may report. *)
LEMMA WatchSteps ==
  ASSUME IInv, NEW p \in Watchers, Step(p)
  PROVE  IInv'
  <1> DEFINE t == Ticket(p)
  <1>1. p \in Actors /\ p \in Observers
    BY DEF Actors, Observers
  <1>2. proc[p].pc # "idle"
    BY DEF Step, WatchStatus, WatchExists, WatchInspect, WatchAgain, WatchAbsent, WatchSettle,
           WatchIntend, WatchIntended, Remove, RemoveFails, Confirm, WatchRetire, At
  <1>3. t \in Tickets /\ Recorded(t)
    BY <1>1, <1>2, JobTypes DEF IInv, ObserveInv
  <1>4. ASSUME NEW point \in WatchPoints, Fits(point, t), Goto(p, point),
               UNCHANGED <<store, box, reported>>
        PROVE  IInv'
    BY <1>1, <1>2, <1>3, <1>4, GotoTurns, Walk DEF IInv, Points
  <1>5. ASSUME Report(p), record[t] = "Retired", UNCHANGED <<store, box>> PROVE IInv'
    BY <1>1, <1>3, <1>5, Rest DEF Report, End, Turns
  <1>6. ASSUME End(p), UNCHANGED <<store, box, reported>> PROVE IInv'
    BY <1>1, <1>6, Rest DEF End, Turns
  <1>7. Removing(t) => Past(t)
    BY <1>3 DEF IInv, TicketInv, Removing
  <1>8. {"status", "exists", "inspect", "again", "absent", "settle", "intend", "intended",
         "remove", "confirm", "retire"} \subseteq WatchPoints
    BY DEF WatchPoints, ReconcilePoints
  <1> HIDE DEF t
  <1>9. CASE WatchStatus(p)
    BY <1>3, <1>4, <1>5, <1>7, <1>8, <1>9 DEF WatchStatus, Fits, t
  <1>10. CASE WatchExists(p)
    BY <1>1, <1>3, <1>4, <1>8, <1>10
    DEF WatchExists, Fits, Absent, Gone, IInv, ObserveInv, At, Past, t
  <1>11. CASE WatchInspect(p)
    BY <1>3, <1>4, <1>8, <1>11 DEF WatchInspect, Fits, Inactive, Past, t
  <1>12. CASE WatchAgain(p)
    BY <1>3, <1>4, <1>5, <1>7, <1>8, <1>12 DEF WatchAgain, Fits, t
  <1>13. CASE WatchAbsent(p)
    BY <1>1, <1>3, <1>4, <1>8, <1>13
    DEF WatchAbsent, Fits, Absent, Gone, IInv, ObserveInv, At, Past, t
  <1>14. CASE WatchSettle(p)
    BY <1>5, <1>6, <1>14 DEF WatchSettle, t
  <1>15. CASE WatchIntended(p)
    BY <1>1, <1>3, <1>4, <1>5, <1>8, <1>15 DEF WatchIntended, Fits, IInv, ObserveInv, At, t
  <1>16. CASE RemoveFails(p)
    BY <1>3, <1>4, <1>8, <1>16 DEF RemoveFails, Fits, t
  <1>17. CASE Confirm(p)
    BY <1>1, <1>3, <1>4, <1>8, <1>17 DEF Confirm, Fits, IInv, ObserveInv, At, t
  <1>18. QED
    BY <1>1, <1>9, <1>10, <1>11, <1>12, <1>13, <1>14, <1>15, <1>16, <1>17, IntendStep, RemoveStep,
       WatchRetireStep DEF Step

LEMMA Inductive ==
  ASSUME IInv, [Next]_vars
  PROVE  IInv'
  <1>1. ASSUME NEW p \in Launchers, Launch(p) PROVE IInv'
    BY <1>1, HandoffStep, CreateStep, BindStep, ObserveStep, StartStep DEF Launch, Bind
  <1>2. ASSUME NEW p \in Watchers, NEW t \in Tickets, Watch(p, t) PROVE IInv'
    <2>1. p \in Observers /\ Fits("status", t) /\ "status" \in WatchPoints
      BY <1>2 DEF Watch, Fits, Recorded, Observers, WatchPoints
    <2>2. QED
      BY <1>2, <2>1, Walk DEF Watch, Enter, Turns
  <1>3. ASSUME NEW p \in Actors, Die(p) PROVE IInv'
    BY <1>3, Rest DEF Die, End, Turns
  <1>4. CASE UNCHANGED vars
    BY <1>4 DEF vars, store, IInv, TypeOK, TicketInv, LaunchInv, OneLauncher, ObserveInv,
       ReportsAreRecorded, At, Ticket, Recorded, Past
  <1>5. QED
    BY <1>1, <1>2, <1>3, <1>4, TicketSteps, QuerySteps, WatchSteps DEF Next

LEMMA Invariant == Spec => []IInv
  BY Initially, Inductive, PTL DEF Spec

-----------------------------------------------------------------------------
(* The theorems. *)

(* Every record, intent, container, process and report keeps its type. *)
THEOREM RecordTypes == Spec => []TypeOK
  BY Invariant, PTL DEF IInv

(* A retired ticket's container ran, ended by itself and is removed, and a *)
(* cancelled one never had any, whoever died or removed what, and when.    *)
THEOREM TerminalEvidence == Spec => []TerminalIsTrue
  <1>1. IInv => TerminalIsTrue
    BY DEF IInv, TicketInv, TerminalIsTrue
  <1>2. QED
    BY <1>1, Invariant, PTL

(* Nobody is told of a retirement that is not on record. *)
THEOREM ReportsAreTrue == Spec => []ReportsAreRecorded
  BY Invariant, PTL DEF IInv

(* A container runs only under its binding, never under a removal intent. *)
THEOREM RunsOnlyBound == Spec => []RunsBound
  <1>1. IInv => RunsBound
    BY DEF IInv, TypeOK, Phases, TicketInv, RunsBound, Past
  <1>2. QED
    BY <1>1, Invariant, PTL

-----------------------------------------------------------------------------
(* A ticket is one-shot work. *)

WorkBar == [t \in Tickets |-> WorkOf[box[t]]]
EvidenceBar == [t \in Tickets |-> IF record[t] = "Retired" THEN "over"
                                  ELSE IF record[t] = "Cancelled" THEN "void" ELSE "none"]

LEMMA BarsMap ==
  /\ OneShot!vars = <<WorkBar, EvidenceBar>>
  /\ \A t \in Tickets : WorkBar[t] = WorkOf[box[t]]
  BY DEF OneShot!vars, WorkBar, EvidenceBar

(* A change of one container alone is a change of its work alone. *)
LEMMA BoxMoves ==
  ASSUME TypeOK, NEW t \in Tickets, NEW to \in Boxes, box' = [box EXCEPT ![t] = to],
         UNCHANGED record
  PROVE  /\ WorkBar' = [WorkBar EXCEPT ![t] = WorkOf[to]]
         /\ UNCHANGED EvidenceBar
  <1>1. \A s \in Tickets : box'[s] = IF s = t THEN to ELSE box[s]
    BY DEF TypeOK
  <1>2. WorkBar' = [WorkBar EXCEPT ![t] = WorkOf[to]]
    <2>1. /\ WorkBar' = [s \in Tickets |-> WorkOf[box'[s]]]
          /\ WorkBar = [s \in Tickets |-> WorkOf[box[s]]]
      BY DEF WorkBar, WorkOf
    <2>2. QED
      BY <1>1, <2>1
  <1>3. UNCHANGED EvidenceBar
    BY DEF EvidenceBar
  <1>4. QED
    BY <1>2, <1>3

(* A change of one record alone is a change of its evidence at most. *)
LEMMA RecordMoves ==
  ASSUME TypeOK, NEW t \in Tickets, NEW to, record' = [record EXCEPT ![t] = to],
         UNCHANGED box
  PROVE  /\ EvidenceBar' = [EvidenceBar EXCEPT ![t] =
                              IF to = "Retired" THEN "over"
                              ELSE IF to = "Cancelled" THEN "void" ELSE "none"]
         /\ UNCHANGED WorkBar
  <1>1. \A s \in Tickets : record'[s] = IF s = t THEN to ELSE record[s]
    BY DEF TypeOK
  <1>2. QED
    BY <1>1 DEF WorkBar, EvidenceBar

LEMMA Stutters ==
  ASSUME UNCHANGED <<record, box>>
  PROVE  UNCHANGED OneShot!vars
  BY DEF OneShot!vars

LEMMA OneShotInitially == Init => OneShot!Init
  BY DEF Init, OneShot!Init, WorkOf

Goal == OneShot!Next \/ UNCHANGED OneShot!vars

(* Steps of the ticket's record. *)
LEMMA RecordSteps ==
  ASSUME IInv, NEW t \in Tickets, NEW from, NEW to \in Phases, record[t] = from,
         record' = [record EXCEPT ![t] = to], UNCHANGED box,
         \/ from \notin {"Cancelled", "Retired"} /\ to \notin {"Cancelled", "Retired"}
         \/ from = "Reserved" /\ to = "Cancelled"
         \/ from = "Bound" /\ to = "Retired" /\ box[t] = "buried"
  PROVE  Goal
  <1>1. TypeOK /\ TicketInv
    BY DEF IInv
  <1>2. CASE from \notin {"Cancelled", "Retired"} /\ to \notin {"Cancelled", "Retired"}
    <2>1. EvidenceBar' = [EvidenceBar EXCEPT ![t] = "none"] /\ WorkBar' = WorkBar
      BY <1>1, <1>2, RecordMoves
    <2>2. EvidenceBar[t] = "none" /\ EvidenceBar \in [Tickets -> {"none", "void", "over"}]
      BY <1>2 DEF EvidenceBar
    <2>3. EvidenceBar' = EvidenceBar
      BY <2>1, <2>2
    <2>4. QED
      BY <2>1, <2>3 DEF Goal, OneShot!vars, WorkBar, EvidenceBar
  <1>3. CASE from = "Reserved" /\ to = "Cancelled"
    <2>1. WorkBar[t] = "none" /\ WorkBar' = WorkBar
      BY <1>1, <1>3, RecordMoves DEF WorkBar, WorkOf, TicketInv
    <2>2. EvidenceBar' = [EvidenceBar EXCEPT ![t] = "void"]
      BY <1>1, <1>3, RecordMoves
    <2>3. OneShot!Void(t)
      BY <2>1, <2>2 DEF OneShot!Void, OneShot!Attest, WorkBar, EvidenceBar
    <2>4. QED
      BY <2>3 DEF Goal, OneShot!Next
  <1>4. CASE from = "Bound" /\ to = "Retired" /\ box[t] = "buried"
    <2>1. WorkBar[t] = "ended" /\ WorkBar' = WorkBar
      BY <1>1, <1>4, RecordMoves DEF WorkBar, WorkOf
    <2>2. EvidenceBar' = [EvidenceBar EXCEPT ![t] = "over"]
      BY <1>1, <1>4, RecordMoves
    <2>3. OneShot!Judge(t)
      BY <2>1, <2>2 DEF OneShot!Judge, OneShot!Attest, WorkBar, EvidenceBar
    <2>4. QED
      BY <2>3 DEF Goal, OneShot!Next
  <1>5. QED
    BY <1>2, <1>3, <1>4

(* Steps of the ticket's container. *)
LEMMA BoxSteps ==
  ASSUME IInv, NEW t \in Tickets, NEW to \in Boxes,
         box' = [box EXCEPT ![t] = to], UNCHANGED record,
         \/ box[t] = "none" /\ to = "created" /\ record[t] = "Launching"
         \/ box[t] = "created" /\ to = "running" /\ record[t] = "Bound"
         \/ box[t] = "running" /\ to = "exited"
         \/ box[t] = "exited" /\ to = "buried"
         \/ box[t] \in {"created", "running"} /\ to = "lost"
  PROVE  Goal
  <1>1. TypeOK /\ \A s \in Tickets : WorkBar[s] = WorkOf[box[s]]
    BY DEF IInv, WorkBar
  <1>2. WorkBar' = [WorkBar EXCEPT ![t] = WorkOf[to]] /\ UNCHANGED EvidenceBar
    BY <1>1, BoxMoves
  <1>3. CASE box[t] = "none" /\ to = "created" /\ record[t] = "Launching"
    <2>1. OneShot!Make(t)
      BY <1>1, <1>2, <1>3 DEF OneShot!Make, OneShot!Moves, WorkOf, WorkBar, EvidenceBar
    <2>2. QED
      BY <2>1 DEF Goal, OneShot!Next
  <1>4. CASE box[t] = "created" /\ to = "running" /\ record[t] = "Bound"
    <2>1. OneShot!Activate(t)
      BY <1>1, <1>2, <1>4 DEF OneShot!Activate, OneShot!Moves, WorkOf, WorkBar, EvidenceBar
    <2>2. QED
      BY <2>1 DEF Goal, OneShot!Next
  <1>5. CASE box[t] = "running" /\ to = "exited"
    <2>1. OneShot!End(t)
      BY <1>1, <1>2, <1>5 DEF OneShot!End, OneShot!Moves, WorkOf, WorkBar, EvidenceBar
    <2>2. QED
      BY <2>1 DEF Goal, OneShot!Next
  <1>6. CASE box[t] = "exited" /\ to = "buried"
    <2>1. WorkBar' = WorkBar
      BY <1>1, <1>2, <1>6 DEF WorkOf, WorkBar
    <2>2. QED
      BY <1>2, <2>1 DEF Goal, OneShot!vars, WorkBar, EvidenceBar
  <1>7. CASE box[t] \in {"created", "running"} /\ to = "lost"
    <2>1. OneShot!Lose(t)
      BY <1>1, <1>2, <1>7 DEF OneShot!Lose, OneShot!Moves, WorkOf, WorkBar, EvidenceBar
    <2>2. QED
      BY <2>1 DEF Goal, OneShot!Next
  <1>8. QED
    BY <1>3, <1>4, <1>5, <1>6, <1>7

LEMMA OneShotStep ==
  ASSUME IInv, [Next]_vars
  PROVE  Goal
  <1>1. ASSUME NEW t \in Tickets, Reserve(t) \/ Cancel(t) PROVE Goal
    BY <1>1, RecordSteps DEF Reserve, Cancel, Transition, Phases
  <1>2. ASSUME NEW t \in Tickets, Exit(t) \/ ForeignRemove(t) PROVE Goal
    BY <1>2, BoxSteps DEF Exit, ForeignRemove, Removed, store, Boxes, Gone
  <1>3. ASSUME NEW p \in Launchers, Launch(p) PROVE Goal
    <2>1. p \in Actors
      BY DEF Actors
    <2>2. ASSUME NEW t \in Tickets, Handoff(p, t) PROVE Goal
      BY <2>2, RecordSteps DEF Handoff, Transition, Phases
    <2>3. CASE Create(p)
      <3>1. Ticket(p) \in Tickets /\ record[Ticket(p)] = "Launching" /\ box[Ticket(p)] = "none"
        BY <2>1, <2>3, JobTypes DEF IInv, LaunchInv, Create, At
      <3>2. QED
        BY <2>3, <3>1, BoxSteps DEF Create, store, Boxes
    <2>4. CASE Bind(p)
      <3>1. Ticket(p) \in Tickets
        BY <2>1, <2>4, JobTypes DEF IInv, Bind, At
      <3>2. QED
        BY <2>4, <3>1, RecordSteps DEF Bind, Transition, Phases
    <2>5. CASE Observe(p)
      BY <2>5, Stutters DEF Observe, store, Goal
    <2>6. CASE Start(p)
      <3>1. /\ Ticket(p) \in Tickets /\ record[Ticket(p)] = "Bound"
            /\ box[Ticket(p)] \in {"created", "lost"}
        BY <2>1, <2>6, JobTypes DEF IInv, LaunchInv, Start, At
      <3>2. CASE Absent(Ticket(p))
        BY <2>6, <3>2, Stutters DEF Start, store, Goal
      <3>3. CASE ~Absent(Ticket(p))
        BY <2>6, <3>1, <3>3, BoxSteps DEF Start, store, Boxes, Absent, Gone
      <3>4. QED
        BY <3>2, <3>3
    <2>7. QED
      BY <1>3, <2>2, <2>3, <2>4, <2>5, <2>6 DEF Launch
  <1>4. ASSUME NEW p \in Observers, Remove(p) PROVE Goal
    <2>1. /\ Ticket(p) \in Tickets /\ box[Ticket(p)] = "exited"
          /\ box' = [box EXCEPT ![Ticket(p)] = "buried"]
      BY <1>4, Apart, JobTypes DEF IInv, ObserveInv, Remove, Removable, Removed, Past, At
    <2>2. QED
      BY <1>4, <2>1, BoxSteps DEF Remove, store, Boxes, Gone
  <1>5. ASSUME NEW p \in Observers, ReconcileRetire(p) \/ WatchRetire(p) PROVE Goal
    <2>1. Ticket(p) \in Tickets /\ box[Ticket(p)] = "buried" /\ UNCHANGED box
      BY <1>5, Apart, JobTypes DEF IInv, ObserveInv, ReconcileRetire, WatchRetire, At
    <2>2. CASE UNCHANGED store
      BY <2>1, <2>2, Stutters DEF store, Goal
    <2>3. CASE record[Ticket(p)] = "Bound" /\ record' = [record EXCEPT ![Ticket(p)] = "Retired"]
      BY <2>1, <2>3, RecordSteps DEF Phases
    <2>4. QED
      BY <1>5, <2>2, <2>3 DEF ReconcileRetire, WatchRetire, Transition, Removing
  <1>6. ASSUME NEW p \in Reconcilers, Query(p) PROVE Goal
    <2>1. p \in Observers
      BY DEF Observers
    <2>2. QED
      BY <1>4, <1>5, <1>6, <2>1, Stutters
      DEF Query, Reconcile, ReconcileRetired, ReconcileInspect, Confirm, store, Goal
  <1>7. ASSUME NEW p \in Watchers, Step(p) PROVE Goal
    <2>1. p \in Observers
      BY DEF Observers
    <2>2. QED
      BY <1>4, <1>5, <1>7, <2>1, Stutters
      DEF Step, WatchStatus, WatchExists, WatchInspect, WatchAgain, WatchAbsent, WatchSettle,
          WatchIntend, WatchIntended, RemoveFails, Confirm, store, Goal
  <1>8. CASE UNCHANGED vars
    BY <1>8, Stutters DEF vars, Goal
  <1>9. QED
    BY <1>1, <1>2, <1>3, <1>6, <1>7, <1>8, Stutters DEF Next, Watch, Die, store, Goal

(* A ticket's work is made, started and judged at most once, and judged    *)
(* over only when it came to its end: the abstract one-shot work.          *)
THEOREM OneShotRefined == Spec => ImplementsOneShot
  BY OneShotInitially, OneShotStep, Invariant, PTL DEF Spec, ImplementsOneShot, OneShot!Spec, Goal
=============================================================================
