--------------------------- MODULE PoolLeaseProofs ---------------------------
(* Proofs of the safety properties of PoolLease. *)
EXTENDS PoolLease, TLAPS

Owned == {"release", "collect", "stop"}
BootPoints == {"config", "create", "record", "run", "ready"}
Counting == {"daemon", "procs", "gc"}

(* The shapes of an operation and of a command in hand. *)
Shapes ==
    /\ task.op \in {"admit", "release"} => task.t \in Tickets
    /\ task.op = "none" => task.pc = "none"
    /\ task.op = "stop" => task.t \in {"own", "retained"}
    /\ task.pc = "wait" => task.op \in Owned \cup {"admit"}
    /\ task.pc \in BootPoints => task.op \in {"admit", "complete"}
    /\ handler.op = "none" => handler.stage = "none"
    /\ handler.op = "release" => handler.t \in Tickets
    /\ handler.stage = "gc" => handler.op = "collect"
    /\ handler.stage \in {"again", "last"} => handler.op = "shutdown"

(* A call belongs to the operation that waits for it, and the guest answers *)
(* it there.                                                                *)
Calls ==
    /\ call.st \in {"sent", "held"} => task.pc = "wait"
    /\ handler.own /\ handler.stage \in Counting =>
          task.pc = "wait" /\ task.op \in Owned /\ call.st = "held"

(* The operation in progress found and left the records as it needs them.   *)
Progress ==
    /\ task.op = "admit" => fence = "none"
    /\ task.op \in {"stop", "complete"} => fence # "none"
    /\ begun # "none" => fence # "none"
    /\ task.pc \in {"config", "create", "record"} => phase = "starting"
    /\ task.pc \in {"run", "ready"} => phase = "created"
    /\ task.op = "admit" /\ task.pc \notin BootPoints => phase = "serving"
    /\ task.op = "stop" =>
          phase = "stopping" \/ (task.pc = "publish" /\ phase = "serving")

Admission ==
    task.op = "admit" =>
        /\ task.pc = "register" => task.t \in index /\ client[task.t] = "none"
        /\ task.pc = "wait" => client[task.t] = "registering"
        /\ task.pc = "wait" /\ call.st = "done" /\ call.reply = "applied"
              => lease[task.t] = "open"
        /\ task.pc \in {"mount", "attach"} =>
              client[task.t] = "attaching" /\ lease[task.t] = "open"
        /\ task.pc = "deliver" => client[task.t] = "attached"

Retirement ==
    task.op = "release" =>
        /\ task.pc \in {"unmount", "detach"} => client[task.t] = "detaching"
        /\ task.pc = "detach" => task.t \notin mount
        /\ task.pc \in {"call", "wait"} => client[task.t] = "detached"
        /\ task.pc = "index" => client[task.t] = "released"

(* A protected ticket is in the ledger of a pool that serves.               *)
Protection ==
    \A t \in Tickets :
        /\ client[t] \notin {"none", "released"} =>
              t \in index /\ phase = "serving" /\ fence = "none"
        /\ exec[t] = "running" => client[t] = "attached"
        /\ client[t] = "attached" => lease[t] = "open" /\ (vm = "up" => t \in mount)

(* A release is asked only for an unmounted projection. *)
Unmounted ==
    /\ mount \subseteq Leased
    /\ \A t \in Tickets :
          /\ client[t] \in {"detached", "released"} => t \notin mount
          /\ [op |-> "release", t |-> t] \in stray =>
                client[t] \in {"detached", "released"}
    /\ handler.op = "release" => client[handler.t] \in {"detached", "released"}

(* The guest counts nobody without a lease, and nobody leases during        *)
(* maintenance or after it.                                                 *)
Counted ==
    /\ Readers \subseteq Leased
    /\ handler.op \in {"collect", "shutdown"} => Leased = {}
    /\ vm \in {"down", "sync", "unmark", "certify", "done"} => Leased = {}

(* The storage files over a boot, a shutdown and a death. *)
Storage ==
    /\ vm = "created" => phase \in {"starting", "created"}
    /\ vm \in {"check", "consume", "open"} => phase = "created"
    /\ vm = "consume" => files.resuming
    /\ vm \in {"open", "up"} => ~files.released
    /\ vm \in {"unmark", "certify", "done"} => ~dirty
    /\ Certified => ~dirty /\ Leased = {}
    /\ At("stop", "gone") => vm = "absent" /\ Certified
    /\ phase = "released" => vm = "absent" /\ Certified

IInv ==
    /\ TypeOK
    /\ Shapes
    /\ Calls
    /\ Progress
    /\ Admission
    /\ Retirement
    /\ Protection
    /\ Unmounted
    /\ Counted
    /\ Storage

LEMMA Initially == Init => IInv
  <1> SUFFICES ASSUME Init PROVE IInv
    OBVIOUS
  <1>1. TypeOK
    <2>1. /\ phase = "none" /\ index = {} /\ fence = "none" /\ mount = {}
          /\ boot = "fresh" /\ dirty = FALSE /\ vm = "absent" /\ admission = "serving"
          /\ export = {} /\ stray = {} /\ watch = {} /\ up = TRUE /\ begun = "none"
          /\ stops = 0 /\ faults = {}
      BY DEF Init
    <2>2. /\ client \in [Tickets -> {"none", "registering", "attaching", "attached",
                                     "detaching", "detached", "released"}]
          /\ exec \in [Tickets -> {"waiting", "running", "terminal"}]
          /\ lease \in [Tickets -> {"none", "open", "closing"}]
          /\ session \in [Tickets -> {"none", "keyed", "admitted", "served", "orphan"}]
      BY DEF Init
    <2>3. files \in [released : BOOLEAN, resuming : BOOLEAN]
      BY DEF Init
    <2>4. /\ task = NoTask /\ call = NoCall /\ handler = NoHandler
      BY DEF Init
    <2>5. 0 \in 0 .. MaxStops
      BY PoolAssumption
    <2>6. QED
      BY <2>1, <2>2, <2>3, <2>4, <2>5 DEF TypeOK, NoTask, NoCall, NoHandler
  <1>2. Shapes /\ Calls /\ Progress
    BY PoolAssumption
    DEF Init, Shapes, Calls, Progress, NoTask, NoCall, NoHandler, Owned, BootPoints, Counting
  <1>3. Admission /\ Retirement
    BY DEF Init, Admission, Retirement, NoTask
  <1>4. Protection /\ Unmounted
    BY DEF Init, Protection, Unmounted, NoHandler
  <1>5. Counted /\ Storage
    BY DEF Init, Counted, Storage, NoHandler, NoTask, Leased, Readers, Certified, At
  <1>6. QED
    BY <1>1, <1>2, <1>3, <1>4, <1>5 DEF IInv

(* The values of a command in hand, an operation and its call. *)
Handlers ==
    [op : {"none", "release", "collect", "shutdown"}, t : Tickets \cup {"none"},
     stage : {"none", "daemon", "procs", "gc", "again", "last"}, own : BOOLEAN]

TaskValues ==
    [op : {"none", "admit", "release", "collect", "stop", "complete"},
     t : Tickets \cup {"none", "own", "retained"},
     pc : {"none", "config", "create", "record", "run", "ready", "admit", "register",
           "mount", "attach", "deliver", "unmount", "detach", "call", "index",
           "publish", "exit", "verify", "gone", "finish", "wait"}]

CallValues ==
    [st : {"none", "sent", "held", "done"},
     reply : {"none", "applied", "busy", "rejected", "stopping", "failed", "lost"}]

LEMMA HandlerUpdates ==
  ASSUME IInv
  PROVE  /\ handler \in Handlers /\ NoHandler \in Handlers
         /\ [handler EXCEPT !.own = FALSE] \in Handlers
         /\ [handler EXCEPT !.stage = "procs"] \in Handlers
         /\ [handler EXCEPT !.stage = "last"] \in Handlers
  <1>1. handler \in Handlers
    BY DEF IInv, TypeOK, Handlers
  <1>2. NoHandler \in Handlers
    BY DEF NoHandler, Handlers
  <1>3. QED
    BY <1>1, <1>2 DEF Handlers

LEMMA FileUpdates ==
  ASSUME IInv, NEW b \in BOOLEAN
  PROVE  [files EXCEPT !.resuming = b] \in [released : BOOLEAN, resuming : BOOLEAN]
  <1>1. files \in [released : BOOLEAN, resuming : BOOLEAN]
    BY DEF IInv, TypeOK
  <1>2. QED
    BY <1>1

(* A command that the guest takes is that of the operation or a stray one.  *)
Arrived(r, own) == IF own THEN call.st = "sent" /\ r = Request ELSE r \in stray

LEMMA Arrivals ==
  ASSUME IInv
  PROVE  /\ call.st = "sent" => Request \in Requests /\ Arrived(Request, TRUE)
         /\ \A r \in stray : r \in Requests /\ Arrived(r, FALSE)
  BY DEF IInv, TypeOK, Shapes, Calls, Owned, Request, Requests, Arrived

LEMMA RequestShape ==
  ASSUME NEW r \in Requests
  PROVE  /\ r.op \in {"register", "release", "collect", "shutdown"}
         /\ r.op \in {"register", "release"} => r.t \in Tickets
         /\ r.op = "release" => r = [op |-> "release", t |-> r.t]
  BY DEF Requests

(* What the operation asks for is what it waits for. *)
LEMMA OwnRequest ==
  ASSUME IInv, call.st = "sent"
  PROVE  /\ task.pc = "wait"
         /\ Request.op = "register" => task.op = "admit" /\ Request.t = task.t
         /\ Request.op = "release" => task.op = "release" /\ Request.t = task.t
         /\ Request.op = "collect" => task.op = "collect"
         /\ Request.op = "shutdown" => task.op = "stop"
  BY DEF IInv, Shapes, Calls, Owned, Request

(* A release that reaches the guest is of a ticket detached by then. *)
LEMMA ReleaseDetached ==
  ASSUME IInv, NEW r \in Requests, NEW own \in BOOLEAN, Arrived(r, own), r.op = "release"
  PROVE  r.t \in Tickets /\ client[r.t] \in {"detached", "released"}
  <1>1. r.t \in Tickets /\ r = [op |-> "release", t |-> r.t]
    BY RequestShape
  <1>2. CASE own
    BY <1>1, <1>2, OwnRequest DEF IInv, Retirement, Arrived
  <1>3. CASE ~own
    BY <1>1, <1>3 DEF IInv, Unmounted, Arrived
  <1>4. QED
    BY <1>2, <1>3

(* The second half of a maintenance command starts or ends at once. *)
LEMMA Completing ==
  ASSUME IInv, CompleteStart
  PROVE  /\ task.op = "none" /\ vm = "absent"
         /\ UNCHANGED <<index, client, call, lease, mount, exec, vm, handler, stray, files, dirty>>
         /\ \/ UNCHANGED <<phase, task>> /\ begun' = "none" /\ fence' \in {fence, "none"}
            \/ /\ UNCHANGED <<begun, fence>> /\ fence # "none" /\ phase' = "starting"
               /\ task' = [op |-> "complete", t |-> "none", pc |-> "config"]
         /\ \A t \in Tickets : client[t] \in {"none", "released"}
  <1>1. fence # "none" /\ fence \in {"repair", "keep", "shutdown", "update"}
    BY DEF CompleteStart, IInv, Progress, TypeOK
  <1>2. begun \in {"own", "retained"}
    BY DEF CompleteStart, IInv, TypeOK
  <1>3. task.op = "none" /\ vm = "absent" /\ \A t \in Tickets : client[t] \in {"none", "released"}
    BY DEF CompleteStart, Free, NoTask, Protected
  <1>4. CASE begun = "retained"
    BY <1>3, <1>4 DEF CompleteStart, guest
  <1>5. CASE begun = "own" /\ fence \in {"keep", "shutdown"}
    BY <1>3, <1>5 DEF CompleteStart, guest
  <1>6. CASE begun = "own" /\ fence \in {"repair", "update"}
    BY <1>1, <1>3, <1>6 DEF CompleteStart, guest
  <1>7. QED
    BY <1>1, <1>2, <1>4, <1>5, <1>6

-----------------------------------------------------------------------------
LEMMA ShapesStep ==
  ASSUME IInv, [Next]_vars
  PROVE  Shapes'
  <1>1. ASSUME NEW r \in Requests, NEW own \in BOOLEAN, Arrived(r, own), Release(r, own)
       PROVE  Shapes'
    BY <1>1, RequestShape, OwnRequest, ReleaseDetached DEF IInv, Shapes, TypeOK, Release,
        GuestIdle, Answer, Hold, record, NoHandler, Owned, BootPoints, Arrived
  <1>2. ASSUME NEW r \in Requests, NEW own \in BOOLEAN, Arrived(r, own), Maintain(r, own)
       PROVE  Shapes'
    BY <1>2, RequestShape, OwnRequest DEF IInv, Shapes, TypeOK, Maintain, GuestIdle, Leased,
        Answer, Hold, record, NoHandler, Owned, BootPoints, Arrived
  <1>3. CASE CensusDaemon
    BY <1>3 DEF IInv, Shapes, TypeOK, CensusDaemon, InHand, Children, NoHandler, Reply, record,
        Owned, BootPoints
  <1>4. CASE CensusBusy
    BY <1>4 DEF IInv, Shapes, TypeOK, CensusBusy, InHand, Readers, NoHandler, Reply, record,
        Owned, BootPoints
  <1>5. CASE LeaseRemoved
    BY <1>5 DEF IInv, Shapes, TypeOK, LeaseRemoved, InHand, Readers, NoHandler, Reply, record,
        Owned, BootPoints
  <1>6. CASE CollectBegins
    BY <1>6 DEF IInv, Shapes, TypeOK, CollectBegins, InHand, Readers, record, Owned, BootPoints
  <1>7. CASE CollectEnds
    BY <1>7 DEF IInv, Shapes, TypeOK, CollectEnds, InHand, NoHandler, Reply, record, Owned,
        BootPoints
  <1>8. CASE StopAccepted
    BY <1>8 DEF IInv, Shapes, TypeOK, StopAccepted, InHand, Readers, Reply, record, Owned,
        BootPoints
  <1>9. CASE Terminate
    BY <1>9 DEF IInv, Shapes, TypeOK, Terminate, InHand, Readers, NoHandler, record, Owned,
        BootPoints
  <1>10. CASE GuestCheck
    BY <1>10 DEF IInv, Shapes, TypeOK, GuestCheck, Certified, Leased, Dies, record, Emptied,
        NoHandler, Owned, BootPoints
  <1>11. CASE DaemonEnds
    BY <1>11 DEF IInv, Shapes, TypeOK, DaemonEnds, Children, Emptied, Dies, record, NoHandler,
        Owned, BootPoints
  <1>12. CASE GuestCrash
    BY <1>12 DEF IInv, Shapes, TypeOK, GuestCrash, ContainerRunning, Fault, Dies, record,
        Emptied, NoHandler, Owned, BootPoints
  <1>13. CASE Config
    BY <1>13 DEF IInv, Shapes, TypeOK, Config, Go, record, guest, Owned, BootPoints
  <1>14. CASE Create
    BY <1>14 DEF IInv, Shapes, TypeOK, Create, Go, record, Owned, BootPoints
  <1>15. CASE Record
    BY <1>15 DEF IInv, Shapes, TypeOK, Record, Go, guest, Owned, BootPoints
  <1>16. CASE Run
    BY <1>16 DEF IInv, Shapes, TypeOK, Run, Go, record, Owned, BootPoints
  <1>17. CASE Ready
    BY <1>17 DEF IInv, Shapes, TypeOK, Ready, Inspectable, Leased, Go, guest, NoHandler, Owned,
        BootPoints
  <1>18. CASE BootFails
    BY <1>18 DEF IInv, Shapes, TypeOK, BootFails, ContainerRunning, Fault, Done, record, guest,
        NoTask, Owned, BootPoints
  <1>19. CASE \E t \in Tickets : AdmitStart(t)
    BY <1>19 DEF IInv, Shapes, TypeOK, AdmitStart, Free, Inspectable, Certified, guest,
        NoHandler, NoTask, Owned, BootPoints
  <1>20. CASE AdmitIndex
    BY <1>20 DEF IInv, Shapes, TypeOK, AdmitIndex, At, Poisoned, Done, Owed, Answers, Go, guest,
        NoTask, Owned, BootPoints
  <1>21. CASE AdmitRegister
    BY <1>21 DEF IInv, Shapes, TypeOK, AdmitRegister, At, ContainerRunning, Send, Done, guest,
        NoTask, Owned, BootPoints
  <1>22. CASE AdmitRegistered
    BY <1>22 DEF IInv, Shapes, TypeOK, AdmitRegistered, Received, Go, Done, NoCall, guest,
        NoTask, At, Owned, BootPoints
  <1>23. CASE AdmitMount
    BY <1>23 DEF IInv, Shapes, TypeOK, AdmitMount, At, Go, Done, record, NoTask, Owned,
        BootPoints
  <1>24. CASE AdmitAttach
    BY <1>24 DEF IInv, Shapes, TypeOK, AdmitAttach, At, Go, Done, guest, NoTask, Owned,
        BootPoints
  <1>25. CASE AdmitDeliver
    BY <1>25 DEF IInv, Shapes, TypeOK, AdmitDeliver, At, Done, record, guest, NoTask, Owned,
        BootPoints
  <1>26. CASE \E t \in Tickets : ReleaseStart(t)
    BY <1>26 DEF IInv, Shapes, TypeOK, ReleaseStart, Free, Retire, guest, NoTask, Owned,
        BootPoints
  <1>27. CASE Unmount
    BY <1>27 DEF IInv, Shapes, TypeOK, Unmount, At, Go, Fault, Abandon, record, guest, Done,
        Retire, NoTask, Owned, BootPoints
  <1>28. CASE Detach
    BY <1>28 DEF IInv, Shapes, TypeOK, Detach, At, Go, guest, Owned, BootPoints
  <1>29. CASE ReleaseCall
    BY <1>29 DEF IInv, Shapes, TypeOK, ReleaseCall, At, ContainerRunning, Send, Abandon, record,
        guest, Done, Retire, NoTask, Owned, BootPoints
  <1>30. CASE Released
    BY <1>30 DEF IInv, Shapes, TypeOK, Released, Received, NoCall, Go, Done, Abandon, guest,
        Retire, NoTask, At, Owned, BootPoints
  <1>31. CASE ReleaseIndex
    BY <1>31 DEF IInv, Shapes, TypeOK, ReleaseIndex, At, Abandon, guest, Done, Retire, NoTask,
        Owned, BootPoints
  <1>32. CASE CollectStart
    BY <1>32 DEF IInv, Shapes, TypeOK, CollectStart, Free, Poisoned, Protected,
        ContainerRunning, record, guest, NoTask, Owned, BootPoints
  <1>33. CASE CollectDone
    BY <1>33 DEF IInv, Shapes, TypeOK, CollectDone, Received, Done, NoCall, record, guest,
        NoTask, At, Owned, BootPoints
  <1>34. CASE \E intent \in Intents : StopStart(intent)
    BY <1>34 DEF IInv, Shapes, TypeOK, StopStart, Free, Poisoned, Protected, Preflight, Mode,
        Entry, guest, Inspectable, Quiet, Certified, Stopped, ContainerRunning, Leased,
        Children, Readers, NoHandler, NoTask, Owned, BootPoints, Intents
  <1>35. CASE StopPublish
    BY <1>35 DEF IInv, Shapes, TypeOK, StopPublish, At, Certified, Go, Done, ContainerRunning,
        Send, guest, NoTask, Owned, BootPoints
  <1>36. CASE StopAnswered
    BY <1>36 DEF IInv, Shapes, TypeOK, StopAnswered, Received, NoCall, Done, Go, guest, NoTask,
        At, Owned, BootPoints
  <1>37. CASE StopExit
    BY <1>37 DEF IInv, Shapes, TypeOK, StopExit, At, Go, Done, record, guest, NoTask, Owned,
        BootPoints
  <1>38. CASE StopVerify
    BY <1>38 DEF IInv, Shapes, TypeOK, StopVerify, At, Certified, Go, Done, record, NoTask,
        Owned, BootPoints
  <1>39. CASE StopGone
    BY <1>39 DEF IInv, Shapes, TypeOK, StopGone, At, Done, guest, NoTask, Owned, BootPoints
  <1>40. CASE CompleteStart
    BY <1>40, Completing DEF IInv, Shapes, TypeOK, Owned, BootPoints
  <1>41. CASE CompleteFinish
    BY <1>41 DEF IInv, Shapes, TypeOK, CompleteFinish, At, Inspectable, Quiet, Done, guest,
        NoTask, Leased, Children, Readers, NoHandler, Owned, BootPoints
  <1>42. CASE Crash
    BY <1>42 DEF IInv, Shapes, TypeOK, Crash, Fault, Aborted, record, Done, NoCall, Pending,
        Orphan, Request, NoTask, Owned, BootPoints
  <1>43. CASE Timeout
    BY <1>43 DEF IInv, Shapes, TypeOK, Timeout, Pending, Fault, Aborted, record, Done, NoCall,
        Orphan, Request, NoTask, Owned, BootPoints
  <1>44. CASE Drop
    BY <1>44 DEF IInv, Shapes, TypeOK, Drop, Pending, Fault, Orphan, record, Request, Owned,
        BootPoints
  <1>45. ASSUME NEW r \in Requests, NEW own \in BOOLEAN,
              Contended(r, own) \/ RefusedStopping(r, own) \/ Register(r, own)
       PROVE  Shapes'
    BY <1>45 DEF IInv, Shapes, Owned, BootPoints, Contended, RefusedStopping, Register,
        guest, record
  <1>46. CASE (\E t \in Tickets : Connect(t)) \/ (\E t \in Tickets : Admit(t)) \/
            (\E t \in Tickets : Work(t)) \/ (\E t \in Tickets : Disconnect(t)) \/
            (\E t \in Tickets : ChildEnds(t)) \/ (\E t \in Tickets : ExportEnds(t)) \/
            Consume \/ Open
    BY <1>46 DEF IInv, Shapes, Owned, BootPoints, Connect, Admit, Work, Disconnect,
        ChildEnds, ExportEnds, Consume, Open, host, record
  <1>47. CASE Sync \/ Unmark \/ Certify \/ Vanish \/
            (\E t \in Tickets : MountLost(t)) \/ (\E t \in Tickets : Terminal(t)) \/
            MaintenanceEnds \/ Recover
    BY <1>47 DEF IInv, Shapes, Owned, BootPoints, Sync, Unmark, Certify, Vanish,
        MountLost, Terminal, MaintenanceEnds, Recover, guest, host, record
  <1>48. CASE UNCHANGED vars
    BY <1>48 DEF IInv, Shapes, Owned, BootPoints, vars
  <1>49. QED
    BY Arrivals, <1>1, <1>2, <1>3, <1>4, <1>5, <1>6, <1>7, <1>8, <1>9, <1>10, <1>11,
       <1>12, <1>13, <1>14, <1>15, <1>16, <1>17, <1>18, <1>19, <1>20, <1>21, <1>22, <1>23,
       <1>24, <1>25, <1>26, <1>27, <1>28, <1>29, <1>30, <1>31, <1>32, <1>33, <1>34, <1>35,
       <1>36, <1>37, <1>38, <1>39, <1>40, <1>41, <1>42, <1>43, <1>44, <1>45, <1>46, <1>47,
       <1>48 DEF Next, GuestStep, HostStep, Take

LEMMA CallsStep ==
  ASSUME IInv, [Next]_vars
  PROVE  Calls'
  <1>1. ASSUME NEW r \in Requests, NEW own \in BOOLEAN, Arrived(r, own), Contended(r, own)
       PROVE  Calls'
    BY <1>1 DEF IInv, Calls, TypeOK, Shapes, Contended, Answers, NoHandler, Answer, record,
        guest, Owned, Counting, Arrived
  <1>2. ASSUME NEW r \in Requests, NEW own \in BOOLEAN, Arrived(r, own), RefusedStopping(r, own)
       PROVE  Calls'
    BY <1>2 DEF IInv, Calls, TypeOK, Shapes, RefusedStopping, Answers, NoHandler, Answer,
        record, guest, Owned, Counting, Arrived
  <1>3. ASSUME NEW r \in Requests, NEW own \in BOOLEAN, Arrived(r, own), Register(r, own)
       PROVE  Calls'
    BY <1>3, RequestShape, OwnRequest DEF IInv, Calls, TypeOK, Shapes, Register, GuestIdle,
        Answer, record, NoHandler, Owned, Counting, Arrived
  <1>4. ASSUME NEW r \in Requests, NEW own \in BOOLEAN, Arrived(r, own), Release(r, own)
       PROVE  Calls'
    BY <1>4, RequestShape, OwnRequest, ReleaseDetached DEF IInv, Calls, TypeOK, Shapes, Release,
        GuestIdle, Answer, Hold, record, NoHandler, Owned, Counting, Arrived
  <1>5. ASSUME NEW r \in Requests, NEW own \in BOOLEAN, Arrived(r, own), Maintain(r, own)
       PROVE  Calls'
    BY <1>5, RequestShape, OwnRequest DEF IInv, Calls, TypeOK, Shapes, Maintain, GuestIdle,
        Leased, Answer, Hold, record, NoHandler, Owned, Counting, Arrived
  <1>6. CASE CensusDaemon
    BY <1>6 DEF IInv, Calls, TypeOK, Shapes, CensusDaemon, InHand, Children, NoHandler, Reply,
        record, Owned, Counting
  <1>7. CASE CensusBusy
    BY <1>7 DEF IInv, Calls, TypeOK, Shapes, CensusBusy, InHand, Readers, NoHandler, Reply,
        record, Owned, Counting
  <1>8. CASE LeaseRemoved
    BY <1>8 DEF IInv, Calls, TypeOK, Shapes, LeaseRemoved, InHand, Readers, NoHandler, Reply,
        record, Owned, Counting
  <1>9. CASE CollectBegins
    BY <1>9 DEF IInv, Calls, TypeOK, Shapes, CollectBegins, InHand, Readers, record, Owned,
        Counting
  <1>10. CASE CollectEnds
    BY <1>10 DEF IInv, Calls, TypeOK, Shapes, CollectEnds, InHand, NoHandler, Reply, record,
        Owned, Counting
  <1>11. CASE StopAccepted
    BY <1>11 DEF IInv, Calls, TypeOK, Shapes, StopAccepted, InHand, Readers, Reply, record,
        Owned, Counting
  <1>12. CASE Terminate
    BY <1>12 DEF IInv, Calls, TypeOK, Shapes, Terminate, InHand, Readers, NoHandler, record,
        Owned, Counting
  <1>13. CASE GuestCheck
    BY <1>13 DEF IInv, Calls, TypeOK, Shapes, GuestCheck, Certified, Leased, Dies, record,
        Emptied, NoHandler, Owned, Counting
  <1>14. CASE DaemonEnds
    BY <1>14 DEF IInv, Calls, TypeOK, Shapes, DaemonEnds, Children, Emptied, Dies, record,
        NoHandler, Owned, Counting
  <1>15. CASE GuestCrash
    BY <1>15 DEF IInv, Calls, TypeOK, Shapes, GuestCrash, ContainerRunning, Fault, Dies, record,
        Emptied, NoHandler, Owned, Counting
  <1>16. CASE Config
    BY <1>16 DEF IInv, Calls, TypeOK, Shapes, Config, Go, record, guest, Owned, Counting
  <1>17. CASE Create
    BY <1>17 DEF IInv, Calls, TypeOK, Shapes, Create, Go, record, Owned, Counting
  <1>18. CASE Record
    BY <1>18 DEF IInv, Calls, TypeOK, Shapes, Record, Go, guest, Owned, Counting
  <1>19. CASE Run
    BY <1>19 DEF IInv, Calls, TypeOK, Shapes, Run, Go, record, Owned, Counting
  <1>20. CASE Ready
    BY <1>20 DEF IInv, Calls, TypeOK, Shapes, Ready, Inspectable, Leased, Go, guest, NoHandler,
        Owned, Counting
  <1>21. CASE BootFails
    BY <1>21 DEF IInv, Calls, TypeOK, Shapes, BootFails, ContainerRunning, Fault, Done, record,
        guest, NoTask, Owned, Counting
  <1>22. CASE \E t \in Tickets : AdmitStart(t)
    BY <1>22 DEF IInv, Calls, TypeOK, Shapes, AdmitStart, Free, Inspectable, Certified, guest,
        NoHandler, NoTask, Owned, Counting
  <1>23. CASE AdmitIndex
    BY <1>23 DEF IInv, Calls, TypeOK, Shapes, AdmitIndex, At, Poisoned, Done, Owed, Answers, Go,
        guest, NoTask, Owned, Counting
  <1>24. CASE AdmitRegister
    BY <1>24 DEF IInv, Calls, TypeOK, Shapes, AdmitRegister, At, ContainerRunning, Send, Done,
        guest, NoTask, Owned, Counting
  <1>25. CASE AdmitRegistered
    BY <1>25 DEF IInv, Calls, TypeOK, Shapes, AdmitRegistered, Received, Go, Done, NoCall,
        guest, NoTask, At, Owned, Counting
  <1>26. CASE AdmitMount
    BY <1>26 DEF IInv, Calls, TypeOK, Shapes, AdmitMount, At, Go, Done, record, NoTask, Owned,
        Counting
  <1>27. CASE AdmitAttach
    BY <1>27 DEF IInv, Calls, TypeOK, Shapes, AdmitAttach, At, Go, Done, guest, NoTask, Owned,
        Counting
  <1>28. CASE AdmitDeliver
    BY <1>28 DEF IInv, Calls, TypeOK, Shapes, AdmitDeliver, At, Done, record, guest, NoTask,
        Owned, Counting
  <1>29. CASE \E t \in Tickets : ReleaseStart(t)
    BY <1>29 DEF IInv, Calls, TypeOK, Shapes, ReleaseStart, Free, Retire, guest, NoTask, Owned,
        Counting
  <1>30. CASE Unmount
    BY <1>30 DEF IInv, Calls, TypeOK, Shapes, Unmount, At, Go, Fault, Abandon, record, guest,
        Done, Retire, NoTask, Owned, Counting
  <1>31. CASE Detach
    BY <1>31 DEF IInv, Calls, TypeOK, Shapes, Detach, At, Go, guest, Owned, Counting
  <1>32. CASE ReleaseCall
    BY <1>32 DEF IInv, Calls, TypeOK, Shapes, ReleaseCall, At, ContainerRunning, Send, Abandon,
        record, guest, Done, Retire, NoTask, Owned, Counting
  <1>33. CASE Released
    BY <1>33 DEF IInv, Calls, TypeOK, Shapes, Released, Received, NoCall, Go, Done, Abandon,
        guest, Retire, NoTask, At, Owned, Counting
  <1>34. CASE ReleaseIndex
    BY <1>34 DEF IInv, Calls, TypeOK, Shapes, ReleaseIndex, At, Abandon, guest, Done, Retire,
        NoTask, Owned, Counting
  <1>35. CASE CollectStart
    BY <1>35 DEF IInv, Calls, TypeOK, Shapes, CollectStart, Free, Poisoned, Protected,
        ContainerRunning, record, guest, NoTask, Owned, Counting
  <1>36. CASE CollectDone
    BY <1>36 DEF IInv, Calls, TypeOK, Shapes, CollectDone, Received, Done, NoCall, record,
        guest, NoTask, At, Owned, Counting
  <1>37. CASE \E intent \in Intents : StopStart(intent)
    BY <1>37 DEF IInv, Calls, TypeOK, Shapes, StopStart, Free, Poisoned, Protected, Preflight,
        Mode, Entry, guest, Inspectable, Quiet, Certified, Stopped, ContainerRunning,
        Leased, Children, Readers, NoHandler, NoTask, Owned, Counting
  <1>38. CASE StopPublish
    BY <1>38 DEF IInv, Calls, TypeOK, Shapes, StopPublish, At, Certified, Go, Done,
        ContainerRunning, Send, guest, NoTask, Owned, Counting
  <1>39. CASE StopAnswered
    BY <1>39 DEF IInv, Calls, TypeOK, Shapes, StopAnswered, Received, NoCall, Done, Go, guest,
        NoTask, At, Owned, Counting
  <1>40. CASE StopExit
    BY <1>40 DEF IInv, Calls, TypeOK, Shapes, StopExit, At, Go, Done, record, guest, NoTask,
        Owned, Counting
  <1>41. CASE StopVerify
    BY <1>41 DEF IInv, Calls, TypeOK, Shapes, StopVerify, At, Certified, Go, Done, record,
        NoTask, Owned, Counting
  <1>42. CASE StopGone
    BY <1>42 DEF IInv, Calls, TypeOK, Shapes, StopGone, At, Done, guest, NoTask, Owned, Counting
  <1>43. CASE CompleteStart
    BY <1>43 DEF IInv, Calls, TypeOK, Shapes, CompleteStart, Free, Protected, Certified, guest,
        NoTask, Owned, Counting
  <1>44. CASE CompleteFinish
    BY <1>44 DEF IInv, Calls, TypeOK, Shapes, CompleteFinish, At, Inspectable, Quiet, Done,
        guest, NoTask, Leased, Children, Readers, NoHandler, Owned, Counting
  <1>45. CASE Crash
    BY <1>45 DEF IInv, Calls, TypeOK, Shapes, Crash, Fault, Aborted, record, Done, NoCall,
        Pending, Orphan, Request, NoTask, Owned, Counting
  <1>46. CASE Timeout
    BY <1>46 DEF IInv, Calls, TypeOK, Shapes, Timeout, Pending, Fault, Aborted, record, Done,
        NoCall, Orphan, Request, NoTask, Owned, Counting
  <1>47. CASE Drop
    BY <1>47 DEF IInv, Calls, TypeOK, Shapes, Drop, Pending, Fault, Orphan, record, Request,
        Owned, Counting
  <1>48. CASE (\E t \in Tickets : Connect(t)) \/ (\E t \in Tickets : Admit(t)) \/
            (\E t \in Tickets : Work(t)) \/ (\E t \in Tickets : Disconnect(t)) \/
            (\E t \in Tickets : ChildEnds(t)) \/ (\E t \in Tickets : ExportEnds(t)) \/
            Consume \/ Open
    BY <1>48 DEF IInv, Calls, Owned, Counting, Connect, Admit, Work, Disconnect,
        ChildEnds, ExportEnds, Consume, Open, host, record
  <1>49. CASE Sync \/ Unmark \/ Certify \/ Vanish \/
            (\E t \in Tickets : MountLost(t)) \/ (\E t \in Tickets : Terminal(t)) \/
            MaintenanceEnds \/ Recover
    BY <1>49 DEF IInv, Calls, Owned, Counting, Sync, Unmark, Certify, Vanish, MountLost,
        Terminal, MaintenanceEnds, Recover, guest, host, record
  <1>50. CASE UNCHANGED vars
    BY <1>50 DEF IInv, Calls, Owned, Counting, vars
  <1>51. QED
    BY Arrivals, <1>1, <1>2, <1>3, <1>4, <1>5, <1>6, <1>7, <1>8, <1>9, <1>10, <1>11,
       <1>12, <1>13, <1>14, <1>15, <1>16, <1>17, <1>18, <1>19, <1>20, <1>21, <1>22, <1>23,
       <1>24, <1>25, <1>26, <1>27, <1>28, <1>29, <1>30, <1>31, <1>32, <1>33, <1>34, <1>35,
       <1>36, <1>37, <1>38, <1>39, <1>40, <1>41, <1>42, <1>43, <1>44, <1>45, <1>46, <1>47,
       <1>48, <1>49, <1>50 DEF Next, GuestStep, HostStep, Take

LEMMA ProgressStep ==
  ASSUME IInv, [Next]_vars
  PROVE  Progress'
  <1>1. CASE Config
    BY <1>1 DEF IInv, Progress, TypeOK, Shapes, Storage, Config, Go, record, guest, BootPoints
  <1>2. CASE Create
    BY <1>2 DEF IInv, Progress, TypeOK, Shapes, Storage, Create, Go, record, BootPoints
  <1>3. CASE Record
    BY <1>3 DEF IInv, Progress, TypeOK, Shapes, Storage, Record, Go, guest, BootPoints
  <1>4. CASE Run
    BY <1>4 DEF IInv, Progress, TypeOK, Shapes, Storage, Run, Go, record, BootPoints
  <1>5. CASE Ready
    BY <1>5 DEF IInv, Progress, TypeOK, Shapes, Storage, Ready, Inspectable, Leased, Go, guest,
        NoHandler, BootPoints
  <1>6. CASE BootFails
    BY <1>6 DEF IInv, Progress, TypeOK, Shapes, Storage, BootFails, ContainerRunning, Fault,
        Done, record, guest, NoTask, BootPoints
  <1>7. CASE \E t \in Tickets : AdmitStart(t)
    BY <1>7 DEF IInv, Progress, TypeOK, Shapes, Storage, AdmitStart, Free, Inspectable,
        Certified, guest, NoHandler, NoTask, BootPoints
  <1>8. CASE AdmitIndex
    BY <1>8 DEF IInv, Progress, TypeOK, Shapes, Storage, AdmitIndex, At, Poisoned, Done, Owed,
        Answers, Go, guest, NoTask, BootPoints
  <1>9. CASE AdmitRegister
    BY <1>9 DEF IInv, Progress, TypeOK, Shapes, Storage, AdmitRegister, At, ContainerRunning,
        Send, Done, guest, NoTask, BootPoints
  <1>10. CASE AdmitRegistered
    BY <1>10 DEF IInv, Progress, TypeOK, Shapes, Storage, AdmitRegistered, Received, Go, Done,
        NoCall, guest, NoTask, At, BootPoints
  <1>11. CASE AdmitMount
    BY <1>11 DEF IInv, Progress, TypeOK, Shapes, Storage, AdmitMount, At, Go, Done, record,
        NoTask, BootPoints
  <1>12. CASE AdmitAttach
    BY <1>12 DEF IInv, Progress, TypeOK, Shapes, Storage, AdmitAttach, At, Go, Done, guest,
        NoTask, BootPoints
  <1>13. CASE AdmitDeliver
    BY <1>13 DEF IInv, Progress, TypeOK, Shapes, Storage, AdmitDeliver, At, Done, record, guest,
        NoTask, BootPoints
  <1>14. CASE \E t \in Tickets : ReleaseStart(t)
    BY <1>14 DEF IInv, Progress, TypeOK, Shapes, Storage, ReleaseStart, Free, Retire, guest,
        NoTask, BootPoints
  <1>15. CASE Unmount
    BY <1>15 DEF IInv, Progress, TypeOK, Shapes, Storage, Unmount, At, Go, Fault, Abandon,
        record, guest, Done, Retire, NoTask, BootPoints
  <1>16. CASE Detach
    BY <1>16 DEF IInv, Progress, TypeOK, Shapes, Storage, Detach, At, Go, guest, BootPoints
  <1>17. CASE ReleaseCall
    BY <1>17 DEF IInv, Progress, TypeOK, Shapes, Storage, ReleaseCall, At, ContainerRunning,
        Send, Abandon, record, guest, Done, Retire, NoTask, BootPoints
  <1>18. CASE Released
    BY <1>18 DEF IInv, Progress, TypeOK, Shapes, Storage, Released, Received, NoCall, Go, Done,
        Abandon, guest, Retire, NoTask, At, BootPoints
  <1>19. CASE ReleaseIndex
    BY <1>19 DEF IInv, Progress, TypeOK, Shapes, Storage, ReleaseIndex, At, Abandon, guest,
        Done, Retire, NoTask, BootPoints
  <1>20. CASE CollectStart
    BY <1>20 DEF IInv, Progress, TypeOK, Shapes, Storage, CollectStart, Free, Poisoned,
        Protected, ContainerRunning, record, guest, NoTask, BootPoints
  <1>21. CASE CollectDone
    BY <1>21 DEF IInv, Progress, TypeOK, Shapes, Storage, CollectDone, Received, Done, NoCall,
        record, guest, NoTask, At, BootPoints
  <1>22. CASE \E intent \in Intents : StopStart(intent)
    BY <1>22 DEF IInv, Progress, TypeOK, Shapes, Storage, StopStart, Free, Poisoned, Protected,
        Preflight, Mode, Entry, guest, Inspectable, Quiet, Certified, Stopped,
        ContainerRunning, Leased, Children, Readers, NoHandler, NoTask, BootPoints,
        Intents
  <1>23. CASE StopPublish
    BY <1>23 DEF IInv, Progress, TypeOK, Shapes, Storage, StopPublish, At, Certified, Go, Done,
        ContainerRunning, Send, guest, NoTask, BootPoints
  <1>24. CASE StopAnswered
    BY <1>24 DEF IInv, Progress, TypeOK, Shapes, Storage, StopAnswered, Received, NoCall, Done,
        Go, guest, NoTask, At, BootPoints
  <1>25. CASE StopExit
    BY <1>25 DEF IInv, Progress, TypeOK, Shapes, Storage, StopExit, At, Go, Done, record, guest,
        NoTask, BootPoints
  <1>26. CASE StopVerify
    BY <1>26 DEF IInv, Progress, TypeOK, Shapes, Storage, StopVerify, At, Certified, Go, Done,
        record, NoTask, BootPoints
  <1>27. CASE StopGone
    BY <1>27 DEF IInv, Progress, TypeOK, Shapes, Storage, StopGone, At, Done, guest, NoTask,
        BootPoints
  <1>28. CASE CompleteStart
    BY <1>28, Completing DEF IInv, Progress, TypeOK, Shapes, Storage, BootPoints
  <1>29. CASE CompleteFinish
    BY <1>29 DEF IInv, Progress, TypeOK, Shapes, Storage, CompleteFinish, At, Inspectable,
        Quiet, Done, guest, NoTask, Leased, Children, Readers, NoHandler, BootPoints
  <1>30. CASE MaintenanceEnds
    BY <1>30 DEF IInv, Progress, TypeOK, Shapes, Storage, MaintenanceEnds, Free, record, guest,
        NoTask, BootPoints
  <1>31. CASE Crash
    BY <1>31 DEF IInv, Progress, TypeOK, Shapes, Storage, Crash, Fault, Aborted, record, Done,
        NoCall, Pending, Orphan, Request, NoTask, BootPoints
  <1>32. CASE Timeout
    BY <1>32 DEF IInv, Progress, TypeOK, Shapes, Storage, Timeout, Pending, Fault, Aborted,
        record, Done, NoCall, Orphan, Request, NoTask, BootPoints
  <1>33. ASSUME NEW r \in Requests, NEW own \in BOOLEAN,
              Contended(r, own) \/ RefusedStopping(r, own) \/ Register(r, own) \/ Release(r, own) \/ Maintain(r, own)
       PROVE  Progress'
    BY <1>33 DEF IInv, Progress, BootPoints, Contended, RefusedStopping, Register,
        Release, Maintain, guest, record
  <1>34. CASE CensusDaemon \/ CensusBusy \/ LeaseRemoved \/ CollectBegins \/
            CollectEnds \/ StopAccepted \/ Terminate \/ (\E t \in Tickets : Connect(t))
    BY <1>34 DEF IInv, Progress, BootPoints, CensusDaemon, CensusBusy, LeaseRemoved,
        CollectBegins, CollectEnds, StopAccepted, Terminate, Connect, host, record
  <1>35. CASE (\E t \in Tickets : Admit(t)) \/ (\E t \in Tickets : Work(t)) \/
            (\E t \in Tickets : Disconnect(t)) \/ (\E t \in Tickets : ChildEnds(t)) \/
            (\E t \in Tickets : ExportEnds(t)) \/ GuestCheck \/ Consume \/ Open
    BY <1>35 DEF IInv, Progress, BootPoints, Admit, Work, Disconnect, ChildEnds,
        ExportEnds, GuestCheck, Consume, Open, host, record
  <1>36. CASE DaemonEnds \/ Sync \/ Unmark \/ Certify \/ GuestCrash \/ Vanish \/
            (\E t \in Tickets : MountLost(t)) \/ (\E t \in Tickets : Terminal(t))
    BY <1>36 DEF IInv, Progress, BootPoints, DaemonEnds, Sync, Unmark, Certify,
        GuestCrash, Vanish, MountLost, Terminal, guest, host, record
  <1>37. CASE Drop \/ Recover
    BY <1>37 DEF IInv, Progress, BootPoints, Drop, Recover, guest, record
  <1>38. CASE UNCHANGED vars
    BY <1>38 DEF IInv, Progress, BootPoints, vars
  <1>39. QED
    BY Arrivals, <1>1, <1>2, <1>3, <1>4, <1>5, <1>6, <1>7, <1>8, <1>9, <1>10, <1>11,
       <1>12, <1>13, <1>14, <1>15, <1>16, <1>17, <1>18, <1>19, <1>20, <1>21, <1>22, <1>23,
       <1>24, <1>25, <1>26, <1>27, <1>28, <1>29, <1>30, <1>31, <1>32, <1>33, <1>34, <1>35,
       <1>36, <1>37, <1>38 DEF Next, GuestStep, HostStep, Take

LEMMA AdmissionStep ==
  ASSUME IInv, [Next]_vars
  PROVE  Admission'
  <1>1. ASSUME NEW r \in Requests, NEW own \in BOOLEAN, Arrived(r, own), Contended(r, own)
       PROVE  Admission'
    BY <1>1 DEF IInv, Admission, TypeOK, Shapes, Calls, Progress, Contended, Answers,
        NoHandler, Answer, record, guest, Arrived
  <1>2. ASSUME NEW r \in Requests, NEW own \in BOOLEAN, Arrived(r, own), RefusedStopping(r, own)
       PROVE  Admission'
    BY <1>2 DEF IInv, Admission, TypeOK, Shapes, Calls, Progress, RefusedStopping, Answers,
        NoHandler, Answer, record, guest, Arrived
  <1>3. ASSUME NEW r \in Requests, NEW own \in BOOLEAN, Arrived(r, own), Register(r, own)
       PROVE  Admission'
    BY <1>3, RequestShape, OwnRequest DEF IInv, Admission, TypeOK, Shapes, Calls, Progress,
        Register, GuestIdle, Answer, record, NoHandler, Arrived
  <1>4. ASSUME NEW r \in Requests, NEW own \in BOOLEAN, Arrived(r, own), Release(r, own)
       PROVE  Admission'
    BY <1>4, RequestShape, OwnRequest, ReleaseDetached DEF IInv, Admission, TypeOK, Shapes,
        Calls, Progress, Release, GuestIdle, Answer, Hold, record, NoHandler, Arrived
  <1>5. ASSUME NEW r \in Requests, NEW own \in BOOLEAN, Arrived(r, own), Maintain(r, own)
       PROVE  Admission'
    BY <1>5, RequestShape, OwnRequest DEF IInv, Admission, TypeOK, Shapes, Calls, Progress,
        Maintain, GuestIdle, Leased, Answer, Hold, record, NoHandler, Arrived
  <1>6. CASE CensusDaemon
    BY <1>6 DEF IInv, Admission, TypeOK, Shapes, Calls, Progress, CensusDaemon, InHand,
        Children, NoHandler, Reply, record
  <1>7. CASE CensusBusy
    BY <1>7 DEF IInv, Admission, TypeOK, Shapes, Calls, Progress, CensusBusy, InHand, Readers,
        NoHandler, Reply, record
  <1>8. CASE LeaseRemoved
    BY <1>8 DEF IInv, Admission, TypeOK, Shapes, Calls, Unmounted, LeaseRemoved, InHand,
        Readers, NoHandler, Reply, record, Owned, Counting
  <1>9. CASE CollectEnds
    BY <1>9 DEF IInv, Admission, TypeOK, Shapes, Calls, Progress, CollectEnds, InHand,
        NoHandler, Reply, record, Owned, Counting
  <1>10. CASE StopAccepted
    BY <1>10 DEF IInv, Admission, TypeOK, Shapes, Calls, Progress, StopAccepted, InHand,
        Readers, Reply, record
  <1>11. CASE GuestCheck
    BY <1>11 DEF IInv, Admission, TypeOK, Shapes, Calls, Progress, GuestCheck, Certified,
        Leased, Dies, record, Emptied, NoHandler
  <1>12. CASE DaemonEnds
    BY <1>12 DEF IInv, Admission, TypeOK, Shapes, Calls, Progress, DaemonEnds, Children,
        Emptied, Dies, record, NoHandler
  <1>13. CASE GuestCrash
    BY <1>13 DEF IInv, Admission, TypeOK, Shapes, Calls, Progress, GuestCrash, ContainerRunning,
        Fault, Dies, record, Emptied, NoHandler
  <1>14. CASE Config
    BY <1>14 DEF IInv, Admission, TypeOK, Shapes, Calls, Progress, Config, Go, record, guest
  <1>15. CASE Create
    BY <1>15 DEF IInv, Admission, TypeOK, Shapes, Calls, Progress, Create, Go, record
  <1>16. CASE Record
    BY <1>16 DEF IInv, Admission, TypeOK, Shapes, Calls, Progress, Record, Go, guest
  <1>17. CASE Run
    BY <1>17 DEF IInv, Admission, TypeOK, Shapes, Calls, Progress, Run, Go, record
  <1>18. CASE Ready
    BY <1>18 DEF IInv, Admission, TypeOK, Shapes, Calls, Progress, Ready, Inspectable, Leased,
        Go, guest, NoHandler
  <1>19. CASE BootFails
    BY <1>19 DEF IInv, Admission, TypeOK, Shapes, Calls, Progress, BootFails, ContainerRunning,
        Fault, Done, record, guest, NoTask
  <1>20. CASE \E t \in Tickets : AdmitStart(t)
    BY <1>20 DEF IInv, Admission, TypeOK, Shapes, Calls, Progress, AdmitStart, Free,
        Inspectable, Certified, guest, NoHandler, NoTask
  <1>21. CASE AdmitIndex
    BY <1>21 DEF IInv, Admission, TypeOK, Shapes, Calls, Progress, AdmitIndex, At, Poisoned,
        Done, Owed, Answers, Go, guest, NoTask
  <1>22. CASE AdmitRegister
    BY <1>22 DEF IInv, Admission, TypeOK, Shapes, Calls, Progress, AdmitRegister, At,
        ContainerRunning, Send, Done, guest, NoTask
  <1>23. CASE AdmitRegistered
    BY <1>23 DEF IInv, Admission, TypeOK, Shapes, Calls, Progress, AdmitRegistered, Received,
        Go, Done, NoCall, guest, NoTask, At
  <1>24. CASE AdmitMount
    BY <1>24 DEF IInv, Admission, TypeOK, Shapes, Calls, Progress, AdmitMount, At, Go, Done,
        record, NoTask
  <1>25. CASE AdmitAttach
    BY <1>25 DEF IInv, Admission, TypeOK, Shapes, Calls, Progress, AdmitAttach, At, Go, Done,
        guest, NoTask
  <1>26. CASE AdmitDeliver
    BY <1>26 DEF IInv, Admission, TypeOK, Shapes, Calls, Progress, AdmitDeliver, At, Done,
        record, guest, NoTask
  <1>27. CASE \E t \in Tickets : ReleaseStart(t)
    BY <1>27 DEF IInv, Admission, TypeOK, Shapes, Calls, Progress, ReleaseStart, Free, Retire,
        guest, NoTask
  <1>28. CASE Unmount
    BY <1>28 DEF IInv, Admission, TypeOK, Shapes, Calls, Progress, Unmount, At, Go, Fault,
        Abandon, record, guest, Done, Retire, NoTask
  <1>29. CASE Detach
    BY <1>29 DEF IInv, Admission, TypeOK, Shapes, Calls, Progress, Detach, At, Go, guest
  <1>30. CASE ReleaseCall
    BY <1>30 DEF IInv, Admission, TypeOK, Shapes, Calls, Progress, ReleaseCall, At,
        ContainerRunning, Send, Abandon, record, guest, Done, Retire, NoTask
  <1>31. CASE Released
    BY <1>31 DEF IInv, Admission, TypeOK, Shapes, Calls, Progress, Released, Received, NoCall,
        Go, Done, Abandon, guest, Retire, NoTask, At
  <1>32. CASE ReleaseIndex
    BY <1>32 DEF IInv, Admission, TypeOK, Shapes, Calls, Progress, ReleaseIndex, At, Abandon,
        guest, Done, Retire, NoTask
  <1>33. CASE CollectStart
    BY <1>33 DEF IInv, Admission, TypeOK, Shapes, Calls, Progress, CollectStart, Free, Poisoned,
        Protected, ContainerRunning, record, guest, NoTask
  <1>34. CASE CollectDone
    BY <1>34 DEF IInv, Admission, TypeOK, Shapes, Calls, Progress, CollectDone, Received, Done,
        NoCall, record, guest, NoTask, At
  <1>35. CASE \E intent \in Intents : StopStart(intent)
    BY <1>35 DEF IInv, Admission, TypeOK, Shapes, Calls, Progress, StopStart, Free, Poisoned,
        Protected, Preflight, Mode, Entry, guest, Inspectable, Quiet, Certified, Stopped,
        ContainerRunning, Leased, Children, Readers, NoHandler, NoTask, Intents
  <1>36. CASE StopPublish
    BY <1>36 DEF IInv, Admission, TypeOK, Shapes, Calls, Progress, StopPublish, At, Certified,
        Go, Done, ContainerRunning, Send, guest, NoTask
  <1>37. CASE StopAnswered
    BY <1>37 DEF IInv, Admission, TypeOK, Shapes, Calls, Progress, StopAnswered, Received,
        NoCall, Done, Go, guest, NoTask, At
  <1>38. CASE StopExit
    BY <1>38 DEF IInv, Admission, TypeOK, Shapes, Calls, Progress, StopExit, At, Go, Done,
        record, guest, NoTask
  <1>39. CASE StopVerify
    BY <1>39 DEF IInv, Admission, TypeOK, Shapes, Calls, Progress, StopVerify, At, Certified,
        Go, Done, record, NoTask
  <1>40. CASE StopGone
    BY <1>40 DEF IInv, Admission, TypeOK, Shapes, Calls, Progress, StopGone, At, Done, guest,
        NoTask
  <1>41. CASE CompleteStart
    BY <1>41, Completing DEF IInv, Admission, TypeOK, Shapes, Calls, Progress
  <1>42. CASE CompleteFinish
    BY <1>42 DEF IInv, Admission, TypeOK, Shapes, Calls, Progress, CompleteFinish, At,
        Inspectable, Quiet, Done, guest, NoTask, Leased, Children, Readers, NoHandler
  <1>43. CASE Crash
    BY <1>43 DEF IInv, Admission, TypeOK, Shapes, Calls, Progress, Crash, Fault, Aborted,
        record, Done, NoCall, Pending, Orphan, Request, NoTask
  <1>44. CASE Timeout
    BY <1>44 DEF IInv, Admission, TypeOK, Shapes, Calls, Progress, Timeout, Pending, Fault,
        Aborted, record, Done, NoCall, Orphan, Request, NoTask
  <1>45. CASE Drop
    BY <1>45 DEF IInv, Admission, TypeOK, Shapes, Calls, Progress, Drop, Pending, Fault, Orphan,
        record, Request
  <1>46. CASE CollectBegins \/ Terminate \/ (\E t \in Tickets : Connect(t)) \/
            (\E t \in Tickets : Admit(t)) \/ (\E t \in Tickets : Work(t)) \/
            (\E t \in Tickets : Disconnect(t)) \/ (\E t \in Tickets : ChildEnds(t)) \/
            (\E t \in Tickets : ExportEnds(t))
    BY <1>46 DEF IInv, Admission, CollectBegins, Terminate, Connect, Admit, Work,
        Disconnect, ChildEnds, ExportEnds, host, record
  <1>47. CASE Consume \/ Open \/ Sync \/ Unmark \/ Certify \/ Vanish \/
            (\E t \in Tickets : MountLost(t)) \/ (\E t \in Tickets : Terminal(t))
    BY <1>47 DEF IInv, Admission, Consume, Open, Sync, Unmark, Certify, Vanish, MountLost,
        Terminal, guest, host, record
  <1>48. CASE MaintenanceEnds \/ Recover
    BY <1>48 DEF IInv, Admission, MaintenanceEnds, Recover, guest, record
  <1>49. CASE UNCHANGED vars
    BY <1>49 DEF IInv, Admission, vars
  <1>50. QED
    BY Arrivals, <1>1, <1>2, <1>3, <1>4, <1>5, <1>6, <1>7, <1>8, <1>9, <1>10, <1>11,
       <1>12, <1>13, <1>14, <1>15, <1>16, <1>17, <1>18, <1>19, <1>20, <1>21, <1>22, <1>23,
       <1>24, <1>25, <1>26, <1>27, <1>28, <1>29, <1>30, <1>31, <1>32, <1>33, <1>34, <1>35,
       <1>36, <1>37, <1>38, <1>39, <1>40, <1>41, <1>42, <1>43, <1>44, <1>45, <1>46, <1>47,
       <1>48, <1>49 DEF Next, GuestStep, HostStep, Take

LEMMA RetirementStep ==
  ASSUME IInv, [Next]_vars
  PROVE  Retirement'
  <1>1. CASE \E t \in Tickets : MountLost(t)
    BY <1>1 DEF IInv, Retirement, TypeOK, Shapes, MountLost, ContainerRunning, record, guest,
        host
  <1>2. CASE Config
    BY <1>2 DEF IInv, Retirement, TypeOK, Shapes, Config, Go, record, guest
  <1>3. CASE Create
    BY <1>3 DEF IInv, Retirement, TypeOK, Shapes, Create, Go, record
  <1>4. CASE Record
    BY <1>4 DEF IInv, Retirement, TypeOK, Shapes, Record, Go, guest
  <1>5. CASE Run
    BY <1>5 DEF IInv, Retirement, TypeOK, Shapes, Run, Go, record
  <1>6. CASE Ready
    BY <1>6 DEF IInv, Retirement, TypeOK, Shapes, Ready, Inspectable, Leased, Go, guest,
        NoHandler
  <1>7. CASE BootFails
    BY <1>7 DEF IInv, Retirement, TypeOK, Shapes, BootFails, ContainerRunning, Fault, Done,
        record, guest, NoTask
  <1>8. CASE \E t \in Tickets : AdmitStart(t)
    BY <1>8 DEF IInv, Retirement, TypeOK, Shapes, AdmitStart, Free, Inspectable, Certified,
        guest, NoHandler, NoTask
  <1>9. CASE AdmitIndex
    BY <1>9 DEF IInv, Retirement, TypeOK, Shapes, AdmitIndex, At, Poisoned, Done, Owed,
        Answers, Go, guest, NoTask
  <1>10. CASE AdmitRegister
    BY <1>10 DEF IInv, Retirement, TypeOK, Shapes, AdmitRegister, At, ContainerRunning, Send,
        Done, guest, NoTask
  <1>11. CASE AdmitRegistered
    BY <1>11 DEF IInv, Retirement, TypeOK, Shapes, AdmitRegistered, Received, Go, Done, NoCall,
        guest, NoTask, At
  <1>12. CASE AdmitMount
    BY <1>12 DEF IInv, Retirement, TypeOK, Shapes, AdmitMount, At, Go, Done, record, NoTask
  <1>13. CASE AdmitAttach
    BY <1>13 DEF IInv, Retirement, TypeOK, Shapes, AdmitAttach, At, Go, Done, guest, NoTask
  <1>14. CASE AdmitDeliver
    BY <1>14 DEF IInv, Retirement, TypeOK, Shapes, AdmitDeliver, At, Done, record, guest, NoTask
  <1>15. CASE \E t \in Tickets : ReleaseStart(t)
    BY <1>15 DEF IInv, Retirement, TypeOK, Shapes, ReleaseStart, Free, Retire, guest, NoTask
  <1>16. CASE Unmount
    BY <1>16 DEF IInv, Retirement, TypeOK, Shapes, Unmount, At, Go, Fault, Abandon, record,
        guest, Done, Retire, NoTask
  <1>17. CASE Detach
    BY <1>17 DEF IInv, Retirement, TypeOK, Shapes, Detach, At, Go, guest
  <1>18. CASE ReleaseCall
    BY <1>18 DEF IInv, Retirement, TypeOK, Shapes, ReleaseCall, At, ContainerRunning, Send,
        Abandon, record, guest, Done, Retire, NoTask
  <1>19. CASE Released
    BY <1>19 DEF IInv, Retirement, TypeOK, Shapes, Released, Received, NoCall, Go, Done,
        Abandon, guest, Retire, NoTask, At
  <1>20. CASE ReleaseIndex
    BY <1>20 DEF IInv, Retirement, TypeOK, Shapes, ReleaseIndex, At, Abandon, guest, Done,
        Retire, NoTask
  <1>21. CASE CollectStart
    BY <1>21 DEF IInv, Retirement, TypeOK, Shapes, CollectStart, Free, Poisoned, Protected,
        ContainerRunning, record, guest, NoTask
  <1>22. CASE CollectDone
    BY <1>22 DEF IInv, Retirement, TypeOK, Shapes, CollectDone, Received, Done, NoCall, record,
        guest, NoTask, At
  <1>23. CASE \E intent \in Intents : StopStart(intent)
    BY <1>23 DEF IInv, Retirement, TypeOK, Shapes, StopStart, Free, Poisoned, Protected,
        Preflight, Mode, Entry, guest, Inspectable, Quiet, Certified, Stopped,
        ContainerRunning, Leased, Children, Readers, NoHandler, NoTask, Intents
  <1>24. CASE StopPublish
    BY <1>24 DEF IInv, Retirement, TypeOK, Shapes, StopPublish, At, Certified, Go, Done,
        ContainerRunning, Send, guest, NoTask
  <1>25. CASE StopAnswered
    BY <1>25 DEF IInv, Retirement, TypeOK, Shapes, StopAnswered, Received, NoCall, Done, Go,
        guest, NoTask, At
  <1>26. CASE StopExit
    BY <1>26 DEF IInv, Retirement, TypeOK, Shapes, StopExit, At, Go, Done, record, guest, NoTask
  <1>27. CASE StopVerify
    BY <1>27 DEF IInv, Retirement, TypeOK, Shapes, StopVerify, At, Certified, Go, Done, record,
        NoTask
  <1>28. CASE StopGone
    BY <1>28 DEF IInv, Retirement, TypeOK, Shapes, StopGone, At, Done, guest, NoTask
  <1>29. CASE CompleteStart
    BY <1>29, Completing DEF IInv, Retirement, TypeOK, Shapes
  <1>30. CASE CompleteFinish
    BY <1>30 DEF IInv, Retirement, TypeOK, Shapes, CompleteFinish, At, Inspectable, Quiet, Done,
        guest, NoTask, Leased, Children, Readers, NoHandler
  <1>31. CASE Crash
    BY <1>31 DEF IInv, Retirement, TypeOK, Shapes, Crash, Fault, Aborted, record, Done, NoCall,
        Pending, Orphan, Request, NoTask
  <1>32. CASE Timeout
    BY <1>32 DEF IInv, Retirement, TypeOK, Shapes, Timeout, Pending, Fault, Aborted, record,
        Done, NoCall, Orphan, Request, NoTask
  <1>33. ASSUME NEW r \in Requests, NEW own \in BOOLEAN,
              Contended(r, own) \/ RefusedStopping(r, own) \/ Register(r, own) \/ Release(r, own) \/ Maintain(r, own)
       PROVE  Retirement'
    BY <1>33 DEF IInv, Retirement, Contended, RefusedStopping, Register, Release,
        Maintain, guest, record
  <1>34. CASE CensusDaemon \/ CensusBusy \/ LeaseRemoved \/ CollectBegins \/
            CollectEnds \/ StopAccepted \/ Terminate \/ (\E t \in Tickets : Connect(t))
    BY <1>34 DEF IInv, Retirement, CensusDaemon, CensusBusy, LeaseRemoved, CollectBegins,
        CollectEnds, StopAccepted, Terminate, Connect, host, record
  <1>35. CASE (\E t \in Tickets : Admit(t)) \/ (\E t \in Tickets : Work(t)) \/
            (\E t \in Tickets : Disconnect(t)) \/ (\E t \in Tickets : ChildEnds(t)) \/
            (\E t \in Tickets : ExportEnds(t)) \/ GuestCheck \/ Consume \/ Open
    BY <1>35 DEF IInv, Retirement, Admit, Work, Disconnect, ChildEnds, ExportEnds,
        GuestCheck, Consume, Open, host, record
  <1>36. CASE DaemonEnds \/ Sync \/ Unmark \/ Certify \/ GuestCrash \/ Vanish \/
            (\E t \in Tickets : Terminal(t)) \/ MaintenanceEnds
    BY <1>36 DEF IInv, Retirement, DaemonEnds, Sync, Unmark, Certify, GuestCrash, Vanish,
        Terminal, MaintenanceEnds, guest, host, record
  <1>37. CASE Drop \/ Recover
    BY <1>37 DEF IInv, Retirement, Drop, Recover, guest, record
  <1>38. CASE UNCHANGED vars
    BY <1>38 DEF IInv, Retirement, vars
  <1>39. QED
    BY Arrivals, <1>1, <1>2, <1>3, <1>4, <1>5, <1>6, <1>7, <1>8, <1>9, <1>10, <1>11,
       <1>12, <1>13, <1>14, <1>15, <1>16, <1>17, <1>18, <1>19, <1>20, <1>21, <1>22, <1>23,
       <1>24, <1>25, <1>26, <1>27, <1>28, <1>29, <1>30, <1>31, <1>32, <1>33, <1>34, <1>35,
       <1>36, <1>37, <1>38 DEF Next, GuestStep, HostStep, Take

LEMMA ProtectionStep ==
  ASSUME IInv, [Next]_vars
  PROVE  Protection'
  <1>1. ASSUME NEW r \in Requests, NEW own \in BOOLEAN, Arrived(r, own), Register(r, own)
       PROVE  Protection'
    BY <1>1, RequestShape, OwnRequest DEF IInv, Protection, TypeOK, Shapes, Progress, Admission,
        Retirement, Storage, Register, GuestIdle, Answer, record, NoHandler, Arrived
  <1>2. ASSUME NEW r \in Requests, NEW own \in BOOLEAN, Arrived(r, own), Release(r, own)
       PROVE  Protection'
    BY <1>2, RequestShape, OwnRequest, ReleaseDetached DEF IInv, Protection, TypeOK, Shapes,
        Release, GuestIdle, Answer, Hold, record, NoHandler, Arrived
  <1>3. CASE LeaseRemoved
    BY <1>3 DEF IInv, Protection, TypeOK, Shapes, Unmounted, LeaseRemoved, InHand, Readers,
        NoHandler, Reply, record
  <1>4. CASE Terminate
    BY <1>4 DEF IInv, Protection, TypeOK, Shapes, Progress, Admission, Retirement, Storage,
        Terminate, InHand, Readers, NoHandler, record
  <1>5. CASE GuestCheck
    BY <1>5 DEF IInv, Protection, TypeOK, Shapes, Progress, Admission, Retirement, Storage,
        GuestCheck, Certified, Leased, Dies, record, Emptied, NoHandler
  <1>6. CASE Consume
    BY <1>6 DEF IInv, Protection, TypeOK, Shapes, Progress, Admission, Retirement, Storage,
        Consume, record, host
  <1>7. CASE Open
    BY <1>7 DEF IInv, Protection, TypeOK, Shapes, Progress, Admission, Retirement, Storage,
        Open, record, host
  <1>8. CASE DaemonEnds
    BY <1>8 DEF IInv, Protection, TypeOK, Shapes, Progress, Admission, Retirement, Storage,
        DaemonEnds, Children, Emptied, Dies, record, NoHandler
  <1>9. CASE Sync
    BY <1>9 DEF IInv, Protection, TypeOK, Shapes, Progress, Admission, Retirement, Storage,
        Sync, record, host
  <1>10. CASE Unmark
    BY <1>10 DEF IInv, Protection, TypeOK, Shapes, Progress, Admission, Retirement, Storage,
        Unmark, record, host
  <1>11. CASE Certify
    BY <1>11 DEF IInv, Protection, TypeOK, Shapes, Progress, Admission, Retirement, Storage,
        Certify, record, host
  <1>12. CASE GuestCrash
    BY <1>12 DEF IInv, Protection, TypeOK, Shapes, Progress, Admission, Retirement, Storage,
        GuestCrash, ContainerRunning, Fault, Dies, record, Emptied, NoHandler
  <1>13. CASE Vanish
    BY <1>13 DEF IInv, Protection, TypeOK, Shapes, Progress, Admission, Retirement, Storage,
        Vanish, Fault, record, host
  <1>14. CASE \E t \in Tickets : MountLost(t)
    BY <1>14 DEF IInv, Protection, TypeOK, Shapes, Progress, Admission, Retirement, Storage,
        MountLost, ContainerRunning, record, guest, host
  <1>15. CASE Create
    BY <1>15 DEF IInv, Protection, TypeOK, Shapes, Progress, Admission, Retirement, Storage,
        Create, Go, record
  <1>16. CASE Record
    BY <1>16 DEF IInv, Protection, TypeOK, Shapes, Progress, Admission, Retirement, Storage,
        Record, Go, guest
  <1>17. CASE Run
    BY <1>17 DEF IInv, Protection, TypeOK, Shapes, Progress, Admission, Retirement, Storage,
        Run, Go, record
  <1>18. CASE Ready
    BY <1>18 DEF IInv, Protection, TypeOK, Shapes, Progress, Admission, Retirement, Storage,
        Ready, Inspectable, Leased, Go, guest, NoHandler
  <1>19. CASE \E t \in Tickets : AdmitStart(t)
    BY <1>19 DEF IInv, Protection, TypeOK, Shapes, Progress, Admission, Retirement, Storage,
        AdmitStart, Free, Inspectable, Certified, guest, NoHandler, NoTask
  <1>20. CASE AdmitIndex
    BY <1>20 DEF IInv, Protection, TypeOK, Shapes, Progress, Admission, Retirement, Storage,
        AdmitIndex, At, Poisoned, Done, Owed, Answers, Go, guest, NoTask
  <1>21. CASE AdmitRegister
    BY <1>21 DEF IInv, Protection, TypeOK, Shapes, Progress, Admission, Retirement, Storage,
        AdmitRegister, At, ContainerRunning, Send, Done, guest, NoTask, BootPoints
  <1>22. CASE AdmitRegistered
    BY <1>22 DEF IInv, Protection, TypeOK, Shapes, Progress, Admission, Retirement, Storage,
        AdmitRegistered, Received, Go, Done, NoCall, guest, NoTask, At
  <1>23. CASE AdmitMount
    BY <1>23 DEF IInv, Protection, TypeOK, Shapes, Progress, Admission, Retirement, Storage,
        AdmitMount, At, Go, Done, record, NoTask
  <1>24. CASE AdmitAttach
    BY <1>24 DEF IInv, Protection, TypeOK, Shapes, Progress, Admission, Retirement, Storage,
        AdmitAttach, At, Go, Done, guest, NoTask
  <1>25. CASE AdmitDeliver
    BY <1>25 DEF IInv, Protection, TypeOK, Shapes, Progress, Admission, Retirement, Storage,
        AdmitDeliver, At, Done, record, guest, NoTask
  <1>26. CASE \E t \in Tickets : Terminal(t)
    BY <1>26 DEF IInv, Protection, TypeOK, Shapes, Progress, Admission, Retirement, Storage,
        Terminal, record, guest, host
  <1>27. CASE \E t \in Tickets : ReleaseStart(t)
    BY <1>27 DEF IInv, Protection, TypeOK, Shapes, Progress, Admission, Retirement, Storage,
        ReleaseStart, Free, Retire, guest, NoTask
  <1>28. CASE Unmount
    BY <1>28 DEF IInv, Protection, TypeOK, Shapes, Progress, Admission, Retirement, Storage,
        Unmount, At, Go, Fault, Abandon, record, guest, Done, Retire, NoTask
  <1>29. CASE Detach
    BY <1>29 DEF IInv, Protection, TypeOK, Shapes, Progress, Admission, Retirement, Storage,
        Detach, At, Go, guest
  <1>30. CASE Released
    BY <1>30 DEF IInv, Protection, TypeOK, Shapes, Progress, Admission, Retirement, Storage,
        Released, Received, NoCall, Go, Done, Abandon, guest, Retire, NoTask, At
  <1>31. CASE ReleaseIndex
    BY <1>31 DEF IInv, Protection, TypeOK, Shapes, Progress, Admission, Retirement, Storage,
        ReleaseIndex, At, Abandon, guest, Done, Retire, NoTask
  <1>32. CASE \E intent \in Intents : StopStart(intent)
    BY <1>32 DEF IInv, Protection, TypeOK, Shapes, Progress, Admission, Retirement, Storage,
        StopStart, Free, Poisoned, Protected, Preflight, Mode, Entry, guest, Inspectable,
        Quiet, Certified, Stopped, ContainerRunning, Leased, Children, Readers, NoHandler,
        NoTask, Intents
  <1>33. CASE StopPublish
    BY <1>33 DEF IInv, Protection, TypeOK, Shapes, Progress, Admission, Retirement, Storage,
        StopPublish, At, Certified, Go, Done, ContainerRunning, Send, guest, NoTask
  <1>34. CASE StopAnswered
    BY <1>34 DEF IInv, Protection, TypeOK, Shapes, Progress, Admission, Retirement, Storage,
        StopAnswered, Received, NoCall, Done, Go, guest, NoTask, At
  <1>35. CASE StopVerify
    BY <1>35 DEF IInv, Protection, TypeOK, Shapes, Progress, Admission, Retirement, Storage,
        StopVerify, At, Certified, Go, Done, record, NoTask
  <1>36. CASE StopGone
    BY <1>36 DEF IInv, Protection, TypeOK, Shapes, Progress, Admission, Retirement, Storage,
        StopGone, At, Done, guest, NoTask
  <1>37. CASE CompleteStart
    BY <1>37, Completing DEF IInv, Protection, TypeOK, Shapes, Progress, Admission, Retirement,
        Storage
  <1>38. CASE CompleteFinish
    BY <1>38 DEF IInv, Protection, TypeOK, Shapes, Progress, Admission, Retirement, Storage,
        CompleteFinish, At, Inspectable, Quiet, Done, guest, NoTask, Leased, Children,
        Readers, NoHandler
  <1>39. ASSUME NEW r \in Requests, NEW own \in BOOLEAN,
              Contended(r, own) \/ RefusedStopping(r, own) \/ Maintain(r, own)
       PROVE  Protection'
    BY <1>39 DEF IInv, Protection, Contended, RefusedStopping, Maintain, guest, record
  <1>40. CASE CensusDaemon \/ CensusBusy \/ CollectBegins \/ CollectEnds \/
            StopAccepted \/ (\E t \in Tickets : Connect(t)) \/
            (\E t \in Tickets : Admit(t)) \/ (\E t \in Tickets : Work(t))
    BY <1>40 DEF IInv, Protection, CensusDaemon, CensusBusy, CollectBegins, CollectEnds,
        StopAccepted, Connect, Admit, Work, host, record
  <1>41. CASE (\E t \in Tickets : Disconnect(t)) \/ (\E t \in Tickets : ChildEnds(t)) \/
            (\E t \in Tickets : ExportEnds(t)) \/ Config \/ BootFails \/
            ReleaseCall \/ CollectStart \/ CollectDone
    BY <1>41 DEF IInv, Protection, Disconnect, ChildEnds, ExportEnds, Config, BootFails,
        ReleaseCall, CollectStart, CollectDone, guest, host, record
  <1>42. CASE StopExit \/ MaintenanceEnds \/ Crash \/ Timeout \/ Drop \/ Recover
    BY <1>42 DEF IInv, Protection, StopExit, MaintenanceEnds, Crash, Timeout, Drop,
        Recover, guest, record
  <1>43. CASE UNCHANGED vars
    BY <1>43 DEF IInv, Protection, vars
  <1>44. QED
    BY Arrivals, <1>1, <1>2, <1>3, <1>4, <1>5, <1>6, <1>7, <1>8, <1>9, <1>10, <1>11,
       <1>12, <1>13, <1>14, <1>15, <1>16, <1>17, <1>18, <1>19, <1>20, <1>21, <1>22, <1>23,
       <1>24, <1>25, <1>26, <1>27, <1>28, <1>29, <1>30, <1>31, <1>32, <1>33, <1>34, <1>35,
       <1>36, <1>37, <1>38, <1>39, <1>40, <1>41, <1>42, <1>43 DEF Next, GuestStep, HostStep, Take

LEMMA UnmountedStep ==
  ASSUME IInv, [Next]_vars
  PROVE  Unmounted'
  <1>1. ASSUME NEW r \in Requests, NEW own \in BOOLEAN, Arrived(r, own), Contended(r, own)
       PROVE  Unmounted'
    BY <1>1 DEF IInv, Unmounted, TypeOK, Shapes, Admission, Retirement, Contended, Answers,
        NoHandler, Answer, record, guest, Leased, Arrived
  <1>2. ASSUME NEW r \in Requests, NEW own \in BOOLEAN, Arrived(r, own), RefusedStopping(r, own)
       PROVE  Unmounted'
    BY <1>2 DEF IInv, Unmounted, TypeOK, Shapes, Admission, Retirement, RefusedStopping,
        Answers, NoHandler, Answer, record, guest, Leased, Arrived
  <1>3. ASSUME NEW r \in Requests, NEW own \in BOOLEAN, Arrived(r, own), Register(r, own)
       PROVE  Unmounted'
    BY <1>3, RequestShape, OwnRequest DEF IInv, Unmounted, TypeOK, Shapes, Admission,
        Retirement, Register, GuestIdle, Answer, record, NoHandler, Leased, Arrived
  <1>4. ASSUME NEW r \in Requests, NEW own \in BOOLEAN, Arrived(r, own), Release(r, own)
       PROVE  Unmounted'
    BY <1>4, RequestShape, OwnRequest, ReleaseDetached DEF IInv, Unmounted, TypeOK, Shapes,
        Release, GuestIdle, Answer, Hold, record, NoHandler, Leased, Arrived
  <1>5. ASSUME NEW r \in Requests, NEW own \in BOOLEAN, Arrived(r, own), Maintain(r, own)
       PROVE  Unmounted'
    BY <1>5, RequestShape, OwnRequest DEF IInv, Unmounted, TypeOK, Shapes, Admission,
        Retirement, Maintain, GuestIdle, Leased, Answer, Hold, record, NoHandler, Arrived
  <1>6. CASE CensusDaemon
    BY <1>6 DEF IInv, Unmounted, TypeOK, Shapes, Admission, Retirement, CensusDaemon, InHand,
        Children, NoHandler, Reply, record, Leased
  <1>7. CASE CensusBusy
    BY <1>7 DEF IInv, Unmounted, TypeOK, Shapes, Admission, Retirement, CensusBusy, InHand,
        Readers, NoHandler, Reply, record, Leased
  <1>8. CASE LeaseRemoved
    <2>1. handler.t \in Tickets /\ client[handler.t] \in {"detached", "released"}
      BY <1>8 DEF LeaseRemoved, InHand, IInv, Shapes, Unmounted
    <2>2. handler.t \notin mount /\ mount \subseteq Leased
      BY <2>1 DEF IInv, Unmounted
    <2>3. Leased' = Leased \ {handler.t}
      BY <1>8, <2>1 DEF LeaseRemoved, Leased, IInv, TypeOK
    <2>4. UNCHANGED <<mount, client, stray>> /\ handler' = NoHandler
      BY <1>8 DEF LeaseRemoved, record
    <2>5. QED
      BY <2>2, <2>3, <2>4 DEF IInv, Unmounted, NoHandler
  <1>9. CASE CollectBegins
    BY <1>9 DEF IInv, Unmounted, TypeOK, Shapes, Admission, Retirement, CollectBegins, InHand,
        Readers, record, Leased
  <1>10. CASE CollectEnds
    BY <1>10 DEF IInv, Unmounted, TypeOK, Shapes, Admission, Retirement, CollectEnds, InHand,
        NoHandler, Reply, record, Leased
  <1>11. CASE StopAccepted
    BY <1>11 DEF IInv, Unmounted, TypeOK, Shapes, Admission, Retirement, StopAccepted, InHand,
        Readers, Reply, record, Leased
  <1>12. CASE Terminate
    BY <1>12 DEF IInv, Unmounted, TypeOK, Shapes, Admission, Retirement, Terminate, InHand,
        Readers, NoHandler, record, Leased
  <1>13. CASE GuestCheck
    BY <1>13 DEF IInv, Unmounted, TypeOK, Shapes, Admission, Retirement, GuestCheck, Certified,
        Leased, Dies, record, Emptied, NoHandler
  <1>14. CASE DaemonEnds
    BY <1>14 DEF IInv, Unmounted, TypeOK, Shapes, Admission, Retirement, DaemonEnds, Children,
        Emptied, Dies, record, NoHandler, Leased
  <1>15. CASE GuestCrash
    <2>1. /\ UNCHANGED <<mount, client, lease>> /\ handler' = NoHandler /\ stray' = {}
      BY <1>15 DEF GuestCrash, Dies, Emptied, record
    <2>2. QED
      BY <2>1 DEF IInv, Unmounted, Leased, NoHandler
  <1>16. CASE \E t \in Tickets : MountLost(t)
    BY <1>16 DEF IInv, Unmounted, TypeOK, Shapes, Admission, Retirement, MountLost,
        ContainerRunning, record, guest, host, Leased
  <1>17. CASE AdmitRegister
    BY <1>17 DEF IInv, Unmounted, TypeOK, Shapes, Admission, Retirement, AdmitRegister, At,
        ContainerRunning, Send, Done, guest, NoTask, Leased
  <1>18. CASE AdmitRegistered
    BY <1>18 DEF IInv, Unmounted, TypeOK, Shapes, Admission, Retirement, AdmitRegistered,
        Received, Go, Done, NoCall, guest, NoTask, At, Leased
  <1>19. CASE AdmitMount
    BY <1>19 DEF IInv, Unmounted, TypeOK, Shapes, Admission, Retirement, AdmitMount, At, Go,
        Done, record, NoTask, Leased
  <1>20. CASE AdmitAttach
    BY <1>20 DEF IInv, Unmounted, TypeOK, Shapes, Admission, Retirement, AdmitAttach, At, Go,
        Done, guest, NoTask, Leased
  <1>21. CASE \E t \in Tickets : ReleaseStart(t)
    BY <1>21 DEF IInv, Unmounted, TypeOK, Shapes, Admission, Retirement, ReleaseStart, Free,
        Retire, guest, NoTask, Leased
  <1>22. CASE Unmount
    BY <1>22 DEF IInv, Unmounted, TypeOK, Shapes, Admission, Retirement, Unmount, At, Go, Fault,
        Abandon, record, guest, Done, Retire, NoTask, Leased
  <1>23. CASE Detach
    BY <1>23 DEF IInv, Unmounted, TypeOK, Shapes, Admission, Retirement, Detach, At, Go, guest,
        Leased
  <1>24. CASE Released
    BY <1>24 DEF IInv, Unmounted, TypeOK, Shapes, Admission, Retirement, Released, Received,
        NoCall, Go, Done, Abandon, guest, Retire, NoTask, At, Leased
  <1>25. CASE Crash
    BY <1>25 DEF IInv, Unmounted, TypeOK, Shapes, Admission, Retirement, Crash, Fault, Aborted,
        record, Done, NoCall, Pending, Orphan, Request, NoTask, Leased
  <1>26. CASE Timeout
    BY <1>26 DEF IInv, Unmounted, TypeOK, Shapes, Admission, Retirement, Timeout, Pending,
        Fault, Aborted, record, Done, NoCall, Orphan, Request, NoTask, Leased
  <1>27. CASE Drop
    BY <1>27 DEF IInv, Unmounted, TypeOK, Shapes, Admission, Retirement, Drop, Pending, Fault,
        Orphan, record, Request, Leased
  <1>28. CASE (\E t \in Tickets : Connect(t)) \/ (\E t \in Tickets : Admit(t)) \/
            (\E t \in Tickets : Work(t)) \/ (\E t \in Tickets : Disconnect(t)) \/
            (\E t \in Tickets : ChildEnds(t)) \/ (\E t \in Tickets : ExportEnds(t)) \/
            Consume \/ Open
    BY <1>28 DEF IInv, Unmounted, Leased, Connect, Admit, Work, Disconnect, ChildEnds,
        ExportEnds, Consume, Open, host, record
  <1>29. CASE Sync \/ Unmark \/ Certify \/ Vanish \/ Config \/ Create \/ Record \/
            Run
    BY <1>29 DEF IInv, Unmounted, Leased, Sync, Unmark, Certify, Vanish, Config, Create,
        Record, Run, guest, host, record
  <1>30. CASE Ready \/ BootFails \/ (\E t \in Tickets : AdmitStart(t)) \/
            AdmitIndex \/ AdmitDeliver \/ (\E t \in Tickets : Terminal(t)) \/
            ReleaseCall \/ ReleaseIndex
    BY <1>30 DEF IInv, Unmounted, Leased, Ready, BootFails, AdmitStart, AdmitIndex,
        AdmitDeliver, Terminal, ReleaseCall, ReleaseIndex, guest, host, record
  <1>31. CASE CollectStart \/ CollectDone \/
            (\E intent \in Intents : StopStart(intent)) \/ StopPublish \/
            StopAnswered \/ StopExit \/ StopVerify \/ StopGone
    BY <1>31 DEF IInv, Unmounted, Leased, CollectStart, CollectDone, StopStart,
        StopPublish, StopAnswered, StopExit, StopVerify, StopGone, guest, record
  <1>32. CASE CompleteStart \/ CompleteFinish \/ MaintenanceEnds \/ Recover
    BY <1>32 DEF IInv, Unmounted, Leased, CompleteStart, CompleteFinish, MaintenanceEnds,
        Recover, guest, record
  <1>33. CASE UNCHANGED vars
    BY <1>33 DEF IInv, Unmounted, Leased, vars
  <1>34. QED
    BY Arrivals, <1>1, <1>2, <1>3, <1>4, <1>5, <1>6, <1>7, <1>8, <1>9, <1>10, <1>11,
       <1>12, <1>13, <1>14, <1>15, <1>16, <1>17, <1>18, <1>19, <1>20, <1>21, <1>22, <1>23,
       <1>24, <1>25, <1>26, <1>27, <1>28, <1>29, <1>30, <1>31, <1>32, <1>33 DEF Next, GuestStep, HostStep, Take

LEMMA CountedStep ==
  ASSUME IInv, [Next]_vars
  PROVE  Counted'
  <1>1. ASSUME NEW r \in Requests, NEW own \in BOOLEAN, Arrived(r, own), Register(r, own)
       PROVE  Counted'
    BY <1>1 DEF IInv, Counted, TypeOK, Shapes, Admission, Register, GuestIdle, Answer, record,
        NoHandler, Readers, Leased, Arrived
  <1>2. ASSUME NEW r \in Requests, NEW own \in BOOLEAN, Arrived(r, own), Release(r, own)
       PROVE  Counted'
    BY <1>2 DEF IInv, Counted, TypeOK, Shapes, Admission, Release, GuestIdle, Answer, Hold,
        record, NoHandler, Readers, Leased, Arrived
  <1>3. ASSUME NEW r \in Requests, NEW own \in BOOLEAN, Arrived(r, own), Maintain(r, own)
       PROVE  Counted'
    BY <1>3 DEF IInv, Counted, TypeOK, Shapes, Admission, Maintain, GuestIdle, Leased, Answer,
        Hold, record, NoHandler, Readers, Arrived
  <1>4. CASE CensusDaemon
    BY <1>4 DEF IInv, Counted, TypeOK, Shapes, Admission, CensusDaemon, InHand, Children,
        NoHandler, Reply, record, Readers, Leased
  <1>5. CASE CensusBusy
    BY <1>5 DEF IInv, Counted, TypeOK, Shapes, Admission, CensusBusy, InHand, Readers,
        NoHandler, Reply, record, Leased
  <1>6. CASE LeaseRemoved
    BY <1>6 DEF IInv, Counted, TypeOK, Shapes, Admission, LeaseRemoved, InHand, Readers,
        NoHandler, Reply, record, Leased
  <1>7. CASE CollectBegins
    BY <1>7 DEF IInv, Counted, TypeOK, Shapes, Admission, CollectBegins, InHand, Readers,
        record, Leased
  <1>8. CASE CollectEnds
    BY <1>8 DEF IInv, Counted, TypeOK, Shapes, Admission, CollectEnds, InHand, NoHandler,
        Reply, record, Readers, Leased
  <1>9. CASE StopAccepted
    BY <1>9 DEF IInv, Counted, TypeOK, Shapes, Admission, StopAccepted, InHand, Readers, Reply,
        record, Leased
  <1>10. CASE Terminate
    BY <1>10 DEF IInv, Counted, TypeOK, Shapes, Admission, Terminate, InHand, Readers,
        NoHandler, record, Leased
  <1>11. CASE \E t \in Tickets : Connect(t)
    BY <1>11 DEF IInv, Counted, TypeOK, Shapes, Admission, Connect, record, host, Readers,
        Leased
  <1>12. CASE \E t \in Tickets : Admit(t)
    BY <1>12 DEF IInv, Counted, TypeOK, Shapes, Admission, Admit, NoHandler, record, host,
        Readers, Leased
  <1>13. CASE \E t \in Tickets : Work(t)
    BY <1>13 DEF IInv, Counted, TypeOK, Shapes, Admission, Work, record, host, Readers, Leased
  <1>14. CASE \E t \in Tickets : Disconnect(t)
    BY <1>14 DEF IInv, Counted, TypeOK, Shapes, Admission, Disconnect, record, host, Readers,
        Leased
  <1>15. CASE \E t \in Tickets : ChildEnds(t)
    BY <1>15 DEF IInv, Counted, TypeOK, Shapes, Admission, ChildEnds, record, host, Readers,
        Leased
  <1>16. CASE \E t \in Tickets : ExportEnds(t)
    BY <1>16 DEF IInv, Counted, TypeOK, Shapes, Admission, ExportEnds, record, host, Readers,
        Leased
  <1>17. CASE GuestCheck
    BY <1>17 DEF IInv, Counted, TypeOK, Shapes, Admission, GuestCheck, Certified, Leased, Dies,
        record, Emptied, NoHandler, Readers
  <1>18. CASE Consume
    BY <1>18 DEF IInv, Counted, TypeOK, Shapes, Admission, Consume, record, host, Readers,
        Leased
  <1>19. CASE Open
    BY <1>19 DEF IInv, Counted, TypeOK, Shapes, Admission, Open, record, host, Readers, Leased
  <1>20. CASE DaemonEnds
    BY <1>20 DEF IInv, Counted, TypeOK, Shapes, Admission, DaemonEnds, Children, Emptied, Dies,
        record, NoHandler, Readers, Leased
  <1>21. CASE Sync
    BY <1>21 DEF IInv, Counted, TypeOK, Shapes, Admission, Sync, record, host, Readers, Leased
  <1>22. CASE Unmark
    BY <1>22 DEF IInv, Counted, TypeOK, Shapes, Admission, Unmark, record, host, Readers, Leased
  <1>23. CASE Certify
    BY <1>23 DEF IInv, Counted, TypeOK, Shapes, Admission, Certify, record, host, Readers,
        Leased
  <1>24. CASE GuestCrash
    BY <1>24 DEF IInv, Counted, TypeOK, Shapes, Admission, GuestCrash, ContainerRunning, Fault,
        Dies, record, Emptied, NoHandler, Readers, Leased
  <1>25. CASE Vanish
    BY <1>25 DEF IInv, Counted, TypeOK, Shapes, Admission, Vanish, Fault, record, host, Readers,
        Leased
  <1>26. CASE Create
    BY <1>26 DEF IInv, Counted, TypeOK, Shapes, Admission, Create, Go, record, Readers, Leased
  <1>27. CASE Run
    BY <1>27 DEF IInv, Counted, TypeOK, Shapes, Admission, Run, Go, record, Readers, Leased
  <1>28. CASE AdmitMount
    BY <1>28 DEF IInv, Counted, TypeOK, Shapes, Admission, AdmitMount, At, Go, Done, record,
        NoTask, Readers, Leased
  <1>29. CASE StopVerify
    BY <1>29 DEF IInv, Counted, TypeOK, Shapes, Admission, StopVerify, At, Certified, Go, Done,
        record, NoTask, Readers, Leased
  <1>30. CASE Crash
    BY <1>30 DEF IInv, Counted, TypeOK, Shapes, Admission, Crash, Fault, Aborted, record, Done,
        NoCall, Pending, Orphan, Request, NoTask, Readers, Leased
  <1>31. CASE Timeout
    BY <1>31 DEF IInv, Counted, TypeOK, Shapes, Admission, Timeout, Pending, Fault, Aborted,
        record, Done, NoCall, Orphan, Request, NoTask, Readers, Leased
  <1>32. CASE Drop
    BY <1>32 DEF IInv, Counted, TypeOK, Shapes, Admission, Drop, Pending, Fault, Orphan, record,
        Request, Readers, Leased
  <1>33. ASSUME NEW r \in Requests, NEW own \in BOOLEAN,
              Contended(r, own) \/ RefusedStopping(r, own)
       PROVE  Counted'
    BY <1>33 DEF IInv, Counted, Readers, Leased, Contended, RefusedStopping, guest, record
  <1>34. CASE (\E t \in Tickets : MountLost(t)) \/ Config \/ Record \/ Ready \/
            BootFails \/ (\E t \in Tickets : AdmitStart(t)) \/ AdmitIndex \/
            AdmitRegister
    BY <1>34 DEF IInv, Counted, Readers, Leased, MountLost, Config, Record, Ready,
        BootFails, AdmitStart, AdmitIndex, AdmitRegister, guest, host, record
  <1>35. CASE AdmitRegistered \/ AdmitAttach \/ AdmitDeliver \/
            (\E t \in Tickets : Terminal(t)) \/ (\E t \in Tickets : ReleaseStart(t)) \/
            Unmount \/ Detach \/ ReleaseCall
    BY <1>35 DEF IInv, Counted, Readers, Leased, AdmitRegistered, AdmitAttach,
        AdmitDeliver, Terminal, ReleaseStart, Unmount, Detach, ReleaseCall, guest, host,
        record
  <1>36. CASE Released \/ ReleaseIndex \/ CollectStart \/ CollectDone \/
            (\E intent \in Intents : StopStart(intent)) \/ StopPublish \/
            StopAnswered \/ StopExit
    BY <1>36 DEF IInv, Counted, Readers, Leased, Released, ReleaseIndex, CollectStart,
        CollectDone, StopStart, StopPublish, StopAnswered, StopExit, guest, record
  <1>37. CASE StopGone \/ CompleteStart \/ CompleteFinish \/ MaintenanceEnds \/
            Recover
    BY <1>37 DEF IInv, Counted, Readers, Leased, StopGone, CompleteStart, CompleteFinish,
        MaintenanceEnds, Recover, guest, record
  <1>38. CASE UNCHANGED vars
    BY <1>38 DEF IInv, Counted, Readers, Leased, vars
  <1>39. QED
    BY Arrivals, <1>1, <1>2, <1>3, <1>4, <1>5, <1>6, <1>7, <1>8, <1>9, <1>10, <1>11,
       <1>12, <1>13, <1>14, <1>15, <1>16, <1>17, <1>18, <1>19, <1>20, <1>21, <1>22, <1>23,
       <1>24, <1>25, <1>26, <1>27, <1>28, <1>29, <1>30, <1>31, <1>32, <1>33, <1>34, <1>35,
       <1>36, <1>37, <1>38 DEF Next, GuestStep, HostStep, Take

LEMMA StorageStep ==
  ASSUME IInv, [Next]_vars
  PROVE  Storage'
  <1>1. ASSUME NEW r \in Requests, NEW own \in BOOLEAN, Arrived(r, own), Register(r, own)
       PROVE  Storage'
    BY <1>1 DEF IInv, Storage, TypeOK, Shapes, Progress, Counted, Register, GuestIdle, Answer,
        record, NoHandler, Certified, Leased, At, Arrived
  <1>2. ASSUME NEW r \in Requests, NEW own \in BOOLEAN, Arrived(r, own), Release(r, own)
       PROVE  Storage'
    BY <1>2 DEF IInv, Storage, TypeOK, Shapes, Progress, Counted, Release, GuestIdle, Answer,
        Hold, record, NoHandler, Certified, Leased, At, Arrived
  <1>3. CASE LeaseRemoved
    BY <1>3 DEF IInv, Storage, TypeOK, Shapes, Progress, Counted, LeaseRemoved, InHand,
        Readers, NoHandler, Reply, record, Certified, Leased, At
  <1>4. CASE Terminate
    BY <1>4 DEF IInv, Storage, TypeOK, Shapes, Progress, Counted, Terminate, InHand, Readers,
        NoHandler, record, Certified, Leased, At
  <1>5. CASE GuestCheck
    BY <1>5 DEF IInv, Storage, TypeOK, Shapes, Progress, Counted, GuestCheck, Certified,
        Leased, Dies, record, Emptied, NoHandler, At
  <1>6. CASE Consume
    BY <1>6 DEF IInv, Storage, TypeOK, Shapes, Progress, Counted, Consume, record, host,
        Certified, Leased, At
  <1>7. CASE Open
    BY <1>7 DEF IInv, Storage, TypeOK, Shapes, Progress, Counted, Open, record, host,
        Certified, Leased, At
  <1>8. CASE DaemonEnds
    BY <1>8 DEF IInv, Storage, TypeOK, Shapes, Progress, Counted, DaemonEnds, Children,
        Emptied, Dies, record, NoHandler, Certified, Leased, At
  <1>9. CASE Sync
    BY <1>9 DEF IInv, Storage, TypeOK, Shapes, Progress, Counted, Sync, record, host,
        Certified, Leased, At
  <1>10. CASE Unmark
    BY <1>10 DEF IInv, Storage, TypeOK, Shapes, Progress, Counted, Unmark, record, host,
        Certified, Leased, At
  <1>11. CASE Certify
    BY <1>11 DEF IInv, Storage, TypeOK, Shapes, Progress, Counted, Certify, record, host,
        Certified, Leased, At
  <1>12. CASE GuestCrash
    BY <1>12 DEF IInv, Storage, TypeOK, Shapes, Progress, Counted, GuestCrash, ContainerRunning,
        Fault, Dies, record, Emptied, NoHandler, Certified, Leased, At
  <1>13. CASE Vanish
    BY <1>13 DEF IInv, Storage, TypeOK, Shapes, Progress, Counted, Vanish, Fault, record, host,
        Certified, Leased, At
  <1>14. CASE Config
    BY <1>14 DEF IInv, Storage, TypeOK, Shapes, Progress, Counted, Config, Go, record, guest,
        Certified, Leased, At
  <1>15. CASE Create
    BY <1>15 DEF IInv, Storage, TypeOK, Shapes, Progress, Counted, Create, Go, record,
        Certified, Leased, At
  <1>16. CASE Record
    BY <1>16 DEF IInv, Storage, TypeOK, Shapes, Progress, Counted, Record, Go, guest, Certified,
        Leased, At
  <1>17. CASE Run
    BY <1>17 DEF IInv, Storage, TypeOK, Shapes, Progress, Counted, Run, Go, record, Certified,
        Leased, At
  <1>18. CASE Ready
    BY <1>18 DEF IInv, Storage, TypeOK, Shapes, Progress, Counted, Ready, Inspectable, Leased,
        Go, guest, NoHandler, Certified, At
  <1>19. CASE BootFails
    BY <1>19 DEF IInv, Storage, TypeOK, Shapes, Progress, Counted, BootFails, ContainerRunning,
        Fault, Done, record, guest, NoTask, Certified, Leased, At
  <1>20. CASE \E t \in Tickets : AdmitStart(t)
    BY <1>20 DEF IInv, Storage, TypeOK, Shapes, Progress, Counted, AdmitStart, Free,
        Inspectable, Certified, guest, NoHandler, NoTask, Leased, At
  <1>21. CASE AdmitIndex
    BY <1>21 DEF IInv, Storage, TypeOK, Shapes, Progress, Counted, AdmitIndex, At, Poisoned,
        Done, Owed, Answers, Go, guest, NoTask, Certified, Leased
  <1>22. CASE AdmitRegister
    BY <1>22 DEF IInv, Storage, TypeOK, Shapes, Progress, Counted, AdmitRegister, At,
        ContainerRunning, Send, Done, guest, NoTask, Certified, Leased
  <1>23. CASE AdmitRegistered
    BY <1>23 DEF IInv, Storage, TypeOK, Shapes, Progress, Counted, AdmitRegistered, Received,
        Go, Done, NoCall, guest, NoTask, At, Certified, Leased
  <1>24. CASE AdmitMount
    BY <1>24 DEF IInv, Storage, TypeOK, Shapes, Progress, Counted, AdmitMount, At, Go, Done,
        record, NoTask, Certified, Leased
  <1>25. CASE AdmitAttach
    BY <1>25 DEF IInv, Storage, TypeOK, Shapes, Progress, Counted, AdmitAttach, At, Go, Done,
        guest, NoTask, Certified, Leased
  <1>26. CASE AdmitDeliver
    BY <1>26 DEF IInv, Storage, TypeOK, Shapes, Progress, Counted, AdmitDeliver, At, Done,
        record, guest, NoTask, Certified, Leased
  <1>27. CASE \E t \in Tickets : ReleaseStart(t)
    BY <1>27 DEF IInv, Storage, TypeOK, Shapes, Progress, Counted, ReleaseStart, Free, Retire,
        guest, NoTask, Certified, Leased, At
  <1>28. CASE Unmount
    BY <1>28 DEF IInv, Storage, TypeOK, Shapes, Progress, Counted, Unmount, At, Go, Fault,
        Abandon, record, guest, Done, Retire, NoTask, Certified, Leased
  <1>29. CASE Detach
    BY <1>29 DEF IInv, Storage, TypeOK, Shapes, Progress, Counted, Detach, At, Go, guest,
        Certified, Leased
  <1>30. CASE ReleaseCall
    BY <1>30 DEF IInv, Storage, TypeOK, Shapes, Progress, Counted, ReleaseCall, At,
        ContainerRunning, Send, Abandon, record, guest, Done, Retire, NoTask, Certified,
        Leased
  <1>31. CASE Released
    BY <1>31 DEF IInv, Storage, TypeOK, Shapes, Progress, Counted, Released, Received, NoCall,
        Go, Done, Abandon, guest, Retire, NoTask, At, Certified, Leased
  <1>32. CASE ReleaseIndex
    BY <1>32 DEF IInv, Storage, TypeOK, Shapes, Progress, Counted, ReleaseIndex, At, Abandon,
        guest, Done, Retire, NoTask, Certified, Leased
  <1>33. CASE CollectStart
    BY <1>33 DEF IInv, Storage, TypeOK, Shapes, Progress, Counted, CollectStart, Free, Poisoned,
        Protected, ContainerRunning, record, guest, NoTask, Certified, Leased, At
  <1>34. CASE CollectDone
    BY <1>34 DEF IInv, Storage, TypeOK, Shapes, Progress, Counted, CollectDone, Received, Done,
        NoCall, record, guest, NoTask, At, Certified, Leased
  <1>35. CASE \E intent \in Intents : StopStart(intent)
    BY <1>35 DEF IInv, Storage, TypeOK, Shapes, Progress, Counted, StopStart, Free, Poisoned,
        Protected, Preflight, Mode, Entry, guest, Inspectable, Quiet, Certified, Stopped,
        ContainerRunning, Leased, Children, Readers, NoHandler, NoTask, At, Intents
  <1>36. CASE StopPublish
    BY <1>36 DEF IInv, Storage, TypeOK, Shapes, Progress, Counted, StopPublish, At, Certified,
        Go, Done, ContainerRunning, Send, guest, NoTask, Leased
  <1>37. CASE StopAnswered
    BY <1>37 DEF IInv, Storage, TypeOK, Shapes, Progress, Counted, StopAnswered, Received,
        NoCall, Done, Go, guest, NoTask, At, Certified, Leased
  <1>38. CASE StopExit
    BY <1>38 DEF IInv, Storage, TypeOK, Shapes, Progress, Counted, StopExit, At, Go, Done,
        record, guest, NoTask, Certified, Leased
  <1>39. CASE StopVerify
    BY <1>39 DEF IInv, Storage, TypeOK, Shapes, Progress, Counted, StopVerify, At, Certified,
        Go, Done, record, NoTask, Leased
  <1>40. CASE StopGone
    BY <1>40 DEF IInv, Storage, TypeOK, Shapes, Progress, Counted, StopGone, At, Done, guest,
        NoTask, Certified, Leased
  <1>41. CASE CompleteStart
    BY <1>41, Completing DEF IInv, Storage, TypeOK, Shapes, Progress, Counted, Certified, Leased,
        At
  <1>42. CASE CompleteFinish
    BY <1>42 DEF IInv, Storage, TypeOK, Shapes, Progress, Counted, CompleteFinish, At,
        Inspectable, Quiet, Done, guest, NoTask, Leased, Children, Readers, NoHandler,
        Certified
  <1>43. CASE Crash
    BY <1>43 DEF IInv, Storage, TypeOK, Shapes, Progress, Counted, Crash, Fault, Aborted,
        record, Done, NoCall, Pending, Orphan, Request, NoTask, Certified, Leased, At
  <1>44. CASE Timeout
    BY <1>44 DEF IInv, Storage, TypeOK, Shapes, Progress, Counted, Timeout, Pending, Fault,
        Aborted, record, Done, NoCall, Orphan, Request, NoTask, Certified, Leased, At
  <1>45. ASSUME NEW r \in Requests, NEW own \in BOOLEAN,
              Contended(r, own) \/ RefusedStopping(r, own) \/ Maintain(r, own)
       PROVE  Storage'
    BY <1>45 DEF IInv, Storage, Certified, Leased, At, Contended, RefusedStopping,
        Maintain, guest, record
  <1>46. CASE CensusDaemon \/ CensusBusy \/ CollectBegins \/ CollectEnds \/
            StopAccepted \/ (\E t \in Tickets : Connect(t)) \/
            (\E t \in Tickets : Admit(t)) \/ (\E t \in Tickets : Work(t))
    BY <1>46 DEF IInv, Storage, Certified, Leased, At, CensusDaemon, CensusBusy,
        CollectBegins, CollectEnds, StopAccepted, Connect, Admit, Work, host, record
  <1>47. CASE (\E t \in Tickets : Disconnect(t)) \/ (\E t \in Tickets : ChildEnds(t)) \/
            (\E t \in Tickets : ExportEnds(t)) \/ (\E t \in Tickets : MountLost(t)) \/
            (\E t \in Tickets : Terminal(t)) \/ MaintenanceEnds \/ Drop \/ Recover
    BY <1>47 DEF IInv, Storage, Certified, Leased, At, Disconnect, ChildEnds, ExportEnds,
        MountLost, Terminal, MaintenanceEnds, Drop, Recover, guest, host, record
  <1>48. CASE UNCHANGED vars
    BY <1>48 DEF IInv, Storage, Certified, Leased, At, vars
  <1>49. QED
    BY Arrivals, <1>1, <1>2, <1>3, <1>4, <1>5, <1>6, <1>7, <1>8, <1>9, <1>10, <1>11,
       <1>12, <1>13, <1>14, <1>15, <1>16, <1>17, <1>18, <1>19, <1>20, <1>21, <1>22, <1>23,
       <1>24, <1>25, <1>26, <1>27, <1>28, <1>29, <1>30, <1>31, <1>32, <1>33, <1>34, <1>35,
       <1>36, <1>37, <1>38, <1>39, <1>40, <1>41, <1>42, <1>43, <1>44, <1>45, <1>46, <1>47,
       <1>48 DEF Next, GuestStep, HostStep, Take

LEMMA TypeOKStep ==
  ASSUME IInv, [Next]_vars
  PROVE  TypeOK'
  <1>1. ASSUME NEW r \in Requests, NEW own \in BOOLEAN, Arrived(r, own), Contended(r, own)
       PROVE  TypeOK'
    BY <1>1 DEF IInv, TypeOK, Shapes, Contended, Answers, NoHandler, Answer, record, guest, Arrived
  <1>2. ASSUME NEW r \in Requests, NEW own \in BOOLEAN, Arrived(r, own), RefusedStopping(r, own)
       PROVE  TypeOK'
    BY <1>2 DEF IInv, TypeOK, Shapes, RefusedStopping, Answers, NoHandler, Answer, record,
        guest, Arrived
  <1>3. ASSUME NEW r \in Requests, NEW own \in BOOLEAN, Arrived(r, own), Register(r, own)
       PROVE  TypeOK'
    BY <1>3 DEF IInv, TypeOK, Shapes, Register, GuestIdle, Answer, record, NoHandler, Arrived
  <1>4. ASSUME NEW r \in Requests, NEW own \in BOOLEAN, Arrived(r, own), Release(r, own)
       PROVE  TypeOK'
    <2>1. UNCHANGED <<phase, index, fence, client, mount, exec, boot, files, dirty,
                      vm, admission, session, export, task, watch, up, begun, stops,
                      faults>>
      BY <1>4 DEF Release, record
    <2>2. lease' \in [Tickets -> {"none", "open", "closing"}]
      BY <1>4, RequestShape DEF IInv, TypeOK, Release, Hold, Answer
    <2>3. handler' \in Handlers
      <3>1. r.t \in Tickets
        BY <1>4, RequestShape DEF Release
      <3>2. handler' = handler \/ handler' = [op |-> "release", t |-> r.t, stage |-> "daemon",
                                             own |-> own]
        BY <1>4 DEF Release
      <3>3. QED
        BY <3>1, <3>2, HandlerUpdates DEF Handlers
    <2>4. call' \in CallValues
      BY <1>4 DEF IInv, TypeOK, Release, Hold, Answer, CallValues
    <2>5. stray' \in SUBSET Requests
      BY <1>4 DEF IInv, TypeOK, Release, Hold, Answer
    <2>6. QED
      BY <2>1, <2>2, <2>3, <2>4, <2>5 DEF IInv, TypeOK, Requests, Handlers, CallValues, Arrived
  <1>5. ASSUME NEW r \in Requests, NEW own \in BOOLEAN, Arrived(r, own), Maintain(r, own)
       PROVE  TypeOK'
    <2>1. UNCHANGED <<phase, index, fence, client, mount, exec, boot, files, dirty,
                      lease, vm, admission, session, export, task, watch, up, begun,
                      stops, faults>>
      BY <1>5 DEF Maintain, record
    <2>2. handler' \in Handlers
      <3>1. \/ handler' = handler
            \/ /\ r.op \in {"collect", "shutdown"}
               /\ handler' = [op |-> r.op, t |-> "none", stage |-> "daemon", own |-> own]
        BY <1>5 DEF Maintain
      <3>2. QED
        BY <3>1, HandlerUpdates DEF Handlers
    <2>3. call' \in CallValues
      BY <1>5 DEF IInv, TypeOK, Maintain, Hold, Answer, CallValues
    <2>4. stray' \in SUBSET Requests
      BY <1>5 DEF IInv, TypeOK, Maintain, Hold, Answer
    <2>5. QED
      BY <2>1, <2>2, <2>3, <2>4 DEF IInv, TypeOK, Requests, Handlers, CallValues, Arrived
  <1>6. CASE CensusDaemon
    <2>1. UNCHANGED <<phase, index, fence, client, mount, exec, boot, files, dirty,
                      lease, vm, admission, session, export, task, stray, watch, up,
                      begun, stops, faults>>
      BY <1>6 DEF CensusDaemon, record
    <2>2. handler' \in Handlers
      <3>1. handler' \in {[handler EXCEPT !.stage = "procs"], [handler EXCEPT !.stage = "last"],
                          NoHandler}
        BY <1>6 DEF CensusDaemon
      <3>2. QED
        BY <3>1, HandlerUpdates DEF Handlers
    <2>3. call' \in CallValues
      BY <1>6 DEF IInv, TypeOK, CensusDaemon, InHand, Reply, NoHandler, CallValues
    <2>4. QED
      BY <2>1, <2>2, <2>3 DEF IInv, TypeOK, Requests, Handlers, CallValues
  <1>7. CASE CensusBusy
    BY <1>7 DEF IInv, TypeOK, Shapes, CensusBusy, InHand, Readers, NoHandler, Reply, record
  <1>8. CASE LeaseRemoved
    BY <1>8 DEF IInv, TypeOK, Shapes, LeaseRemoved, InHand, Readers, NoHandler, Reply, record
  <1>9. CASE CollectBegins
    BY <1>9 DEF IInv, TypeOK, Shapes, CollectBegins, InHand, Readers, record
  <1>10. CASE CollectEnds
    BY <1>10 DEF IInv, TypeOK, Shapes, CollectEnds, InHand, NoHandler, Reply, record
  <1>11. CASE StopAccepted
    BY <1>11 DEF IInv, TypeOK, Shapes, StopAccepted, InHand, Readers, Reply, record
  <1>12. CASE Terminate
    BY <1>12 DEF IInv, TypeOK, Shapes, Terminate, InHand, Readers, NoHandler, record
  <1>13. CASE \E t \in Tickets : Connect(t)
    BY <1>13 DEF IInv, TypeOK, Shapes, Connect, record, host
  <1>14. CASE \E t \in Tickets : Admit(t)
    BY <1>14 DEF IInv, TypeOK, Shapes, Admit, NoHandler, record, host
  <1>15. CASE \E t \in Tickets : Work(t)
    BY <1>15 DEF IInv, TypeOK, Shapes, Work, record, host
  <1>16. CASE \E t \in Tickets : Disconnect(t)
    BY <1>16 DEF IInv, TypeOK, Shapes, Disconnect, record, host
  <1>17. CASE \E t \in Tickets : ChildEnds(t)
    BY <1>17 DEF IInv, TypeOK, Shapes, ChildEnds, record, host
  <1>18. CASE \E t \in Tickets : ExportEnds(t)
    BY <1>18 DEF IInv, TypeOK, Shapes, ExportEnds, record, host
  <1>19. CASE GuestCheck
    <2>1. UNCHANGED <<phase, index, fence, client, mount, exec, boot, dirty, lease,
                      admission, task, watch, up, begun, stops, faults>>
      BY <1>19 DEF GuestCheck, record
    <2>2. files' \in [released : BOOLEAN, resuming : BOOLEAN]
      <3>1. files' = files \/ files' = [files EXCEPT !.resuming = (boot = "resume")]
        BY <1>19 DEF GuestCheck
      <3>2. (boot = "resume") \in BOOLEAN
        OBVIOUS
      <3>3. QED
        BY <3>1, <3>2, FileUpdates DEF IInv, TypeOK
    <2>3. vm' \in {"absent", "created", "check", "consume", "open", "up", "down",
               "sync", "unmark", "certify", "done", "dead"}
      BY <1>19 DEF IInv, TypeOK, GuestCheck, Dies, Emptied, NoHandler
    <2>4. handler' \in Handlers
      BY <1>19, HandlerUpdates DEF GuestCheck, Dies, Emptied
    <2>5. session' \in [Tickets -> {"none", "keyed", "admitted", "served", "orphan"}]
      BY <1>19 DEF IInv, TypeOK, GuestCheck, Dies, Emptied, NoHandler
    <2>6. export' \in SUBSET Tickets
      BY <1>19 DEF IInv, TypeOK, GuestCheck, Dies, Emptied, NoHandler
    <2>7. call' \in CallValues
      BY <1>19 DEF IInv, TypeOK, GuestCheck, Dies, Emptied, NoHandler, CallValues
    <2>8. stray' \in SUBSET Requests
      BY <1>19 DEF IInv, TypeOK, GuestCheck, Dies, Emptied, NoHandler
    <2>9. QED
      BY <2>1, <2>2, <2>3, <2>4, <2>5, <2>6, <2>7, <2>8 DEF IInv, TypeOK, Requests, Handlers, CallValues
  <1>20. CASE Consume
    <2>1. UNCHANGED <<phase, index, fence, client, mount, exec, boot, dirty, lease,
                      admission, handler, session, export, task, call, stray, watch,
                      up, begun, stops, faults>>
      BY <1>20 DEF Consume, record, host
    <2>2. files' \in [released : BOOLEAN, resuming : BOOLEAN]
      BY <1>20 DEF IInv, TypeOK, Consume
    <2>3. vm' \in {"absent", "created", "check", "consume", "open", "up", "down",
               "sync", "unmark", "certify", "done", "dead"}
      BY <1>20 DEF IInv, TypeOK, Consume
    <2>4. QED
      BY <2>1, <2>2, <2>3 DEF IInv, TypeOK, Requests
  <1>21. CASE Open
    BY <1>21 DEF IInv, TypeOK, Shapes, Open, record, host
  <1>22. CASE DaemonEnds
    <2>1. UNCHANGED <<phase, index, fence, client, mount, exec, boot, files, dirty,
                      lease, admission, task, watch, up, begun, stops, faults>>
      BY <1>22 DEF DaemonEnds, record
    <2>2. vm' \in {"absent", "created", "check", "consume", "open", "up", "down",
               "sync", "unmark", "certify", "done", "dead"}
      BY <1>22 DEF IInv, TypeOK, DaemonEnds, Dies, Emptied, NoHandler
    <2>3. handler' \in Handlers
      BY <1>22, HandlerUpdates DEF DaemonEnds, Dies, Emptied
    <2>4. session' \in [Tickets -> {"none", "keyed", "admitted", "served", "orphan"}]
      BY <1>22 DEF IInv, TypeOK, DaemonEnds, Dies, Emptied, NoHandler
    <2>5. export' \in SUBSET Tickets
      BY <1>22 DEF IInv, TypeOK, DaemonEnds, Dies, Emptied, NoHandler
    <2>6. call' \in CallValues
      BY <1>22 DEF IInv, TypeOK, DaemonEnds, Dies, Emptied, NoHandler, CallValues
    <2>7. stray' \in SUBSET Requests
      BY <1>22 DEF IInv, TypeOK, DaemonEnds, Dies, Emptied, NoHandler
    <2>8. QED
      BY <2>1, <2>2, <2>3, <2>4, <2>5, <2>6, <2>7 DEF IInv, TypeOK, Requests, Handlers, CallValues
  <1>23. CASE Sync
    <2>1. UNCHANGED <<phase, index, fence, client, mount, exec, boot, files, lease,
                      admission, handler, session, export, task, call, stray, watch,
                      up, begun, stops, faults>>
      BY <1>23 DEF Sync, record, host
    <2>2. dirty' \in BOOLEAN
      BY <1>23 DEF IInv, TypeOK, Sync
    <2>3. vm' \in {"absent", "created", "check", "consume", "open", "up", "down",
               "sync", "unmark", "certify", "done", "dead"}
      BY <1>23 DEF IInv, TypeOK, Sync
    <2>4. QED
      BY <2>1, <2>2, <2>3 DEF IInv, TypeOK, Requests
  <1>24. CASE Unmark
    <2>1. UNCHANGED <<phase, index, fence, client, mount, exec, boot, dirty, lease,
                      admission, handler, session, export, task, call, stray, watch,
                      up, begun, stops, faults>>
      BY <1>24 DEF Unmark, record, host
    <2>2. files' \in [released : BOOLEAN, resuming : BOOLEAN]
      BY <1>24 DEF IInv, TypeOK, Unmark
    <2>3. vm' \in {"absent", "created", "check", "consume", "open", "up", "down",
               "sync", "unmark", "certify", "done", "dead"}
      BY <1>24 DEF IInv, TypeOK, Unmark
    <2>4. QED
      BY <2>1, <2>2, <2>3 DEF IInv, TypeOK, Requests
  <1>25. CASE Certify
    <2>1. UNCHANGED <<phase, index, fence, client, mount, exec, boot, dirty, lease,
                      admission, handler, session, export, task, call, stray, watch,
                      up, begun, stops, faults>>
      BY <1>25 DEF Certify, record, host
    <2>2. files' \in [released : BOOLEAN, resuming : BOOLEAN]
      BY <1>25 DEF IInv, TypeOK, Certify
    <2>3. vm' \in {"absent", "created", "check", "consume", "open", "up", "down",
               "sync", "unmark", "certify", "done", "dead"}
      BY <1>25 DEF IInv, TypeOK, Certify
    <2>4. QED
      BY <2>1, <2>2, <2>3 DEF IInv, TypeOK, Requests
  <1>26. CASE GuestCrash
    BY <1>26 DEF IInv, TypeOK, Shapes, GuestCrash, ContainerRunning, Fault, Dies, record,
        Emptied, NoHandler
  <1>27. CASE Vanish
    BY <1>27 DEF IInv, TypeOK, Shapes, Vanish, Fault, record, host
  <1>28. CASE \E t \in Tickets : MountLost(t)
    BY <1>28 DEF IInv, TypeOK, Shapes, MountLost, ContainerRunning, record, guest, host
  <1>29. CASE Config
    BY <1>29 DEF IInv, TypeOK, Shapes, Config, Go, record, guest
  <1>30. CASE Create
    BY <1>30 DEF IInv, TypeOK, Shapes, Create, Go, record
  <1>31. CASE Record
    BY <1>31 DEF IInv, TypeOK, Shapes, Record, Go, guest
  <1>32. CASE Run
    BY <1>32 DEF IInv, TypeOK, Shapes, Run, Go, record
  <1>33. CASE Ready
    BY <1>33 DEF IInv, TypeOK, Shapes, Ready, Inspectable, Leased, Go, guest, NoHandler
  <1>34. CASE BootFails
    BY <1>34 DEF IInv, TypeOK, Shapes, BootFails, ContainerRunning, Fault, Done, record, guest,
        NoTask
  <1>35. CASE \E t \in Tickets : AdmitStart(t)
    BY <1>35 DEF IInv, TypeOK, Shapes, AdmitStart, Free, Inspectable, Certified, guest,
        NoHandler, NoTask
  <1>36. CASE AdmitIndex
    BY <1>36 DEF IInv, TypeOK, Shapes, AdmitIndex, At, Poisoned, Done, Owed, Answers, Go, guest,
        NoTask
  <1>37. CASE AdmitRegister
    BY <1>37 DEF IInv, TypeOK, Shapes, AdmitRegister, At, ContainerRunning, Send, Done, guest,
        NoTask
  <1>38. CASE AdmitRegistered
    BY <1>38 DEF IInv, TypeOK, Shapes, AdmitRegistered, Received, Go, Done, NoCall, guest,
        NoTask, At
  <1>39. CASE AdmitMount
    BY <1>39 DEF IInv, TypeOK, Shapes, AdmitMount, At, Go, Done, record, NoTask
  <1>40. CASE AdmitAttach
    BY <1>40 DEF IInv, TypeOK, Shapes, AdmitAttach, At, Go, Done, guest, NoTask
  <1>41. CASE AdmitDeliver
    BY <1>41 DEF IInv, TypeOK, Shapes, AdmitDeliver, At, Done, record, guest, NoTask
  <1>42. CASE \E t \in Tickets : Terminal(t)
    BY <1>42 DEF IInv, TypeOK, Shapes, Terminal, record, guest, host
  <1>43. CASE \E t \in Tickets : ReleaseStart(t)
    BY <1>43 DEF IInv, TypeOK, Shapes, ReleaseStart, Free, Retire, guest, NoTask
  <1>44. CASE Unmount
    BY <1>44 DEF IInv, TypeOK, Shapes, Unmount, At, Go, Fault, Abandon, record, guest, Done,
        Retire, NoTask
  <1>45. CASE Detach
    BY <1>45 DEF IInv, TypeOK, Shapes, Detach, At, Go, guest
  <1>46. CASE ReleaseCall
    BY <1>46 DEF IInv, TypeOK, Shapes, ReleaseCall, At, ContainerRunning, Send, Abandon, record,
        guest, Done, Retire, NoTask
  <1>47. CASE Released
    BY <1>47 DEF IInv, TypeOK, Shapes, Released, Received, NoCall, Go, Done, Abandon, guest,
        Retire, NoTask, At
  <1>48. CASE ReleaseIndex
    BY <1>48 DEF IInv, TypeOK, Shapes, ReleaseIndex, At, Abandon, guest, Done, Retire, NoTask
  <1>49. CASE CollectStart
    BY <1>49 DEF IInv, TypeOK, Shapes, CollectStart, Free, Poisoned, Protected,
        ContainerRunning, record, guest, NoTask
  <1>50. CASE CollectDone
    BY <1>50 DEF IInv, TypeOK, Shapes, CollectDone, Received, Done, NoCall, record, guest,
        NoTask, At
  <1>51. CASE \E intent \in Intents : StopStart(intent)
    <2>1. UNCHANGED <<phase, index, client, mount, exec, boot, files, dirty, lease,
                      vm, admission, handler, session, export, call, stray, watch,
                      up, faults>>
      BY <1>51 DEF StopStart, guest
    <2>2. fence' \in {"none", "repair", "keep", "shutdown", "update"}
      BY <1>51 DEF IInv, TypeOK, StopStart, Mode, Entry, Intents
    <2>3. task' \in TaskValues
      BY <1>51 DEF IInv, TypeOK, StopStart, Mode, Entry, Intents, TaskValues
    <2>4. begun' \in {"none", "own", "retained"}
      BY <1>51 DEF IInv, TypeOK, StopStart, Mode, Entry, Intents
    <2>5. stops' \in 0 .. MaxStops
      BY <1>51, PoolAssumption DEF IInv, TypeOK, StopStart, Mode, Entry
    <2>6. QED
      BY <2>1, <2>2, <2>3, <2>4, <2>5 DEF IInv, TypeOK, Requests, TaskValues
  <1>52. CASE StopPublish
    BY <1>52 DEF IInv, TypeOK, Shapes, StopPublish, At, Certified, Go, Done, ContainerRunning,
        Send, guest, NoTask
  <1>53. CASE StopAnswered
    BY <1>53 DEF IInv, TypeOK, Shapes, StopAnswered, Received, NoCall, Done, Go, guest, NoTask,
        At
  <1>54. CASE StopExit
    BY <1>54 DEF IInv, TypeOK, Shapes, StopExit, At, Go, Done, record, guest, NoTask
  <1>55. CASE StopVerify
    BY <1>55 DEF IInv, TypeOK, Shapes, StopVerify, At, Certified, Go, Done, record, NoTask
  <1>56. CASE StopGone
    BY <1>56 DEF IInv, TypeOK, Shapes, StopGone, At, Done, guest, NoTask
  <1>57. CASE CompleteStart
    <2>1. UNCHANGED <<index, client, mount, exec, boot, files, dirty, lease, vm,
                      admission, handler, session, export, call, stray, watch, up,
                      stops, faults>>
      BY <1>57 DEF CompleteStart, guest
    <2>2. phase' \in {"none", "starting", "created", "serving", "stopping", "released"}
      BY <1>57, Completing DEF IInv, TypeOK
    <2>3. fence' \in {"none", "repair", "keep", "shutdown", "update"}
      BY <1>57, Completing DEF IInv, TypeOK
    <2>4. task' \in TaskValues
      BY <1>57, Completing DEF IInv, TypeOK, TaskValues
    <2>5. begun' \in {"none", "own", "retained"}
      BY <1>57, Completing DEF IInv, TypeOK
    <2>6. QED
      BY <2>1, <2>2, <2>3, <2>4, <2>5 DEF IInv, TypeOK, Requests, TaskValues
  <1>58. CASE CompleteFinish
    BY <1>58 DEF IInv, TypeOK, Shapes, CompleteFinish, At, Inspectable, Quiet, Done, guest,
        NoTask, Leased, Children, Readers, NoHandler
  <1>59. CASE MaintenanceEnds
    BY <1>59 DEF IInv, TypeOK, Shapes, MaintenanceEnds, Free, record, guest, NoTask
  <1>60. CASE Crash
    <2>1. UNCHANGED <<phase, index, fence, client, mount, exec, boot, files, dirty,
                      lease, vm, admission, session, export, stops>>
      BY <1>60 DEF Crash, record
    <2>2. handler' \in Handlers
      <3>1. handler' = handler \/ handler' = [handler EXCEPT !.own = FALSE]
        BY <1>60 DEF Crash, Aborted, Orphan
      <3>2. QED
        BY <3>1, HandlerUpdates DEF Handlers
    <2>3. task' \in TaskValues
      BY <1>60 DEF Crash, Aborted, Done, NoTask, TaskValues
    <2>4. call' \in CallValues
      BY <1>60 DEF IInv, TypeOK, Crash, Aborted, Orphan, NoTask, NoCall, CallValues
    <2>5. stray' \in SUBSET Requests
      BY <1>60 DEF IInv, TypeOK, Shapes, Crash, Aborted, Orphan, NoTask, NoCall, Pending, Request, Requests, Owned
    <2>6. watch' \in SUBSET Tickets
      BY <1>60 DEF IInv, TypeOK, Crash, Aborted, Orphan, NoTask, NoCall
    <2>7. up' \in BOOLEAN
      BY <1>60 DEF IInv, TypeOK, Crash, Aborted, Orphan, NoTask, NoCall
    <2>8. begun' \in {"none", "own", "retained"}
      BY <1>60 DEF IInv, TypeOK, Crash, Aborted, Orphan, NoTask, NoCall
    <2>9. faults' \in SUBSET Faults
      BY <1>60 DEF IInv, TypeOK, Crash, Aborted, Orphan, NoTask, NoCall, Fault
    <2>10. QED
      BY <2>1, <2>2, <2>3, <2>4, <2>5, <2>6, <2>7, <2>8, <2>9 DEF IInv, TypeOK, Requests, Handlers, CallValues, TaskValues
  <1>61. CASE Timeout
    <2>1. UNCHANGED <<phase, index, fence, client, mount, exec, boot, files, dirty,
                      lease, vm, admission, session, export, up, begun, stops>>
      BY <1>61 DEF Timeout, record
    <2>2. handler' \in Handlers
      <3>1. handler' = handler \/ handler' = [handler EXCEPT !.own = FALSE]
        BY <1>61 DEF Timeout, Aborted, Orphan
      <3>2. QED
        BY <3>1, HandlerUpdates DEF Handlers
    <2>3. task' \in TaskValues
      BY <1>61 DEF Timeout, Aborted, Done, NoTask, TaskValues
    <2>4. call' \in CallValues
      BY <1>61 DEF IInv, TypeOK, Timeout, Aborted, Orphan, NoTask, NoCall, CallValues
    <2>5. stray' \in SUBSET Requests
      BY <1>61 DEF IInv, TypeOK, Shapes, Timeout, Aborted, Orphan, NoTask, NoCall, Pending, Request, Requests, Owned
    <2>6. watch' \in SUBSET Tickets
      BY <1>61 DEF IInv, TypeOK, Timeout, Aborted, Orphan, NoTask, NoCall
    <2>7. faults' \in SUBSET Faults
      BY <1>61 DEF IInv, TypeOK, Timeout, Aborted, Orphan, NoTask, NoCall, Fault
    <2>8. QED
      BY <2>1, <2>2, <2>3, <2>4, <2>5, <2>6, <2>7 DEF IInv, TypeOK, Requests, Handlers, CallValues, TaskValues
  <1>62. CASE Drop
    <2>1. UNCHANGED <<phase, index, fence, client, mount, exec, boot, files, dirty,
                      lease, vm, admission, session, export, task, watch, up, begun,
                      stops>>
      BY <1>62 DEF Drop, record
    <2>2. handler' \in Handlers
      <3>1. handler' = [handler EXCEPT !.own = FALSE]
        BY <1>62 DEF Drop, Orphan
      <3>2. QED
        BY <3>1, HandlerUpdates DEF Handlers
    <2>3. call' \in CallValues
      BY <1>62 DEF IInv, TypeOK, Drop, Orphan, NoTask, NoCall, CallValues
    <2>4. stray' \in SUBSET Requests
      BY <1>62 DEF IInv, TypeOK, Shapes, Drop, Orphan, NoTask, NoCall, Pending, Request, Requests, Owned
    <2>5. faults' \in SUBSET Faults
      BY <1>62 DEF IInv, TypeOK, Drop, Orphan, NoTask, NoCall, Fault
    <2>6. QED
      BY <2>1, <2>2, <2>3, <2>4, <2>5 DEF IInv, TypeOK, Requests, Handlers, CallValues
  <1>63. CASE Recover
    BY <1>63 DEF IInv, TypeOK, Shapes, Recover, Poisoned, Owed, record, guest
  <1>64. CASE UNCHANGED vars
    BY <1>64 DEF IInv, TypeOK, vars
  <1>65. QED
    BY Arrivals, <1>1, <1>2, <1>3, <1>4, <1>5, <1>6, <1>7, <1>8, <1>9, <1>10, <1>11,
       <1>12, <1>13, <1>14, <1>15, <1>16, <1>17, <1>18, <1>19, <1>20, <1>21, <1>22, <1>23,
       <1>24, <1>25, <1>26, <1>27, <1>28, <1>29, <1>30, <1>31, <1>32, <1>33, <1>34, <1>35,
       <1>36, <1>37, <1>38, <1>39, <1>40, <1>41, <1>42, <1>43, <1>44, <1>45, <1>46, <1>47,
       <1>48, <1>49, <1>50, <1>51, <1>52, <1>53, <1>54, <1>55, <1>56, <1>57, <1>58, <1>59,
       <1>60, <1>61, <1>62, <1>63, <1>64 DEF Next, GuestStep, HostStep, Take


-----------------------------------------------------------------------------
(* IInv is inductive. *)
LEMMA Inductive ==
  ASSUME IInv, [Next]_vars
  PROVE  IInv'
  BY TypeOKStep, ShapesStep, CallsStep, ProgressStep, AdmissionStep, RetirementStep,
     ProtectionStep, UnmountedStep, CountedStep, StorageStep DEF IInv

LEMMA PoolInvariant == Spec => []IInv
  <1>1. Init => IInv
    BY Initially
  <1>2. IInv /\ [Next]_vars => IInv'
    BY Inductive
  <1>3. QED
    BY <1>1, <1>2, PTL DEF Spec

-----------------------------------------------------------------------------
(* Every variable of the pool, its guest and its operations keeps its type.  *)
THEOREM PoolTypes == Spec => []TypeOK
  <1>1. IInv => TypeOK
    BY DEF IInv
  <1>2. QED
    BY <1>1, PoolInvariant, PTL

(* While an execution runs nothing takes its record, its lease, its mount   *)
(* or the serving owner from it: Protection ties each of them to the        *)
(* execution's record, and only `detach` after terminal evidence releases   *)
(* that (admit_execution, release_execution, Owner::shutdown).              *)
THEOREM LiveExecutionsHeld == Spec => []LiveExecutionHeld
  <1>1. IInv => LiveExecutionHeld
    BY DEF IInv, Protection, LiveExecutionHeld
  <1>2. QED
    BY <1>1, PoolInvariant, PTL

(* The collector runs only while there is no lease, no session and no        *)
(* projection (native administer, Operation::Collect): who reads has a       *)
(* lease, and the mutex the command holds keeps registrations out.           *)
THEOREM CollectionIsExclusive == Spec => []CollectionExcludesReaders
  <1>1. IInv => CollectionExcludesReaders
    <2> SUFFICES ASSUME IInv, handler.stage = "gc"
                 PROVE  Leased = {} /\ Readers = {} /\ mount = {}
      BY DEF CollectionExcludesReaders
    <2>1. handler.op = "collect"
      BY DEF IInv, Shapes
    <2>2. Leased = {} /\ Readers \subseteq Leased
      BY <2>1 DEF IInv, Counted
    <2>3. mount \subseteq Leased
      BY DEF IInv, Unmounted
    <2>4. QED
      BY <2>2, <2>3
  <1>2. QED
    BY <1>1, PoolInvariant, PTL

(* A session or a projection of the store has a lease: the census that       *)
(* removes a lease finds none of them (native release and activity).         *)
THEOREM ReadersLeased == Spec => []ReadersHoldLeases
  <1>1. IInv => ReadersHoldLeases
    BY DEF IInv, Counted, Readers, Leased, ReadersHoldLeases
  <1>2. QED
    BY <1>1, PoolInvariant, PTL

(* A certificate stands for a synced store, and a released owner has one,    *)
(* without a container, a lease or a projection (guest supervisor,           *)
(* restart begin, Owner::shutdown).                                          *)
THEOREM CertificateIsHonest == Spec => []CertificateHonest
  <1>1. IInv => CertificateHonest
    <2> SUFFICES ASSUME IInv
                 PROVE  CertificateHonest
      OBVIOUS
    <2>1. Certified => ~dirty /\ Leased = {}
      BY DEF IInv, Storage
    <2>2. phase = "released" => vm = "absent" /\ Certified
      BY DEF IInv, Storage
    <2>3. mount \subseteq Leased
      BY DEF IInv, Unmounted
    <2>4. QED
      BY <2>1, <2>2, <2>3 DEF CertificateHonest
  <1>2. QED
    BY <1>1, PoolInvariant, PTL

=============================================================================
