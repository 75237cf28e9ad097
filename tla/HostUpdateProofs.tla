--------------------------- MODULE HostUpdateProofs ---------------------------
(* Proofs about HostUpdate: its locking discipline and what rests on it, the *)
(* custody of the retained data, when an intent may be removed, and what the *)
(* checkpoint of an update on a host with Nix pools holds.                   *)
EXTENDS HostUpdate, TLAPS

ProcState == [op : Operations, pc : Points, mine : Intent \cup {NoIntent},
              seen : {"Running", "Stopped", "Missing"},
              saw : Shutdown \cup {NoShutdown}]

(* Where the processes of each command are. *)
EnsurePoints == {"ensure", "launch", "ready", "commit", "retire", "ensured"}
BackendPoints ==
    EnsurePoints \cup {"control", "gateway", "own", "drain", "close", "quiesce",
        "releasing", "release", "exiting", "checkpoint", "released", "remove",
        "starting", "activate", "activated", "finalize", "finish"}
AdmissionPoints == EnsurePoints \cup {"lock", "admit"}

Placed(r) ==
    \/ r.op = "none" /\ r.pc = "idle"
    \/ r.op = "resume" /\ r.pc = "record"
    \/ r.op = "update" /\ r.pc \in {"record", "prepare", "pools", "check"} \cup BackendPoints
    \/ r.op = "stop" /\ r.pc \in {"gate", "lock", "control", "halt", "confirm", "finish"}
    \/ r.op = "start" /\ r.pc \in {"gate", "fence", "resumed"} \cup AdmissionPoints
    \/ r.op = "cancel" /\ r.pc \in {"check", "archived"}

(* The target an update was begun with, and the phase of a new one. *)
Adopted(r) ==
    /\ r.op \in {"update", "resume"} => r.mine \in Intent
    /\ r.op = "update" /\ r.pc = "record" => r.mine.phase = "Prepared"

Sound(r) == r \in ProcState /\ Placed(r) /\ Adopted(r)

(* The locks a process holds there. *)
NeedsUpdate(r) == r.op \in {"update", "resume", "cancel"}
NeedsGate(r) ==
    \/ r.op = "update" /\ r.pc \in {"check"} \cup BackendPoints
    \/ r.op = "stop" /\ r.pc # "gate"
    \/ r.op = "start" /\ r.pc = "resumed"
    \/ r.op = "cancel"
NeedsHost(r) ==
    \/ r.op = "update" /\ r.pc \in BackendPoints
    \/ r.op = "stop" /\ r.pc \notin {"gate", "lock"}
    \/ r.op = "start" /\ r.pc \in {"resumed", "admit"} \cup EnsurePoints
    \/ r.op = "cancel" /\ r.pc = "archived"
Admitting(r) == r.op = "start" /\ r.pc \in AdmissionPoints

Holds(p, r) ==
    /\ NeedsUpdate(r) => updateLock = p
    /\ NeedsGate(r) => gate.owner = p
    /\ NeedsHost(r) => hostLock = p
    /\ Admitting(r) => gate.owner = p \/ p \in gate.readers
    /\ r.op = "start" /\ r.pc = "admit" => p \in gate.readers

LockTypes ==
    /\ updateLock \in Procs \cup {None}
    /\ gate \in [owner : Procs \cup {None}, readers : SUBSET Procs]
    /\ hostLock \in Procs \cup {None}
    /\ gate.owner # None => gate.readers = {}

ProcInv ==
    /\ proc \in [Procs -> ProcState]
    /\ \A p \in Procs : Sound(proc[p])
LockInv == LockTypes /\ \A p \in Procs : Holds(p, proc[p])

(* A step of p leaves the locks of the others alone. *)
OthersKeep(p) ==
    \A q \in Procs \ {p} :
        /\ updateLock = q => updateLock' = q
        /\ hostLock = q => hostLock' = q
        /\ gate.owner = q => gate'.owner = q
        /\ q \in gate.readers => q \in gate'.readers

(* What a step of p does to the processes and to the locks. *)
Orderly(p) ==
    /\ proc' = [proc EXCEPT ![p] = proc'[p]]
    /\ Sound(proc'[p])
    /\ LockTypes'
    /\ Holds(p, proc[p])'
    /\ OthersKeep(p)

LEMMA NobodyIsAProc == None \notin Procs /\ None \notin Versions
  BY HostUpdateAssumption

LEMMA NothingSound == Sound(NoProc)
  BY DEF Sound, NoProc, NoIntent, NoShutdown, ProcState, Placed, Adopted, Operations, Points

LEMMA OrderlyStep ==
  ASSUME ProcInv, LockInv, NEW p \in Procs, Orderly(p)
  PROVE  ProcInv' /\ LockInv'
  <1>1. \A q \in Procs \ {p} : proc'[q] = proc[q]
    BY DEF Orderly, ProcInv
  <1>2. ProcInv'
    BY <1>1 DEF Orderly, ProcInv, Sound
  <1>3. ASSUME NEW q \in Procs \ {p} PROVE Holds(q, proc[q])'
    BY <1>1 DEF LockInv, Orderly, OthersKeep, Holds
  <1>4. QED
    BY <1>2, <1>3 DEF LockInv, Orderly

(* A process that returns, or dies, gives back what it has. *)
LEMMA EndOrderly ==
  ASSUME ProcInv, LockInv, NEW p \in Procs, End(p)
  PROVE  Orderly(p)
  <1>1. proc'[p] = NoProc /\ proc' = [proc EXCEPT ![p] = proc'[p]]
    BY DEF End, ProcInv
  <1>2. Holds(p, proc[p])'
    BY <1>1 DEF NoProc, Holds, NeedsUpdate, NeedsGate, NeedsHost, Admitting
  <1>3. LockTypes'
    BY DEF End, LockInv, LockTypes
  <1>4. OthersKeep(p)
    BY NobodyIsAProc DEF End, OthersKeep
  <1>5. QED
    BY <1>1, <1>2, <1>3, <1>4, NothingSound DEF Orderly

(* A step under the locks that are held already. *)
LEMMA WalkOrderly ==
  ASSUME ProcInv, LockInv, NEW p \in Procs, NEW r, Sound(r),
         proc' = [proc EXCEPT ![p] = r], UNCHANGED locks,
         NeedsUpdate(r) => NeedsUpdate(proc[p]),
         NeedsGate(r) => NeedsGate(proc[p]),
         NeedsHost(r) => NeedsHost(proc[p]),
         Admitting(r) => Admitting(proc[p]),
         r.op = "start" /\ r.pc = "admit" => p \in gate.readers
  PROVE  Orderly(p)
  <1>1. proc'[p] = r /\ proc' = [proc EXCEPT ![p] = proc'[p]]
    BY DEF ProcInv
  <1>2. LockTypes' /\ OthersKeep(p)
    BY DEF locks, LockInv, LockTypes, OthersKeep
  <1>3. Holds(p, proc[p])'
    BY <1>1 DEF locks, LockInv, Holds
  <1>4. QED
    BY <1>1, <1>2, <1>3 DEF Orderly

(* An update that holds all three locks ... *)
AtBackend(p) == proc[p].op = "update" /\ proc[p].pc \in BackendPoints

LEMMA BackendOrderly ==
  ASSUME ProcInv, LockInv, NEW p \in Procs, AtBackend(p), UNCHANGED locks,
         NEW r \in ProcState, proc' = [proc EXCEPT ![p] = r],
         r.op = "update", r.pc \in BackendPoints, r.mine \in Intent
  PROVE  Orderly(p)
  <1>1. r.pc # "record"
    BY DEF BackendPoints, EnsurePoints
  <1>2. Sound(r)
    BY <1>1 DEF Sound, Placed, Adopted
  <1>3. /\ NeedsUpdate(proc[p]) /\ NeedsGate(proc[p]) /\ NeedsHost(proc[p])
        /\ ~Admitting(r) /\ r.op # "start"
    BY DEF AtBackend, NeedsUpdate, NeedsGate, NeedsHost, Admitting
  <1>4. QED
    BY <1>2, <1>3, WalkOrderly

(* ... goes on, ... *)
LEMMA BackendGoto ==
  ASSUME ProcInv, LockInv, NEW p \in Procs, AtBackend(p), UNCHANGED locks,
         NEW point \in BackendPoints, Goto(p, point)
  PROVE  Orderly(p)
  <1> DEFINE r == [proc[p] EXCEPT !.pc = point]
  <1>1. point \in Points
    BY DEF Points, BackendPoints, EnsurePoints
  <1>2. proc[p] \in ProcState /\ proc[p].mine \in Intent
    BY DEF ProcInv, Sound, Adopted, AtBackend
  <1>3. r \in ProcState /\ r.op = "update" /\ r.pc \in BackendPoints /\ r.mine \in Intent
    BY <1>1, <1>2 DEF ProcState, AtBackend
  <1>4. proc' = [proc EXCEPT ![p] = r]
    BY DEF Goto
  <1>5. QED
    BY <1>3, <1>4, BackendOrderly

(* ... and publishes. *)
LEMMA BackendPublish ==
  ASSUME ProcInv, LockInv, NEW p \in Procs, AtBackend(p), UNCHANGED locks,
         NEW mine \in Intent, NEW point \in BackendPoints, PublishAs(p, mine, point)
  PROVE  Orderly(p)
  <1> DEFINE r == [proc[p] EXCEPT !.op = "update", !.mine = mine, !.pc = point]
  <1>1. point \in Points /\ "update" \in Operations
    BY DEF Points, BackendPoints, EnsurePoints, Operations
  <1>2. proc[p] \in ProcState
    BY DEF ProcInv, Sound
  <1>3. r \in ProcState /\ r.op = "update" /\ r.pc \in BackendPoints /\ r.mine \in Intent
    BY <1>1, <1>2 DEF ProcState
  <1>4. proc' = [proc EXCEPT ![p] = r]
    BY DEF PublishAs
  <1>5. QED
    BY <1>3, <1>4, BackendOrderly

LEMMA PhaseIntent ==
  ASSUME ProcInv, NEW p \in Procs, proc[p].op \in {"update", "resume"}
  PROVE  /\ proc[p].mine \in Intent
         /\ \A phase \in UpdatePhases : [proc[p].mine EXCEPT !.phase = phase] \in Intent
         /\ \A failure \in Failures : [proc[p].mine EXCEPT !.failure = failure] \in Intent
         /\ [proc[p].mine EXCEPT !.owned = TRUE] \in Intent
  BY DEF ProcInv, Sound, Adopted, Intent

LEMMA PointKinds ==
  /\ {"control", "gateway", "own", "drain", "close", "quiesce", "releasing", "release",
      "exiting", "checkpoint", "released", "remove", "starting", "ensure", "ensured",
      "activate", "activated", "finalize", "finish"} \subseteq BackendPoints
  /\ EnsurePoints \subseteq BackendPoints
  /\ BackendPoints \subseteq Points
  /\ {"Prepared", "Preparing", "Draining", "Releasing", "Released", "Starting", "Checking",
      "Activated"} \subseteq UpdatePhases
  /\ {"none", "BackendDrain", "NativeReadiness", "PoolReadiness"} \subseteq Failures
  BY DEF BackendPoints, EnsurePoints, Points, UpdatePhases, Failures

(* The update under all three locks. *)
BackendStep(p) ==
    \/ UpdateControl(p) \/ UpdateGateway(p) \/ UpdateOwn(p) \/ UpdateDrain(p)
    \/ UpdateClose(p) \/ UpdateQuiesced(p) \/ UpdateReleasing(p)
    \/ UpdateRelease(p) \/ UpdateExited(p) \/ UpdateCheckpoint(p)
    \/ UpdateReleased(p) \/ UpdateRemove(p) \/ UpdateStarting(p)
    \/ UpdateChecking(p) \/ UpdateActivate(p) \/ UpdatePoolsComplete(p)
    \/ UpdateFinalize(p) \/ UpdateFinish(p) \/ Setback(p)

LEMMA BackendStepOrderly ==
  ASSUME ProcInv, LockInv, NEW p \in Procs, BackendStep(p)
  PROVE  Orderly(p) /\ AtBackend(p)
  <1>b. AtBackend(p)
    BY PointKinds
    DEF BackendStep, Setback, UpdateControl, UpdateGateway, UpdateOwn, UpdateDrain,
        UpdateClose, UpdateQuiesced, UpdateReleasing, UpdateRelease, UpdateExited,
        UpdateCheckpoint, UpdateReleased, UpdateRemove, UpdateStarting, UpdateChecking,
        UpdateActivate, UpdatePoolsComplete, UpdateFinalize, UpdateFinish, UpdateBusy,
        UpdateUnready, UpdatePoolsUnready, At, AtBackend
  <1>i. proc[p].op \in {"update", "resume"}
    BY <1>b DEF AtBackend
  <1>p. ASSUME NEW phase \in UpdatePhases, NEW point \in BackendPoints,
               Publish(p, phase, point), UNCHANGED locks
        PROVE  Orderly(p)
    BY <1>b, <1>i, <1>p, PhaseIntent, BackendPublish DEF Publish
  <1>1. CASE UpdateControl(p) \/ UpdateGateway(p) \/ UpdateClose(p) \/ UpdateQuiesced(p)
             \/ UpdateRelease(p) \/ UpdateCheckpoint(p) \/ UpdatePoolsComplete(p)
             \/ UpdateFinalize(p)
    <2>1. UNCHANGED locks /\ \E point \in BackendPoints : Goto(p, point)
      BY <1>1, PointKinds
      DEF UpdateControl, UpdateGateway, UpdateClose, UpdateQuiesced, UpdateRelease,
          UpdateCheckpoint, UpdatePoolsComplete, UpdateFinalize
    <2>2. QED
      BY <1>b, <2>1, BackendGoto
  <1>2. CASE UpdateReleasing(p) \/ UpdateReleased(p) \/ UpdateStarting(p)
             \/ UpdateChecking(p) \/ UpdateActivate(p)
    <2>1. UNCHANGED locks
      BY <1>2 DEF UpdateReleasing, UpdateReleased, UpdateStarting, UpdateChecking, UpdateActivate
    <2>2. PICK phase \in UpdatePhases, point \in BackendPoints : Publish(p, phase, point)
      BY <1>2, PointKinds
      DEF UpdateReleasing, UpdateReleased, UpdateStarting, UpdateChecking, UpdateActivate
    <2>3. QED
      BY <1>b, <1>p, <2>1, <2>2
  <1>3. CASE UpdateOwn(p)
    <2>1. /\ UNCHANGED locks
          /\ \/ PublishAs(p, [proc[p].mine EXCEPT !.owned = TRUE], "drain")
             \/ Goto(p, "ensure")
      BY <1>3 DEF UpdateOwn
    <2>2. [proc[p].mine EXCEPT !.owned = TRUE] \in Intent
      BY <1>i, PhaseIntent
    <2>3. "drain" \in BackendPoints /\ "ensure" \in BackendPoints
      BY PointKinds
    <2>4. CASE PublishAs(p, [proc[p].mine EXCEPT !.owned = TRUE], "drain")
      BY <1>b, <2>1, <2>2, <2>3, <2>4, BackendPublish
    <2>5. CASE Goto(p, "ensure")
      BY <1>b, <2>1, <2>3, <2>5, BackendGoto
    <2>6. QED
      BY <2>1, <2>4, <2>5
  <1>4. CASE UpdateDrain(p)
    <2>1. /\ UNCHANGED locks
          /\ \/ Publish(p, "Draining", "close")
             \/ Goto(p, "release") \/ Goto(p, "checkpoint")
      BY <1>4 DEF UpdateDrain
    <2>2. QED
      BY <1>b, <1>p, <2>1, PointKinds, BackendGoto
  <1>5. CASE UpdateExited(p) \/ UpdateRemove(p)
    <2>1. PICK point \in {"checkpoint", "starting"} : \E seen \in {"Stopped", "Running"} :
             proc' = [proc EXCEPT ![p].pc = point, ![p].seen = seen]
      BY <1>5 DEF UpdateExited, UpdateRemove
    <2>2. PICK seen \in {"Stopped", "Running"} :
             proc' = [proc EXCEPT ![p].pc = point, ![p].seen = seen]
      BY <2>1
    <2> DEFINE r == [proc[p] EXCEPT !.pc = point, !.seen = seen]
    <2>3. proc[p] \in ProcState /\ point \in BackendPoints /\ point \in Points
      BY PointKinds DEF ProcInv, Sound
    <2>4. r \in ProcState /\ r.op = proc[p].op /\ r.pc = point /\ r.mine = proc[p].mine
      BY <2>3 DEF ProcState
    <2>5. proc' = [proc EXCEPT ![p] = r] /\ UNCHANGED locks
      BY <1>5, <2>2 DEF UpdateExited, UpdateRemove
    <2>6. QED
      BY <1>b, <1>i, <2>3, <2>4, <2>5, PhaseIntent, BackendOrderly DEF AtBackend
  <1>6. CASE UpdateFinish(p) \/ Setback(p)
    <2>1. End(p)
      BY <1>6 DEF UpdateFinish, Setback, UpdateBusy, UpdateUnready, UpdatePoolsUnready, Refuse
    <2>2. QED
      BY <1>b, <2>1, EndOrderly
  <1>7. QED
    BY <1>b, <1>1, <1>2, <1>3, <1>4, <1>5, <1>6 DEF BackendStep

(* The update before it holds them. *)
LEMMA PrepareOrderly ==
  ASSUME ProcInv, LockInv, TypeOK, NEW p \in Procs,
         \/ UpdateRecord(p) \/ UpdatePrepare(p) \/ UpdateRetireGateways(p)
         \/ UpdatePools(p) \/ UpdateCheck(p)
  PROVE  Orderly(p)
  <1>t. proc[p] \in ProcState /\ Sound(proc[p])
    BY DEF ProcInv, Sound
  <1>1. CASE UpdateRecord(p)
    <2>1. proc[p].op \in {"update", "resume"} /\ ~NeedsHost(proc[p])
      BY <1>t, <1>1 DEF UpdateRecord, Sound, Placed, AdmissionPoints, EnsurePoints,
                        NeedsHost, BackendPoints
    <2>2. PICK mine \in Intent : PublishAs(p, mine, "prepare")
      BY <1>1, <2>1, PhaseIntent DEF UpdateRecord, TypeOK, Updating
    <2> DEFINE r == [proc[p] EXCEPT !.op = "update", !.mine = mine, !.pc = "prepare"]
    <2>3. r \in ProcState /\ r.op = "update" /\ r.pc = "prepare" /\ r.mine = mine
      BY <1>t DEF ProcState, Operations, Points
    <2>4. Sound(r)
      BY <2>2, <2>3 DEF Sound, Placed, Adopted
    <2>5. proc' = [proc EXCEPT ![p] = r] /\ UNCHANGED locks
      BY <1>1, <2>2 DEF UpdateRecord, PublishAs
    <2>6. NeedsUpdate(proc[p]) /\ ~NeedsGate(r) /\ ~NeedsHost(r) /\ ~Admitting(r)
      BY <2>1, <2>3 DEF NeedsUpdate, NeedsGate, NeedsHost, Admitting, BackendPoints, EnsurePoints
    <2>7. QED
      BY <2>3, <2>4, <2>5, <2>6, WalkOrderly
  <1>2. CASE UpdatePrepare(p)
    <2>1. proc[p].op = "update"
      BY <1>2 DEF UpdatePrepare, At
    <2>2. PICK mine \in Intent :
             proc' = [proc EXCEPT ![p] =
                        [proc[p] EXCEPT !.op = "update", !.mine = mine, !.pc = "pools"]]
      <3>1. CASE Publish(p, "Preparing", "pools")
        BY <2>1, <3>1, PhaseIntent, PointKinds DEF Publish, PublishAs
      <3>2. CASE Goto(p, "pools")
        <4>1. [proc[p] EXCEPT !.pc = "pools"]
                 = [proc[p] EXCEPT !.op = "update", !.mine = proc[p].mine, !.pc = "pools"]
          BY <1>t, <2>1 DEF ProcState
        <4>2. QED
          BY <2>1, <3>2, <4>1, PhaseIntent DEF Goto
      <3>3. QED
        BY <1>2, <3>1, <3>2 DEF UpdatePrepare
    <2> DEFINE r == [proc[p] EXCEPT !.op = "update", !.mine = mine, !.pc = "pools"]
    <2>3. r \in ProcState /\ r.op = "update" /\ r.pc = "pools" /\ r.mine = mine
      BY <1>t DEF ProcState, Operations, Points
    <2>4. Sound(r)
      BY <2>2, <2>3 DEF Sound, Placed, Adopted
    <2>5. NeedsUpdate(proc[p]) /\ ~NeedsGate(r) /\ ~NeedsHost(r) /\ ~Admitting(r)
      BY <2>1, <2>3 DEF NeedsUpdate, NeedsGate, NeedsHost, Admitting, BackendPoints, EnsurePoints
    <2>6. QED
      BY <1>2, <2>2, <2>3, <2>4, <2>5, WalkOrderly DEF UpdatePrepare
  <1>3. CASE UpdateRetireGateways(p)
    <2>1. proc' = [proc EXCEPT ![p] = proc[p]] /\ UNCHANGED locks
      BY <1>3 DEF UpdateRetireGateways, ProcInv
    <2>2. proc[p].op = "update"
      BY <1>3 DEF UpdateRetireGateways, At
    <2>3. QED
      BY <1>t, <2>1, <2>2, WalkOrderly
  <1>4. CASE UpdatePools(p)
    <2> DEFINE r == [proc[p] EXCEPT !.pc = "check"]
    <2>1. /\ proc' = [proc EXCEPT ![p] = r] /\ gate' = [gate EXCEPT !.owner = p]
          /\ gate.owner = None /\ gate.readers = {} /\ UNCHANGED <<updateLock, hostLock>>
          /\ proc[p].op = "update"
      BY <1>4 DEF UpdatePools, TakeGate, GateFree, Goto, At
    <2>2. r \in ProcState /\ r.op = "update" /\ r.pc = "check" /\ r.mine = proc[p].mine
      BY <1>t, <2>1 DEF ProcState, Points
    <2>3. Sound(r) /\ proc'[p] = r
      BY <1>t, <2>1, <2>2 DEF Sound, Placed, Adopted, ProcInv
    <2>4. NeedsUpdate(proc[p]) /\ ~NeedsHost(r) /\ ~Admitting(r)
      BY <2>1, <2>2 DEF NeedsUpdate, NeedsHost, Admitting, BackendPoints, EnsurePoints
    <2>5. LockTypes' /\ gate'.owner = p /\ OthersKeep(p)
      BY <2>1, NobodyIsAProc DEF LockInv, LockTypes, OthersKeep
    <2>6. Holds(p, proc[p])'
      BY <2>1, <2>2, <2>3, <2>4, <2>5 DEF LockInv, Holds
    <2>7. QED
      BY <2>1, <2>3, <2>5, <2>6 DEF Orderly
  <1>5. CASE UpdateCheck(p)
    <2>1. proc[p].op = "update" /\ hostLock = None
      BY <1>5 DEF UpdateCheck, At
    <2>2. CASE Refuse(p, "BackendDrain")
      BY <2>2, EndOrderly DEF Refuse
    <2>3. CASE ~(Running /\ ~HasPlan)
      <3> DEFINE mine == [proc[p].mine EXCEPT !.failure = "none"]
                 r == [proc[p] EXCEPT !.mine = mine, !.pc = "control", !.seen = container.status]
      <3>1. /\ proc' = [proc EXCEPT ![p] = r] /\ hostLock' = p
            /\ UNCHANGED <<updateLock, gate>>
        BY <1>5, <2>3 DEF UpdateCheck
      <3>2. mine \in Intent
        BY <2>1, PhaseIntent, PointKinds
      <3>3. r \in ProcState /\ r.op = "update" /\ r.pc = "control" /\ r.mine \in Intent
        BY <1>t, <2>1, <3>2 DEF ProcState, Points, TypeOK
      <3>4. Sound(r) /\ proc'[p] = r
        BY <3>1, <3>3, PointKinds DEF Sound, Placed, Adopted, ProcInv
      <3>5. NeedsUpdate(proc[p]) /\ NeedsGate(proc[p]) /\ ~Admitting(r)
        BY <1>5, <2>1, <3>3 DEF NeedsUpdate, NeedsGate, Admitting, UpdateCheck, At
      <3>6. LockTypes' /\ OthersKeep(p)
        BY <2>1, <3>1, NobodyIsAProc DEF LockInv, LockTypes, OthersKeep
      <3>7. Holds(p, proc[p])'
        BY <3>1, <3>3, <3>4, <3>5 DEF LockInv, Holds
      <3>8. QED
        BY <3>1, <3>4, <3>6, <3>7 DEF Orderly
    <2>4. QED
      BY <1>5, <2>2, <2>3 DEF UpdateCheck
  <1>6. QED
    BY <1>1, <1>2, <1>3, <1>4, <1>5

(* A step that only moves to another point, and needs no further lock. *)
LEMMA GotoOrderly ==
  ASSUME ProcInv, LockInv, NEW p \in Procs, NEW point \in Points, Goto(p, point),
         UNCHANGED locks, proc[p].op \notin {"update", "resume"},
         Placed([proc[p] EXCEPT !.pc = point]),
         NeedsGate([proc[p] EXCEPT !.pc = point]) => NeedsGate(proc[p]),
         NeedsHost([proc[p] EXCEPT !.pc = point]) => NeedsHost(proc[p]),
         Admitting([proc[p] EXCEPT !.pc = point]) => Admitting(proc[p]),
         point = "admit" => p \in gate.readers
  PROVE  Orderly(p)
  <1> DEFINE r == [proc[p] EXCEPT !.pc = point]
  <1>1. proc[p] \in ProcState
    BY DEF ProcInv, Sound
  <1>2. r \in ProcState /\ r.op = proc[p].op /\ r.pc = point
    BY <1>1 DEF ProcState
  <1>3. Sound(r)
    BY <1>2 DEF Sound, Adopted
  <1>4. NeedsUpdate(r) => NeedsUpdate(proc[p])
    BY <1>2 DEF NeedsUpdate
  <1>5. QED
    BY <1>2, <1>3, <1>4, WalkOrderly DEF Goto

(* owner::host::ensure, in an update or in a start. *)
LEMMA EnsureOrderly ==
  ASSUME ProcInv, LockInv, NEW p \in Procs, Ensure(p)
  PROVE  Orderly(p) /\ NeedsHost(proc[p])
  <1>t. proc[p] \in ProcState /\ Sound(proc[p])
    BY DEF ProcInv, Sound
  <1>1. PICK point \in EnsurePoints : proc' = [proc EXCEPT ![p].pc = point] /\ UNCHANGED locks
    BY DEF Ensure, EnsureRunning, EnsureStart, EnsureCandidate, EnsureLaunch, EnsureReady,
           EnsureCommit, EnsureRetire, Goto, EnsurePoints
  <1>2. proc[p].pc \in EnsurePoints
    BY DEF Ensure, EnsureRunning, EnsureStart, EnsureCandidate, EnsureLaunch, EnsureReady,
           EnsureCommit, EnsureRetire, EnsurePoints
  <1>3. proc[p].op \in {"update", "start"}
    BY <1>t, <1>2 DEF Sound, Placed, EnsurePoints
  <1>4. CASE proc[p].op = "update"
    <2>1. AtBackend(p) /\ point \in BackendPoints
      BY <1>2, <1>4, PointKinds DEF AtBackend
    <2>2. QED
      BY <1>1, <2>1, BackendGoto DEF Goto, AtBackend, NeedsHost
  <1>5. CASE proc[p].op = "start"
    <2> DEFINE r == [proc[p] EXCEPT !.pc = point]
    <2>1. r.op = "start" /\ r.pc = point /\ point \in Points /\ point # "resumed" /\ point # "admit"
      BY <1>t, <1>5, PointKinds DEF ProcState, EnsurePoints
    <2>2. Placed(r)
      BY <2>1 DEF Placed, AdmissionPoints
    <2>3. ~NeedsGate(r)
      BY <2>1 DEF NeedsGate
    <2>4. NeedsHost(proc[p]) /\ Admitting(proc[p])
      BY <1>2, <1>5 DEF NeedsHost, Admitting, AdmissionPoints
    <2>5. QED
      BY <1>1, <1>5, <2>1, <2>2, <2>3, <2>4, GotoOrderly DEF Goto
  <1>6. QED
    BY <1>3, <1>4, <1>5

(* service stop --host. *)
LEMMA StopOrderly ==
  ASSUME ProcInv, LockInv, NEW p \in Procs, Stop(p)
  PROVE  Orderly(p)
  <1>t. proc[p] \in ProcState /\ Sound(proc[p])
    BY DEF ProcInv, Sound
  <1>o. proc[p].op = "stop"
    BY DEF Stop, StopPools, StopRecord, StopController, StopBackend, StopConfirm,
           StopComplete, At
  <1>1. CASE StopPools(p)
    <2> DEFINE r == [proc[p] EXCEPT !.pc = "lock"]
    <2>1. /\ proc' = [proc EXCEPT ![p] = r] /\ gate' = [gate EXCEPT !.owner = p]
          /\ gate.owner = None /\ gate.readers = {} /\ UNCHANGED <<updateLock, hostLock>>
      BY <1>1 DEF StopPools, TakeGate, GateFree, Goto
    <2>2. r \in ProcState /\ r.op = "stop" /\ r.pc = "lock"
      BY <1>t, <1>o DEF ProcState, Points
    <2>3. Sound(r) /\ proc'[p] = r
      BY <2>1, <2>2 DEF Sound, Placed, Adopted, ProcInv
    <2>4. ~NeedsUpdate(r) /\ ~NeedsHost(r) /\ ~Admitting(r)
      BY <2>2 DEF NeedsUpdate, NeedsHost, Admitting
    <2>5. LockTypes' /\ gate'.owner = p /\ OthersKeep(p)
      BY <2>1, NobodyIsAProc DEF LockInv, LockTypes, OthersKeep
    <2>6. Holds(p, proc[p])'
      BY <2>2, <2>3, <2>4, <2>5 DEF Holds
    <2>7. QED
      BY <2>1, <2>3, <2>5, <2>6 DEF Orderly
  <1>2. CASE StopRecord(p)
    <2> DEFINE r == [proc[p] EXCEPT !.pc = "control", !.saw = NoShutdown]
    <2>1. /\ proc' = [proc EXCEPT ![p] = r] /\ hostLock' = p /\ hostLock = None
          /\ UNCHANGED <<updateLock, gate>> /\ proc[p].pc = "lock"
      BY <1>2 DEF StopRecord, TakeHost, At
    <2>2. r \in ProcState /\ r.op = "stop" /\ r.pc = "control"
      BY <1>t, <1>o DEF ProcState, Points
    <2>3. Sound(r) /\ proc'[p] = r
      BY <2>1, <2>2 DEF Sound, Placed, Adopted, ProcInv
    <2>4. ~NeedsUpdate(r) /\ NeedsGate(proc[p]) /\ ~Admitting(r)
      BY <1>o, <2>1, <2>2 DEF NeedsUpdate, NeedsGate, Admitting
    <2>5. LockTypes' /\ OthersKeep(p)
      BY <2>1, NobodyIsAProc DEF LockInv, LockTypes, OthersKeep
    <2>6. Holds(p, proc[p])'
      BY <2>1, <2>2, <2>3, <2>4, <2>5 DEF LockInv, Holds
    <2>7. QED
      BY <2>1, <2>3, <2>5, <2>6 DEF Orderly
  <1>3. CASE StopController(p) \/ StopBackend(p) \/ StopConfirm(p)
    <2>1. PICK point \in {"halt", "confirm", "finish"} :
             Goto(p, point) /\ UNCHANGED locks
             /\ proc[p].pc \in {"control", "halt", "confirm"}
      BY <1>3 DEF StopController, StopBackend, StopConfirm, At
    <2> DEFINE r == [proc[p] EXCEPT !.pc = point]
    <2>2. r.op = "stop" /\ r.pc = point /\ point \in Points /\ point # "admit"
      BY <1>t, <1>o DEF ProcState, Points
    <2>3. Placed(r) /\ ~Admitting(r)
      BY <2>2 DEF Placed, Admitting
    <2>4. NeedsGate(proc[p]) /\ NeedsHost(proc[p])
      BY <1>o, <2>1 DEF NeedsGate, NeedsHost
    <2>5. QED
      BY <1>o, <2>1, <2>2, <2>3, <2>4, GotoOrderly
  <1>4. CASE StopComplete(p)
    BY <1>4, EndOrderly DEF StopComplete
  <1>5. QED
    BY <1>1, <1>2, <1>3, <1>4 DEF Stop

(* service start: admission holds the gate shared, a resumption exclusively. *)
LEMMA StartOrderly ==
  ASSUME ProcInv, LockInv, NEW p \in Procs, Start(p)
  PROVE  Orderly(p)
  <1>t. proc[p] \in ProcState /\ Sound(proc[p])
    BY DEF ProcInv, Sound
  <1>o. proc[p].op = "start"
    BY DEF Start, StartGate, StartResume, StartController, StartResumed, StartFence,
           StartAdmit, StartRegister, StartReturn, At
  <1>g. ASSUME NEW point \in {"lock", "fence", "ensure", "resumed", "admit"},
               NEW saw \in {proc[p].saw, NoShutdown}
        PROVE  LET r == [proc[p] EXCEPT !.pc = point, !.saw = saw]
               IN  Sound(r) /\ r.op = "start" /\ r.pc = point
    <2> DEFINE r == [proc[p] EXCEPT !.pc = point, !.saw = saw]
    <2>1. r \in ProcState /\ r.op = "start" /\ r.pc = point
      BY <1>t, <1>o DEF ProcState, Points
    <2>2. Placed(r) /\ Adopted(r)
      BY <2>1 DEF Placed, Adopted, AdmissionPoints, EnsurePoints
    <2>3. QED
      BY <2>1, <2>2 DEF Sound
  <1>s. [proc[p] EXCEPT !.saw = proc[p].saw] = proc[p]
    BY <1>t DEF ProcState
  <1>1. CASE StartGate(p)
    <2> DEFINE r == [proc[p] EXCEPT !.pc = "lock", !.saw = proc[p].saw]
    <2>1. /\ proc' = [proc EXCEPT ![p] = r] /\ gate' = [gate EXCEPT !.owner = p]
          /\ gate.owner = None /\ gate.readers = {} /\ UNCHANGED <<updateLock, hostLock>>
      BY <1>1, <1>t DEF StartGate, TakeGate, GateFree, Goto, ProcState
    <2>2. Sound(r) /\ r.op = "start" /\ r.pc = "lock" /\ proc'[p] = r
      BY <1>g, <2>1 DEF ProcInv
    <2>3. ~NeedsUpdate(r) /\ ~NeedsHost(r)
      BY <2>2 DEF NeedsUpdate, NeedsHost, EnsurePoints
    <2>4. LockTypes' /\ gate'.owner = p /\ OthersKeep(p)
      BY <2>1, NobodyIsAProc DEF LockInv, LockTypes, OthersKeep
    <2>5. Holds(p, proc[p])'
      BY <2>2, <2>3, <2>4 DEF Holds
    <2>6. QED
      BY <2>1, <2>2, <2>4, <2>5 DEF Orderly
  <1>2. CASE StartResume(p)
    <2> DEFINE r == [proc[p] EXCEPT !.pc = "ensure", !.saw = NoShutdown]
    <2>1. /\ proc' = [proc EXCEPT ![p] = r] /\ hostLock' = p /\ hostLock = None
          /\ UNCHANGED <<updateLock, gate>> /\ gate.owner = p
      BY <1>2 DEF StartResume, TakeHost
    <2>2. Sound(r) /\ r.op = "start" /\ r.pc = "ensure" /\ proc'[p] = r
      BY <1>g, <2>1 DEF ProcInv
    <2>3. ~NeedsUpdate(r) /\ ~NeedsGate(r)
      BY <2>2 DEF NeedsUpdate, NeedsGate
    <2>4. LockTypes' /\ OthersKeep(p)
      BY <2>1, NobodyIsAProc DEF LockInv, LockTypes, OthersKeep
    <2>5. Holds(p, proc[p])'
      BY <2>1, <2>2, <2>3, <2>4 DEF Holds
    <2>6. QED
      BY <2>1, <2>2, <2>4, <2>5 DEF Orderly
  <1>3. CASE StartController(p)
    <2> DEFINE r == [proc[p] EXCEPT !.pc = "resumed", !.saw = proc[p].saw]
    <2>1. /\ proc' = [proc EXCEPT ![p] = r] /\ UNCHANGED locks /\ gate.owner = p
          /\ proc[p].pc = "ensured"
      BY <1>3, <1>t DEF StartController, Goto, At, ProcState
    <2>2. Sound(r) /\ r.op = "start" /\ r.pc = "resumed" /\ proc'[p] = r
      BY <1>g, <2>1 DEF ProcInv
    <2>3. ~NeedsUpdate(r) /\ NeedsHost(proc[p]) /\ ~Admitting(r)
      BY <1>o, <2>1, <2>2
      DEF NeedsUpdate, NeedsHost, Admitting, EnsurePoints, AdmissionPoints
    <2>4. LockTypes' /\ OthersKeep(p)
      BY <2>1 DEF locks, LockInv, LockTypes, OthersKeep
    <2>5. Holds(p, proc[p])'
      BY <2>1, <2>2, <2>3, <2>4 DEF locks, LockInv, Holds
    <2>6. QED
      BY <2>1, <2>2, <2>4, <2>5 DEF Orderly
  <1>4. CASE StartResumed(p)
    <2> DEFINE r == [proc[p] EXCEPT !.pc = "fence", !.saw = proc[p].saw]
    <2>1. /\ proc' = [proc EXCEPT ![p] = r] /\ UNCHANGED updateLock
          /\ gate' = [gate EXCEPT !.owner = None] /\ hostLock' = None
          /\ proc[p].pc = "resumed"
      BY <1>4, <1>t DEF StartResumed, Goto, At, ProcState
    <2>2. Sound(r) /\ r.op = "start" /\ r.pc = "fence" /\ proc'[p] = r
      BY <1>g, <2>1 DEF ProcInv
    <2>3. gate.owner = p /\ hostLock = p
      BY <1>o, <2>1 DEF LockInv, Holds, NeedsGate, NeedsHost
    <2>4. ~NeedsUpdate(r) /\ ~NeedsGate(r) /\ ~NeedsHost(r) /\ ~Admitting(r)
      BY <2>2 DEF NeedsUpdate, NeedsGate, NeedsHost, Admitting, EnsurePoints, AdmissionPoints
    <2>5. LockTypes' /\ OthersKeep(p)
      BY <2>1, <2>3 DEF LockInv, LockTypes, OthersKeep
    <2>6. Holds(p, proc[p])'
      BY <2>2, <2>4 DEF Holds
    <2>7. QED
      BY <2>1, <2>2, <2>5, <2>6 DEF Orderly
  <1>5. CASE StartFence(p)
    <2> DEFINE r == [proc[p] EXCEPT !.pc = "lock", !.saw = proc[p].saw]
    <2>1. /\ proc' = [proc EXCEPT ![p] = r] /\ UNCHANGED <<updateLock, hostLock>>
          /\ gate' = [gate EXCEPT !.readers = @ \cup {p}] /\ gate.owner = None
      BY <1>5, <1>t DEF StartFence, Goto, ProcState
    <2>2. Sound(r) /\ r.op = "start" /\ r.pc = "lock" /\ proc'[p] = r
      BY <1>g, <2>1 DEF ProcInv
    <2>3. ~NeedsUpdate(r) /\ ~NeedsGate(r) /\ ~NeedsHost(r)
      BY <2>2 DEF NeedsUpdate, NeedsGate, NeedsHost, EnsurePoints
    <2>4. LockTypes' /\ OthersKeep(p) /\ p \in gate'.readers
      BY <2>1, NobodyIsAProc DEF LockInv, LockTypes, OthersKeep
    <2>5. Holds(p, proc[p])'
      BY <2>2, <2>3, <2>4 DEF Holds
    <2>6. QED
      BY <2>1, <2>2, <2>4, <2>5 DEF Orderly
  <1>6. CASE StartAdmit(p)
    <2> DEFINE r == [proc[p] EXCEPT !.pc = "ensure", !.saw = proc[p].saw]
    <2>1. /\ proc' = [proc EXCEPT ![p] = r] /\ hostLock' = p /\ hostLock = None
          /\ UNCHANGED <<updateLock, gate>> /\ proc[p].pc = "lock"
      BY <1>6, <1>t DEF StartAdmit, TakeHost, Goto, At, ProcState
    <2>2. Sound(r) /\ r.op = "start" /\ r.pc = "ensure" /\ proc'[p] = r
      BY <1>g, <2>1 DEF ProcInv
    <2>3. ~NeedsUpdate(r) /\ ~NeedsGate(r) /\ Admitting(proc[p])
      BY <1>o, <2>1, <2>2 DEF NeedsUpdate, NeedsGate, Admitting, AdmissionPoints
    <2>4. LockTypes' /\ OthersKeep(p)
      BY <2>1, NobodyIsAProc DEF LockInv, LockTypes, OthersKeep
    <2>5. Holds(p, proc[p])'
      BY <2>1, <2>2, <2>3, <2>4 DEF LockInv, Holds
    <2>6. QED
      BY <2>1, <2>2, <2>4, <2>5 DEF Orderly
  <1>7. CASE StartRegister(p)
    <2> DEFINE r == [proc[p] EXCEPT !.pc = "admit", !.saw = proc[p].saw]
    <2>1. /\ proc' = [proc EXCEPT ![p] = r] /\ UNCHANGED locks /\ gate.owner # p
          /\ proc[p].pc = "ensured"
      BY <1>7, <1>t DEF StartRegister, Goto, At, ProcState
    <2>2. Sound(r) /\ r.op = "start" /\ r.pc = "admit" /\ proc'[p] = r
      BY <1>g, <2>1 DEF ProcInv
    <2>3. ~NeedsUpdate(r) /\ ~NeedsGate(r) /\ NeedsHost(proc[p]) /\ Admitting(proc[p])
      BY <1>o, <2>1, <2>2 DEF NeedsUpdate, NeedsGate, NeedsHost, Admitting, EnsurePoints,
                              AdmissionPoints
    <2>4. p \in gate.readers
      BY <2>1, <2>3 DEF LockInv, Holds
    <2>5. QED
      BY <2>1, <2>2, <2>3, <2>4, WalkOrderly
  <1>8. CASE StartReturn(p)
    BY <1>8, EndOrderly DEF StartReturn
  <1>9. QED
    BY <1>1, <1>2, <1>3, <1>4, <1>5, <1>6, <1>7, <1>8 DEF Start

LEMMA CancelOrderly ==
  ASSUME ProcInv, LockInv, NEW p \in Procs, Cancel(p)
  PROVE  Orderly(p) /\ proc[p].op = "cancel"
  <1>t. proc[p] \in ProcState /\ Sound(proc[p])
    BY DEF ProcInv, Sound
  <1>o. proc[p].op = "cancel"
    BY DEF Cancel, CancelArchive, CancelRemove, At
  <1>1. CASE CancelArchive(p)
    <2> DEFINE r == [proc[p] EXCEPT !.pc = "archived"]
    <2>1. /\ proc' = [proc EXCEPT ![p] = r] /\ hostLock' = p /\ hostLock = None
          /\ UNCHANGED <<updateLock, gate>>
      BY <1>1 DEF CancelArchive, TakeHost, Goto
    <2>2. r \in ProcState /\ r.op = "cancel" /\ r.pc = "archived"
      BY <1>t, <1>o DEF ProcState, Points
    <2>3. Sound(r) /\ proc'[p] = r
      BY <2>1, <2>2 DEF Sound, Placed, Adopted, ProcInv
    <2>4. NeedsUpdate(proc[p]) /\ NeedsGate(proc[p]) /\ ~Admitting(r)
      BY <1>o, <2>2 DEF NeedsUpdate, NeedsGate, Admitting
    <2>5. LockTypes' /\ OthersKeep(p)
      BY <2>1, NobodyIsAProc DEF LockInv, LockTypes, OthersKeep
    <2>6. Holds(p, proc[p])'
      BY <2>1, <2>2, <2>3, <2>4, <2>5 DEF LockInv, Holds
    <2>7. QED
      BY <1>o, <2>1, <2>3, <2>5, <2>6 DEF Orderly
  <1>2. CASE CancelRemove(p)
    BY <1>2, <1>o, EndOrderly DEF CancelRemove
  <1>3. QED
    BY <1>1, <1>2 DEF Cancel

(* A process begins with the locks its command takes at once. *)
LEMMA BeginOrderly ==
  ASSUME ProcInv, LockInv, TypeOK, NEW p \in Procs, Begin(p)
  PROVE  Orderly(p)
  <1>n. NoProc \in ProcState
    BY NothingSound DEF Sound
  <1>1. ASSUME NEW v \in Versions, UpdateBegin(p, v) PROVE Orderly(p)
    <2> DEFINE mine == [target |-> v, phase |-> "Prepared", failure |-> "none", owned |-> FALSE]
               r == [NoProc EXCEPT !.op = "update", !.pc = "record", !.mine = mine]
    <2>1. /\ proc' = [proc EXCEPT ![p] = r] /\ updateLock' = p /\ updateLock = None
          /\ UNCHANGED <<gate, hostLock>>
      BY <1>1 DEF UpdateBegin
    <2>2. mine \in Intent
      BY PointKinds DEF Intent
    <2>3. r \in ProcState /\ r.op = "update" /\ r.pc = "record" /\ r.mine = mine
      BY <1>n, <2>2 DEF ProcState, Operations, Points
    <2>4. Sound(r) /\ proc'[p] = r
      BY <2>1, <2>2, <2>3 DEF Sound, Placed, Adopted, ProcInv
    <2>5. ~NeedsGate(r) /\ ~NeedsHost(r) /\ ~Admitting(r)
      BY <2>3 DEF NeedsGate, NeedsHost, Admitting, BackendPoints, EnsurePoints
    <2>6. LockTypes' /\ OthersKeep(p) /\ Holds(p, proc[p])'
      BY <2>1, <2>3, <2>4, <2>5, NobodyIsAProc DEF LockInv, LockTypes, OthersKeep, Holds
    <2>7. QED
      BY <2>1, <2>4, <2>6 DEF Orderly
  <1>2. CASE ResumeBegin(p)
    <2> DEFINE r == [NoProc EXCEPT !.op = "resume", !.pc = "record", !.mine = intent]
    <2>1. /\ proc' = [proc EXCEPT ![p] = r] /\ updateLock' = p /\ updateLock = None
          /\ UNCHANGED <<gate, hostLock>>
      BY <1>2 DEF ResumeBegin
    <2>2. intent \in Intent
      BY <1>2 DEF ResumeBegin, Updating, TypeOK
    <2>3. r \in ProcState /\ r.op = "resume" /\ r.pc = "record" /\ r.mine = intent
      BY <1>n, <2>2 DEF ProcState, Operations, Points
    <2>4. Sound(r) /\ proc'[p] = r
      BY <2>1, <2>2, <2>3 DEF Sound, Placed, Adopted, ProcInv
    <2>5. ~NeedsGate(r) /\ ~NeedsHost(r) /\ ~Admitting(r)
      BY <2>3 DEF NeedsGate, NeedsHost, Admitting
    <2>6. LockTypes' /\ OthersKeep(p) /\ Holds(p, proc[p])'
      BY <2>1, <2>3, <2>4, <2>5, NobodyIsAProc DEF LockInv, LockTypes, OthersKeep, Holds
    <2>7. QED
      BY <2>1, <2>4, <2>6 DEF Orderly
  <1>3. CASE StopBegin(p)
    <2> DEFINE saw == [phase |-> "stopping", image |-> Owner, package |-> controller.package]
               r == [NoProc EXCEPT !.op = "stop", !.pc = "gate", !.saw = saw]
    <2>1. proc' = [proc EXCEPT ![p] = r] /\ UNCHANGED locks
      BY <1>3 DEF StopBegin
    <2>2. saw \in Shutdown
      BY DEF Shutdown, TypeOK, Owner
    <2>3. r \in ProcState /\ r.op = "stop" /\ r.pc = "gate"
      BY <1>n, <2>2 DEF ProcState, Operations, Points
    <2>4. Sound(r)
      BY <2>3 DEF Sound, Placed, Adopted
    <2>5. ~NeedsUpdate(r) /\ ~NeedsGate(r) /\ ~NeedsHost(r) /\ ~Admitting(r)
      BY <2>3 DEF NeedsUpdate, NeedsGate, NeedsHost, Admitting, BackendPoints, EnsurePoints
    <2>6. QED
      BY <2>1, <2>3, <2>4, <2>5, WalkOrderly
  <1>4. CASE StartBegin(p)
    <2> DEFINE point == IF shutdown = NoShutdown THEN "fence" ELSE "gate"
               r == [NoProc EXCEPT !.op = "start", !.saw = shutdown, !.pc = point]
    <2>1. proc' = [proc EXCEPT ![p] = r] /\ UNCHANGED locks
      BY <1>4 DEF StartBegin
    <2>2. r \in ProcState /\ r.op = "start" /\ r.pc \in {"fence", "gate"}
      BY ZenonT(30), <1>n DEF ProcState, Operations, Points, TypeOK
    <2>3. Sound(r)
      BY <2>2 DEF Sound, Placed, Adopted
    <2>4. ~NeedsUpdate(r) /\ ~NeedsGate(r) /\ ~NeedsHost(r) /\ ~Admitting(r)
      BY <2>2 DEF NeedsUpdate, NeedsGate, NeedsHost, Admitting, EnsurePoints, AdmissionPoints
    <2>5. r.pc # "admit"
      BY <2>2
    <2>6. QED
      BY <2>1, <2>3, <2>4, <2>5, WalkOrderly
  <1>5. CASE CancelBegin(p)
    <2> DEFINE r == [NoProc EXCEPT !.op = "cancel", !.pc = "check"]
    <2>1. /\ proc' = [proc EXCEPT ![p] = r] /\ updateLock' = p /\ updateLock = None
          /\ gate' = [gate EXCEPT !.owner = p] /\ gate.owner = None /\ gate.readers = {}
          /\ UNCHANGED hostLock
      BY <1>5 DEF CancelBegin, TakeGate, GateFree
    <2>2. r \in ProcState /\ r.op = "cancel" /\ r.pc = "check"
      BY <1>n DEF ProcState, Operations, Points
    <2>3. Sound(r) /\ proc'[p] = r
      BY <2>1, <2>2 DEF Sound, Placed, Adopted, ProcInv
    <2>4. ~NeedsHost(r) /\ ~Admitting(r)
      BY <2>2 DEF NeedsHost, Admitting
    <2>5. LockTypes' /\ OthersKeep(p) /\ gate'.owner = p
      BY <2>1, NobodyIsAProc DEF LockInv, LockTypes, OthersKeep
    <2>6. Holds(p, proc[p])'
      BY <2>1, <2>2, <2>3, <2>4, <2>5 DEF Holds
    <2>7. QED
      BY <2>1, <2>3, <2>5, <2>6 DEF Orderly
  <1>6. QED
    BY <1>1, <1>2, <1>3, <1>4, <1>5 DEF Begin

Preparing(p) ==
    \/ UpdateRecord(p) \/ UpdatePrepare(p) \/ UpdateRetireGateways(p)
    \/ UpdatePools(p) \/ UpdateCheck(p)

(* The steps of a process. *)
LEMMA StepKinds ==
  ASSUME NEW p \in Procs, Begin(p) \/ Step(p) \/ Setback(p) \/ Die(p)
  PROVE  \/ Preparing(p) \/ BackendStep(p) \/ Ensure(p) \/ Stop(p) \/ Start(p)
         \/ Cancel(p) \/ Begin(p) \/ Die(p)
  BY DEF Step, Advance, Preparing, BackendStep

(* A step of a process, as the parts of the invariant see it. *)
LEMMA StepOrderly ==
  ASSUME ProcInv, LockInv, TypeOK, NEW p \in Procs,
         Begin(p) \/ Step(p) \/ Setback(p) \/ Die(p)
  PROVE  Orderly(p)
  <1>1. CASE Preparing(p)
    BY <1>1, PrepareOrderly DEF Preparing
  <1>2. CASE Die(p)
    BY <1>2, EndOrderly DEF Die
  <1>3. QED
    BY <1>1, <1>2, StepKinds, BackendStepOrderly, EnsureOrderly, StopOrderly,
       StartOrderly, CancelOrderly, BeginOrderly

LEMMA DisciplineStep ==
  ASSUME ProcInv, LockInv, TypeOK, [Next]_vars
  PROVE  ProcInv' /\ LockInv'
  <1>1. CASE UNCHANGED <<proc, locks>>
    BY <1>1 DEF locks, ProcInv, LockInv, LockTypes, Holds
  <1>2. CASE BackendExits \/ BackendCrashes \/ UNCHANGED vars
    BY <1>1, <1>2 DEF BackendExits, BackendCrashes, locks, vars
  <1>3. QED
    BY <1>2, StepOrderly, OrderlyStep DEF Next

-----------------------------------------------------------------------------
(* The documents and the backend. *)

DocumentTypes ==
    /\ intent \in Intent \cup {NoIntent}
    /\ shutdown \in Shutdown \cup {NoShutdown}
    /\ marker \in Marker \cup {NoMarker}
    /\ archived \in Intent \cup {NoIntent}
    /\ touched \in BOOLEAN
OwnerTypes ==
    /\ selected \in Versions
    /\ candidate \in Versions \cup {None}
CoreTypes ==
    /\ native \in BOOLEAN
    /\ plan \in Plan \cup {NoPlan}
    /\ controller \in [package : Versions, stopped : BOOLEAN]
WorldTypes ==
    /\ checkpoint \in {"none", "exact", "stale"}
    /\ container \in [status : {"Running", "Stopped", "Missing"},
                      image : Versions, drained : BOOLEAN,
                      releasing : BOOLEAN, clean : BOOLEAN]
    /\ data \in Versions
StateTypes == DocumentTypes /\ OwnerTypes /\ CoreTypes /\ WorldTypes

(* What the next write of a process relies on. *)
Grounded(p) ==
    /\ proc[p].pc = "quiesce" => HasPlan
    /\ proc[p].pc \in {"launch", "commit", "retire"} => candidate # None
    /\ proc[p].pc = "retire" => candidate = selected
    /\ proc[p].op = "stop" /\ proc[p].pc \in {"control", "halt", "confirm"}
          => shutdown \in Shutdown

(* The type invariant is not inductive without the locks that keep it. *)
Inv ==
    /\ StateTypes /\ ProcInv /\ LockInv
    /\ \A p \in Procs : Grounded(p)

LEMMA InvTypes == Inv => TypeOK
  BY DEF Inv, StateTypes, DocumentTypes, OwnerTypes, CoreTypes, WorldTypes, ProcInv,
         ProcState, LockInv, LockTypes, TypeOK

LEMMA InvInit == Init => Inv
  <1> SUFFICES ASSUME Init PROVE Inv
    OBVIOUS
  <1>1. proc \in [Procs -> ProcState] /\ \A p \in Procs : proc[p] = NoProc
    BY NothingSound DEF Init, Sound
  <1>2. ProcInv
    BY <1>1, NothingSound DEF ProcInv
  <1>3. LockInv
    BY <1>1 DEF Init, LockInv, LockTypes, Holds, NoProc, NeedsUpdate, NeedsGate, NeedsHost,
                Admitting
  <1>4. \A p \in Procs : Grounded(p)
    BY <1>1 DEF Grounded, NoProc
  <1>5. StateTypes
    BY HostUpdateAssumption
    DEF Init, StateTypes, DocumentTypes, OwnerTypes, CoreTypes, WorldTypes, Plan
  <1>6. QED
    BY <1>2, <1>3, <1>4, <1>5 DEF Inv

(* What the steps of each command leave alone. *)
LEMMA Frames ==
  ASSUME NEW p \in Procs
  PROVE  /\ Preparing(p) => UNCHANGED <<owners, native, plan, evidence, world>>
         /\ BackendStep(p) => UNCHANGED <<owners, native>>
         /\ Ensure(p) => UNCHANGED <<documents, evidence>>
         /\ Stop(p) => UNCHANGED <<intent, owners, native, plan, evidence, data, checkpoint>>
         /\ Start(p) => UNCHANGED <<intent, marker, owners, native, plan, evidence, world>>
         /\ Cancel(p) => UNCHANGED <<shutdown, marker, owners, core, container, data>>
         /\ Begin(p) \/ Die(p) => UNCHANGED <<documents, owners, core, evidence, world>>
  <1> USE DEF documents, owners, core, evidence, world
  <1>1. Preparing(p) => UNCHANGED <<owners, native, plan, evidence, world>>
    BY DEF Preparing, UpdateRecord, UpdatePrepare, UpdateRetireGateways, UpdatePools, UpdateCheck
  <1>2. BackendStep(p) => UNCHANGED <<owners, native>>
    BY DEF BackendStep, Setback, UpdateControl, UpdateGateway, UpdateOwn, UpdateDrain,
        UpdateClose, UpdateQuiesced, UpdateReleasing, UpdateRelease, UpdateExited,
        UpdateCheckpoint, UpdateReleased, UpdateRemove, UpdateStarting, UpdateChecking,
        UpdateActivate, UpdatePoolsComplete, UpdateFinalize, UpdateFinish, UpdateBusy,
        UpdateUnready, UpdatePoolsUnready
  <1>3. Ensure(p) => UNCHANGED <<documents, evidence>>
    BY DEF Ensure, EnsureRunning, EnsureStart, EnsureCandidate, EnsureLaunch, EnsureReady,
           EnsureCommit, EnsureRetire
  <1>4. Stop(p) => UNCHANGED <<intent, owners, native, plan, evidence, data, checkpoint>>
    BY DEF Stop, StopPools, StopRecord, StopController, StopBackend, StopConfirm, StopComplete
  <1>5. Start(p) => UNCHANGED <<intent, marker, owners, native, plan, evidence, world>>
    BY DEF Start, StartGate, StartResume, StartController, StartResumed, StartFence,
           StartAdmit, StartRegister, StartReturn
  <1>6. Cancel(p) => UNCHANGED <<shutdown, marker, owners, core, container, data>>
    BY DEF Cancel, CancelArchive, CancelRemove
  <1>7. Begin(p) \/ Die(p) => UNCHANGED <<documents, owners, core, evidence, world>>
    BY DEF Begin, Die, UpdateBegin, ResumeBegin, StopBegin, StartBegin, CancelBegin
  <1>8. QED
    BY <1>1, <1>2, <1>3, <1>4, <1>5, <1>6, <1>7

(* Documents: update.json is written from what the process has adopted. *)
LEMMA PublishTypes ==
  ASSUME Inv, NEW p \in Procs, proc[p].op \in {"update", "resume"}
  PROVE  /\ \A mine \in Intent : \A point : PublishAs(p, mine, point) => intent' \in Intent
         /\ \A phase \in UpdatePhases : \A point : Publish(p, phase, point) => intent' \in Intent
         /\ \A failure \in Failures : Refuse(p, failure) => intent' \in Intent
  BY PhaseIntent DEF Inv, PublishAs, Publish, Refuse

LEMMA PrepareTypes ==
  ASSUME Inv, NEW p \in Procs, Preparing(p)
  PROVE  StateTypes'
  <1>f. OwnerTypes' /\ WorldTypes' /\ UNCHANGED <<native, plan, archived, touched>>
    BY Frames DEF Inv, StateTypes, OwnerTypes, WorldTypes, owners, world, evidence
  <1>t. /\ proc[p] \in ProcState /\ Sound(proc[p]) /\ DocumentTypes /\ CoreTypes /\ OwnerTypes
      BY DEF Inv, ProcInv, Sound, StateTypes
  <1>1. CASE UpdateRecord(p)
    <2>1. proc[p].op \in {"update", "resume"}
      BY <1>t, <1>1 DEF UpdateRecord, Sound, Placed, AdmissionPoints, EnsurePoints
    <2>2. proc[p].mine \in Intent
      BY <2>1, PhaseIntent DEF Inv
    <2>3. intent' \in Intent
      BY <1>t, <1>1, <2>2 DEF UpdateRecord, PublishAs, Updating, DocumentTypes
    <2>4. UNCHANGED <<shutdown, marker, controller>>
      BY <1>1 DEF UpdateRecord, core
    <2>5. QED
      BY <1>f, <1>t, <2>3, <2>4 DEF DocumentTypes, CoreTypes, StateTypes
  <1>2. CASE UpdatePrepare(p)
    <2>1. proc[p].op \in {"update", "resume"}
      BY <1>2 DEF UpdatePrepare, At
    <2>2. intent' \in Intent \cup {NoIntent}
      BY <1>t, <1>2, <2>1, PublishTypes, PointKinds DEF UpdatePrepare, DocumentTypes
    <2>3. UNCHANGED <<shutdown, marker, controller>>
      BY <1>2 DEF UpdatePrepare, core
    <2>4. QED
      BY <1>f, <1>t, <2>2, <2>3 DEF DocumentTypes, CoreTypes, StateTypes
  <1>3. CASE UpdateRetireGateways(p)
    <2>1. shutdown \in Shutdown
      BY <1>t, <1>3 DEF UpdateRetireGateways, DocumentTypes, NoShutdown
    <2>2. shutdown' \in Shutdown
      BY <1>t, <1>3, <2>1 DEF UpdateRetireGateways, CoreTypes, Shutdown
    <2>3. controller' \in [package : Versions, stopped : BOOLEAN]
      BY <1>t, <1>3 DEF UpdateRetireGateways, CoreTypes
    <2>4. marker' \in Marker \cup {NoMarker} /\ UNCHANGED intent
      BY <1>t, <1>3 DEF UpdateRetireGateways, DocumentTypes
    <2>5. QED
      BY <1>f, <1>t, <2>2, <2>3, <2>4 DEF DocumentTypes, CoreTypes, StateTypes
  <1>4. CASE UpdatePools(p)
    <2>1. proc[p].mine \in Intent
      BY <1>4, PhaseIntent DEF UpdatePools, At, Inv
    <2>2. [kind |-> "update", target |-> proc[p].mine.target] \in Marker
      BY <2>1 DEF Marker, Intent
    <2>3. marker' \in Marker \cup {NoMarker} /\ UNCHANGED <<intent, shutdown, controller>>
      BY <1>t, <1>4, <2>2 DEF UpdatePools, DocumentTypes, core
    <2>4. QED
      BY <1>f, <1>t, <2>3 DEF DocumentTypes, CoreTypes, StateTypes
  <1>5. CASE UpdateCheck(p)
    <2>1. proc[p].op \in {"update", "resume"}
      BY <1>5 DEF UpdateCheck, At
    <2>2. intent' \in Intent
      <3>1. CASE Refuse(p, "BackendDrain")
        BY <2>1, <3>1, PublishTypes, PointKinds
      <3>2. CASE intent' = [proc[p].mine EXCEPT !.failure = "none"]
        BY <2>1, <3>2, PhaseIntent, PointKinds DEF Inv
      <3>3. QED
        BY <1>5, <3>1, <3>2 DEF UpdateCheck
    <2>3. controller' \in [package : Versions, stopped : BOOLEAN]
      <3>1. UNCHANGED controller
            \/ \E repair \in BOOLEAN : controller' = [controller EXCEPT !.stopped = @ \/ repair]
        BY <1>5 DEF UpdateCheck
      <3>2. QED
        BY <1>t, <3>1 DEF CoreTypes
    <2>4. UNCHANGED <<shutdown, marker>>
      BY <1>5 DEF UpdateCheck
    <2>5. QED
      BY <1>f, <1>t, <2>2, <2>3, <2>4 DEF DocumentTypes, CoreTypes, StateTypes
  <1>6. QED
    BY <1>1, <1>2, <1>3, <1>4, <1>5 DEF Preparing

LEMMA BackendContainer ==
  ASSUME Inv, NEW p \in Procs, BackendStep(p)
  PROVE  /\ WorldTypes' /\ UNCHANGED data /\ container'.image = container.image
         /\ container'.status # "Missing" => container.status # "Missing"
  <1>t. WorldTypes
    BY DEF Inv, StateTypes
  <1>1. UNCHANGED data /\ (UNCHANGED checkpoint \/ checkpoint' \in {"none", "exact"})
    BY DEF BackendStep, Setback, UpdateControl, UpdateGateway, UpdateOwn, UpdateDrain,
      UpdateClose, UpdateQuiesced, UpdateReleasing, UpdateRelease, UpdateExited,
      UpdateCheckpoint, UpdateReleased, UpdateRemove, UpdateStarting, UpdateChecking,
      UpdateActivate, UpdatePoolsComplete, UpdateFinalize, UpdateFinish, UpdateBusy,
      UpdateUnready, UpdatePoolsUnready, RemoveIntent, world
  <1>2. \/ UNCHANGED container
        \/ container' = [container EXCEPT !.drained = TRUE]
        \/ \E aborted \in BOOLEAN :
              container' = [container EXCEPT !.drained = @ /\ ~aborted]
        \/ container' = [container EXCEPT !.releasing = Running]
        \/ container' = [container EXCEPT
              !.status = IF proc[p].seen = "Stopped" THEN "Missing" ELSE @]
    BY DEF BackendStep, Setback, UpdateControl, UpdateGateway, UpdateOwn, UpdateDrain,
      UpdateClose, UpdateQuiesced, UpdateReleasing, UpdateRelease, UpdateExited,
      UpdateCheckpoint, UpdateReleased, UpdateRemove, UpdateStarting, UpdateChecking,
      UpdateActivate, UpdatePoolsComplete, UpdateFinalize, UpdateFinish, UpdateBusy,
      UpdateUnready, UpdatePoolsUnready, world
  <1>3. checkpoint' \in {"none", "exact", "stale"} /\ data' \in Versions
    BY <1>t, <1>1 DEF WorldTypes
  <1>4. CASE \E aborted \in BOOLEAN : container' = [container EXCEPT !.drained = @ /\ ~aborted]
    <2>1. PICK aborted \in BOOLEAN : container' = [container EXCEPT !.drained = @ /\ ~aborted]
      BY <1>4
    <2>2. (container.drained /\ ~aborted) \in BOOLEAN
      OBVIOUS
    <2>3. QED
      BY <1>t, <1>1, <1>3, <2>1, <2>2 DEF WorldTypes
  <1>5. CASE container' = [container EXCEPT !.releasing = Running]
    <2>1. Running \in BOOLEAN
      BY DEF Running
    <2>2. QED
      BY <1>t, <1>1, <1>3, <1>5, <2>1 DEF WorldTypes
  <1>6. CASE container' = [container EXCEPT
                !.status = IF proc[p].seen = "Stopped" THEN "Missing" ELSE @]
    BY <1>t, <1>1, <1>3, <1>6 DEF WorldTypes
  <1>7. CASE UNCHANGED container \/ container' = [container EXCEPT !.drained = TRUE]
    BY <1>t, <1>1, <1>3, <1>7 DEF WorldTypes
  <1>8. QED
    BY <1>2, <1>4, <1>5, <1>6, <1>7

LEMMA BackendTypes ==
  ASSUME Inv, NEW p \in Procs, BackendStep(p)
  PROVE  StateTypes' /\ (HasPlan => HasPlan')
  <1>f. OwnerTypes' /\ UNCHANGED native
    BY Frames DEF Inv, StateTypes, OwnerTypes, owners
  <1>t. /\ proc[p] \in ProcState /\ Sound(proc[p])
        /\ DocumentTypes /\ CoreTypes /\ OwnerTypes /\ WorldTypes
    BY DEF Inv, ProcInv, Sound, StateTypes
  <1>b. AtBackend(p)
    BY BackendStepOrderly DEF Inv
  <1>i. proc[p].op \in {"update", "resume"} /\ proc[p].mine \in Intent
    BY <1>b, PhaseIntent DEF AtBackend, Inv
  <1>v. proc[p].mine.target \in Versions
    BY <1>i DEF Intent
  <1>1. intent' \in Intent \cup {NoIntent}
    <2>1. CASE UpdateOwn(p)
      <3>1. [proc[p].mine EXCEPT !.owned = TRUE] \in Intent
        BY <1>i, PhaseIntent DEF Inv
      <3>2. QED
        BY <1>t, <1>i, <2>1, <3>1 DEF UpdateOwn, PublishAs, DocumentTypes
    <2>2. CASE UpdateDrain(p) \/ UpdateReleasing(p) \/ UpdateReleased(p) \/ UpdateStarting(p)
               \/ UpdateChecking(p) \/ UpdateActivate(p)
      <3>1. UNCHANGED intent \/ \E phase \in UpdatePhases : \E point \in BackendPoints :
                                    Publish(p, phase, point)
        BY <2>2, PointKinds DEF UpdateDrain, UpdateReleasing, UpdateReleased, UpdateStarting,
                                UpdateChecking, UpdateActivate
      <3>2. QED
        BY <1>t, <1>i, <3>1, PublishTypes DEF DocumentTypes
    <2>3. CASE Setback(p)
      <3>1. \E failure \in Failures : Refuse(p, failure)
        BY <2>3, PointKinds DEF Setback, UpdateBusy, UpdateUnready, UpdatePoolsUnready
      <3>2. QED
        BY <1>i, <3>1, PublishTypes
    <2>4. CASE UpdateFinish(p)
      BY <2>4 DEF UpdateFinish, RemoveIntent
    <2>5. CASE UpdateControl(p) \/ UpdateGateway(p) \/ UpdateClose(p) \/ UpdateQuiesced(p)
               \/ UpdateRelease(p) \/ UpdateExited(p) \/ UpdateCheckpoint(p) \/ UpdateRemove(p)
               \/ UpdatePoolsComplete(p) \/ UpdateFinalize(p)
      BY <1>t, <2>5
      DEF UpdateControl, UpdateGateway, UpdateClose, UpdateQuiesced, UpdateRelease,
          UpdateExited, UpdateCheckpoint, UpdateRemove, UpdatePoolsComplete, UpdateFinalize,
          DocumentTypes, documents
    <2>6. QED
      BY <2>1, <2>2, <2>3, <2>4, <2>5 DEF BackendStep
  <1>2. /\ shutdown' \in Shutdown \cup {NoShutdown} /\ marker' \in Marker \cup {NoMarker}
        /\ archived' \in Intent \cup {NoIntent} /\ touched' \in BOOLEAN
    <2>1. /\ UNCHANGED shutdown \/ shutdown' = NoShutdown
          /\ UNCHANGED marker \/ marker' = NoMarker
          /\ UNCHANGED archived \/ archived' = NoIntent
          /\ UNCHANGED touched \/ touched' \in BOOLEAN
      BY DEF BackendStep, Setback, UpdateControl, UpdateGateway, UpdateOwn, UpdateDrain,
        UpdateClose, UpdateQuiesced, UpdateReleasing, UpdateRelease, UpdateExited,
        UpdateCheckpoint, UpdateReleased, UpdateRemove, UpdateStarting, UpdateChecking,
        UpdateActivate, UpdatePoolsComplete, UpdateFinalize, UpdateFinish, UpdateBusy,
        UpdateUnready, UpdatePoolsUnready, RemoveIntent, documents, evidence
    <2>2. QED
      BY <1>t, <2>1 DEF DocumentTypes
  <1>3. plan' \in Plan \cup {NoPlan} /\ (HasPlan => HasPlan')
    <2>n. \A x \in Plan : x # NoPlan
      BY NobodyIsAProc DEF Plan, NoPlan
    <2>1. CASE UpdateGateway(p) \/ UpdateClose(p)
      BY <1>t, <1>v, <2>1, <2>n DEF UpdateGateway, UpdateClose, HasPlan, CoreTypes, Plan
    <2>2. ASSUME NEW aborted \in BOOLEAN, UpdateBusy(p, aborted)
          PROVE  plan' \in Plan \cup {NoPlan} /\ (HasPlan => HasPlan')
      <3>1. HasPlan
        BY <2>2 DEF Inv, Grounded, UpdateBusy, At
      <3>2. plan \in Plan /\ plan' = [plan EXCEPT !.open = aborted]
        BY <1>t, <2>2, <3>1 DEF HasPlan, CoreTypes, UpdateBusy
      <3>3. plan' \in Plan
        BY <3>2 DEF Plan
      <3>4. QED
        BY <2>n, <3>3 DEF HasPlan
    <2>3. CASE UpdateActivate(p) \/ UpdateUnready(p)
      <3>1. UNCHANGED plan
            \/ /\ HasPlan
               /\ plan' = [plan EXCEPT !.backend = proc[p].mine.target, !.open = TRUE]
        BY <2>3 DEF UpdateActivate, UpdateUnready
      <3>2. QED
        BY <1>t, <1>v, <2>n, <3>1 DEF HasPlan, CoreTypes, Plan
    <2>4. CASE UNCHANGED plan
      BY <1>t, <2>4 DEF CoreTypes, HasPlan
    <2>5. CASE \/ UpdateControl(p) \/ UpdateOwn(p) \/ UpdateDrain(p) \/ UpdateQuiesced(p)
               \/ UpdateReleasing(p) \/ UpdateRelease(p) \/ UpdateExited(p)
               \/ UpdateCheckpoint(p) \/ UpdateReleased(p) \/ UpdateRemove(p)
               \/ UpdateStarting(p) \/ UpdateChecking(p) \/ UpdatePoolsComplete(p)
               \/ UpdateFinalize(p) \/ UpdateFinish(p) \/ UpdatePoolsUnready(p)
      BY <2>4, <2>5
      DEF UpdateControl, UpdateOwn, UpdateDrain, UpdateQuiesced, UpdateReleasing,
          UpdateRelease, UpdateExited, UpdateCheckpoint, UpdateReleased, UpdateRemove,
          UpdateStarting, UpdateChecking, UpdatePoolsComplete, UpdateFinalize, UpdateFinish,
          UpdatePoolsUnready, core
    <2>6. QED
      BY <2>1, <2>2, <2>3, <2>5 DEF BackendStep, Setback
  <1>4. controller' \in [package : Versions, stopped : BOOLEAN]
    <2>1. UNCHANGED controller
          \/ controller' = [package |-> proc[p].mine.target, stopped |-> FALSE]
      BY DEF BackendStep, Setback, UpdateControl, UpdateGateway, UpdateOwn, UpdateDrain,
        UpdateClose, UpdateQuiesced, UpdateReleasing, UpdateRelease, UpdateExited,
        UpdateCheckpoint, UpdateReleased, UpdateRemove, UpdateStarting, UpdateChecking,
        UpdateActivate, UpdatePoolsComplete, UpdateFinalize, UpdateFinish, UpdateBusy,
        UpdateUnready, UpdatePoolsUnready, core
    <2>2. [package |-> proc[p].mine.target, stopped |-> FALSE]
             \in [package : Versions, stopped : BOOLEAN]
      BY <1>v
    <2>3. controller \in [package : Versions, stopped : BOOLEAN]
      BY <1>t DEF CoreTypes
    <2>4. QED
      BY <2>1, <2>2, <2>3
  <1>5. WorldTypes'
    BY BackendContainer
  <1>6. QED
    BY <1>f, <1>t, <1>1, <1>2, <1>3, <1>4, <1>5 DEF DocumentTypes, CoreTypes, StateTypes

(* The backend is started under the host lock: the candidate is on disk     *)
(* before its container, and is selected before it is retired.              *)
LEMMA OpensTypes ==
  ASSUME Inv, NEW v \in Versions, Opens(v)
  PROVE  WorldTypes' /\ container'.image = v
  BY DEF Inv, StateTypes, WorldTypes, Opens

LEMMA EnsureTypes ==
  ASSUME Inv, NEW p \in Procs, Ensure(p)
  PROVE  StateTypes' /\ (HasPlan => HasPlan')
  <1>f. DocumentTypes'
    BY Frames DEF Inv, StateTypes, DocumentTypes, documents, evidence
  <1>t. /\ proc[p] \in ProcState /\ Sound(proc[p]) /\ Grounded(p)
        /\ DocumentTypes /\ CoreTypes /\ OwnerTypes /\ WorldTypes
    BY DEF Inv, ProcInv, Sound, StateTypes
  <1>o. Owner \in Versions
    BY <1>t DEF Owner, OwnerTypes
  <1>1. CASE EnsureRunning(p)
    BY <1>f, <1>t, <1>1 DEF EnsureRunning, owners, core, world, CoreTypes, OwnerTypes,
                            WorldTypes, StateTypes, HasPlan
  <1>2. CASE EnsureStart(p)
    <2>1. container.image \in Versions /\ Opens(container.image)
      BY <1>t, <1>2 DEF EnsureStart, WorldTypes
    <2>2. WorldTypes'
      BY <2>1, OpensTypes
    <2>3. QED
      BY <1>f, <1>t, <1>2, <2>2 DEF EnsureStart, owners, core, CoreTypes, OwnerTypes,
                                    StateTypes, HasPlan
  <1>3. CASE EnsureCandidate(p)
    <2>1. proc[p].op = "update" => proc[p].mine.target \in Versions
      BY <1>t, PhaseIntent DEF Inv, Intent
    <2>2. candidate' \in Versions
      BY <1>o, <1>3, <2>1 DEF EnsureCandidate, Bound
    <2>3. controller' \in [package : Versions, stopped : BOOLEAN] /\ native' \in BOOLEAN
      BY <1>t, <1>3 DEF EnsureCandidate, CoreTypes
    <2>4. UNCHANGED <<plan, selected, container, data, checkpoint>>
      BY <1>3 DEF EnsureCandidate, world
    <2>5. QED
      BY <1>f, <1>t, <2>2, <2>3, <2>4 DEF CoreTypes, OwnerTypes, WorldTypes, StateTypes, HasPlan
  <1>4. CASE EnsureLaunch(p)
    <2>1. candidate \in Versions /\ Opens(candidate)
      BY <1>t, <1>4 DEF EnsureLaunch, Grounded, OwnerTypes
    <2>2. WorldTypes'
      BY <2>1, OpensTypes
    <2>3. QED
      BY <1>f, <1>t, <1>4, <2>2 DEF EnsureLaunch, owners, core, CoreTypes, OwnerTypes,
                                    StateTypes, HasPlan
  <1>5. CASE EnsureReady(p)
    <2>1. [backend |-> Owner, gateway |-> Owner, open |-> TRUE] \in Plan
      BY <1>o DEF Plan
    <2>2. plan' \in Plan \cup {NoPlan} /\ (HasPlan => HasPlan')
      BY <1>t, <1>5, <2>1 DEF EnsureReady, CoreTypes, HasPlan
    <2>3. WorldTypes'
      BY <1>t, <1>5 DEF EnsureReady, WorldTypes
    <2>4. QED
      BY <1>f, <1>t, <1>5, <2>2, <2>3 DEF EnsureReady, owners, CoreTypes, OwnerTypes, StateTypes
  <1>6. CASE EnsureCommit(p) \/ EnsureRetire(p)
    <2>1. OwnerTypes'
      BY <1>t, <1>6 DEF EnsureCommit, EnsureRetire, Grounded, OwnerTypes
    <2>2. QED
      BY <1>f, <1>t, <1>6, <2>1 DEF EnsureCommit, EnsureRetire, core, world, CoreTypes,
                                    WorldTypes, StateTypes, HasPlan
  <1>7. QED
    BY <1>1, <1>2, <1>3, <1>4, <1>5, <1>6 DEF Ensure

LEMMA HaltTypes ==
  ASSUME Inv
  PROVE  Halted \in [status : {"Running", "Stopped", "Missing"}, image : Versions,
                     drained : BOOLEAN, releasing : BOOLEAN, clean : BOOLEAN]
         /\ Halted.image = container.image
  BY DEF Inv, StateTypes, WorldTypes, Halted

LEMMA StopTypes ==
  ASSUME Inv, NEW p \in Procs, Stop(p)
  PROVE  StateTypes'
  <1>f. /\ OwnerTypes' /\ UNCHANGED <<intent, archived, touched, native, plan, data, checkpoint>>
    BY Frames DEF Inv, StateTypes, OwnerTypes, owners, evidence
  <1>t. /\ proc[p] \in ProcState /\ Sound(proc[p]) /\ Grounded(p)
        /\ DocumentTypes /\ CoreTypes /\ OwnerTypes /\ WorldTypes
    BY DEF Inv, ProcInv, Sound, StateTypes
  <1>1. shutdown' \in Shutdown \cup {NoShutdown}
    <2>1. CASE StopRecord(p)
      BY <1>t, <2>1 DEF StopRecord, ProcState
    <2>2. CASE StopConfirm(p)
      BY <1>t, <2>2 DEF StopConfirm, At, Grounded, Shutdown
    <2>3. CASE StopPools(p) \/ StopController(p) \/ StopBackend(p) \/ StopComplete(p)
      BY <1>t, <2>3 DEF StopPools, StopController, StopBackend, StopComplete, documents,
                        DocumentTypes
    <2>4. QED
      BY <2>1, <2>2, <2>3 DEF Stop
  <1>2. marker' \in Marker \cup {NoMarker}
    <2>1. [kind |-> "shutdown", target |-> None] \in Marker
      BY DEF Marker
    <2>2. QED
      BY <1>t, <2>1 DEF Stop, StopPools, StopRecord, StopController, StopBackend, StopConfirm,
                        StopComplete, documents, DocumentTypes
  <1>3. controller' \in [package : Versions, stopped : BOOLEAN]
    <2>1. UNCHANGED controller \/ controller' = [controller EXCEPT !.stopped = TRUE]
      BY DEF Stop, StopPools, StopRecord, StopController, StopBackend, StopConfirm,
             StopComplete, core
    <2>2. QED
      BY <1>t, <2>1 DEF CoreTypes
  <1>4. WorldTypes'
    <2>1. UNCHANGED container \/ container' = Halted
      BY DEF Stop, StopPools, StopRecord, StopController, StopBackend, StopConfirm,
             StopComplete, world
    <2>2. QED
      BY <1>f, <1>t, <2>1, HaltTypes DEF WorldTypes
  <1>5. QED
    BY <1>f, <1>t, <1>1, <1>2, <1>3, <1>4 DEF DocumentTypes, CoreTypes, StateTypes

LEMMA StartTypes ==
  ASSUME Inv, NEW p \in Procs, Start(p)
  PROVE  StateTypes'
  <1>f. /\ OwnerTypes' /\ WorldTypes'
        /\ UNCHANGED <<intent, marker, archived, touched, native, plan>>
    BY Frames DEF Inv, StateTypes, OwnerTypes, WorldTypes, owners, world, evidence
  <1>t. DocumentTypes /\ CoreTypes /\ OwnerTypes
    BY DEF Inv, StateTypes
  <1>1. shutdown' \in Shutdown \cup {NoShutdown}
    <2>1. CASE StartResume(p)
      <3>1. shutdown \in Shutdown
        BY <1>t, <2>1, NobodyIsAProc
        DEF StartResume, Owner, DocumentTypes, OwnerTypes, NoShutdown
      <3>2. QED
        BY <2>1, <3>1 DEF StartResume, Shutdown
    <2>2. CASE StartResumed(p)
      BY <2>2 DEF StartResumed
    <2>3. CASE StartGate(p) \/ StartController(p) \/ StartFence(p) \/ StartAdmit(p)
               \/ StartRegister(p) \/ StartReturn(p)
      BY <1>t, <2>3 DEF StartGate, StartController, StartFence, StartAdmit, StartRegister,
                        StartReturn, documents, DocumentTypes
    <2>4. QED
      BY <2>1, <2>2, <2>3 DEF Start
  <1>2. controller' \in [package : Versions, stopped : BOOLEAN]
    <2>1. UNCHANGED controller \/ controller' = [controller EXCEPT !.stopped = FALSE]
      BY DEF Start, StartGate, StartResume, StartController, StartResumed, StartFence,
             StartAdmit, StartRegister, StartReturn, core
    <2>2. QED
      BY <1>t, <2>1 DEF CoreTypes
  <1>3. QED
    BY <1>f, <1>t, <1>1, <1>2 DEF DocumentTypes, CoreTypes, StateTypes

LEMMA CancelTypes ==
  ASSUME Inv, NEW p \in Procs, Cancel(p)
  PROVE  StateTypes'
  <1>f. UNCHANGED <<shutdown, marker, owners, core, container, data>>
    BY Frames
  <1>t. DocumentTypes /\ CoreTypes /\ OwnerTypes /\ WorldTypes
    BY DEF Inv, StateTypes
  <1>1. /\ intent' \in Intent \cup {NoIntent} /\ archived' \in Intent \cup {NoIntent}
        /\ touched' \in BOOLEAN /\ checkpoint' \in {"none", "exact", "stale"}
    BY <1>t DEF Cancel, CancelArchive, CancelRemove, RemoveIntent, documents, world,
                DocumentTypes, WorldTypes
  <1>2. QED
    BY <1>f, <1>t, <1>1 DEF owners, core, DocumentTypes, CoreTypes, OwnerTypes, WorldTypes,
                            StateTypes

LEMMA BackendEvent ==
  ASSUME Inv, BackendExits \/ BackendCrashes
  PROVE  /\ StateTypes' /\ UNCHANGED <<documents, owners, core, proc, locks>>
         /\ container'.image = container.image
         /\ container'.status # "Missing" => container.status # "Missing"
  <1>t. DocumentTypes /\ CoreTypes /\ OwnerTypes /\ WorldTypes
    BY DEF Inv, StateTypes
  <1>1. /\ UNCHANGED <<documents, owners, core, evidence, data, checkpoint, proc, locks>>
        /\ Running
    BY DEF BackendExits, BackendCrashes
  <1>2. /\ container' \in [status : {"Running", "Stopped", "Missing"}, image : Versions,
                           drained : BOOLEAN, releasing : BOOLEAN, clean : BOOLEAN]
        /\ container'.image = container.image
    <2>1. CASE BackendExits
      BY <1>t, <2>1 DEF BackendExits, WorldTypes
    <2>2. CASE BackendCrashes
      BY <2>2, HaltTypes DEF BackendCrashes
    <2>3. QED
      BY <2>1, <2>2
  <1>3. StateTypes'
    BY <1>t, <1>1, <1>2 DEF documents, owners, core, evidence, DocumentTypes, CoreTypes,
                            OwnerTypes, WorldTypes, StateTypes
  <1>4. QED
    BY <1>1, <1>2, <1>3 DEF Running

LEMMA StateTypesStep ==
  ASSUME Inv, [Next]_vars
  PROVE  StateTypes'
  <1>1. ASSUME NEW p \in Procs, Begin(p) \/ Step(p) \/ Setback(p) \/ Die(p)
        PROVE  StateTypes'
    <2>1. CASE Begin(p) \/ Die(p)
      BY <2>1, Frames DEF Inv, StateTypes, DocumentTypes, CoreTypes, OwnerTypes, WorldTypes,
                          documents, core, owners, evidence, world
    <2>2. QED
      BY <1>1, <2>1, StepKinds, PrepareTypes, BackendTypes, EnsureTypes, StopTypes,
         StartTypes, CancelTypes
  <1>2. CASE UNCHANGED vars
    BY <1>2 DEF Inv, StateTypes, DocumentTypes, CoreTypes, OwnerTypes, WorldTypes, vars
  <1>3. QED
    BY <1>1, <1>2, BackendEvent DEF Next

(* A plan, once there, is never forgotten. *)
LEMMA PlanStays ==
  ASSUME Inv, [Next]_vars, HasPlan
  PROVE  HasPlan'
  <1>1. ASSUME NEW p \in Procs, Begin(p) \/ Step(p) \/ Setback(p) \/ Die(p)
        PROVE  HasPlan'
    <2>1. CASE Preparing(p) \/ Stop(p) \/ Start(p) \/ Cancel(p) \/ Begin(p) \/ Die(p)
      BY <2>1, Frames DEF HasPlan, core
    <2>2. QED
      BY <1>1, <2>1, StepKinds, BackendTypes, EnsureTypes
  <1>2. CASE UNCHANGED vars
    BY <1>2 DEF vars, HasPlan
  <1>3. QED
    BY <1>1, <1>2, BackendEvent DEF Next, core, HasPlan

(* The selection and its candidate change only under the host lock. *)
LEMMA OwnersChange ==
  ASSUME Inv, [Next]_vars
  PROVE  \/ UNCHANGED owners
         \/ \E p \in Procs : Ensure(p)
  <1>1. ASSUME NEW p \in Procs, Begin(p) \/ Step(p) \/ Setback(p) \/ Die(p)
        PROVE  Ensure(p) \/ UNCHANGED owners
    BY <1>1, StepKinds, Frames
  <1>2. UNCHANGED vars => UNCHANGED owners
    BY DEF vars, owners
  <1>3. QED
    BY <1>1, <1>2, BackendEvent DEF Next

(* So does the shutdown record, but for a new one: that one is complete. *)
LEMMA ShutdownChange ==
  ASSUME Inv, NEW p \in Procs, Begin(p) \/ Step(p) \/ Setback(p) \/ Die(p)
  PROVE  \/ UNCHANGED shutdown
         \/ hostLock = None
         \/ hostLock = p
  <1>1. CASE Preparing(p)
    BY <1>1 DEF Preparing, UpdateRecord, UpdatePrepare, UpdateRetireGateways, UpdatePools,
                UpdateCheck
  <1>2. CASE BackendStep(p)
    BY <1>2, BackendStepOrderly DEF AtBackend, Inv, LockInv, Holds, NeedsHost
  <1>3. CASE Stop(p)
    <2>1. CASE StopConfirm(p)
      BY <2>1 DEF StopConfirm, At, Inv, LockInv, Holds, NeedsHost
    <2>2. QED
      BY <1>3, <2>1 DEF Stop, StopPools, StopRecord, StopController, StopBackend,
                        StopComplete, TakeHost, documents
  <1>4. CASE Start(p)
    <2>1. CASE StartResumed(p)
      BY <2>1 DEF StartResumed, At, Inv, LockInv, Holds, NeedsHost
    <2>2. QED
      BY <1>4, <2>1 DEF Start, StartGate, StartResume, StartController, StartFence,
                        StartAdmit, StartRegister, StartReturn, TakeHost, documents
  <1>5. CASE Ensure(p) \/ Cancel(p) \/ Begin(p) \/ Die(p)
    BY <1>5, Frames DEF documents
  <1>6. QED
    BY <1>1, <1>2, <1>3, <1>4, <1>5, StepKinds

(* Others' steps keep the ground of a process, ... *)
LEMMA GroundKept ==
  ASSUME Inv, [Next]_vars, NEW p \in Procs, NEW q \in Procs \ {p},
         Begin(p) \/ Step(p) \/ Setback(p) \/ Die(p), Orderly(p)
  PROVE  Grounded(q)'
  <1>1. proc'[q] = proc[q] /\ Grounded(q)
    BY DEF Orderly, Inv, ProcInv
  <1>t. Sound(proc[q]) /\ Holds(q, proc[q])
    BY DEF Inv, ProcInv, LockInv
  <1>2. proc[q].pc = "quiesce" => HasPlan'
    BY <1>1, PlanStays DEF Grounded
  <1>3. ASSUME proc[q].pc \in {"launch", "commit", "retire"}
        PROVE  UNCHANGED owners
    <2>1. hostLock = q
      BY <1>t, <1>3 DEF Sound, Placed, Holds, NeedsHost, BackendPoints, EnsurePoints,
                        AdmissionPoints
    <2>2. hostLock # p
      BY <2>1
    <2>3. ~Ensure(p)
      BY <2>2, EnsureOrderly DEF Inv, LockInv, Holds
    <2>4. QED
      BY <2>3, StepKinds, Frames
  <1>4. ASSUME proc[q].op = "stop", proc[q].pc \in {"control", "halt", "confirm"}
        PROVE  UNCHANGED shutdown
    <2>1. hostLock = q
      BY <1>t, <1>4 DEF Holds, NeedsHost
    <2>2. QED
      BY <2>1, ShutdownChange, NobodyIsAProc
  <1>5. QED
    BY <1>1, <1>2, <1>3, <1>4 DEF Grounded, owners

(* ... and its own lay the ground of the next one. *)
LEMMA GroundLaid ==
  ASSUME Inv, [Next]_vars, NEW p \in Procs,
         Begin(p) \/ Step(p) \/ Setback(p) \/ Die(p), Orderly(p)
  PROVE  Grounded(p)'
  <1>t. /\ proc \in [Procs -> ProcState] /\ proc[p] \in ProcState /\ Sound(proc[p])
        /\ Grounded(p) /\ DocumentTypes /\ OwnerTypes
    BY DEF Inv, ProcInv, StateTypes
  <1>n. ASSUME NEW r, proc' = [proc EXCEPT ![p] = r] PROVE proc'[p] = r
    BY <1>t, <1>n
  <1>e. ASSUME End(p) PROVE Grounded(p)'
    <2>1. proc'[p] = NoProc
      BY <1>t, <1>e DEF End
    <2>2. QED
      BY <2>1 DEF NoProc, Grounded
  <1>g. ASSUME NEW point, Goto(p, point)
        PROVE  proc'[p].pc = point /\ proc'[p].op = proc[p].op
    <2>1. proc'[p] = [proc[p] EXCEPT !.pc = point]
      BY <1>t, <1>g DEF Goto
    <2>2. QED
      BY <1>t, <2>1 DEF ProcState
  <1>1. CASE Begin(p)
    <2>1. proc'[p].pc \in {"record", "gate", "fence", "check"}
      BY <1>t, <1>1 DEF Begin, UpdateBegin, ResumeBegin, StopBegin, StartBegin, CancelBegin,
                        NoProc
    <2>2. QED
      BY <2>1 DEF Grounded
  <1>2. CASE Preparing(p)
    <2>1. proc'[p].pc \in {"prepare", "pools", "check", "control", "idle"}
          /\ (proc'[p].pc = "control" => proc'[p].op = "update")
      <3>1. CASE UpdateRecord(p) \/ UpdatePrepare(p) \/ UpdatePools(p)
        BY <1>t, <1>g, <3>1 DEF UpdateRecord, UpdatePrepare, UpdatePools, Publish, PublishAs,
                                ProcState
      <3>2. CASE UpdateRetireGateways(p)
        BY <1>t, <3>2 DEF UpdateRetireGateways, At
      <3>3. CASE UpdateCheck(p)
        <4>1. CASE Refuse(p, "BackendDrain")
          BY <1>t, <4>1 DEF Refuse, End, NoProc
        <4>2. CASE ~(Running /\ ~HasPlan)
          <5>1. proc'[p] = [proc[p] EXCEPT !.mine = [proc[p].mine EXCEPT !.failure = "none"],
                                           !.pc = "control", !.seen = container.status]
            BY <1>t, <3>3, <4>2 DEF UpdateCheck
          <5>2. QED
            BY <1>t, <3>3, <5>1 DEF ProcState, UpdateCheck, At
        <4>3. QED
          BY <3>3, <4>1, <4>2 DEF UpdateCheck
      <3>4. QED
        BY <1>2, <3>1, <3>2, <3>3 DEF Preparing
    <2>2. QED
      BY <2>1 DEF Grounded
  <1>3. CASE BackendStep(p)
    <2>1. /\ proc'[p].op \in {"update", "none"}
          /\ proc'[p].pc \notin {"launch", "commit", "retire"}
          /\ proc'[p].pc = "quiesce" => UpdateClose(p)
      <3>1. CASE UpdateFinish(p) \/ Setback(p)
        BY <1>t, <3>1 DEF UpdateFinish, Setback, UpdateBusy, UpdateUnready, UpdatePoolsUnready,
                          Refuse, End, NoProc
      <3>2. CASE \/ UpdateControl(p) \/ UpdateGateway(p) \/ UpdateClose(p)
                 \/ UpdateQuiesced(p) \/ UpdateRelease(p) \/ UpdateCheckpoint(p)
                 \/ UpdatePoolsComplete(p) \/ UpdateFinalize(p)
        <4>1. proc[p].op = "update"
          BY <1>3, BackendStepOrderly DEF AtBackend, Inv
        <4>2. \E point \in {"gateway", "own", "quiesce", "releasing", "exiting", "released",
                            "finalize", "finish"} :
                 Goto(p, point) /\ (point = "quiesce" => UpdateClose(p))
          BY <3>2 DEF UpdateControl, UpdateGateway, UpdateClose, UpdateQuiesced, UpdateRelease,
                      UpdateCheckpoint, UpdatePoolsComplete, UpdateFinalize
        <4>3. QED
          BY <1>g, <4>1, <4>2
      <3>3. CASE UpdateOwn(p) \/ UpdateDrain(p) \/ UpdateReleasing(p) \/ UpdateReleased(p)
                 \/ UpdateStarting(p) \/ UpdateChecking(p) \/ UpdateActivate(p)
        <4>1. proc[p].op = "update"
          BY <3>3, BackendStepOrderly DEF AtBackend, Inv, BackendStep
        <4>2. \/ \E point \in {"ensure", "release", "checkpoint"} : Goto(p, point)
              \/ \E mine : \E point \in {"drain", "close", "release", "remove", "ensure",
                                         "activate", "activated"} : PublishAs(p, mine, point)
          BY <3>3 DEF UpdateOwn, UpdateDrain, UpdateReleasing, UpdateReleased, UpdateStarting,
                      UpdateChecking, UpdateActivate, Publish
        <4>3. ASSUME NEW mine, NEW point, PublishAs(p, mine, point)
              PROVE  proc'[p].op = "update" /\ proc'[p].pc = point
          BY <1>t, <4>3 DEF PublishAs, ProcState
        <4>4. QED
          BY <1>g, <4>1, <4>2, <4>3
      <3>4. CASE UpdateExited(p) \/ UpdateRemove(p)
        <4>1. \/ proc'[p] = [proc[p] EXCEPT !.pc = "checkpoint", !.seen = "Stopped"]
              \/ proc'[p] = [proc[p] EXCEPT !.pc = "starting", !.seen = "Running"]
          BY <1>t, <3>4 DEF UpdateExited, UpdateRemove
        <4>2. QED
          BY <1>t, <3>4, <4>1 DEF ProcState, UpdateExited, UpdateRemove, At
      <3>5. QED
        BY <1>3, <3>1, <3>2, <3>3, <3>4 DEF BackendStep
    <2>2. proc'[p].pc = "quiesce" => HasPlan'
      <3>1. CASE UpdateClose(p)
        BY <3>1, PlanStays DEF UpdateClose
      <3>2. CASE ~UpdateClose(p)
        BY <2>1, <3>2
      <3>3. QED
        BY <3>1, <3>2
    <2>3. QED
      BY <2>1, <2>2 DEF Grounded
  <1>4. CASE Ensure(p)
    <2>o. proc[p].op # "stop"
      <3>1. proc[p].pc \in EnsurePoints
        BY <1>4 DEF Ensure, EnsureRunning, EnsureStart, EnsureCandidate, EnsureLaunch,
                    EnsureReady, EnsureCommit, EnsureRetire, EnsurePoints
      <3>2. QED
        BY <1>t, <3>1 DEF Sound, Placed, EnsurePoints
    <2>1. CASE EnsureRunning(p) \/ EnsureStart(p) \/ EnsureRetire(p)
      BY <1>g, <2>o, <2>1 DEF EnsureRunning, EnsureStart, EnsureRetire, Grounded
    <2>2. CASE EnsureCandidate(p)
      <3>1. Bound(p) # None
        <4>1. proc[p].op = "update" => proc[p].mine.target \in Versions
          BY <1>t, PhaseIntent DEF Inv, Intent
        <4>2. QED
          BY <1>t, <4>1, NobodyIsAProc DEF Bound, Owner, OwnerTypes
      <3>2. QED
        BY <1>g, <2>o, <2>2, <3>1 DEF EnsureCandidate, Grounded
    <2>3. CASE EnsureLaunch(p)
      BY <1>g, <2>o, <2>3 DEF EnsureLaunch, Grounded
    <2>4. CASE EnsureReady(p)
      BY <1>g, <2>o, <2>4 DEF EnsureReady, owners, Grounded
    <2>5. CASE EnsureCommit(p)
      BY <1>t, <1>g, <2>o, <2>5 DEF EnsureCommit, Grounded
    <2>6. QED
      BY <1>4, <2>1, <2>2, <2>3, <2>4, <2>5 DEF Ensure
  <1>5. CASE Stop(p)
    <2>1. CASE StopPools(p)
      BY <1>g, <2>1 DEF StopPools, Grounded
    <2>2. CASE StopRecord(p)
      <3>1. proc'[p] = [proc[p] EXCEPT !.pc = "control", !.saw = NoShutdown]
        BY <1>t, <2>2 DEF StopRecord
      <3>2. proc'[p].pc = "control"
        BY <1>t, <3>1 DEF ProcState
      <3>3. shutdown' \in Shutdown
        BY <1>t, <2>2, NobodyIsAProc DEF StopRecord, Owner, OwnerTypes, NoShutdown, ProcState
      <3>4. QED
        BY <3>2, <3>3 DEF Grounded
    <2>3. CASE StopController(p) \/ StopBackend(p)
      BY <1>t, <1>g, <2>3 DEF StopController, StopBackend, At, Grounded, documents
    <2>4. CASE StopConfirm(p)
      BY <1>g, <2>4 DEF StopConfirm, Grounded
    <2>5. CASE StopComplete(p)
      BY <1>e, <2>5 DEF StopComplete
    <2>6. QED
      BY <1>5, <2>1, <2>2, <2>3, <2>4, <2>5 DEF Stop
  <1>6. CASE Start(p)
    <2>1. CASE StartReturn(p)
      BY <1>e, <2>1 DEF StartReturn
    <2>2. CASE StartResume(p)
      <3>1. proc'[p] = [proc[p] EXCEPT !.pc = "ensure", !.saw = NoShutdown]
        BY <1>t, <2>2 DEF StartResume
      <3>2. proc'[p].pc = "ensure"
        BY <1>t, <3>1 DEF ProcState
      <3>3. QED
        BY <3>2 DEF Grounded
    <2>3. CASE StartGate(p) \/ StartController(p) \/ StartResumed(p) \/ StartFence(p)
               \/ StartAdmit(p) \/ StartRegister(p)
      <3>1. proc'[p].pc \in {"lock", "resumed", "fence", "ensure", "admit"}
        BY <1>g, <2>3 DEF StartGate, StartController, StartResumed, StartFence, StartAdmit,
                          StartRegister
      <3>2. QED
        BY <3>1 DEF Grounded
    <2>4. QED
      BY <1>6, <2>1, <2>2, <2>3 DEF Start
  <1>7. CASE Cancel(p) \/ Die(p)
    <2>1. CASE CancelArchive(p)
      BY <1>g, <2>1 DEF CancelArchive, Grounded
    <2>2. QED
      BY <1>7, <1>e, <2>1 DEF Cancel, CancelRemove, Die
  <1>8. QED
    BY <1>1, <1>2, <1>3, <1>4, <1>5, <1>6, <1>7, StepKinds

LEMMA InvStep == Inv /\ [Next]_vars => Inv'
  <1> SUFFICES ASSUME Inv, [Next]_vars PROVE Inv'
    OBVIOUS
  <1>1. ProcInv' /\ LockInv' /\ StateTypes'
    BY InvTypes, DisciplineStep, StateTypesStep DEF Inv
  <1>2. ASSUME NEW p \in Procs, Begin(p) \/ Step(p) \/ Setback(p) \/ Die(p), NEW q \in Procs
        PROVE  Grounded(q)'
    <2>1. Orderly(p)
      BY <1>2, InvTypes, StepOrderly DEF Inv
    <2>2. CASE q = p
      BY <1>2, <2>1, <2>2, GroundLaid
    <2>3. CASE q # p
      BY <1>2, <2>1, <2>3, GroundKept
    <2>4. QED
      BY <2>2, <2>3
  <1>3. ASSUME BackendExits \/ BackendCrashes \/ UNCHANGED vars, NEW q \in Procs
        PROVE  Grounded(q)'
    <2>1. UNCHANGED <<documents, owners, core, proc>>
      BY <1>3, BackendEvent DEF vars, documents, owners, core
    <2>2. QED
      BY <2>1 DEF Inv, Grounded, HasPlan, documents, owners, core
  <1>4. QED
    BY <1>1, <1>2, <1>3 DEF Inv, Next

LEMMA HostSafe == Spec => []Inv
  BY InvInit, InvStep, PTL DEF Spec

(* Whichever commands run, die and are resumed: every document, owner, plan *)
(* and process keeps its type.                                             *)
THEOREM HostTypes == Spec => []TypeOK
  BY HostSafe, InvTypes, PTL

-----------------------------------------------------------------------------
(* The container and the recorded owner. *)

OwnerInv == Inv /\ OwnerMatchesContainer

LEMMA OwnerInit == Init => OwnerInv
  BY InvInit, NobodyIsAProc DEF OwnerInv, OwnerMatchesContainer, Init, Owner

LEMMA OwnerStep == OwnerInv /\ [Next]_vars => OwnerInv'
  <1> SUFFICES ASSUME OwnerInv, [Next]_vars PROVE OwnerMatchesContainer'
    BY InvStep DEF OwnerInv
  <1>i. Inv /\ OwnerMatchesContainer
    BY DEF OwnerInv
  <1>1. ASSUME UNCHANGED owners, container'.image = container.image,
               container'.status # "Missing" => container.status # "Missing"
        PROVE  OwnerMatchesContainer'
    BY <1>i, <1>1 DEF OwnerMatchesContainer, Owner, owners
  <1>2. ASSUME NEW p \in Procs, Ensure(p) PROVE OwnerMatchesContainer'
    <2>t. Grounded(p) /\ OwnerTypes /\ WorldTypes
      BY <1>i DEF Inv, StateTypes
    <2>1. CASE EnsureRunning(p)
      BY <1>i, <2>1 DEF EnsureRunning, owners, world, OwnerMatchesContainer, Owner
    <2>2. CASE EnsureStart(p)
      <3>1. container'.image = container.image /\ container.status # "Missing"
        BY <2>2 DEF EnsureStart, Opens
      <3>2. QED
        BY <1>1, <2>2, <3>1 DEF EnsureStart
    <2>3. CASE EnsureCandidate(p)
      BY <2>3 DEF EnsureCandidate, world, OwnerMatchesContainer
    <2>4. CASE EnsureLaunch(p)
      <3>1. candidate # None /\ container'.image = candidate
        BY <2>t, <2>4 DEF EnsureLaunch, Grounded, Opens
      <3>2. QED
        BY <2>4, <3>1 DEF EnsureLaunch, owners, OwnerMatchesContainer, Owner
    <2>5. CASE EnsureReady(p)
      <3>1. container'.image = container.image /\ container'.status = container.status
        BY <2>t, <2>5 DEF EnsureReady, WorldTypes
      <3>2. QED
        BY <1>1, <2>5, <3>1 DEF EnsureReady
    <2>6. CASE EnsureCommit(p)
      BY <1>i, <2>t, <2>6 DEF EnsureCommit, Grounded, world, OwnerMatchesContainer, Owner
    <2>7. CASE EnsureRetire(p)
      BY <1>i, <2>t, <2>7 DEF EnsureRetire, Grounded, world, OwnerMatchesContainer, Owner
    <2>8. QED
      BY <1>2, <2>1, <2>2, <2>3, <2>4, <2>5, <2>6, <2>7 DEF Ensure
  <1>3. ASSUME NEW p \in Procs, BackendStep(p) PROVE OwnerMatchesContainer'
    BY <1>i, <1>1, <1>3, Frames, BackendContainer
  <1>4. ASSUME NEW p \in Procs, Stop(p) PROVE OwnerMatchesContainer'
    <2>1. UNCHANGED container \/ (container' = Halted /\ Running)
      BY <1>4 DEF Stop, StopPools, StopRecord, StopController, StopBackend, StopConfirm,
                  StopComplete, world
    <2>2. QED
      BY <1>i, <1>1, <1>4, <2>1, HaltTypes, Frames DEF Running
  <1>5. ASSUME NEW p \in Procs,
               Preparing(p) \/ Start(p) \/ Cancel(p) \/ Begin(p) \/ Die(p)
        PROVE  OwnerMatchesContainer'
    BY <1>1, <1>5, Frames DEF world
  <1>6. CASE UNCHANGED vars
    BY <1>1, <1>6 DEF vars, owners
  <1>7. QED
    BY <1>i, <1>1, <1>2, <1>3, <1>4, <1>5, <1>6, StepKinds, BackendEvent DEF Next

(* At every point of an update, a restart and a resumption, wherever the    *)
(* processes died, the container that exists is the one the recorded owner  *)
(* names: owner::host::validate meets no container nobody recorded.         *)
THEOREM OwnerIsContainer == Spec => []OwnerMatchesContainer
  <1>1. OwnerInv => OwnerMatchesContainer
    BY DEF OwnerInv
  <1>2. QED
    BY OwnerInit, OwnerStep, <1>1, PTL DEF Spec

-----------------------------------------------------------------------------
(* The one writer of update.json. *)

IntentInv == Inv /\ IntentUndisturbed

LEMMA IntentInit == Init => IntentInv
  BY InvInit DEF IntentInv, IntentUndisturbed, Init, NoProc

(* Whoever writes update.json holds the update lock ... *)
LEMMA IntentWriter ==
  ASSUME Inv, NEW p \in Procs, Begin(p) \/ Step(p) \/ Setback(p) \/ Die(p)
  PROVE  UNCHANGED intent \/ updateLock = p
  <1>1. CASE Preparing(p) \/ BackendStep(p) \/ Cancel(p)
    <2>1. NeedsUpdate(proc[p])
      <3>1. CASE Preparing(p)
        BY <3>1 DEF Preparing, UpdateRecord, UpdatePrepare, UpdateRetireGateways, UpdatePools,
                    UpdateCheck, At, Inv, ProcInv, Sound, Placed, AdmissionPoints, EnsurePoints,
                    NeedsUpdate
      <3>2. CASE BackendStep(p)
        BY <3>2, BackendStepOrderly DEF AtBackend, Inv, NeedsUpdate
      <3>3. CASE Cancel(p)
        BY <3>3, CancelOrderly DEF Inv, NeedsUpdate
      <3>4. QED
        BY <1>1, <3>1, <3>2, <3>3
    <2>2. QED
      BY <2>1 DEF Inv, LockInv, Holds
  <1>2. CASE Ensure(p) \/ Stop(p) \/ Start(p) \/ Begin(p) \/ Die(p)
    BY <1>2, Frames DEF documents
  <1>3. QED
    BY <1>1, <1>2, StepKinds

(* ... and an update writes what it keeps. *)
LEMMA IntentWritten ==
  ASSUME IntentInv, NEW p \in Procs, Begin(p) \/ Step(p) \/ Setback(p) \/ Die(p),
         Orderly(p), proc'[p].op = "update", proc'[p].pc # "record"
  PROVE  intent' = proc'[p].mine
  <1>t. /\ proc \in [Procs -> ProcState] /\ proc[p] \in ProcState /\ Sound(proc[p]) /\ Inv
    BY DEF IntentInv, Inv, ProcInv
  <1>p. ASSUME NEW mine, NEW point, PublishAs(p, mine, point) PROVE intent' = proc'[p].mine
    BY <1>t, <1>p DEF PublishAs, ProcState
  <1>k. ASSUME UNCHANGED intent, proc[p].pc # "record", proc'[p].mine = proc[p].mine,
               proc'[p].op = proc[p].op
        PROVE  intent' = proc'[p].mine
    BY <1>k DEF IntentInv, IntentUndisturbed
  <1>g. ASSUME NEW point, Goto(p, point)
        PROVE  proc'[p].mine = proc[p].mine /\ proc'[p].op = proc[p].op
    <2>1. proc'[p] = [proc[p] EXCEPT !.pc = point]
      BY <1>t, <1>g DEF Goto
    <2>2. QED
      BY <1>t, <2>1 DEF ProcState
  <1>e. ~End(p)
    <2>1. End(p) => proc'[p] = NoProc
      BY <1>t DEF End
    <2>2. QED
      BY <2>1 DEF NoProc
  <1>1. CASE Preparing(p)
    <2>1. CASE UpdateRecord(p)
      BY <1>p, <2>1 DEF UpdateRecord
    <2>2. CASE UpdatePrepare(p)
      BY <1>p, <1>k, <1>g, <2>2 DEF UpdatePrepare, At, Publish
    <2>3. CASE UpdateRetireGateways(p)
      BY <1>k, <2>3 DEF UpdateRetireGateways, At
    <2>4. CASE UpdatePools(p)
      BY <1>k, <1>g, <2>4 DEF UpdatePools, At
    <2>5. CASE UpdateCheck(p)
      <3>1. /\ intent' = [proc[p].mine EXCEPT !.failure = "none"]
            /\ proc' = [proc EXCEPT ![p] = [proc[p] EXCEPT
                  !.mine = [proc[p].mine EXCEPT !.failure = "none"], !.pc = "control",
                  !.seen = container.status]]
        BY <1>e, <2>5 DEF UpdateCheck, Refuse
      <3>2. QED
        BY <1>t, <3>1 DEF ProcState
    <2>6. QED
      BY <1>1, <2>1, <2>2, <2>3, <2>4, <2>5 DEF Preparing
  <1>2. CASE BackendStep(p)
    <2>1. proc[p].pc # "record"
      BY <1>t, <1>2, BackendStepOrderly DEF Inv, AtBackend, BackendPoints, EnsurePoints
    <2>2. \/ \E mine, point : PublishAs(p, mine, point)
          \/ /\ UNCHANGED intent
             /\ \E point : Goto(p, point) \/ \E seen :
                      proc' = [proc EXCEPT ![p].pc = point, ![p].seen = seen]
      <3>1. CASE UpdateControl(p) \/ UpdateGateway(p) \/ UpdateOwn(p) \/ UpdateDrain(p)
        BY <1>e, <3>1
        DEF UpdateControl, UpdateGateway, UpdateOwn, UpdateDrain, Refuse, Publish, documents
      <3>2. CASE \/ UpdateClose(p) \/ UpdateQuiesced(p) \/ UpdateReleasing(p)
                 \/ UpdateRelease(p) \/ UpdateExited(p)
        BY <1>e, <3>2
        DEF UpdateClose, UpdateQuiesced, UpdateReleasing, UpdateRelease, UpdateExited,
            Refuse, Publish, documents
      <3>3. CASE UpdateCheckpoint(p) \/ UpdateReleased(p) \/ UpdateRemove(p) \/ UpdateStarting(p)
        BY <1>e, <3>3
        DEF UpdateCheckpoint, UpdateReleased, UpdateRemove, UpdateStarting, Refuse, Publish, documents
      <3>4. CASE \/ UpdateChecking(p) \/ UpdateActivate(p) \/ UpdatePoolsComplete(p)
                 \/ UpdateFinalize(p) \/ UpdateFinish(p)
        BY <1>e, <3>4
        DEF UpdateChecking, UpdateActivate, UpdatePoolsComplete, UpdateFinalize, UpdateFinish,
            Refuse, Publish, documents
      <3>5. CASE Setback(p)
        BY <1>e, <3>5 DEF Setback, UpdateBusy, UpdateUnready, UpdatePoolsUnready, Refuse
      <3>6. QED
        BY <1>2, <3>1, <3>2, <3>3, <3>4, <3>5 DEF BackendStep
    <2>3. ASSUME NEW point, NEW seen,
                 proc' = [proc EXCEPT ![p].pc = point, ![p].seen = seen]
          PROVE  proc'[p].mine = proc[p].mine /\ proc'[p].op = proc[p].op
      <3>1. proc'[p] = [proc[p] EXCEPT !.pc = point, !.seen = seen]
        BY <1>t, <2>3
      <3>2. QED
        BY <1>t, <3>1 DEF ProcState
    <2>4. QED
      BY <1>p, <1>k, <1>g, <2>1, <2>2, <2>3
  <1>3. CASE Ensure(p)
    <2>1. UNCHANGED intent /\ proc[p].pc # "record" /\ \E point : Goto(p, point)
      BY <1>3, Frames
      DEF documents, Ensure, EnsureRunning, EnsureStart, EnsureCandidate, EnsureLaunch,
          EnsureReady, EnsureCommit, EnsureRetire
    <2>2. QED
      BY <1>k, <1>g, <2>1
  <1>4. CASE Stop(p) \/ Start(p) \/ Cancel(p)
    <2>1. proc'[p].op \in {"stop", "start", "cancel"}
      <3>1. proc[p].op \in {"stop", "start", "cancel"}
        BY <1>4 DEF Stop, StopPools, StopRecord, StopController, StopBackend, StopConfirm,
                    StopComplete, Start, StartGate, StartResume, StartController,
                    StartResumed, StartFence, StartAdmit, StartRegister, StartReturn, Cancel,
                    CancelArchive, CancelRemove, At
      <3>2. \E point : Goto(p, point) \/ \E saw :
               proc' = [proc EXCEPT ![p].pc = point, ![p].saw = saw]
        BY <1>e, <1>4
        DEF Stop, StopPools, StopRecord, StopController, StopBackend, StopConfirm,
            StopComplete, Start, StartGate, StartResume, StartController, StartResumed,
            StartFence, StartAdmit, StartRegister, StartReturn, Cancel, CancelArchive,
            CancelRemove
      <3>3. ASSUME NEW point, NEW saw, proc' = [proc EXCEPT ![p].pc = point, ![p].saw = saw]
            PROVE  proc'[p].op = proc[p].op
        <4>1. proc'[p] = [proc[p] EXCEPT !.pc = point, !.saw = saw]
          BY <1>t, <3>3
        <4>2. QED
          BY <1>t, <4>1 DEF ProcState
      <3>4. QED
        BY <1>g, <3>1, <3>2, <3>3
    <2>2. QED
      BY <2>1
  <1>5. CASE Begin(p)
    <2>1. proc'[p].op # "update" \/ proc'[p].pc = "record"
      BY ZenonT(30), <1>t, <1>5 DEF Begin, UpdateBegin, ResumeBegin, StopBegin, StartBegin, CancelBegin,
                        NoProc
    <2>2. QED
      BY <2>1
  <1>6. CASE Die(p)
    BY <1>e, <1>6 DEF Die
  <1>7. QED
    BY <1>1, <1>2, <1>3, <1>4, <1>5, <1>6, StepKinds

LEMMA IntentStep == IntentInv /\ [Next]_vars => IntentInv'
  <1> SUFFICES ASSUME IntentInv, [Next]_vars PROVE IntentUndisturbed'
    BY InvStep DEF IntentInv
  <1>i. Inv /\ IntentUndisturbed
    BY DEF IntentInv
  <1>1. ASSUME NEW p \in Procs, Begin(p) \/ Step(p) \/ Setback(p) \/ Die(p), NEW q \in Procs,
               proc'[q].op = "update", proc'[q].pc # "record"
        PROVE  intent' = proc'[q].mine
    <2>1. Orderly(p)
      BY <1>i, <1>1, InvTypes, StepOrderly DEF Inv
    <2>2. CASE q = p
      BY <1>1, <2>1, <2>2, IntentWritten
    <2>3. CASE q # p
      <3>1. proc'[q] = proc[q]
        BY <1>i, <2>1, <2>3 DEF Orderly, Inv, ProcInv
      <3>2. updateLock = q
        BY <1>i, <1>1, <3>1 DEF Inv, LockInv, Holds, NeedsUpdate
      <3>3. UNCHANGED intent
        BY <1>i, <1>1, <2>3, <3>2, IntentWriter
      <3>4. QED
        BY <1>i, <1>1, <3>1, <3>3 DEF IntentUndisturbed
    <2>4. QED
      BY <2>2, <2>3
  <1>2. CASE BackendExits \/ BackendCrashes \/ UNCHANGED vars
    <2>1. UNCHANGED <<intent, proc>>
      BY <1>2 DEF BackendExits, BackendCrashes, vars, documents
    <2>2. QED
      BY <1>i, <2>1 DEF IntentUndisturbed
  <1>3. QED
    BY <1>1, <1>2 DEF Next, IntentUndisturbed

(* A running update is the only writer of update.json: over all of its      *)
(* publications the document is its own copy, so that no phase is           *)
(* overwritten by a stale one.                                             *)
THEOREM IntentIsUndisturbed == Spec => []IntentUndisturbed
  <1>1. IntentInv => IntentUndisturbed
    BY DEF IntentInv
  <1>2. QED
    BY IntentInit, IntentStep, <1>1, PTL DEF Spec

-----------------------------------------------------------------------------
(* Admission and maintenance. *)

Fenced ==
    /\ shutdown = NoShutdown /\ marker = NoMarker
    /\ intent.phase \in {"Prepared", "Preparing"}

(* A shared holder of the gate checked the documents when it took it, and   *)
(* whoever would change them then has to take it exclusively.               *)
AdmitInv == Inv /\ (gate.readers # {} => Fenced)

LEMMA AdmitInit == Init => AdmitInv
  BY InvInit DEF AdmitInv, Init

LEMMA FencedKept ==
  ASSUME AdmitInv, NEW p \in Procs, Begin(p) \/ Step(p) \/ Setback(p) \/ Die(p),
         gate.readers # {}
  PROVE  Fenced'
  <1>i. Inv /\ Fenced /\ ProcInv /\ LockInv
    BY DEF AdmitInv, Inv
  <1>g. ~NeedsGate(proc[p]) /\ gate.owner # p
    BY <1>i, NobodyIsAProc DEF LockInv, LockTypes, Holds
  <1>1. CASE UNCHANGED documents
    BY <1>i, <1>1 DEF documents, Fenced
  <1>2. CASE Preparing(p)
    <2>1. CASE UpdateRecord(p)
      <3>1. proc[p].op = "update" => proc[p].mine.phase = "Prepared"
        BY <1>i, <2>1 DEF ProcInv, Sound, Adopted, UpdateRecord
      <3>2. QED
        BY <1>i, <2>1, <3>1 DEF UpdateRecord, PublishAs, Fenced
    <2>2. CASE UpdatePrepare(p)
      <3>1. proc[p].mine \in Intent
        BY <1>i, <2>2, PhaseIntent DEF UpdatePrepare, At
      <3>2. [proc[p].mine EXCEPT !.phase = "Preparing"].phase = "Preparing"
        BY <3>1 DEF Intent
      <3>3. QED
        BY <1>i, <2>2, <3>2 DEF UpdatePrepare, Publish, PublishAs, Fenced
    <2>3. CASE UpdateRetireGateways(p) \/ UpdatePools(p)
      BY <2>3 DEF UpdateRetireGateways, UpdatePools, TakeGate, GateFree
    <2>4. CASE UpdateCheck(p)
      BY <1>g, <2>4 DEF UpdateCheck, At, NeedsGate
    <2>5. QED
      BY <1>2, <2>1, <2>2, <2>3, <2>4 DEF Preparing
  <1>3. CASE BackendStep(p)
    BY <1>i, <1>g, <1>3, BackendStepOrderly DEF AtBackend, NeedsGate
  <1>4. CASE Stop(p)
    <2>1. CASE StopPools(p)
      BY <2>1 DEF StopPools, TakeGate, GateFree
    <2>2. QED
      BY <1>g, <1>4, <2>1 DEF Stop, StopRecord, StopController, StopBackend, StopConfirm,
                              StopComplete, At, NeedsGate
  <1>5. CASE Start(p)
    <2>1. CASE StartResume(p) \/ StartResumed(p)
      BY <1>g, <2>1 DEF StartResume, StartResumed, At, NeedsGate
    <2>2. QED
      BY <1>1, <1>5, <2>1 DEF Start, StartGate, StartController, StartFence, StartAdmit,
                              StartRegister, StartReturn
  <1>6. CASE Cancel(p)
    BY <1>i, <1>g, <1>6, CancelOrderly DEF NeedsGate
  <1>7. CASE Ensure(p) \/ Begin(p) \/ Die(p)
    BY <1>1, <1>7, Frames
  <1>8. QED
    BY <1>2, <1>3, <1>4, <1>5, <1>6, <1>7, StepKinds

LEMMA ReadersCome ==
  ASSUME Inv, NEW p \in Procs, Begin(p) \/ Step(p) \/ Setback(p) \/ Die(p),
         gate.readers = {}, ~StartFence(p)
  PROVE  gate'.readers = {}
  <1>t. gate \in [owner : Procs \cup {None}, readers : SUBSET Procs]
    BY DEF Inv, LockInv, LockTypes
  <1>e. End(p) => gate'.readers = {}
    BY DEF End
  <1>1. CASE UNCHANGED gate \/ gate' = [gate EXCEPT !.owner = p]
             \/ gate' = [gate EXCEPT !.owner = None]
    BY <1>t, <1>1
  <1>2. CASE Preparing(p)
    BY <1>e, <1>1, <1>2 DEF Preparing, UpdateRecord, UpdatePrepare, UpdateRetireGateways,
                            UpdatePools, UpdateCheck, TakeGate, Refuse, locks
  <1>3. CASE BackendStep(p)
    BY <1>e, <1>1, <1>3
    DEF BackendStep, Setback, UpdateControl, UpdateGateway, UpdateOwn, UpdateDrain,
        UpdateClose, UpdateQuiesced, UpdateReleasing, UpdateRelease, UpdateExited,
        UpdateCheckpoint, UpdateReleased, UpdateRemove, UpdateStarting, UpdateChecking,
        UpdateActivate, UpdatePoolsComplete, UpdateFinalize, UpdateFinish, UpdateBusy,
        UpdateUnready, UpdatePoolsUnready, Refuse, locks
  <1>4. CASE Ensure(p)
    BY <1>1, <1>4 DEF Ensure, EnsureRunning, EnsureStart, EnsureCandidate, EnsureLaunch,
                      EnsureReady, EnsureCommit, EnsureRetire, locks
  <1>5. CASE Stop(p) \/ Cancel(p)
    BY <1>e, <1>1, <1>5
    DEF Stop, StopPools, StopRecord, StopController, StopBackend, StopConfirm, StopComplete,
        Cancel, CancelArchive, CancelRemove, TakeGate, locks
  <1>6. CASE Start(p)
    BY <1>e, <1>1, <1>6
    DEF Start, StartGate, StartResume, StartController, StartResumed, StartAdmit,
        StartRegister, StartReturn, TakeGate, locks
  <1>7. CASE Begin(p) \/ Die(p)
    BY <1>e, <1>1, <1>7
    DEF Begin, Die, UpdateBegin, ResumeBegin, StopBegin, StartBegin, CancelBegin, TakeGate,
        locks
  <1>8. QED
    BY <1>2, <1>3, <1>4, <1>5, <1>6, <1>7, StepKinds

LEMMA AdmitStep == AdmitInv /\ [Next]_vars => AdmitInv'
  <1> SUFFICES ASSUME AdmitInv, [Next]_vars PROVE gate'.readers # {} => Fenced'
    BY InvStep DEF AdmitInv
  <1>i. Inv
    BY DEF AdmitInv
  <1>1. ASSUME NEW p \in Procs, Begin(p) \/ Step(p) \/ Setback(p) \/ Die(p),
               gate'.readers # {}
        PROVE  Fenced'
    <2>1. CASE StartFence(p)
      <3>1. UNCHANGED documents /\ marker = NoMarker /\ shutdown = NoShutdown /\ intent = NoIntent
        BY <2>1 DEF StartFence, Updating
      <3>2. QED
        BY <3>1 DEF documents, Fenced, NoIntent
    <2>2. QED
      BY <1>i, <1>1, <2>1, FencedKept, ReadersCome
  <1>2. CASE BackendExits \/ BackendCrashes \/ UNCHANGED vars
    <2>1. UNCHANGED <<gate, shutdown, marker, intent>>
      BY <1>2 DEF BackendExits, BackendCrashes, vars, documents, locks
    <2>2. QED
      BY <2>1 DEF AdmitInv, Fenced
  <1>3. QED
    BY <1>1, <1>2 DEF Next

(* A workspace is admitted only while no host stop and no update past its   *)
(* preparation is under way, however the commands interleave and wherever   *)
(* they died: what gate::shared checked is still so when the admission ends. *)
THEOREM AdmissionIsFenced == Spec => []NoAdmissionDuringHandoff
  <1>1. AdmitInv => NoAdmissionDuringHandoff
    <2> SUFFICES ASSUME AdmitInv, NEW p \in Procs, At(p, "start", "admit") PROVE Fenced
      BY DEF NoAdmissionDuringHandoff, Fenced
    <2>1. p \in gate.readers
      BY DEF AdmitInv, Inv, LockInv, Holds, At
    <2>2. QED
      BY <2>1 DEF AdmitInv
  <1>2. QED
    BY AdmitInit, AdmitStep, <1>1, PTL DEF Spec

-----------------------------------------------------------------------------
(* The custody of the data. *)

(* What the next step of a process relies on: a checkpoint before the       *)
(* target is started, the target selected and its container there before    *)
(* the update ends, no checkpoint when it is cancelled.                     *)
Entrusted(p) ==
    /\ proc[p].op = "update" =>
         /\ proc[p].pc \in {"released", "remove", "starting"} => checkpoint # "none"
         /\ proc[p].pc = "ensure" => checkpoint # "none" \/ Owner = proc[p].mine.target
         /\ proc[p].pc \in {"ready", "commit", "retire", "ensured"} =>
              container.status # "Missing"
         /\ proc[p].pc \in {"activate", "activated", "finalize", "finish"} =>
              Owner = proc[p].mine.target /\ container.status # "Missing"
    /\ proc[p].op = "cancel" /\ proc[p].pc = "archived" => checkpoint = "none"

(* The container is of the version that opened the data last, and the       *)
(* recorded owner is that version, or the target a checkpoint was made for. *)
Custodian ==
    /\ container.image = data
    /\ checkpoint # "none" => Updating
    /\ \/ Owner = data
       \/ checkpoint # "none" /\ Owner = intent.target

CustodyInv ==
    /\ OwnerInv /\ IntentInv /\ Custodian
    /\ \A p \in Procs : Entrusted(p)

LEMMA CustodyInit == Init => CustodyInv
  <1> SUFFICES ASSUME Init PROVE CustodyInv
    OBVIOUS
  <1>1. OwnerInv /\ IntentInv
    BY OwnerInit, IntentInit
  <1>2. Custodian
    BY NobodyIsAProc DEF Custodian, Init, Owner
  <1>3. ASSUME NEW p \in Procs PROVE Entrusted(p)
    <2>1. proc[p].op = "none" /\ proc[p].pc = "idle"
      BY DEF Init, NoProc
    <2>2. QED
      BY <2>1 DEF Entrusted
  <1>4. QED
    BY <1>1, <1>2, <1>3 DEF CustodyInv

(* What a process is doing after it went on, published or returned. *)
LEMMA GotoAt ==
  ASSUME ProcInv, NEW p \in Procs, NEW point, Goto(p, point)
  PROVE  /\ proc'[p].pc = point /\ proc'[p].op = proc[p].op
         /\ proc'[p].mine = proc[p].mine /\ proc'[p].seen = proc[p].seen
  <1>1. proc[p] \in ProcState /\ proc'[p] = [proc[p] EXCEPT !.pc = point]
    BY DEF ProcInv, Sound, Goto
  <1>2. QED
    BY <1>1 DEF ProcState

LEMMA PublishAt ==
  ASSUME ProcInv, NEW p \in Procs, NEW mine, NEW point, PublishAs(p, mine, point)
  PROVE  /\ proc'[p].pc = point /\ proc'[p].op = "update" /\ proc'[p].mine = mine
         /\ proc'[p].seen = proc[p].seen /\ intent' = mine
  <1>1. /\ proc[p] \in ProcState
        /\ proc'[p] = [proc[p] EXCEPT !.op = "update", !.mine = mine, !.pc = point]
    BY DEF ProcInv, Sound, PublishAs
  <1>2. QED
    BY <1>1 DEF ProcState, PublishAs

LEMMA EndAt ==
  ASSUME ProcInv, NEW p \in Procs, End(p)
  PROVE  proc'[p].pc = "idle" /\ proc'[p].op = "none"
  BY DEF ProcInv, End, NoProc

LEMMA IntentNamed == \A mine \in Intent : mine # NoIntent
  BY NobodyIsAProc DEF Intent, NoIntent

(* The same attempt, not at its beginning again. *)
Continues ==
    /\ intent'.target = intent.target
    /\ intent.phase # "Prepared" => intent'.phase # "Prepared"
    /\ intent.owned => intent'.owned

LEMMA Continued ==
  ASSUME intent \in Intent,
         \/ \E phase \in UpdatePhases \ {"Prepared"} : intent' = [intent EXCEPT !.phase = phase]
         \/ \E failure \in Failures : intent' = [intent EXCEPT !.failure = failure]
         \/ intent' = [intent EXCEPT !.owned = TRUE]
         \/ UNCHANGED intent
  PROVE  intent' \in Intent /\ Continues
  <1>1. CASE UNCHANGED intent
    BY <1>1 DEF Continues
  <1>2. CASE \E phase \in UpdatePhases \ {"Prepared"} : intent' = [intent EXCEPT !.phase = phase]
    <2>1. /\ intent' \in Intent /\ intent'.target = intent.target
          /\ intent'.phase # "Prepared" /\ intent'.owned = intent.owned
      BY <1>2 DEF Intent
    <2>2. QED
      BY <2>1 DEF Continues
  <1>3. CASE \E failure \in Failures : intent' = [intent EXCEPT !.failure = failure]
    <2>1. /\ intent' \in Intent /\ intent'.target = intent.target
          /\ intent'.phase = intent.phase /\ intent'.owned = intent.owned
      BY <1>3 DEF Intent
    <2>2. QED
      BY <2>1 DEF Continues
  <1>4. CASE intent' = [intent EXCEPT !.owned = TRUE]
    <2>1. /\ intent' \in Intent /\ intent'.target = intent.target
          /\ intent'.phase = intent.phase /\ intent'.owned
      BY <1>4 DEF Intent
    <2>2. QED
      BY <2>1 DEF Continues
  <1>5. QED
    BY <1>1, <1>2, <1>3, <1>4

(* An update under the locks publishes the intent it read, until it ends. *)
LEMMA BackendIntent ==
  ASSUME IntentInv, NEW p \in Procs, BackendStep(p)
  PROVE  /\ AtBackend(p) /\ hostLock = p /\ intent = proc[p].mine /\ intent \in Intent
         /\ \/ UpdateFinish(p)
            \/ intent' \in Intent /\ Continues
  <1>1. ProcInv /\ LockInv /\ Inv
    BY DEF IntentInv, Inv
  <1>2. AtBackend(p)
    BY <1>1, BackendStepOrderly
  <1>3. hostLock = p
    BY <1>1, <1>2 DEF LockInv, Holds, NeedsHost, AtBackend
  <1>4. intent = proc[p].mine
    BY <1>2 DEF IntentInv, IntentUndisturbed, AtBackend, BackendPoints, EnsurePoints
  <1>5. intent \in Intent
    BY <1>1, <1>2, <1>4, PhaseIntent DEF AtBackend
  <1>6. ASSUME ~UpdateFinish(p)
        PROVE  \/ UNCHANGED intent
               \/ \E phase \in UpdatePhases \ {"Prepared"} : intent' = [intent EXCEPT !.phase = phase]
               \/ \E failure \in Failures : intent' = [intent EXCEPT !.failure = failure]
               \/ intent' = [intent EXCEPT !.owned = TRUE]
    <2>1. CASE UpdateControl(p) \/ UpdateGateway(p) \/ UpdateOwn(p) \/ UpdateDrain(p)
      BY <1>4, <2>1, PointKinds
      DEF UpdateControl, UpdateGateway, UpdateOwn, UpdateDrain, Publish, PublishAs, documents
    <2>2. CASE \/ UpdateClose(p) \/ UpdateQuiesced(p) \/ UpdateReleasing(p)
               \/ UpdateRelease(p) \/ UpdateExited(p)
      BY <1>4, <2>2, PointKinds
      DEF UpdateClose, UpdateQuiesced, UpdateReleasing, UpdateRelease, UpdateExited, Publish,
          PublishAs, documents
    <2>3. CASE UpdateCheckpoint(p) \/ UpdateReleased(p) \/ UpdateRemove(p) \/ UpdateStarting(p)
      BY <1>4, <2>3, PointKinds
      DEF UpdateCheckpoint, UpdateReleased, UpdateRemove, UpdateStarting, Publish, PublishAs,
          documents
    <2>4. CASE UpdateChecking(p) \/ UpdateActivate(p) \/ UpdatePoolsComplete(p) \/ UpdateFinalize(p)
      BY <1>4, <2>4, PointKinds
      DEF UpdateChecking, UpdateActivate, UpdatePoolsComplete, UpdateFinalize, Publish, PublishAs
    <2>5. CASE Setback(p)
      BY <1>4, <2>5, PointKinds
      DEF Setback, UpdateBusy, UpdateUnready, UpdatePoolsUnready, Refuse
    <2>6. QED
      BY <1>6, <2>1, <2>2, <2>3, <2>4, <2>5 DEF BackendStep
  <1>7. QED
    BY <1>2, <1>3, <1>4, <1>5, <1>6, Continued

(* The target of an attempt stays until the attempt ends. *)
Ends(p) == UpdateFinish(p) \/ CancelRemove(p)

LEMMA TargetKept ==
  ASSUME IntentInv, NEW p \in Procs, Begin(p) \/ Step(p) \/ Setback(p) \/ Die(p), Updating,
         ~Ends(p)
  PROVE  Updating' /\ Continues
  <1>1. ProcInv /\ intent \in Intent
    BY DEF IntentInv, Inv, StateTypes, DocumentTypes, Updating
  <1>2. CASE UNCHANGED intent
    BY <1>1, <1>2, Continued DEF Updating
  <1>3. CASE Preparing(p)
    <2>1. CASE UpdateRecord(p)
      BY <1>2, <2>1 DEF UpdateRecord, PublishAs
    <2>2. CASE UpdatePrepare(p)
      <3>1. UNCHANGED intent \/ intent' = [intent EXCEPT !.phase = "Preparing"]
        BY <2>2 DEF UpdatePrepare, Publish, PublishAs
      <3>2. QED
        BY <1>1, <3>1, Continued, IntentNamed, PointKinds DEF Updating
    <2>3. CASE UpdateCheck(p)
      <3>1. \E failure \in {"none", "BackendDrain"} :
                intent' = [intent EXCEPT !.failure = failure]
        BY <2>3 DEF UpdateCheck, Refuse
      <3>2. QED
        BY <1>1, <3>1, Continued, IntentNamed, PointKinds DEF Updating
    <2>4. CASE UpdateRetireGateways(p) \/ UpdatePools(p)
      BY <1>2, <2>4 DEF UpdateRetireGateways, UpdatePools
    <2>5. QED
      BY <1>3, <2>1, <2>2, <2>3, <2>4 DEF Preparing
  <1>4. CASE BackendStep(p)
    BY <1>4, BackendIntent, IntentNamed DEF Ends, Updating
  <1>5. CASE Cancel(p)
    BY <1>2, <1>5 DEF Cancel, CancelArchive, Ends, documents
  <1>6. CASE Ensure(p) \/ Stop(p) \/ Start(p) \/ Begin(p) \/ Die(p)
    BY <1>2, <1>6, Frames DEF documents
  <1>7. QED
    BY <1>3, <1>4, <1>5, <1>6, StepKinds

(* A step that opens nothing, and a checkpoint that stays with its attempt. *)
LEMMA CustodianQuiet ==
  ASSUME CustodyInv, container'.image = container.image, UNCHANGED <<data, checkpoint>>,
         Owner' = Owner, Updating => Updating' /\ intent'.target = intent.target
  PROVE  Custodian'
  BY DEF CustodyInv, Custodian

(* The owner names the container, which the version that opened the data    *)
(* last left, unless the container is gone.                                 *)
LEMMA OwnerOpened == CustodyInv /\ container.status # "Missing" => Owner = data
  BY DEF CustodyInv, OwnerInv, OwnerMatchesContainer, Custodian

LEMMA EnsureCustodian ==
  ASSUME CustodyInv, NEW p \in Procs, Ensure(p)
  PROVE  Custodian'
  <1>i. /\ Inv /\ ProcInv /\ Custodian /\ Entrusted(p) /\ OwnerTypes /\ WorldTypes /\ Grounded(p)
        /\ IntentInv
    BY DEF CustodyInv, OwnerInv, Inv, StateTypes
  <1>u. UNCHANGED intent /\ (Updating' <=> Updating)
    BY Frames DEF documents, Updating
  <1>1. CASE EnsureRunning(p)
    BY <1>u, <1>1, CustodianQuiet DEF EnsureRunning, world, owners, Owner
  <1>2. CASE EnsureStart(p)
    <2>1. /\ container'.image = container.image /\ data' = container.image
          /\ (checkpoint' = "none" <=> checkpoint = "none") /\ Owner' = Owner
      BY <1>2 DEF EnsureStart, Opens, owners, Owner
    <2>2. QED
      BY <1>i, <1>u, <2>1, OwnerOpened, <1>2 DEF Custodian, EnsureStart
  <1>3. CASE EnsureCandidate(p)
    <2>1. candidate' = Bound(p) /\ selected' = selected /\ proc[p].pc = "ensure"
          /\ UNCHANGED <<container, data, checkpoint>>
      BY <1>3 DEF EnsureCandidate, world
    <2>2. CASE proc[p].op = "update"
      <3>1. intent = proc[p].mine /\ proc[p].mine \in Intent
        BY <1>i, <2>1, <2>2, PhaseIntent DEF IntentInv, IntentUndisturbed
      <3>2. Owner' = intent.target
        BY <2>1, <2>2, <3>1, NobodyIsAProc DEF Bound, Owner, Intent
      <3>3. QED
        BY <1>i, <1>u, <2>1, <2>2, <3>1, <3>2 DEF Custodian, Entrusted
    <2>3. CASE proc[p].op # "update"
      <3>1. Owner' = Owner
        BY <1>i, <2>1, <2>3, NobodyIsAProc DEF Bound, Owner, OwnerTypes
      <3>2. QED
        BY <1>u, <2>1, <3>1, CustodianQuiet
    <2>4. QED
      BY <2>2, <2>3
  <1>4. CASE EnsureLaunch(p)
    <2>1. candidate # None /\ Owner = candidate
      BY <1>i, <1>4 DEF EnsureLaunch, Grounded, Owner
    <2>2. /\ container'.image = candidate /\ data' = candidate /\ Owner' = Owner
          /\ (checkpoint' = "none" <=> checkpoint = "none")
      BY <1>4 DEF EnsureLaunch, Opens, owners, Owner
    <2>3. QED
      BY <1>i, <1>u, <2>1, <2>2 DEF Custodian
  <1>5. CASE EnsureReady(p)
    <2>1. container'.image = container.image
      BY <1>i, <1>5 DEF EnsureReady, WorldTypes
    <2>2. QED
      BY <1>u, <1>5, <2>1, CustodianQuiet DEF EnsureReady, owners, Owner
  <1>6. CASE EnsureCommit(p) \/ EnsureRetire(p)
    <2>1. Owner' = Owner
      BY <1>i, <1>6 DEF EnsureCommit, EnsureRetire, Grounded, Owner
    <2>2. QED
      BY <1>u, <1>6, <2>1, CustodianQuiet DEF EnsureCommit, EnsureRetire, world
  <1>7. QED
    BY <1>1, <1>2, <1>3, <1>4, <1>5, <1>6 DEF Ensure

(* Whoever files a checkpoint is the update, and only the end of an attempt *)
(* takes it away.                                                           *)
LEMMA BackendCheckpoint ==
  ASSUME CustodyInv, NEW p \in Procs, BackendStep(p)
  PROVE  UNCHANGED checkpoint \/ UpdateCheckpoint(p) \/ UpdateFinish(p)
  BY DEF BackendStep, Setback, UpdateControl, UpdateGateway, UpdateOwn, UpdateDrain,
      UpdateClose, UpdateQuiesced, UpdateReleasing, UpdateRelease, UpdateExited,
      UpdateReleased, UpdateRemove, UpdateStarting,
      UpdateChecking, UpdateActivate, UpdatePoolsComplete, UpdateFinalize, UpdateBusy,
      UpdateUnready, UpdatePoolsUnready, world

LEMMA BackendCustodian ==
  ASSUME CustodyInv, NEW p \in Procs, BackendStep(p)
  PROVE  Custodian'
  <1>i. Inv /\ IntentInv /\ Custodian /\ Entrusted(p)
    BY DEF CustodyInv, OwnerInv
  <1>1. Owner' = Owner /\ UNCHANGED data /\ container'.image = container.image
    BY <1>i, Frames, BackendContainer DEF owners, Owner
  <1>2. CASE UpdateFinish(p)
    <2>1. Owner = data
      BY <1>i, <1>2, OwnerOpened DEF UpdateFinish, At, Entrusted
    <2>2. checkpoint' = "none"
      BY <1>2 DEF UpdateFinish, RemoveIntent
    <2>3. QED
      BY <1>i, <1>1, <2>1, <2>2 DEF Custodian
  <1>3. ASSUME ~UpdateFinish(p)
        PROVE  Updating /\ Updating' /\ intent'.target = intent.target
    BY <1>i, <1>3, BackendIntent, IntentNamed DEF Updating, Continues
  <1>4. CASE UpdateCheckpoint(p)
    <2>1. UNCHANGED intent /\ (checkpoint # "none" => checkpoint' # "none") /\ checkpoint' # "none"
      BY <1>4 DEF UpdateCheckpoint, documents
    <2>2. Updating
      BY <1>i, BackendIntent, IntentNamed DEF Updating
    <2>3. QED
      BY <1>i, <1>1, <2>1, <2>2 DEF Custodian, Updating
  <1>5. QED
    BY <1>1, <1>2, <1>3, <1>4, BackendCheckpoint, CustodianQuiet

LEMMA CancelCustodian ==
  ASSUME CustodyInv, NEW p \in Procs, Cancel(p)
  PROVE  Custodian'
  <1>1. Owner' = Owner /\ UNCHANGED <<data, container>> /\ Custodian /\ Entrusted(p)
    BY Frames DEF owners, Owner, CustodyInv
  <1>2. CASE CancelArchive(p)
    BY <1>1, <1>2, CustodianQuiet DEF CancelArchive, world, documents, Updating
  <1>3. CASE CancelRemove(p)
    <2>1. checkpoint = "none" /\ checkpoint' = "none"
      BY <1>1, <1>3 DEF CancelRemove, At, Entrusted, RemoveIntent
    <2>2. QED
      BY <1>1, <2>1 DEF Custodian
  <1>4. QED
    BY <1>2, <1>3, <1>1 DEF Cancel

(* A host stop stops the container. *)
LEMMA StopContainer ==
  ASSUME Inv, NEW p \in Procs, Stop(p)
  PROVE  /\ container'.image = container.image
         /\ \/ UNCHANGED container
            \/ Running /\ container'.status = "Stopped"
  <1>1. UNCHANGED container \/ (container' = Halted /\ Running)
    BY DEF Stop, StopPools, StopRecord, StopController, StopBackend, StopConfirm,
           StopComplete, world
  <1>2. Halted.image = container.image /\ Halted.status = "Stopped"
    BY DEF Halted, Inv, StateTypes, WorldTypes
  <1>3. QED
    BY <1>1, <1>2

LEMMA CustodianStep ==
  ASSUME CustodyInv, [Next]_vars
  PROVE  Custodian'
  <1>i. Inv /\ IntentInv
    BY DEF CustodyInv, IntentInv
  <1>1. ASSUME NEW p \in Procs, Preparing(p) \/ Stop(p) \/ Start(p) \/ Begin(p) \/ Die(p),
               Begin(p) \/ Step(p) \/ Setback(p) \/ Die(p)
        PROVE  Custodian'
    <2>1. UNCHANGED <<owners, data, checkpoint>> /\ container'.image = container.image
      BY <1>i, <1>1, Frames, StopContainer DEF world
    <2>2. Updating => Updating' /\ intent'.target = intent.target
      <3>1. CASE Preparing(p)
        <4>1. ~Ends(p)
          BY <3>1 DEF Ends, UpdateFinish, CancelRemove, Preparing, UpdateRecord, UpdatePrepare,
                      UpdateRetireGateways, UpdatePools, UpdateCheck, At
        <4>2. QED
          BY <1>i, <1>1, <4>1, TargetKept DEF Continues
      <3>2. QED
        BY <1>1, <3>1, Frames DEF documents, Updating
    <2>3. QED
      BY <2>1, <2>2, CustodianQuiet DEF owners, Owner
  <1>2. CASE UNCHANGED vars
    BY <1>2, CustodianQuiet DEF vars, Owner, Updating
  <1>3. CASE BackendExits \/ BackendCrashes
    BY <1>i, <1>3, BackendEvent, CustodianQuiet
    DEF BackendExits, BackendCrashes, documents, owners, Owner, Updating
  <1>4. QED
    BY <1>1, <1>2, <1>3, StepKinds, EnsureCustodian, BackendCustodian, CancelCustodian DEF Next

(* Others' steps keep what a process relies on, ... *)
LEMMA EntrustedKept ==
  ASSUME CustodyInv, NEW p \in Procs, NEW q \in Procs \ {p},
         Begin(p) \/ Step(p) \/ Setback(p) \/ Die(p)
  PROVE  Entrusted(q)'
  <1>i. Inv /\ ProcInv /\ LockInv /\ Entrusted(q)
    BY DEF CustodyInv, OwnerInv, Inv
  <1>1. proc'[q] = proc[q]
    BY <1>i, InvTypes, StepOrderly DEF Orderly, ProcInv
  <1> SUFFICES ASSUME NeedsHost(proc[q])
               PROVE  Entrusted(q)'
    <2>1. \/ /\ proc[q].op = "update"
             /\ proc[q].pc \in {"released", "remove", "starting", "ensure", "ready", "commit",
                                "retire", "ensured", "activate", "activated", "finalize", "finish"}
          \/ proc[q].op = "cancel" /\ proc[q].pc = "archived"
          \/ Entrusted(q)'
      BY <1>1 DEF Entrusted
    <2>2. QED
      BY <2>1 DEF NeedsHost, BackendPoints, EnsurePoints
  <1>2. hostLock = q /\ hostLock # p
    BY <1>i DEF LockInv, Holds
  <1>3. ~Ensure(p) /\ ~BackendStep(p) /\ ~CancelRemove(p)
    BY <1>i, <1>2, EnsureOrderly, BackendStepOrderly
    DEF LockInv, Holds, AtBackend, NeedsHost, CancelRemove, At
  <1>4. UNCHANGED owners /\ UNCHANGED checkpoint
    <2>1. CancelArchive(p) => UNCHANGED checkpoint
      BY DEF CancelArchive, world
    <2>2. QED
      BY <1>3, <2>1, StepKinds, Frames DEF world, Cancel
  <1>5. container'.status # "Missing" \/ UNCHANGED container
    <2>1. Cancel(p) => UNCHANGED container
      BY Frames
    <2>2. QED
      BY <1>i, <1>3, <2>1, StepKinds, Frames, StopContainer DEF world
  <1>6. QED
    BY <1>i, <1>1, <1>4, <1>5 DEF Entrusted, owners, Owner

(* ... and its own lay the ground of the next one: the update's, ... *)
LEMMA BackendEntrusted ==
  ASSUME CustodyInv, NEW p \in Procs, BackendStep(p)
  PROVE  Entrusted(p)'
  <1>i. /\ Inv /\ ProcInv /\ LockInv /\ IntentInv /\ Entrusted(p) /\ OwnerMatchesContainer
        /\ proc[p] \in ProcState
    BY DEF CustodyInv, OwnerInv, Inv, ProcInv, Sound
  <1>b. AtBackend(p)
    BY <1>i, BackendStepOrderly
  <1>m. /\ proc[p].mine \in Intent
        /\ \A phase \in UpdatePhases : [proc[p].mine EXCEPT !.phase = phase].target = proc[p].mine.target
    BY <1>i, <1>b, PhaseIntent DEF AtBackend, Intent
  <1>o. Owner' = Owner
    BY Frames DEF owners, Owner
  <1>e. ASSUME End(p) PROVE Entrusted(p)'
    BY <1>e, <1>i, EndAt DEF Entrusted
  <1>g. ASSUME NEW point \in {"gateway", "own", "release", "checkpoint", "quiesce", "releasing",
                              "exiting", "close"},
               proc'[p].pc = point
        PROVE  Entrusted(p)'
    BY <1>g DEF Entrusted
  <1>1. CASE UpdateControl(p) \/ UpdateGateway(p) \/ UpdateClose(p) \/ UpdateQuiesced(p)
             \/ UpdateRelease(p)
    BY <1>1, <1>g, <1>i, GotoAt
    DEF UpdateControl, UpdateGateway, UpdateClose, UpdateQuiesced, UpdateRelease
  <1>2. CASE UpdateOwn(p)
    <2>1. CASE Replaces(p)
      <3>1. proc'[p].pc = "drain"
        BY <1>2, <1>i, <2>1, PublishAt DEF UpdateOwn
      <3>2. QED
        BY <3>1 DEF Entrusted
    <2>2. CASE ~Replaces(p)
      <3>1. proc'[p].pc = "ensure" /\ proc'[p].mine = proc[p].mine
        BY <1>2, <1>i, <2>2, GotoAt DEF UpdateOwn
      <3>2. Owner = proc[p].mine.target
        BY <2>2 DEF Replaces
      <3>3. QED
        BY <1>o, <3>1, <3>2 DEF Entrusted
    <2>3. QED
      BY <2>1, <2>2
  <1>3. CASE UpdateDrain(p)
    BY <1>3, <1>g, <1>i, GotoAt, PublishAt DEF UpdateDrain, Publish
  <1>4. CASE UpdateReleasing(p)
    BY <1>4, <1>g, <1>i, PublishAt DEF UpdateReleasing, Publish
  <1>5. CASE UpdateExited(p)
    <2>1. proc'[p] = [proc[p] EXCEPT !.pc = "checkpoint", !.seen = "Stopped"]
      BY <1>5, <1>i DEF UpdateExited, ProcInv
    <2>2. proc'[p].pc = "checkpoint"
      BY <1>i, <2>1 DEF ProcState
    <2>3. QED
      BY <1>g, <2>2
  <1>6. CASE UpdateCheckpoint(p)
    <2>1. proc'[p].pc = "released" /\ proc'[p].op # "cancel"
      BY <1>6, <1>i, GotoAt DEF UpdateCheckpoint, At
    <2>2. checkpoint' # "none"
      BY <1>6 DEF UpdateCheckpoint
    <2>3. QED
      BY <2>1, <2>2 DEF Entrusted
  <1>7. CASE UpdateReleased(p)
    <2>1. proc'[p].pc = "remove" /\ proc'[p].op = "update"
      BY <1>7, <1>i, PublishAt DEF UpdateReleased, Publish
    <2>2. checkpoint' # "none"
      BY <1>7, <1>i DEF UpdateReleased, At, Entrusted, world
    <2>3. QED
      BY <2>1, <2>2 DEF Entrusted
  <1>8. CASE UpdateRemove(p)
    <2>1. proc'[p] = [proc[p] EXCEPT !.pc = "starting", !.seen = "Running"]
      BY <1>8, <1>i DEF UpdateRemove, ProcInv
    <2>2. proc'[p].pc = "starting" /\ proc'[p].op = "update"
      BY <1>b, <1>i, <2>1 DEF ProcState, AtBackend
    <2>3. checkpoint' # "none"
      BY <1>8, <1>i DEF UpdateRemove, At, Entrusted
    <2>4. QED
      BY <2>2, <2>3 DEF Entrusted
  <1>9. CASE UpdateStarting(p)
    <2>1. proc'[p].pc = "ensure" /\ proc'[p].op = "update"
      BY <1>9, <1>i, PublishAt DEF UpdateStarting, Publish
    <2>2. checkpoint' # "none"
      BY <1>9, <1>i DEF UpdateStarting, At, Entrusted, world
    <2>3. QED
      BY <2>1, <2>2 DEF Entrusted
  <1>10. CASE UpdateChecking(p)
    <2>1. /\ proc'[p].pc = "activate" /\ proc'[p].op = "update"
          /\ proc'[p].mine = [proc[p].mine EXCEPT !.phase = "Checking"]
      BY <1>10, <1>i, PublishAt DEF UpdateChecking, Publish
    <2>2. /\ Owner = proc[p].mine.target /\ container.status # "Missing" /\ UNCHANGED container
      BY <1>10, <1>i DEF UpdateChecking, At, Entrusted, world
    <2>3. QED
      BY <1>m, <1>o, <2>1, <2>2, PointKinds DEF Entrusted
  <1>11. CASE UpdateActivate(p)
    <2>1. /\ proc'[p].pc = "activated" /\ proc'[p].op = "update"
          /\ proc'[p].mine = [proc[p].mine EXCEPT !.phase = "Activated"]
      BY <1>11, <1>i, PublishAt DEF UpdateActivate, Publish
    <2>2. /\ Owner = proc[p].mine.target /\ container.status # "Missing" /\ UNCHANGED container
      BY <1>11, <1>i DEF UpdateActivate, At, Entrusted, world
    <2>3. QED
      BY <1>m, <1>o, <2>1, <2>2, PointKinds DEF Entrusted
  <1>12. CASE UpdatePoolsComplete(p) \/ UpdateFinalize(p)
    <2>1. /\ proc'[p].pc \in {"finalize", "finish"} /\ proc'[p].op = "update"
          /\ proc'[p].mine = proc[p].mine
      BY <1>12, <1>i, GotoAt DEF UpdatePoolsComplete, UpdateFinalize, At
    <2>2. /\ Owner = proc[p].mine.target /\ container.status # "Missing" /\ UNCHANGED container
      BY <1>12, <1>i DEF UpdatePoolsComplete, UpdateFinalize, At, Entrusted, world
    <2>3. QED
      BY <1>o, <2>1, <2>2 DEF Entrusted
  <1>13. CASE UpdateFinish(p) \/ Setback(p)
    BY <1>13, <1>e DEF UpdateFinish, Setback, UpdateBusy, UpdateUnready, UpdatePoolsUnready, Refuse
  <1>14. QED
    BY <1>1, <1>2, <1>3, <1>4, <1>5, <1>6, <1>7, <1>8, <1>9, <1>10, <1>11, <1>12, <1>13
    DEF BackendStep

(* ... those that start the backend, ... *)
LEMMA EnsureEntrusted ==
  ASSUME CustodyInv, NEW p \in Procs, Ensure(p)
  PROVE  Entrusted(p)'
  <1>i. /\ Inv /\ ProcInv /\ Entrusted(p) /\ WorldTypes
        /\ proc[p] \in ProcState
    BY DEF CustodyInv, OwnerInv, Inv, ProcInv, Sound, StateTypes
  <1>1. /\ proc'[p].op = proc[p].op
        /\ proc'[p].pc \in {"ready", "launch", "commit", "retire", "ensured"}
    BY <1>i, GotoAt
    DEF Ensure, EnsureRunning, EnsureStart, EnsureCandidate, EnsureLaunch, EnsureReady,
        EnsureCommit, EnsureRetire
  <1>2. CASE EnsureCandidate(p)
    <2>1. proc'[p].pc = "launch"
      BY <1>i, <1>2, GotoAt DEF EnsureCandidate
    <2>2. QED
      BY <2>1 DEF Entrusted
  <1>3. proc[p].op = "update" /\ ~EnsureCandidate(p) => container'.status # "Missing"
    <2>1. CASE EnsureRunning(p)
      BY <2>1 DEF EnsureRunning, Running, world
    <2>2. CASE EnsureStart(p) \/ EnsureLaunch(p)
      BY <2>2 DEF EnsureStart, EnsureLaunch, Opens
    <2>3. CASE EnsureReady(p)
      BY <1>i, <2>3 DEF EnsureReady, WorldTypes, Running
    <2>4. CASE EnsureCommit(p) \/ EnsureRetire(p)
      BY <1>i, <2>4 DEF EnsureCommit, EnsureRetire, Entrusted, world
    <2>5. QED
      BY <2>1, <2>2, <2>3, <2>4 DEF Ensure
  <1>4. QED
    BY <1>1, <1>2, <1>3 DEF Entrusted

(* ... and all the others. *)
LEMMA EntrustedLaid ==
  ASSUME CustodyInv, NEW p \in Procs, Begin(p) \/ Step(p) \/ Setback(p) \/ Die(p)
  PROVE  Entrusted(p)'
  <1>i. /\ Inv /\ ProcInv /\ Entrusted(p) /\ proc[p] \in ProcState
        /\ proc \in [Procs -> ProcState] /\ Sound(proc[p])
    BY DEF CustodyInv, OwnerInv, Inv, ProcInv, Sound
  <1>e. ASSUME proc'[p].pc \in {"idle", "record", "prepare", "pools", "check", "control",
                                "gate", "fence", "lock", "resumed", "halt", "confirm"}
        PROVE  Entrusted(p)'
    BY <1>e DEF Entrusted
  <1>o. ASSUME proc'[p].op \in {"stop", "start"}
        PROVE  Entrusted(p)'
    BY <1>o DEF Entrusted
  <1>1. CASE Preparing(p)
    <2>1. proc[p].pc # "record" => proc[p].op = "update"
      BY <1>1 DEF Preparing, UpdateRecord, UpdatePrepare, UpdateRetireGateways, UpdatePools,
                  UpdateCheck, At
    <2>2. proc'[p].pc \in {"prepare", "pools", "check", "control", "idle"}
      <3>1. CASE UpdateCheck(p)
        <4>1. CASE End(p)
          BY <1>i, <4>1, EndAt
        <4>2. CASE ~End(p)
          <5>1. proc' = [proc EXCEPT ![p].mine = [proc[p].mine EXCEPT !.failure = "none"],
                                     ![p].pc = "control", ![p].seen = container.status]
            BY <3>1, <4>2 DEF UpdateCheck, Refuse
          <5>2. QED
            BY <1>i, <5>1 DEF ProcState
        <4>3. QED
          BY <4>1, <4>2
      <3>2. CASE UpdateRetireGateways(p)
        BY <3>2 DEF UpdateRetireGateways, At
      <3>3. CASE UpdateRecord(p) \/ UpdatePrepare(p) \/ UpdatePools(p)
        BY <1>i, <3>3, GotoAt, PublishAt DEF UpdateRecord, UpdatePrepare, UpdatePools, Publish
      <3>4. QED
        BY <1>1, <3>1, <3>2, <3>3 DEF Preparing
    <2>3. QED
      BY <1>e, <2>2
  <1>2. CASE Stop(p) \/ Start(p)
    <2>1. CASE End(p)
      BY <1>e, <1>i, <2>1, EndAt
    <2>2. CASE ~End(p)
      <3>1. proc[p].op \in {"stop", "start"}
        BY <1>2 DEF Stop, StopPools, StopRecord, StopController, StopBackend, StopConfirm,
                    StopComplete, Start, StartGate, StartResume, StartController,
                    StartResumed, StartFence, StartAdmit, StartRegister, StartReturn, At
      <3>2. \/ \E point : Goto(p, point)
            \/ \E point, saw : proc' = [proc EXCEPT ![p].pc = point, ![p].saw = saw]
        BY <1>2, <2>2
        DEF Stop, StopPools, StopRecord, StopController, StopBackend, StopConfirm,
            StopComplete, Start, StartGate, StartResume, StartController, StartResumed,
            StartFence, StartAdmit, StartRegister, StartReturn
      <3>3. ASSUME NEW point, NEW saw, proc' = [proc EXCEPT ![p].pc = point, ![p].saw = saw]
            PROVE  proc'[p].op = proc[p].op
        <4>1. proc'[p] = [proc[p] EXCEPT !.pc = point, !.saw = saw]
          BY <1>i, <3>3
        <4>2. QED
          BY <1>i, <4>1 DEF ProcState
      <3>4. proc'[p].op = proc[p].op
        <4>1. CASE \E point : Goto(p, point)
          <5>1. PICK point : Goto(p, point)
            BY <4>1
          <5>2. QED
            BY <1>i, <5>1, GotoAt
        <4>2. CASE \E point, saw : proc' = [proc EXCEPT ![p].pc = point, ![p].saw = saw]
          <5>1. PICK point, saw : proc' = [proc EXCEPT ![p].pc = point, ![p].saw = saw]
            BY <4>2
          <5>2. QED
            BY <3>3, <5>1
        <4>3. QED
          BY <3>2, <4>1, <4>2
      <3>5. QED
        BY <1>o, <3>1, <3>4
    <2>3. QED
      BY <2>1, <2>2
  <1>3. CASE Cancel(p)
    <2>1. CASE CancelArchive(p)
      <3>1. proc'[p].pc = "archived" /\ proc'[p].op = "cancel"
        BY <1>i, <2>1, GotoAt DEF CancelArchive, At
      <3>2. checkpoint' = "none"
        BY <2>1 DEF CancelArchive, world
      <3>3. QED
        BY <3>1, <3>2 DEF Entrusted
    <2>2. CASE CancelRemove(p)
      BY <1>e, <1>i, <2>2, EndAt DEF CancelRemove
    <2>3. QED
      BY <1>3, <2>1, <2>2 DEF Cancel
  <1>4. CASE Begin(p)
    <2>1. proc'[p].pc \in {"record", "gate", "fence", "check"}
      BY <1>i, <1>4 DEF Begin, UpdateBegin, ResumeBegin, StopBegin, StartBegin, CancelBegin, NoProc
    <2>2. QED
      BY <1>e, <2>1
  <1>5. CASE Die(p)
    BY <1>e, <1>i, <1>5, EndAt DEF Die
  <1>6. QED
    BY <1>1, <1>2, <1>3, <1>4, <1>5, StepKinds, BackendEntrusted, EnsureEntrusted

LEMMA CustodyStep == CustodyInv /\ [Next]_vars => CustodyInv'
  <1> SUFFICES ASSUME CustodyInv, [Next]_vars PROVE CustodyInv'
    OBVIOUS
  <1>1. OwnerInv' /\ IntentInv' /\ Custodian'
    BY OwnerStep, IntentStep, CustodianStep DEF CustodyInv
  <1>2. ASSUME NEW p \in Procs, Begin(p) \/ Step(p) \/ Setback(p) \/ Die(p), NEW q \in Procs
        PROVE  Entrusted(q)'
    BY <1>2, EntrustedKept, EntrustedLaid
  <1>3. ASSUME BackendExits \/ BackendCrashes \/ UNCHANGED vars, NEW q \in Procs
        PROVE  Entrusted(q)'
    <2>1. UNCHANGED <<proc, owners, checkpoint>>
      BY <1>3 DEF BackendExits, BackendCrashes, vars, owners
    <2>2. container'.status # "Missing" \/ UNCHANGED container
      <3>1. BackendExits => container'.status # "Missing"
        BY DEF BackendExits, CustodyInv, OwnerInv, Inv, StateTypes, WorldTypes
      <3>2. BackendCrashes => container'.status # "Missing"
        BY DEF BackendCrashes, Halted, CustodyInv, OwnerInv, Inv, StateTypes, WorldTypes
      <3>3. QED
        BY <1>3, <3>1, <3>2 DEF vars
    <2>3. Entrusted(q)
      BY DEF CustodyInv
    <2>4. QED
      BY <2>1, <2>2, <2>3 DEF Entrusted, owners, Owner
  <1>4. QED
    BY <1>1, <1>2, <1>3 DEF CustodyInv, Next

(* A step that opens nothing is a step or a stutter of the custody. *)
LEMMA CustodyQuiet ==
  ASSUME CustodyInv, UNCHANGED <<data, checkpoint>>, container'.image = container.image,
         Running' => Running, checkpoint # "none" => intent'.target = intent.target
  PROVE  [Custody!Next]_(Custody!vars)
  <1>1. CASE Running /\ ~Running'
    <2>1. container.image # None
      BY NobodyIsAProc DEF CustodyInv, OwnerInv, Inv, StateTypes, WorldTypes
    <2>2. Custody!Close
      BY <1>1, <2>1 DEF Custody!Close
    <2>3. QED
      BY <2>2 DEF Custody!Next
  <1>2. CASE Running' <=> Running
    BY <1>2 DEF Custody!vars
  <1>3. QED
    BY <1>1, <1>2

(* What the backend's own events and every step of a process are to the     *)
(* custody.                                                                 *)
LEMMA EnsureMaps ==
  ASSUME CustodyInv, NEW p \in Procs, Ensure(p)
  PROVE  [Custody!Next]_(Custody!vars)
  <1>i. /\ Inv /\ Custodian /\ OwnerTypes /\ WorldTypes /\ Grounded(p) /\ DocumentTypes
    BY DEF CustodyInv, OwnerInv, Inv, StateTypes
  <1>u. UNCHANGED intent
    BY Frames DEF documents
  <1>o. ASSUME NEW v \in Versions, Opens(v),
               v = data \/ (~Running /\ checkpoint # "none" /\ v = intent.target)
        PROVE  [Custody!Next]_(Custody!vars)
    <2>1. /\ Running' /\ container'.image = v /\ data' = v
          /\ (checkpoint' = "none" <=> checkpoint = "none")
      BY <1>o DEF Opens, Running
    <2>2. container.image = data
      BY <1>i DEF Custodian
    <2>3. v # None /\ data # None
      BY <1>i, NobodyIsAProc DEF WorldTypes
    <2>4. CASE Running
      BY <1>o, <1>u, <2>1, <2>2, <2>4 DEF Custody!vars
    <2>5. CASE ~Running
      <3>1. CASE v = data
        <4>1. Custody!Reopen
          BY <1>u, <2>1, <2>5, <3>1 DEF Custody!Reopen
        <4>2. QED
          BY <4>1 DEF Custody!Next
      <3>2. CASE checkpoint # "none" /\ v = intent.target
        <4>1. Custody!Migrate
          BY <1>u, <2>1, <2>3, <2>5, <3>2 DEF Custody!Migrate
        <4>2. QED
          BY <4>1 DEF Custody!Next
      <3>3. QED
        BY <1>o, <3>1, <3>2
    <2>6. QED
      BY <2>4, <2>5
  <1>1. CASE EnsureStart(p)
    <2>1. Opens(container.image) /\ container.image \in Versions /\ container.image = data
      BY <1>i, <1>1 DEF EnsureStart, WorldTypes, Custodian
    <2>2. QED
      BY <1>o, <2>1
  <1>2. CASE EnsureLaunch(p)
    <2>1. Opens(candidate) /\ candidate \in Versions /\ candidate = Owner
      BY <1>i, <1>2 DEF EnsureLaunch, Grounded, OwnerTypes, Owner
    <2>2. QED
      BY <1>i, <1>o, <2>1, OwnerOpened DEF Custodian, Running
  <1>3. CASE ~EnsureStart(p) /\ ~EnsureLaunch(p)
    <2>1. /\ UNCHANGED <<data, checkpoint>> /\ container'.image = container.image
          /\ container'.status = container.status
      BY <1>i, <1>3 DEF Ensure, EnsureRunning, EnsureCandidate, EnsureReady, EnsureCommit,
                        EnsureRetire, world, WorldTypes
    <2>2. QED
      BY <1>u, <2>1, CustodyQuiet DEF Running
  <1>4. QED
    BY <1>1, <1>2, <1>3

LEMMA BackendMaps ==
  ASSUME CustodyInv, NEW p \in Procs, BackendStep(p)
  PROVE  [Custody!Next]_(Custody!vars)
  <1>i. /\ Inv /\ IntentInv /\ Entrusted(p) /\ WorldTypes
        /\ intent = proc[p].mine /\ intent \in Intent /\ intent.target # None
    BY BackendIntent, NobodyIsAProc DEF CustodyInv, OwnerInv, Inv, StateTypes, Intent
  <1>1. /\ UNCHANGED data /\ container'.image = container.image
        /\ container'.status \in {container.status, "Missing"}
    <2>1. \/ UNCHANGED container
          \/ \E x : container' = [container EXCEPT !.drained = x]
          \/ \E x : container' = [container EXCEPT !.releasing = x]
          \/ container' = [container EXCEPT
                !.status = IF proc[p].seen = "Stopped" THEN "Missing" ELSE @]
      BY DEF BackendStep, Setback, UpdateControl, UpdateGateway, UpdateOwn, UpdateDrain,
        UpdateClose, UpdateQuiesced, UpdateReleasing, UpdateRelease, UpdateExited,
        UpdateCheckpoint, UpdateReleased, UpdateRemove, UpdateStarting, UpdateChecking,
        UpdateActivate, UpdatePoolsComplete, UpdateFinalize, UpdateFinish, UpdateBusy,
        UpdateUnready, UpdatePoolsUnready, world
    <2>2. QED
      BY <1>i, <2>1, BackendContainer DEF WorldTypes
  <1>2. CASE UpdateFinish(p)
    <2>1. /\ Owner = intent.target /\ Owner = data
          /\ checkpoint' = "none" /\ UNCHANGED container
      BY <1>i, <1>2, OwnerOpened DEF UpdateFinish, At, Entrusted, RemoveIntent
    <2>2. CASE checkpoint = "none"
      BY <1>1, <2>1, <2>2 DEF Custody!vars, Running
    <2>3. CASE checkpoint # "none"
      <3>1. Custody!Complete
        BY <1>1, <2>1, <2>3 DEF Custody!Complete, Running
      <3>2. QED
        BY <3>1 DEF Custody!Next
    <2>4. QED
      BY <2>2, <2>3
  <1>3. CASE UpdateCheckpoint(p) /\ checkpoint = "none"
    <2>1. /\ ~Running /\ checkpoint' = "exact" /\ UNCHANGED <<intent, container, data>>
      BY <1>3 DEF UpdateCheckpoint, documents
    <2>2. Custody!Save(intent.target)
      BY <1>3, <2>1 DEF Custody!Save, Running
    <2>3. intent.target \in Versions
      BY <1>i DEF Intent
    <2>4. QED
      BY <2>2, <2>3 DEF Custody!Next
  <1>4. CASE ~UpdateFinish(p) /\ (UpdateCheckpoint(p) => checkpoint # "none")
    <2>1. UNCHANGED checkpoint
      BY <1>4, BackendCheckpoint DEF UpdateCheckpoint
    <2>2. intent'.target = intent.target
      BY <1>i, <1>4, BackendIntent DEF Continues
    <2>3. Running' => Running
      BY <1>1 DEF Running
    <2>4. QED
      BY <1>1, <2>1, <2>2, <2>3, CustodyQuiet
  <1>5. QED
    BY <1>2, <1>3, <1>4

LEMMA CustodyMaps == CustodyInv /\ [Next]_vars => [Custody!Next]_(Custody!vars)
  <1> SUFFICES ASSUME CustodyInv, [Next]_vars PROVE [Custody!Next]_(Custody!vars)
    OBVIOUS
  <1>i. Inv /\ IntentInv /\ Custodian
    BY DEF CustodyInv, IntentInv
  <1>1. ASSUME NEW p \in Procs, Begin(p) \/ Step(p) \/ Setback(p) \/ Die(p), ~Ensure(p),
               ~BackendStep(p), ~CancelRemove(p)
        PROVE  [Custody!Next]_(Custody!vars)
    <2>1. /\ UNCHANGED <<data, checkpoint>> /\ container'.image = container.image
          /\ Running' => Running
      <3>1. CancelArchive(p) => UNCHANGED world
        BY DEF CancelArchive
      <3>2. QED
        BY <1>i, <1>1, <3>1, StepKinds, Frames, StopContainer DEF world, Running, Cancel
    <2>2. checkpoint # "none" => intent'.target = intent.target
      <3>1. ~Ends(p)
        BY <1>1 DEF Ends, BackendStep
      <3>2. QED
        BY <1>i, <1>1, <3>1, TargetKept DEF Custodian, Continues
    <2>3. QED
      BY <2>1, <2>2, CustodyQuiet
  <1>2. ASSUME NEW p \in Procs, CancelRemove(p)
        PROVE  [Custody!Next]_(Custody!vars)
    <2>1. checkpoint = "none" /\ checkpoint' = "none" /\ UNCHANGED <<container, data>>
      BY <1>2 DEF CustodyInv, Entrusted, CancelRemove, At, RemoveIntent
    <2>2. QED
      BY <2>1 DEF Custody!vars, Running
  <1>3. CASE UNCHANGED vars
    BY <1>3 DEF vars, Custody!vars, Running
  <1>4. CASE BackendExits \/ BackendCrashes
    <2>1. UNCHANGED <<data, checkpoint, intent>> /\ Running /\ container'.image = container.image
      BY <1>i, <1>4, BackendEvent DEF BackendExits, BackendCrashes, documents
    <2>2. QED
      BY <2>1, CustodyQuiet
  <1>5. QED
    BY <1>1, <1>2, <1>3, <1>4, EnsureMaps, BackendMaps DEF Next

(* Whichever commands run, interleave and die, the host lifecycle keeps the *)
(* custody of the data: one version has it open, it passes to another only  *)
(* by a checkpoint made while nobody had it open, and the authorisation of  *)
(* that checkpoint ends only when its version owns the data.                *)
THEOREM HostKeepsCustody == Spec => ImplementsCustody
  <1>1. Init => Custody!Init
    BY DEF Init, Custody!Init, Running
  <1>2. QED
    BY CustodyInit, CustodyStep, CustodyMaps, <1>1, PTL DEF Spec, ImplementsCustody, Custody!Spec

-----------------------------------------------------------------------------
(* The end of an attempt. *)

(* What an update has done when it gets there, and what a cancellation      *)
(* filed.                                                                   *)
Concluded(p) ==
    /\ proc[p].op = "update" =>
         /\ proc[p].pc \notin {"record", "prepare"} => proc[p].mine.phase # "Prepared"
         /\ proc[p].pc \in {"ensured", "activate", "activated", "finalize", "finish"} =>
              candidate = None
         /\ proc[p].pc \in {"activated", "finalize", "finish"} =>
              plan = [backend |-> proc[p].mine.target, gateway |-> proc[p].mine.target,
                      open |-> TRUE]
         /\ proc[p].pc \in {"finalize", "finish"} => marker = NoMarker
         /\ proc[p].pc = "finish" => shutdown = NoShutdown
    /\ proc[p].op = "cancel" /\ proc[p].pc = "archived" => intent = archived /\ ~touched

(* An attempt that touched a native owner can be told from one that did     *)
(* not by what it left behind.                                              *)
Traced ==
    touched => /\ Updating /\ intent.phase # "Prepared"
               /\ controller.package = intent.target \/ HasPlan \/ intent.owned

RemovalInv ==
    /\ CustodyInv /\ Traced
    /\ \A p \in Procs : Concluded(p)

LEMMA RemovalInit == Init => RemovalInv
  <1> SUFFICES ASSUME Init PROVE RemovalInv
    OBVIOUS
  <1>1. CustodyInv /\ Traced
    BY CustodyInit DEF Init, Traced
  <1>2. ASSUME NEW p \in Procs PROVE Concluded(p)
    <2>1. proc[p].op = "none" /\ proc[p].pc = "idle"
      BY DEF Init, NoProc
    <2>2. QED
      BY <2>1 DEF Concluded
  <1>3. QED
    BY <1>1, <1>2 DEF RemovalInv

(* The marker changes only under the gate. *)
LEMMA MarkerChange ==
  ASSUME Inv, NEW p \in Procs, Begin(p) \/ Step(p) \/ Setback(p) \/ Die(p)
  PROVE  UNCHANGED marker \/ gate.owner \in {None, p}
  <1>1. CASE Preparing(p)
    BY <1>1 DEF Preparing, UpdateRecord, UpdatePrepare, UpdateRetireGateways, UpdatePools,
                UpdateCheck, TakeGate, GateFree
  <1>2. CASE BackendStep(p)
    BY <1>2, BackendStepOrderly DEF AtBackend, Inv, LockInv, Holds, NeedsGate
  <1>3. CASE Stop(p)
    <2>1. CASE StopComplete(p)
      BY <2>1 DEF StopComplete, At, Inv, LockInv, Holds, NeedsGate
    <2>2. QED
      BY <1>3, <2>1 DEF Stop, StopPools, StopRecord, StopController, StopBackend, StopConfirm,
                        TakeGate, GateFree, documents
  <1>4. CASE Ensure(p) \/ Start(p) \/ Cancel(p) \/ Begin(p) \/ Die(p)
    BY <1>4, Frames DEF documents
  <1>5. QED
    BY <1>1, <1>2, <1>3, <1>4, StepKinds

(* Others' steps keep it, ... *)
LEMMA ConcludedKept ==
  ASSUME RemovalInv, NEW p \in Procs, NEW q \in Procs \ {p},
         Begin(p) \/ Step(p) \/ Setback(p) \/ Die(p)
  PROVE  Concluded(q)'
  <1>i. /\ Inv /\ ProcInv /\ LockInv /\ Concluded(q)
    BY DEF RemovalInv, CustodyInv, OwnerInv, Inv
  <1>1. proc'[q] = proc[q]
    BY <1>i, InvTypes, StepOrderly DEF Orderly, ProcInv
  <1>h. Holds(q, proc[q])
    BY <1>i DEF LockInv
  <1>n. p # None /\ q # None
    BY NobodyIsAProc
  <1>2. ASSUME hostLock = q
        PROVE  UNCHANGED <<owners, shutdown>> /\ UNCHANGED plan /\ ~BackendStep(p)
    <2>1. ~Ensure(p) /\ ~BackendStep(p)
      BY <1>i, <1>2, EnsureOrderly, BackendStepOrderly DEF LockInv, Holds, AtBackend, NeedsHost
    <2>2. UNCHANGED owners /\ UNCHANGED plan
      BY <2>1, StepKinds, Frames DEF core
    <2>3. UNCHANGED shutdown
      BY <1>i, <1>2, <1>n, ShutdownChange
    <2>4. QED
      BY <2>1, <2>2, <2>3
  <1>3. CASE proc[q].op = "update" /\ proc[q].pc \in {"ensured", "activate", "activated",
                                                       "finalize", "finish"}
    <2>1. hostLock = q /\ gate.owner = q
      BY <1>h, <1>3 DEF Holds, NeedsHost, NeedsGate, BackendPoints, EnsurePoints
    <2>2. UNCHANGED marker
      BY <1>i, <1>n, <2>1, MarkerChange
    <2>3. QED
      BY <1>i, <1>1, <1>2, <1>3, <2>1, <2>2 DEF Concluded, owners
  <1>4. CASE proc[q].op = "cancel" /\ proc[q].pc = "archived"
    <2>1. hostLock = q /\ updateLock = q
      BY <1>h, <1>4 DEF Holds, NeedsHost, NeedsUpdate
    <2>2. UNCHANGED intent
      BY <1>i, <1>n, <2>1, IntentWriter
    <2>3. ~Cancel(p)
      BY <1>i, <1>n, <2>1, CancelOrderly DEF LockInv, Holds, NeedsUpdate
    <2>4. UNCHANGED evidence
      BY <1>2, <2>1, <2>3, StepKinds, Frames
    <2>5. QED
      BY <1>i, <1>1, <1>4, <2>2, <2>4 DEF Concluded, evidence
  <1>5. CASE /\ proc[q].op = "update" => proc[q].pc \notin {"ensured", "activate", "activated",
                                                            "finalize", "finish"}
             /\ proc[q].op = "cancel" => proc[q].pc # "archived"
    BY <1>i, <1>1, <1>5 DEF Concluded
  <1>6. QED
    BY <1>3, <1>4, <1>5

(* ... and its own brings it about: the update's under the locks, ... *)
LEMMA BackendConcluded ==
  ASSUME RemovalInv, NEW p \in Procs, BackendStep(p)
  PROVE  Concluded(p)'
  <1>i. /\ Inv /\ ProcInv /\ IntentInv /\ Concluded(p)
        /\ proc[p] \in ProcState /\ CoreTypes
    BY DEF RemovalInv, CustodyInv, OwnerInv, Inv, ProcInv, Sound, StateTypes
  <1>b. /\ proc[p].op = "update" /\ proc[p].mine \in Intent
        /\ proc[p].pc \notin {"record", "prepare"} /\ proc[p].mine.phase # "Prepared"
    <2>1. proc[p].op = "update" /\ proc[p].pc \notin {"record", "prepare"}
      BY <1>i, BackendStepOrderly DEF Inv, AtBackend, BackendPoints, EnsurePoints
    <2>2. QED
      BY <1>i, <2>1, PhaseIntent DEF Concluded
  <1>m. /\ \A phase \in UpdatePhases :
             /\ [proc[p].mine EXCEPT !.phase = phase].target = proc[p].mine.target
             /\ [proc[p].mine EXCEPT !.phase = phase].phase = phase
        /\ [proc[p].mine EXCEPT !.owned = TRUE].phase = proc[p].mine.phase
    BY <1>b DEF Intent
  <1>o. UNCHANGED candidate
    BY Frames DEF owners
  <1>e. ASSUME End(p) PROVE Concluded(p)'
    BY <1>e, <1>i, EndAt DEF Concluded
  <1>g. ASSUME proc'[p].op = "update", proc'[p].mine.phase # "Prepared",
               proc'[p].pc \notin {"ensured", "activate", "activated", "finalize", "finish"}
        PROVE  Concluded(p)'
    BY <1>g DEF Concluded
  <1>1. CASE UpdateControl(p) \/ UpdateGateway(p) \/ UpdateClose(p) \/ UpdateQuiesced(p)
             \/ UpdateRelease(p) \/ UpdateCheckpoint(p)
    <2>1. /\ proc'[p].op = "update" /\ proc'[p].mine = proc[p].mine
          /\ proc'[p].pc \in {"gateway", "own", "quiesce", "releasing", "exiting", "released"}
      BY <1>1, <1>i, <1>b, GotoAt
      DEF UpdateControl, UpdateGateway, UpdateClose, UpdateQuiesced, UpdateRelease,
          UpdateCheckpoint
    <2>2. QED
      BY <1>b, <1>g, <2>1
  <1>2. CASE UpdateReleasing(p) \/ UpdateReleased(p) \/ UpdateStarting(p)
    <2>1. PICK phase \in {"Releasing", "Released", "Starting"},
               point \in {"release", "remove", "ensure"} : Publish(p, phase, point)
      BY <1>2 DEF UpdateReleasing, UpdateReleased, UpdateStarting
    <2>2. /\ proc'[p].op = "update" /\ proc'[p].pc = point
          /\ proc'[p].mine = [proc[p].mine EXCEPT !.phase = phase]
      BY <1>i, <2>1, PublishAt DEF Publish
    <2>3. QED
      BY <1>m, <1>g, <2>1, <2>2, PointKinds
  <1>3. CASE UpdateOwn(p)
    <2>1. CASE PublishAs(p, [proc[p].mine EXCEPT !.owned = TRUE], "drain")
      <3>1. /\ proc'[p].op = "update" /\ proc'[p].pc = "drain"
            /\ proc'[p].mine = [proc[p].mine EXCEPT !.owned = TRUE]
        BY <1>i, <2>1, PublishAt
      <3>2. QED
        BY <1>b, <1>g, <1>m, <3>1
    <2>2. CASE Goto(p, "ensure")
      BY <1>b, <1>g, <1>i, <2>2, GotoAt
    <2>3. QED
      BY <1>3, <2>1, <2>2 DEF UpdateOwn
  <1>4. CASE UpdateDrain(p)
    <2>1. CASE Publish(p, "Draining", "close")
      <3>1. /\ proc'[p].op = "update" /\ proc'[p].pc = "close"
            /\ proc'[p].mine = [proc[p].mine EXCEPT !.phase = "Draining"]
        BY <1>i, <2>1, PublishAt DEF Publish
      <3>2. QED
        BY <1>g, <1>m, <3>1, PointKinds
    <2>2. CASE Goto(p, "release") \/ Goto(p, "checkpoint")
      BY <1>b, <1>g, <1>i, <2>2, GotoAt
    <2>3. QED
      BY <1>4, <2>1, <2>2 DEF UpdateDrain
  <1>5. CASE UpdateExited(p) \/ UpdateRemove(p)
    <2>1. PICK point \in {"checkpoint", "starting"} : \E seen \in {"Stopped", "Running"} :
             proc' = [proc EXCEPT ![p].pc = point, ![p].seen = seen]
      BY <1>5 DEF UpdateExited, UpdateRemove
    <2>2. proc'[p].op = "update" /\ proc'[p].pc = point /\ proc'[p].mine = proc[p].mine
      BY <1>b, <1>i, <2>1 DEF ProcState, ProcInv
    <2>3. QED
      BY <1>b, <1>g, <2>2
  <1>6. CASE UpdateChecking(p)
    <2>1. /\ proc'[p].pc = "activate" /\ proc'[p].op = "update"
          /\ proc'[p].mine = [proc[p].mine EXCEPT !.phase = "Checking"]
      BY <1>6, <1>i, PublishAt DEF UpdateChecking, Publish
    <2>2. candidate = None
      BY <1>6, <1>i DEF UpdateChecking, At, Concluded, owners
    <2>3. QED
      BY <1>m, <1>o, <2>1, <2>2, PointKinds DEF Concluded
  <1>7. CASE UpdateActivate(p)
    <2>1. /\ proc'[p].pc = "activated" /\ proc'[p].op = "update"
          /\ proc'[p].mine = [proc[p].mine EXCEPT !.phase = "Activated"]
      BY <1>7, <1>i, PublishAt DEF UpdateActivate, Publish
    <2>2. candidate = None
      BY <1>7, <1>b, <1>i DEF UpdateActivate, At, Concluded
    <2>3. /\ plan \in Plan /\ plan.gateway = proc[p].mine.target
          /\ plan' = [plan EXCEPT !.backend = proc[p].mine.target, !.open = TRUE]
      BY <1>7, <1>i DEF UpdateActivate, CoreTypes, HasPlan
    <2>4. plan' = [backend |-> proc[p].mine.target, gateway |-> proc[p].mine.target,
                   open |-> TRUE]
      BY <2>3 DEF Plan
    <2>5. QED
      BY <1>m, <1>o, <2>1, <2>2, <2>4, PointKinds DEF Concluded
  <1>8. CASE UpdatePoolsComplete(p)
    <2>1. /\ proc'[p].pc = "finalize" /\ proc'[p].op = "update"
          /\ proc'[p].mine = proc[p].mine
      BY <1>8, <1>i, <1>b, GotoAt DEF UpdatePoolsComplete, At
    <2>2. UNCHANGED plan /\ marker' = NoMarker /\ proc[p].pc = "activated"
      BY <1>8 DEF UpdatePoolsComplete, core, At
    <2>3. QED
      BY <1>b, <1>i, <1>o, <2>1, <2>2 DEF Concluded
  <1>9. CASE UpdateFinalize(p)
    <2>1. /\ proc'[p].pc = "finish" /\ proc'[p].op = "update"
          /\ proc'[p].mine = proc[p].mine
      BY <1>9, <1>i, <1>b, GotoAt DEF UpdateFinalize, At
    <2>2. /\ UNCHANGED <<plan, marker>> /\ shutdown' = NoShutdown /\ proc[p].pc = "finalize"
      BY <1>9 DEF UpdateFinalize, core, At
    <2>3. QED
      BY <1>b, <1>i, <1>o, <2>1, <2>2 DEF Concluded
  <1>10. CASE UpdateFinish(p) \/ Setback(p)
    BY <1>10, <1>e DEF UpdateFinish, Setback, UpdateBusy, UpdateUnready, UpdatePoolsUnready, Refuse
  <1>11. QED
    BY <1>1, <1>2, <1>3, <1>4, <1>5, <1>6, <1>7, <1>8, <1>9, <1>10 DEF BackendStep

(* ... the start of the backend, ... *)
LEMMA EnsureConcluded ==
  ASSUME RemovalInv, NEW p \in Procs, Ensure(p)
  PROVE  Concluded(p)'
  <1>i. /\ Inv /\ ProcInv /\ Concluded(p) /\ proc[p] \in ProcState
    BY DEF RemovalInv, CustodyInv, OwnerInv, Inv, ProcInv, Sound
  <1>1. /\ proc'[p].op = proc[p].op /\ proc'[p].mine = proc[p].mine
        /\ proc'[p].pc \in {"ready", "launch", "commit", "retire", "ensured"}
        /\ proc[p].pc \notin {"record", "prepare"}
    BY <1>i, GotoAt
    DEF Ensure, EnsureRunning, EnsureStart, EnsureCandidate, EnsureLaunch, EnsureReady,
        EnsureCommit, EnsureRetire
  <1>2. proc'[p].pc = "ensured" => candidate' = None
    <2>1. CASE EnsureReady(p)
      BY <1>i, <2>1, GotoAt DEF EnsureReady, owners
    <2>2. CASE EnsureRetire(p)
      BY <2>2 DEF EnsureRetire
    <2>3. CASE EnsureRunning(p) \/ EnsureStart(p) \/ EnsureCandidate(p) \/ EnsureLaunch(p)
               \/ EnsureCommit(p)
      BY <1>i, <2>3, GotoAt
      DEF EnsureRunning, EnsureStart, EnsureCandidate, EnsureLaunch, EnsureCommit
    <2>4. QED
      BY <2>1, <2>2, <2>3 DEF Ensure
  <1>3. QED
    BY <1>1, <1>2, <1>i DEF Concluded

(* ... the archive of what is cancelled, ... *)
LEMMA CancelConcluded ==
  ASSUME RemovalInv, NEW p \in Procs, Cancel(p)
  PROVE  Concluded(p)'
  <1>i. ProcInv /\ Traced
    BY DEF RemovalInv, CustodyInv, OwnerInv, Inv
  <1>1. CASE CancelArchive(p)
    <2>1. proc'[p].pc = "archived" /\ proc'[p].op = "cancel"
      BY <1>i, <1>1, GotoAt DEF CancelArchive, At
    <2>2. intent' = archived' /\ UNCHANGED <<intent, touched>>
      BY <1>1 DEF CancelArchive, documents
    <2>3. ~touched
      BY <1>1, <1>i DEF CancelArchive, Cancellable, LegacyRefusal, Traced
    <2>4. QED
      BY <2>1, <2>2, <2>3 DEF Concluded
  <1>2. CASE CancelRemove(p)
    <2>1. proc'[p].pc = "idle" /\ proc'[p].op = "none"
      BY <1>i, <1>2, EndAt DEF CancelRemove
    <2>2. QED
      BY <2>1 DEF Concluded
  <1>3. QED
    BY <1>1, <1>2 DEF Cancel

(* ... and all the others. *)
LEMMA ConcludedLaid ==
  ASSUME RemovalInv, NEW p \in Procs, Begin(p) \/ Step(p) \/ Setback(p) \/ Die(p)
  PROVE  Concluded(p)'
  <1>i. /\ Inv /\ ProcInv /\ Concluded(p) /\ proc[p] \in ProcState
        /\ proc \in [Procs -> ProcState] /\ Sound(proc[p])
    BY DEF RemovalInv, CustodyInv, OwnerInv, Inv, ProcInv, Sound
  <1>e. ASSUME proc'[p].op # "update", proc'[p].pc # "archived"
        PROVE  Concluded(p)'
    BY <1>e DEF Concluded
  <1>f. ASSUME End(p) PROVE Concluded(p)'
    BY <1>e, <1>f, <1>i, EndAt
  <1>1. CASE Preparing(p)
    <2>1. CASE UpdateRecord(p)
      <3>1. proc'[p].pc = "prepare"
        BY <1>i, <2>1, PublishAt DEF UpdateRecord
      <3>2. QED
        BY <3>1 DEF Concluded
    <2>2. CASE UpdatePrepare(p)
      <3>1. proc[p].op = "update" /\ proc[p].mine \in Intent
        BY <1>i, <2>2, PhaseIntent DEF UpdatePrepare, At
      <3>2. CASE proc[p].mine.phase = "Prepared"
        <4>1. /\ proc'[p].pc = "pools" /\ proc'[p].op = "update"
              /\ proc'[p].mine = [proc[p].mine EXCEPT !.phase = "Preparing"]
          BY <1>i, <2>2, <3>2, PublishAt DEF UpdatePrepare, Publish
        <4>2. proc'[p].mine.phase = "Preparing"
          BY <3>1, <4>1 DEF Intent
        <4>3. QED
          BY <4>1, <4>2 DEF Concluded
      <3>3. CASE proc[p].mine.phase # "Prepared"
        <4>1. /\ proc'[p].pc = "pools" /\ proc'[p].op = "update"
              /\ proc'[p].mine = proc[p].mine
          BY <1>i, <2>2, <3>1, <3>3, GotoAt DEF UpdatePrepare
        <4>2. QED
          BY <3>3, <4>1 DEF Concluded
      <3>4. QED
        BY <3>2, <3>3
    <2>3. CASE UpdateRetireGateways(p)
      <3>1. UNCHANGED proc /\ proc[p].pc = "pools" /\ proc[p].op = "update"
        BY <2>3 DEF UpdateRetireGateways, At
      <3>2. QED
        BY <1>i, <3>1 DEF Concluded
    <2>4. CASE UpdatePools(p)
      <3>1. /\ proc'[p].pc = "check" /\ proc[p].pc = "pools" /\ proc[p].op = "update"
            /\ proc'[p].op = "update" /\ proc'[p].mine = proc[p].mine
        BY <1>i, <2>4, GotoAt DEF UpdatePools, At
      <3>2. QED
        BY <1>i, <3>1 DEF Concluded
    <2>5. CASE UpdateCheck(p) /\ ~End(p)
      <3>1. /\ proc' = [proc EXCEPT ![p].mine = [proc[p].mine EXCEPT !.failure = "none"],
                                    ![p].pc = "control", ![p].seen = container.status]
            /\ proc[p].op = "update" /\ proc[p].pc = "check"
        BY <2>5 DEF UpdateCheck, Refuse, At
      <3>2. /\ proc'[p].pc = "control" /\ proc'[p].op = "update"
            /\ proc'[p].mine = [proc[p].mine EXCEPT !.failure = "none"]
        BY <1>i, <3>1 DEF ProcState
      <3>3. proc'[p].mine.phase = proc[p].mine.phase
        BY <1>i, <3>1, <3>2, PhaseIntent DEF Intent
      <3>4. QED
        BY <1>i, <3>1, <3>2, <3>3 DEF Concluded
    <2>6. QED
      BY <1>1, <1>f, <2>1, <2>2, <2>3, <2>4, <2>5 DEF Preparing
  <1>2. CASE Stop(p) \/ Start(p)
    <2>1. CASE ~End(p)
      <3>1. proc[p].op \in {"stop", "start"}
        BY <1>2 DEF Stop, StopPools, StopRecord, StopController, StopBackend, StopConfirm,
                    StopComplete, Start, StartGate, StartResume, StartController,
                    StartResumed, StartFence, StartAdmit, StartRegister, StartReturn, At
      <3>2. \/ \E point : Goto(p, point)
            \/ \E point, saw : proc' = [proc EXCEPT ![p].pc = point, ![p].saw = saw]
        BY <1>2, <2>1
        DEF Stop, StopPools, StopRecord, StopController, StopBackend, StopConfirm,
            StopComplete, Start, StartGate, StartResume, StartController, StartResumed,
            StartFence, StartAdmit, StartRegister, StartReturn
      <3>3. ASSUME NEW point, NEW saw, proc' = [proc EXCEPT ![p].pc = point, ![p].saw = saw]
            PROVE  proc'[p].op = proc[p].op
        <4>1. proc'[p] = [proc[p] EXCEPT !.pc = point, !.saw = saw]
          BY <1>i, <3>3
        <4>2. QED
          BY <1>i, <4>1 DEF ProcState
      <3>4. proc'[p].op = proc[p].op
        <4>1. CASE \E point : Goto(p, point)
          <5>1. PICK point : Goto(p, point)
            BY <4>1
          <5>2. QED
            BY <1>i, <5>1, GotoAt
        <4>2. CASE \E point, saw : proc' = [proc EXCEPT ![p].pc = point, ![p].saw = saw]
          <5>1. PICK point, saw : proc' = [proc EXCEPT ![p].pc = point, ![p].saw = saw]
            BY <4>2
          <5>2. QED
            BY <3>3, <5>1
        <4>3. QED
          BY <3>2, <4>1, <4>2
      <3>5. proc'[p].op \in {"stop", "start"}
        BY <3>1, <3>4
      <3>6. QED
        BY <3>5 DEF Concluded
    <2>2. QED
      BY <1>f, <2>1
  <1>3. CASE Begin(p)
    <2>1. SUFFICES /\ proc'[p].pc \in {"record", "gate", "fence", "check"}
                   /\ proc'[p].op = "update" => proc'[p].pc = "record"
      BY DEF Concluded
    <2>2. CASE \E v \in Versions : UpdateBegin(p, v)
      <3>1. PICK v \in Versions : UpdateBegin(p, v)
        BY <2>2
      <3>2. QED
        BY <1>i, <3>1 DEF UpdateBegin, NoProc
    <2>3. CASE ResumeBegin(p)
      BY <1>i, <2>3 DEF ResumeBegin, NoProc
    <2>4. CASE StopBegin(p)
      BY <1>i, <2>4 DEF StopBegin, NoProc
    <2>5. CASE StartBegin(p)
      BY <1>i, <2>5 DEF StartBegin, NoProc
    <2>6. CASE CancelBegin(p)
      BY <1>i, <2>6 DEF CancelBegin, NoProc
    <2>7. QED
      BY <1>3, <2>2, <2>3, <2>4, <2>5, <2>6 DEF Begin
  <1>4. CASE Die(p)
    BY <1>f, <1>4 DEF Die
  <1>5. QED
    BY <1>1, <1>2, <1>3, <1>4, StepKinds, BackendConcluded, EnsureConcluded, CancelConcluded

(* What an attempt touched stays in evidence. *)
LEMMA TracedOn ==
  ASSUME RemovalInv, [Next]_vars, Updating, touched, Updating', Continues,
         UNCHANGED controller \/ controller'.package = controller.package
  PROVE  Traced'
  <1>1. Inv /\ Traced
    BY DEF RemovalInv, CustodyInv, OwnerInv
  <1>2. HasPlan => HasPlan'
    BY <1>1, PlanStays
  <1>3. QED
    BY <1>1, <1>2 DEF Traced, Continues

LEMMA TracedStep ==
  ASSUME RemovalInv, [Next]_vars
  PROVE  Traced'
  <1>i. Inv /\ IntentInv /\ Traced /\ CoreTypes /\ (touched => Updating)
    BY DEF RemovalInv, CustodyInv, OwnerInv, Inv, StateTypes, Traced
  <1>n. ASSUME ~touched, UNCHANGED touched PROVE Traced'
    BY <1>n DEF Traced
  <1>c. ASSUME NEW p \in Procs, Preparing(p) \/ Ensure(p) \/ Stop(p) \/ Start(p)
        PROVE  controller'.package = controller.package
    <2>1. controller' = controller
          \/ \E stopped \in BOOLEAN : controller' = [controller EXCEPT !.stopped = stopped]
      <3>1. CASE Preparing(p)
        <4>1. CASE UpdateCheck(p)
          <5>1. UNCHANGED controller \/ \E repair \in BOOLEAN :
                    controller' = [controller EXCEPT !.stopped = @ \/ repair]
            BY <4>1 DEF UpdateCheck
          <5>2. \A repair \in BOOLEAN : (controller.stopped \/ repair) \in BOOLEAN
            OBVIOUS
          <5>3. QED
            BY <5>1, <5>2
        <4>2. QED
          BY <3>1, <4>1 DEF Preparing, UpdateRecord, UpdatePrepare, UpdateRetireGateways,
                            UpdatePools, core
      <3>2. CASE Ensure(p)
        BY <3>2 DEF Ensure, EnsureRunning, EnsureStart, EnsureCandidate, EnsureLaunch,
                    EnsureReady, EnsureCommit, EnsureRetire, core
      <3>3. CASE Stop(p)
        BY <3>3 DEF Stop, StopPools, StopRecord, StopController, StopBackend, StopConfirm,
                    StopComplete, core
      <3>4. CASE Start(p)
        BY <3>4 DEF Start, StartGate, StartResume, StartController, StartResumed, StartFence,
                    StartAdmit, StartRegister, StartReturn, core
      <3>5. QED
        BY <1>c, <3>1, <3>2, <3>3, <3>4
    <2>2. QED
      BY <1>i, <2>1 DEF CoreTypes
  <1>1. ASSUME NEW p \in Procs, Begin(p) \/ Step(p) \/ Setback(p) \/ Die(p), ~BackendStep(p),
               ~CancelRemove(p)
        PROVE  Traced'
    <2>1. UNCHANGED touched
      BY <1>1, StepKinds, Frames DEF evidence, Cancel, CancelArchive
    <2>2. CASE touched
      <3>1. ~Ends(p)
        BY <1>1 DEF Ends, BackendStep
      <3>2. Updating' /\ Continues
        BY <1>i, <1>1, <2>2, <3>1, TargetKept
      <3>3. controller'.package = controller.package
        BY <1>c, <1>1, StepKinds, Frames DEF core
      <3>4. QED
        BY <1>i, <2>2, <3>2, <3>3, TracedOn
    <2>3. QED
      BY <1>n, <2>1, <2>2
  <1>2. ASSUME NEW p \in Procs, UpdateFinish(p) \/ CancelRemove(p)
        PROVE  Traced'
    BY <1>2 DEF UpdateFinish, CancelRemove, RemoveIntent, Traced
  <1>3. ASSUME NEW p \in Procs, BackendStep(p), ~UpdateFinish(p)
        PROVE  Traced'
    <2>1. /\ Updating /\ Updating' /\ Continues /\ intent = proc[p].mine /\ intent \in Intent
          /\ AtBackend(p)
      BY <1>i, <1>3, BackendIntent, IntentNamed DEF Updating
    <2>2. intent.phase # "Prepared"
      BY <2>1 DEF RemovalInv, Concluded, AtBackend, BackendPoints, EnsurePoints
    <2>3. intent'.phase # "Prepared"
      BY <2>1, <2>2 DEF Continues
    <2>4. CASE UpdateControl(p)
      <3>1. CASE controller.stopped
        <4>1. controller' = [package |-> proc[p].mine.target, stopped |-> FALSE]
          BY <2>4, <3>1 DEF UpdateControl
        <4>2. controller'.package = intent'.target
          BY <2>1, <4>1 DEF Continues
        <4>3. QED
          BY <2>1, <2>3, <4>2 DEF Traced
      <3>2. CASE ~controller.stopped
        BY <1>i, <1>n, <2>1, <2>4, <3>2, TracedOn DEF UpdateControl
      <3>3. QED
        BY <3>1, <3>2
    <2>5. CASE UpdateGateway(p)
      <3>1. CASE HasPlan
        BY <1>i, <2>1, <2>3, <3>1, PlanStays DEF Traced
      <3>2. CASE ~HasPlan
        BY <1>i, <1>n, <2>1, <2>5, <3>2, TracedOn DEF UpdateGateway
      <3>3. QED
        BY <3>1, <3>2
    <2>6. CASE UpdateOwn(p)
      <3>1. CASE Replaces(p)
        <4>1. intent' = [intent EXCEPT !.owned = TRUE]
          BY <2>1, <2>6, <3>1 DEF UpdateOwn, PublishAs
        <4>2. intent'.owned
          BY <2>1, <4>1 DEF Intent
        <4>3. QED
          BY <2>1, <2>3, <4>2 DEF Traced
      <3>2. CASE ~Replaces(p)
        BY <1>i, <1>n, <2>1, <2>6, <3>2, TracedOn DEF UpdateOwn, core
      <3>3. QED
        BY <3>1, <3>2
    <2>7. CASE ~UpdateControl(p) /\ ~UpdateGateway(p) /\ ~UpdateOwn(p)
      <3>1. UNCHANGED <<controller, touched>>
        BY <1>3, <2>7
        DEF BackendStep, Setback, UpdateDrain, UpdateClose, UpdateQuiesced, UpdateReleasing,
            UpdateRelease, UpdateExited, UpdateCheckpoint, UpdateReleased, UpdateRemove,
            UpdateStarting, UpdateChecking, UpdateActivate, UpdatePoolsComplete,
            UpdateFinalize, UpdateBusy, UpdateUnready, UpdatePoolsUnready, core, evidence
      <3>2. QED
        BY <1>i, <1>n, <2>1, <3>1, TracedOn
    <2>8. QED
      BY <2>4, <2>5, <2>6, <2>7
  <1>4. CASE BackendExits \/ BackendCrashes \/ UNCHANGED vars
    <2>1. UNCHANGED <<touched, intent, controller, plan>>
      BY <1>4 DEF BackendExits, BackendCrashes, vars, evidence, documents, core
    <2>2. QED
      BY <1>i, <2>1 DEF Traced, Updating, HasPlan
  <1>5. QED
    BY <1>1, <1>2, <1>3, <1>4 DEF Next

LEMMA RemovalStep == RemovalInv /\ [Next]_vars => RemovalInv'
  <1> SUFFICES ASSUME RemovalInv, [Next]_vars PROVE RemovalInv'
    OBVIOUS
  <1>1. CustodyInv' /\ Traced'
    BY CustodyStep, TracedStep DEF RemovalInv
  <1>2. ASSUME NEW p \in Procs, Begin(p) \/ Step(p) \/ Setback(p) \/ Die(p), NEW q \in Procs
        PROVE  Concluded(q)'
    BY <1>2, ConcludedKept, ConcludedLaid
  <1>3. ASSUME BackendExits \/ BackendCrashes \/ UNCHANGED vars, NEW q \in Procs
        PROVE  Concluded(q)'
    <2>1. UNCHANGED <<proc, candidate, plan, marker, shutdown, intent, archived, touched>>
      BY <1>3 DEF BackendExits, BackendCrashes, vars, owners, documents, core, evidence
    <2>2. Concluded(q)
      BY DEF RemovalInv
    <2>3. QED
      BY <2>1, <2>2 DEF Concluded
  <1>4. QED
    BY <1>1, <1>2, <1>3 DEF RemovalInv, Next

(* update.json disappears only for an update that completed, with its       *)
(* target selected and routed and every maintenance document gone, or for   *)
(* one that was archived as it stands and had changed no native owner,      *)
(* whichever commands died and were resumed in between.                     *)
THEOREM RemovalIsJustified == Spec => IntentRemovalJustified
  <1> DEFINE Done == \/ intent = archived /\ ~touched
                     \/ /\ selected = intent.target /\ candidate = None
                        /\ plan = [backend |-> intent.target, gateway |-> intent.target,
                                   open |-> TRUE]
                        /\ marker = NoMarker /\ shutdown = NoShutdown
             Removed == Updating /\ intent' = NoIntent => Done
  <1>1. ASSUME RemovalInv, [Next]_vars, Updating, intent' = NoIntent
        PROVE  Done
    <2>1. IntentInv /\ \A p \in Procs : Concluded(p) /\ Entrusted(p)
      BY <1>1 DEF RemovalInv, CustodyInv
    <2>2. ~(BackendExits \/ BackendCrashes \/ UNCHANGED vars)
      BY <1>1 DEF BackendExits, BackendCrashes, vars, documents, Updating
    <2>3. PICK p \in Procs : Begin(p) \/ Step(p) \/ Setback(p) \/ Die(p)
      BY <1>1, <2>2 DEF Next
    <2>4. CASE UpdateFinish(p)
      <3>1. intent = proc[p].mine /\ proc[p].op = "update" /\ proc[p].pc = "finish"
        BY <2>1, <2>4 DEF UpdateFinish, At, IntentInv, IntentUndisturbed
      <3>2. Owner = intent.target
        BY <2>1, <3>1 DEF Entrusted
      <3>3. /\ candidate = None /\ marker = NoMarker /\ shutdown = NoShutdown
            /\ plan = [backend |-> intent.target, gateway |-> intent.target, open |-> TRUE]
        BY <2>1, <3>1 DEF Concluded
      <3>4. QED
        BY <3>2, <3>3 DEF Owner
    <2>5. CASE CancelRemove(p)
      BY <2>1, <2>5 DEF CancelRemove, At, Concluded
    <2>6. QED
      BY <1>1, <2>1, <2>3, <2>4, <2>5, TargetKept DEF Ends, Updating
  <1>2. RemovalInv /\ [Next]_vars => [Removed]_vars
    BY <1>1
  <1>3. IntentRemovalJustified <=> [][Removed]_vars
    BY DEF IntentRemovalJustified
  <1> HIDE DEF Removed
  <1>4. QED
    BY RemovalInit, RemovalStep, <1>2, <1>3, PTL DEF Spec

-----------------------------------------------------------------------------
(* The checkpoint, on a host whose pools are provisioned. *)

(* An update holds its marker in the pools from its preparation until the   *)
(* target serves, and has seen that the container is gone before it starts  *)
(* the target; a resumption has seen that no marker stands.                 *)
MarkedPoints ==
    EnsurePoints \cup {"check", "control", "gateway", "own", "drain", "close", "quiesce",
        "releasing", "release", "exiting", "checkpoint", "released", "remove",
        "starting", "activate", "activated"}

Guarded(p) ==
    /\ proc[p].op = "update" =>
         /\ proc[p].pc \in MarkedPoints => marker.kind = "update"
         /\ /\ proc[p].pc \in {"control", "gateway", "own", "drain", "checkpoint", "released",
                               "remove"}
            /\ proc[p].seen = "Missing"
            => container.status = "Missing"
         /\ proc[p].pc \in {"checkpoint", "released", "remove"} => proc[p].seen # "Running"
         /\ proc[p].pc \in {"starting", "ensure"} =>
              Owner = proc[p].mine.target \/ container.status = "Missing"
         /\ proc[p].pc = "launch" => candidate = proc[p].mine.target
    /\ proc[p].op = "start" /\ proc[p].pc \in {"lock", "ensure", "launch"} => marker = NoMarker

(* The checkpoint holds what the old version wrote last; a released phase   *)
(* has one; and until the target has opened the data the marker stands.     *)
Exact ==
    /\ checkpoint # "stale"
    /\ intent.phase \in {"Released", "Starting"} => checkpoint # "none"
    /\ checkpoint # "none" => marker.kind = "update" \/ data = intent.target

GuardInv ==
    /\ Pooled
    /\ CustodyInv /\ AdmitInv /\ Exact
    /\ \A p \in Procs : Guarded(p)

LEMMA GuardInit == Pooled /\ Init => GuardInv
  <1> SUFFICES ASSUME Pooled, Init PROVE GuardInv
    OBVIOUS
  <1>1. CustodyInv /\ AdmitInv
    BY CustodyInit, AdmitInit
  <1>2. Exact
    BY DEF Init, Exact, NoIntent
  <1>3. ASSUME NEW p \in Procs
        PROVE  Guarded(p)
    BY DEF Init, NoProc, Guarded
  <1>4. QED
    BY <1>1, <1>2, <1>3 DEF GuardInv

(* While a checkpoint is retained nothing but the target opens the data. *)
LEMMA TargetOpens ==
  ASSUME GuardInv, NEW p \in Procs, EnsureStart(p) \/ EnsureLaunch(p), checkpoint # "none"
  PROVE  data' = intent.target /\ UNCHANGED checkpoint
  <1>i. /\ Inv /\ ProcInv /\ IntentInv /\ Custodian /\ Guarded(p) /\ Exact /\ Grounded(p)
        /\ Sound(proc[p]) /\ CustodyInv
    BY DEF GuardInv, CustodyInv, OwnerInv, Inv, ProcInv
  <1>1. proc[p].pc \in {"ensure", "launch"}
    BY DEF EnsureStart, EnsureLaunch
  <1>2. proc[p].op \in {"update", "start"}
    BY <1>i, <1>1 DEF Sound, Placed
  <1>3. proc[p].op = "update" => intent = proc[p].mine
    BY <1>i, <1>1 DEF IntentInv, IntentUndisturbed
  <1>4. proc[p].op = "start" => data = intent.target
    BY <1>i, <1>1 DEF Guarded, Exact, NoMarker
  <1>5. CASE EnsureStart(p)
    <2>1. container.status # "Missing" /\ data' = container.image /\ proc[p].pc = "ensure"
      BY <1>5 DEF EnsureStart, Opens
    <2>2. container.image = data /\ Owner = data
      BY <1>i, <2>1, OwnerOpened DEF Custodian
    <2>3. proc[p].op = "update" => Owner = intent.target
      BY <1>i, <1>3, <2>1 DEF Guarded
    <2>4. container.image = intent.target
      BY <1>2, <1>4, <2>2, <2>3
    <2>5. QED
      BY <1>5, <2>1, <2>4 DEF EnsureStart, Opens
  <1>6. CASE EnsureLaunch(p)
    <2>1. candidate # None /\ data' = candidate /\ proc[p].pc = "launch"
      BY <1>i, <1>6 DEF EnsureLaunch, Opens, Grounded
    <2>2. candidate = data \/ candidate = intent.target
      BY <1>i, <2>1 DEF Custodian, Owner
    <2>3. proc[p].op = "update" => candidate = intent.target
      BY <1>i, <1>3, <2>1 DEF Guarded
    <2>4. candidate = intent.target
      BY <1>2, <1>4, <2>2, <2>3
    <2>5. QED
      BY <1>6, <2>1, <2>4 DEF EnsureLaunch, Opens
  <1>7. QED
    BY <1>5, <1>6

(* Whoever puts the container, the owners or the checkpoint forward holds   *)
(* the host lock, and every other step leaves what was opened.              *)
LEMMA OpenedBy ==
  ASSUME GuardInv, NEW p \in Procs, Begin(p) \/ Step(p) \/ Setback(p) \/ Die(p)
  PROVE  \/ UNCHANGED data /\ (~Running => container'.status # "Running")
         \/ EnsureStart(p) \/ EnsureLaunch(p)
  <1>i. Inv /\ WorldTypes
    BY DEF GuardInv, AdmitInv, Inv, StateTypes
  <1>1. CASE Preparing(p) \/ Start(p) \/ Cancel(p) \/ Begin(p) \/ Die(p)
    BY <1>1, Frames DEF world, Running
  <1>2. CASE BackendStep(p)
    <2>1. UNCHANGED data
      BY <1>i, <1>2, BackendContainer
    <2>2. CASE UpdateQuiesced(p) \/ UpdateRelease(p) \/ UpdateRemove(p) \/ Setback(p)
      <3>1. CASE UpdateQuiesced(p)
        BY <2>1, <3>1 DEF UpdateQuiesced
      <3>2. CASE UpdateRelease(p)
        <4>1. container'.status = container.status
          BY <1>i, <3>2 DEF UpdateRelease, WorldTypes
        <4>2. QED
          BY <2>1, <4>1 DEF Running
      <3>3. CASE UpdateRemove(p)
        <4>1. container'.status \in {"Missing", container.status}
          BY <1>i, <3>3 DEF UpdateRemove, WorldTypes
        <4>2. QED
          BY <2>1, <4>1 DEF Running
      <3>4. CASE Setback(p)
        <4>1. container'.status = container.status
          BY <1>i, <3>4 DEF Setback, UpdateBusy, UpdateUnready, UpdatePoolsUnready, WorldTypes, world
        <4>2. QED
          BY <2>1, <4>1 DEF Running
      <3>5. QED
        BY <2>2, <3>1, <3>2, <3>3, <3>4
    <2>3. CASE ~(UpdateQuiesced(p) \/ UpdateRelease(p) \/ UpdateRemove(p) \/ Setback(p))
      <3>1. UNCHANGED container
        BY <1>2, <2>3
        DEF BackendStep, UpdateControl, UpdateGateway, UpdateOwn, UpdateDrain, UpdateClose,
            UpdateReleasing, UpdateExited, UpdateCheckpoint, UpdateReleased, UpdateStarting,
            UpdateChecking, UpdateActivate, UpdatePoolsComplete, UpdateFinalize, UpdateFinish,
            world
      <3>2. QED
        BY <2>1, <3>1 DEF Running
    <2>4. QED
      BY <2>2, <2>3
  <1>3. CASE Ensure(p)
    <2>1. CASE EnsureReady(p)
      BY <2>1 DEF EnsureReady
    <2>2. CASE EnsureRunning(p) \/ EnsureCandidate(p) \/ EnsureCommit(p) \/ EnsureRetire(p)
      BY <2>2 DEF EnsureRunning, EnsureCandidate, EnsureCommit, EnsureRetire, world, Running
    <2>3. QED
      BY <1>3, <2>1, <2>2 DEF Ensure
  <1>4. CASE Stop(p)
    <2>1. UNCHANGED data
      BY <1>4, Frames
    <2>2. QED
      BY <1>i, <1>4, <2>1, StopContainer DEF Running
  <1>5. QED
    BY <1>1, <1>2, <1>3, <1>4, StepKinds

LEMMA BackendExact ==
  ASSUME GuardInv, NEW p \in Procs, BackendStep(p), ~UpdateFinish(p)
  PROVE  Exact'
  <1>i. /\ Inv /\ ProcInv /\ IntentInv /\ CustodyInv /\ Exact /\ Guarded(p) /\ Entrusted(p)
        /\ WorldTypes
    BY DEF GuardInv, CustodyInv, OwnerInv, Inv, StateTypes
  <1>b. /\ AtBackend(p) /\ intent = proc[p].mine /\ intent \in Intent
        /\ intent'.target = intent.target
    BY <1>i, BackendIntent DEF Continues
  <1>d. UNCHANGED data
    BY <1>i, BackendContainer
  <1>1. UNCHANGED checkpoint \/ UpdateCheckpoint(p)
    BY <1>i, BackendCheckpoint
  <1>2. checkpoint' # "stale" /\ (checkpoint # "none" => checkpoint' # "none")
    BY <1>1, <1>i DEF Exact, UpdateCheckpoint
  <1>3. intent'.phase \in {"Released", "Starting"} => checkpoint' # "none"
    <2>1. CASE UpdateReleased(p) \/ UpdateStarting(p)
      <3>1. checkpoint # "none"
        BY <1>i, <2>1 DEF UpdateReleased, UpdateStarting, At, Entrusted
      <3>2. QED
        BY <1>2, <3>1
    <2>2. CASE ~(UpdateReleased(p) \/ UpdateStarting(p))
      <3>1. \/ UNCHANGED intent
            \/ \E phase \in {"Draining", "Releasing", "Checking", "Activated"} :
                   intent' = [intent EXCEPT !.phase = phase]
            \/ \E failure : intent' = [intent EXCEPT !.failure = failure]
            \/ intent' = [intent EXCEPT !.owned = TRUE]
        <4>1. CASE UpdateControl(p) \/ UpdateGateway(p) \/ UpdateOwn(p) \/ UpdateDrain(p)
          BY <1>b, <4>1
          DEF UpdateControl, UpdateGateway, UpdateOwn, UpdateDrain, Publish, PublishAs, documents
        <4>2. CASE UpdateClose(p) \/ UpdateQuiesced(p) \/ UpdateReleasing(p) \/ UpdateRelease(p)
          BY <1>b, <4>2
          DEF UpdateClose, UpdateQuiesced, UpdateReleasing, UpdateRelease, Publish, PublishAs,
              documents
        <4>3. CASE UpdateExited(p) \/ UpdateCheckpoint(p) \/ UpdateRemove(p)
          BY <4>3 DEF UpdateExited, UpdateCheckpoint, UpdateRemove, documents
        <4>4. CASE \/ UpdateChecking(p) \/ UpdateActivate(p) \/ UpdatePoolsComplete(p)
                   \/ UpdateFinalize(p)
          BY <1>b, <4>4
          DEF UpdateChecking, UpdateActivate, UpdatePoolsComplete, UpdateFinalize, Publish,
              PublishAs
        <4>5. CASE Setback(p)
          BY <1>b, <4>5 DEF Setback, UpdateBusy, UpdateUnready, UpdatePoolsUnready, Refuse
        <4>6. QED
          BY <2>2, <4>1, <4>2, <4>3, <4>4, <4>5 DEF BackendStep
      <3>2. /\ \A phase : [intent EXCEPT !.phase = phase].phase = phase
            /\ \A failure : [intent EXCEPT !.failure = failure].phase = intent.phase
            /\ [intent EXCEPT !.owned = TRUE].phase = intent.phase
        BY <1>b DEF Intent
      <3>3. intent'.phase \in {"Released", "Starting"} => intent'.phase = intent.phase
        BY <3>1, <3>2
      <3>4. QED
        BY <1>2, <1>i, <3>3 DEF Exact
    <2>3. QED
      BY <2>1, <2>2
  <1>4. marker' = marker \/ data = intent.target
    <2>1. CASE UpdatePoolsComplete(p)
      BY <1>i, <1>b, <2>1, OwnerOpened DEF UpdatePoolsComplete, At, Entrusted
    <2>2. CASE ~UpdatePoolsComplete(p)
      BY <1>i, <2>2
      DEF BackendStep, Setback, UpdateControl, UpdateGateway, UpdateOwn, UpdateDrain,
          UpdateClose, UpdateQuiesced, UpdateReleasing, UpdateRelease, UpdateExited,
          UpdateCheckpoint, UpdateReleased, UpdateRemove, UpdateStarting, UpdateChecking,
          UpdateActivate, UpdateFinalize, UpdateFinish, UpdateBusy, UpdateUnready,
          UpdatePoolsUnready, documents
    <2>3. QED
      BY <2>1, <2>2
  <1>5. checkpoint' # "none" => marker'.kind = "update" \/ data = intent.target
    <2>1. CASE UpdateCheckpoint(p)
      BY <1>i, <2>1 DEF UpdateCheckpoint, At, Guarded, MarkedPoints, documents
    <2>2. CASE UNCHANGED checkpoint
      BY <1>4, <1>i, <2>2 DEF Exact
    <2>3. QED
      BY <1>1, <2>1, <2>2
  <1>6. QED
    BY <1>2, <1>3, <1>5, <1>d, <1>b DEF Exact

(* Other processes than the update leave the update's marker in the pools. *)
LEMMA MarkerStays ==
  ASSUME GuardInv, NEW p \in Procs, Begin(p) \/ Step(p) \/ Setback(p) \/ Die(p),
         ~BackendStep(p), marker.kind = "update"
  PROVE  marker'.kind = "update"
  <1>1. CASE Preparing(p)
    BY <1>1 DEF Preparing, UpdateRecord, UpdatePrepare, UpdateRetireGateways, UpdatePools,
                UpdateCheck, GuardInv
  <1>2. CASE Stop(p)
    BY <1>2 DEF Stop, StopPools, StopRecord, StopController, StopBackend, StopConfirm,
                StopComplete, documents, NoMarker
  <1>3. CASE Ensure(p) \/ Start(p) \/ Cancel(p) \/ Begin(p) \/ Die(p)
    BY <1>3, Frames DEF documents
  <1>4. QED
    BY <1>1, <1>2, <1>3, StepKinds

LEMMA ExactStep ==
  ASSUME GuardInv, [Next]_vars
  PROVE  Exact'
  <1>i. Inv /\ IntentInv /\ CustodyInv /\ Custodian /\ Exact /\ ProcInv
    BY DEF GuardInv, CustodyInv, OwnerInv, Inv
  <1>1. CASE BackendExits \/ BackendCrashes \/ UNCHANGED vars
    BY <1>1, <1>i DEF BackendExits, BackendCrashes, vars, documents, Exact
  <1>2. ASSUME NEW p \in Procs, Begin(p) \/ Step(p) \/ Setback(p) \/ Die(p)
        PROVE  Exact'
    <2>1. CASE Ends(p)
      <3>1. intent' = NoIntent /\ checkpoint' = "none"
        BY <2>1 DEF Ends, UpdateFinish, CancelRemove, RemoveIntent
      <3>2. QED
        BY <3>1 DEF Exact, NoIntent
    <2>2. CASE BackendStep(p) /\ ~Ends(p)
      BY <2>2, BackendExact DEF Ends
    <2>3. CASE ~BackendStep(p) /\ ~Ends(p)
      <3>1. checkpoint # "none" => intent'.target = intent.target
        BY <1>2, <1>i, <2>3, TargetKept DEF Custodian, Continues
      <3>2. marker.kind = "update" => marker'.kind = "update"
        BY <1>2, <2>3, MarkerStays
      <3>3. intent'.phase \in {"Released", "Starting"} => intent'.phase = intent.phase
        <4>1. CASE UNCHANGED intent
          BY <4>1
        <4>2. CASE UpdateRecord(p)
          <5>1. Adopted(proc[p])
            BY <1>i DEF ProcInv, Sound
          <5>2. intent' = intent \/ intent'.phase = "Prepared"
            BY <4>2, <5>1 DEF UpdateRecord, PublishAs, Adopted
          <5>3. QED
            BY <5>2
        <4>3. CASE UpdatePrepare(p)
          <5>1. proc[p].mine \in Intent
            BY <1>i, <4>3, PhaseIntent DEF UpdatePrepare, At
          <5>2. UNCHANGED intent \/ intent'.phase = "Preparing"
            BY <4>3, <5>1 DEF UpdatePrepare, Publish, PublishAs, Intent
          <5>3. QED
            BY <5>2
        <4>4. CASE UpdateCheck(p)
          <5>1. proc[p].mine \in Intent /\ intent = proc[p].mine
            BY <1>i, <4>4, PhaseIntent DEF UpdateCheck, At
          <5>2. \E failure : intent' = [intent EXCEPT !.failure = failure]
            BY <4>4, <5>1 DEF UpdateCheck, Refuse
          <5>3. QED
            BY <5>1, <5>2 DEF Intent
        <4>5. CASE Preparing(p)
          BY <4>1, <4>2, <4>3, <4>4, <4>5 DEF Preparing, UpdateRetireGateways, UpdatePools
        <4>6. CASE Cancel(p)
          BY <2>3, <4>1, <4>6 DEF Cancel, CancelArchive, Ends, documents
        <4>7. QED
          BY <1>2, <2>3, <4>1, <4>5, <4>6, StepKinds, Frames DEF documents
      <3>4. CASE EnsureStart(p) \/ EnsureLaunch(p)
        <4>1. UNCHANGED <<intent, marker>>
          BY <3>4 DEF EnsureStart, EnsureLaunch, documents
        <4>2. CASE checkpoint = "none"
          <5>1. checkpoint' = "none"
            BY <3>4, <4>2 DEF EnsureStart, EnsureLaunch, Opens
          <5>2. QED
            BY <1>i, <4>1, <4>2, <5>1 DEF Exact
        <4>3. CASE checkpoint # "none"
          BY <1>i, <3>4, <4>1, <4>3, TargetOpens DEF Exact
        <4>4. QED
          BY <4>2, <4>3
      <3>5. CASE ~(EnsureStart(p) \/ EnsureLaunch(p))
        <4>1. UNCHANGED data
          BY <1>2, <3>5, OpenedBy
        <4>2. UNCHANGED checkpoint
          <5>1. CASE Ensure(p)
            BY <3>5, <5>1
            DEF Ensure, EnsureRunning, EnsureCandidate, EnsureReady, EnsureCommit, EnsureRetire,
                world
          <5>2. CASE Cancel(p)
            BY <2>3, <5>2 DEF Cancel, CancelArchive, Ends, world
          <5>3. QED
            BY <1>2, <2>3, <5>1, <5>2, StepKinds, Frames DEF world
        <4>3. QED
          BY <1>i, <3>1, <3>2, <3>3, <4>1, <4>2 DEF Exact
      <3>6. QED
        BY <3>4, <3>5
    <2>4. QED
      BY <2>1, <2>2, <2>3
  <1>3. QED
    BY <1>1, <1>2 DEF Next

LEMMA GuardedKept ==
  ASSUME GuardInv, NEW p \in Procs, NEW q \in Procs \ {p},
         Begin(p) \/ Step(p) \/ Setback(p) \/ Die(p), [Next]_vars
  PROVE  Guarded(q)'
  <1>i. /\ Inv /\ ProcInv /\ LockInv /\ Guarded(q) /\ AdmitInv
        /\ gate \in [owner : Procs \cup {None}, readers : SUBSET Procs]
    BY DEF GuardInv, AdmitInv, Inv, LockInv, LockTypes
  <1>1. proc'[q] = proc[q] /\ OthersKeep(p)
    BY <1>i, InvTypes, StepOrderly DEF Orderly, ProcInv
  <1>h. Holds(q, proc[q])
    BY <1>i DEF LockInv
  <1>n. p # None /\ q # None
    BY NobodyIsAProc
  <1>2. CASE proc[q].op = "update" /\ proc[q].pc \in MarkedPoints
    <2>1. gate.owner = q
      BY <1>h, <1>2 DEF Holds, NeedsGate, BackendPoints, EnsurePoints, MarkedPoints
    <2>2. UNCHANGED marker
      BY <1>i, <1>n, <2>1, MarkerChange
    <2>3. CASE proc[q].pc = "check"
      BY <1>i, <1>1, <1>2, <2>2, <2>3 DEF Guarded
    <2>4. CASE proc[q].pc # "check"
      <3>1. hostLock = q
        BY <1>h, <1>2, <2>4 DEF Holds, NeedsHost, BackendPoints, EnsurePoints, MarkedPoints
      <3>2. ~Ensure(p) /\ ~BackendStep(p)
        BY <1>i, <3>1, EnsureOrderly, BackendStepOrderly DEF LockInv, Holds, AtBackend, NeedsHost
      <3>3. UNCHANGED owners
        BY <3>2, StepKinds, Frames
      <3>4. container.status = "Missing" => container'.status = "Missing"
        BY <1>i, <3>2, StepKinds, Frames, StopContainer DEF world, Running
      <3>5. QED
        BY <1>i, <1>1, <1>2, <2>2, <3>3, <3>4 DEF Guarded, owners, Owner
    <2>5. QED
      BY <2>3, <2>4
  <1>3. CASE proc[q].op = "start" /\ proc[q].pc \in {"lock", "ensure", "launch"}
    <2>1. gate.owner = q \/ q \in gate.readers
      BY <1>h, <1>3 DEF Holds, Admitting, AdmissionPoints, EnsurePoints
    <2>2. CASE gate.owner = q
      <3>1. UNCHANGED marker
        BY <1>i, <1>n, <2>2, MarkerChange
      <3>2. QED
        BY <1>i, <1>1, <1>3, <3>1 DEF Guarded
    <2>3. CASE q \in gate.readers
      <3>1. q \in gate'.readers
        BY <1>1, <2>3 DEF OthersKeep
      <3>2. AdmitInv'
        BY <1>i, AdmitStep
      <3>3. marker' = NoMarker
        BY <3>1, <3>2 DEF AdmitInv, Fenced
      <3>4. QED
        BY <1>1, <1>3, <3>3 DEF Guarded
    <2>4. QED
      BY <2>1, <2>2, <2>3
  <1>4. CASE /\ proc[q].op = "update" => proc[q].pc \notin MarkedPoints
             /\ proc[q].op = "start" => proc[q].pc \notin {"lock", "ensure", "launch"}
    BY <1>1, <1>4 DEF Guarded, MarkedPoints, EnsurePoints
  <1>5. QED
    BY <1>2, <1>3, <1>4

LEMMA BackendGuarded ==
  ASSUME GuardInv, NEW p \in Procs, BackendStep(p)
  PROVE  Guarded(p)'
  <1>i. /\ Inv /\ ProcInv /\ IntentInv /\ Guarded(p) /\ WorldTypes /\ proc[p] \in ProcState
        /\ Sound(proc[p])
    BY DEF GuardInv, CustodyInv, OwnerInv, Inv, ProcInv, Sound, StateTypes
  <1>b. AtBackend(p) /\ proc[p].op = "update" /\ proc[p].mine \in Intent
    BY <1>i, BackendStepOrderly, PhaseIntent DEF AtBackend, Inv
  <1>o. UNCHANGED owners
    BY Frames DEF owners
  <1>e. ASSUME End(p) PROVE Guarded(p)'
    BY <1>e, <1>i, EndAt DEF Guarded
  <1>p. ~UpdatePoolsComplete(p) => UNCHANGED marker
    BY <1>i
    DEF BackendStep, Setback, UpdateControl, UpdateGateway, UpdateOwn, UpdateDrain,
        UpdateClose, UpdateQuiesced, UpdateReleasing, UpdateRelease, UpdateExited,
        UpdateCheckpoint, UpdateReleased, UpdateRemove, UpdateStarting, UpdateChecking,
        UpdateActivate, UpdateFinalize, UpdateFinish, UpdateBusy, UpdateUnready,
        UpdatePoolsUnready, documents
  <1>1. CASE UpdateControl(p) \/ UpdateGateway(p)
    <2>1. /\ proc[p].pc \in {"control", "gateway"} /\ proc'[p].pc \in {"gateway", "own"}
          /\ proc'[p].op = "update" /\ proc'[p].seen = proc[p].seen /\ UNCHANGED <<container, marker>>
      BY <1>1, <1>b, <1>i, GotoAt DEF UpdateControl, UpdateGateway, At, world, documents
    <2>2. QED
      BY <1>i, <1>b, <2>1 DEF Guarded, MarkedPoints
  <1>2. CASE UpdateOwn(p)
    <2>1. CASE Replaces(p)
      <3>1. /\ proc'[p].pc = "drain" /\ proc'[p].op = "update" /\ proc'[p].seen = proc[p].seen
            /\ proc[p].pc = "own" /\ UNCHANGED <<container, marker>>
        BY <1>2, <1>i, <2>1, PublishAt DEF UpdateOwn, world, At
      <3>2. QED
        BY <1>i, <1>b, <3>1 DEF Guarded, MarkedPoints
    <2>2. CASE ~Replaces(p)
      <3>1. /\ proc'[p].pc = "ensure" /\ proc'[p].mine = proc[p].mine /\ proc'[p].op = "update"
            /\ proc[p].pc = "own" /\ UNCHANGED marker
        BY <1>2, <1>b, <1>i, <2>2, GotoAt DEF UpdateOwn, At
      <3>2. Owner' = proc[p].mine.target
        BY <1>o, <2>2 DEF Replaces, owners, Owner
      <3>3. QED
        BY <1>i, <1>b, <3>1, <3>2 DEF Guarded, MarkedPoints, EnsurePoints
    <2>3. QED
      BY <2>1, <2>2
  <1>3. CASE UpdateDrain(p)
    <2>1. UNCHANGED <<container, marker>> /\ proc[p].pc = "drain"
      BY <1>3 DEF UpdateDrain, world, At
    <2>2. CASE proc[p].seen = "Running" \/ proc[p].mine.phase = "Releasing"
      <3>1. proc'[p].pc \in {"release", "close"} /\ proc'[p].op = "update"
        BY <1>3, <1>b, <1>i, <2>2, GotoAt, PublishAt DEF UpdateDrain, Publish
      <3>2. QED
        BY <1>i, <1>b, <2>1, <3>1 DEF Guarded, MarkedPoints
    <2>3. CASE ~(proc[p].seen = "Running" \/ proc[p].mine.phase = "Releasing")
      <3>1. proc'[p].pc = "checkpoint" /\ proc'[p].op = "update" /\ proc'[p].seen = proc[p].seen
        BY <1>3, <1>b, <1>i, <2>3, GotoAt DEF UpdateDrain
      <3>2. QED
        BY <1>i, <1>b, <2>1, <2>3, <3>1 DEF Guarded, MarkedPoints
    <2>4. QED
      BY <2>2, <2>3
  <1>4. CASE UpdateClose(p) \/ UpdateQuiesced(p) \/ UpdateReleasing(p) \/ UpdateRelease(p)
    <2>1. /\ proc'[p].pc \in {"quiesce", "releasing", "release", "exiting"}
          /\ proc'[p].op = "update" /\ UNCHANGED marker
          /\ proc[p].pc \in {"close", "quiesce", "releasing", "release"}
      BY <1>4, <1>b, <1>i, GotoAt, PublishAt
      DEF UpdateClose, UpdateQuiesced, UpdateReleasing, UpdateRelease, Publish, documents, At
    <2>2. QED
      BY <1>i, <1>b, <2>1 DEF Guarded, MarkedPoints
  <1>5. CASE UpdateExited(p)
    <2>1. proc'[p] = [proc[p] EXCEPT !.pc = "checkpoint", !.seen = "Stopped"]
      BY <1>5, <1>i DEF UpdateExited, ProcInv
    <2>2. proc'[p].pc = "checkpoint" /\ proc'[p].seen = "Stopped"
      BY <1>i, <2>1 DEF ProcState
    <2>3. marker'.kind = "update"
      BY <1>5, <1>i, <1>b DEF UpdateExited, At, Guarded, MarkedPoints, documents
    <2>4. proc'[p].op = "update"
      BY <1>i, <1>b, <2>1 DEF ProcState
    <2>5. QED
      BY <2>2, <2>3, <2>4 DEF Guarded
  <1>6. CASE UpdateCheckpoint(p) \/ UpdateReleased(p)
    <2>1. /\ proc'[p].pc \in {"released", "remove"} /\ proc'[p].op = "update"
          /\ proc'[p].seen = proc[p].seen /\ proc[p].pc \in {"checkpoint", "released"}
          /\ UNCHANGED <<marker, container>>
      BY <1>6, <1>b, <1>i, GotoAt, PublishAt
      DEF UpdateCheckpoint, UpdateReleased, Publish, At, documents, world
    <2>2. QED
      BY <1>i, <1>b, <2>1 DEF Guarded, MarkedPoints
  <1>7. CASE UpdateRemove(p)
    <2>1. proc'[p] = [proc[p] EXCEPT !.pc = "starting", !.seen = "Running"]
      BY <1>7, <1>i DEF UpdateRemove, ProcInv
    <2>2. proc'[p].pc = "starting" /\ proc'[p].op = "update"
      BY <1>b, <1>i, <2>1 DEF ProcState
    <2>3. proc[p].seen \in {"Stopped", "Missing"} /\ proc[p].pc = "remove"
      BY <1>7, <1>i, <1>b DEF UpdateRemove, At, Guarded, ProcState
    <2>4. container'.status = "Missing"
      BY <1>7, <1>i, <1>b, <2>3 DEF UpdateRemove, WorldTypes, Guarded
    <2>5. marker'.kind = "update"
      BY <1>7, <1>i, <1>b, <2>3 DEF UpdateRemove, Guarded, MarkedPoints, documents
    <2>6. QED
      BY <2>2, <2>4, <2>5 DEF Guarded
  <1>8. CASE UpdateStarting(p)
    <2>1. /\ proc'[p].pc = "ensure" /\ proc'[p].op = "update" /\ proc[p].pc = "starting"
          /\ proc'[p].mine = [proc[p].mine EXCEPT !.phase = "Starting"]
          /\ UNCHANGED <<marker, container>>
      BY <1>8, <1>i, PublishAt DEF UpdateStarting, Publish, At, world
    <2>2. proc'[p].mine.target = proc[p].mine.target /\ Owner' = Owner
      BY <1>b, <1>o, <2>1 DEF Intent, owners, Owner
    <2>3. QED
      BY <1>i, <1>b, <2>1, <2>2 DEF Guarded, MarkedPoints, EnsurePoints
  <1>9. CASE UpdateChecking(p) \/ UpdateActivate(p)
    <2>1. /\ proc'[p].pc \in {"activate", "activated"} /\ proc'[p].op = "update"
          /\ UNCHANGED marker /\ proc[p].pc \in {"ensured", "activate"}
      BY <1>9, <1>i, PublishAt DEF UpdateChecking, UpdateActivate, Publish, At
    <2>2. QED
      BY <1>i, <1>b, <2>1 DEF Guarded, MarkedPoints, EnsurePoints
  <1>10. CASE UpdatePoolsComplete(p) \/ UpdateFinalize(p)
    <2>1. proc'[p].pc \in {"finalize", "finish"} /\ proc'[p].op = "update"
      BY <1>10, <1>b, <1>i, GotoAt DEF UpdatePoolsComplete, UpdateFinalize
    <2>2. QED
      BY <2>1 DEF Guarded, MarkedPoints, EnsurePoints
  <1>11. CASE UpdateFinish(p) \/ Setback(p)
    BY <1>11, <1>e DEF UpdateFinish, Setback, UpdateBusy, UpdateUnready, UpdatePoolsUnready, Refuse
  <1>12. QED
    BY <1>1, <1>2, <1>3, <1>4, <1>5, <1>6, <1>7, <1>8, <1>9, <1>10, <1>11 DEF BackendStep

LEMMA EnsureGuarded ==
  ASSUME GuardInv, NEW p \in Procs, Ensure(p)
  PROVE  Guarded(p)'
  <1>i. /\ Inv /\ ProcInv /\ Guarded(p) /\ proc[p] \in ProcState
    BY DEF GuardInv, AdmitInv, Inv, ProcInv, Sound
  <1>1. /\ proc'[p].op = proc[p].op /\ proc'[p].mine = proc[p].mine
        /\ proc[p].pc \in {"ensure", "launch", "ready", "commit", "retire"}
        /\ proc'[p].pc \in {"ready", "launch", "commit", "retire", "ensured"}
        /\ UNCHANGED marker
    BY <1>i, GotoAt, Frames
    DEF Ensure, EnsureRunning, EnsureStart, EnsureCandidate, EnsureLaunch, EnsureReady,
        EnsureCommit, EnsureRetire, documents
  <1>2. proc'[p].pc = "launch" =>
            /\ proc[p].pc = "ensure"
            /\ proc[p].op = "update" => candidate' = proc[p].mine.target
    <2>1. CASE EnsureCandidate(p)
      BY <2>1 DEF EnsureCandidate, Bound
    <2>2. CASE ~EnsureCandidate(p)
      BY <1>i, <2>2, GotoAt
      DEF Ensure, EnsureRunning, EnsureStart, EnsureLaunch, EnsureReady, EnsureCommit,
          EnsureRetire
    <2>3. QED
      BY <2>1, <2>2
  <1>3. QED
    BY <1>i, <1>1, <1>2 DEF Guarded, MarkedPoints, EnsurePoints

LEMMA GuardedLaid ==
  ASSUME GuardInv, NEW p \in Procs, Begin(p) \/ Step(p) \/ Setback(p) \/ Die(p)
  PROVE  Guarded(p)'
  <1>i. /\ Inv /\ ProcInv /\ Guarded(p) /\ proc[p] \in ProcState
        /\ proc \in [Procs -> ProcState] /\ Sound(proc[p])
    BY DEF GuardInv, AdmitInv, Inv, ProcInv, Sound
  <1>e. ASSUME proc'[p].pc \in {"idle", "record", "prepare", "pools", "gate", "fence"}
        PROVE  Guarded(p)'
    BY <1>e DEF Guarded, MarkedPoints, EnsurePoints
  <1>1. CASE Preparing(p)
    <2>1. CASE UpdateCheck(p)
      <3>1. CASE End(p)
        BY <1>e, <1>i, <3>1, EndAt
      <3>2. CASE ~End(p)
        <4>1. proc' = [proc EXCEPT ![p].mine = [proc[p].mine EXCEPT !.failure = "none"],
                                   ![p].pc = "control", ![p].seen = container.status]
          BY <2>1, <3>2 DEF UpdateCheck, Refuse
        <4>2. /\ proc'[p].pc = "control" /\ proc'[p].seen = container.status
              /\ proc'[p].op = proc[p].op
          BY <1>i, <4>1 DEF ProcState
        <4>3. /\ proc[p].op = "update" /\ proc[p].pc = "check"
              /\ UNCHANGED <<marker, container>>
          BY <2>1 DEF UpdateCheck, At, world
        <4>4. QED
          BY <1>i, <4>2, <4>3 DEF Guarded, MarkedPoints
      <3>3. QED
        BY <3>1, <3>2
    <2>2. CASE UpdatePools(p)
      <3>1. proc'[p].pc = "check" /\ proc'[p].op = "update"
        BY <1>i, <2>2, GotoAt DEF UpdatePools, At
      <3>2. marker'.kind = "update"
        BY <2>2 DEF UpdatePools, GuardInv
      <3>3. QED
        BY <3>1, <3>2 DEF Guarded
    <2>3. CASE UpdateRetireGateways(p)
      BY <1>e, <2>3 DEF UpdateRetireGateways, At
    <2>4. CASE UpdateRecord(p) \/ UpdatePrepare(p)
      <3>1. proc'[p].pc \in {"prepare", "pools"}
        BY <1>i, <2>4, GotoAt, PublishAt DEF UpdateRecord, UpdatePrepare, Publish
      <3>2. QED
        BY <1>e, <3>1
    <2>5. QED
      BY <1>1, <2>1, <2>2, <2>3, <2>4 DEF Preparing
  <1>2. CASE Stop(p)
    <2>1. CASE End(p)
      BY <1>e, <1>i, <2>1, EndAt
    <2>2. CASE ~End(p)
      <3>1. proc[p].op = "stop"
        BY <1>2 DEF Stop, StopPools, StopRecord, StopController, StopBackend, StopConfirm,
                    StopComplete, At
      <3>2. \/ \E point : Goto(p, point)
            \/ \E point, saw : proc' = [proc EXCEPT ![p].pc = point, ![p].saw = saw]
        BY <1>2, <2>2
        DEF Stop, StopPools, StopRecord, StopController, StopBackend, StopConfirm, StopComplete
      <3>3. ASSUME NEW point, NEW saw, proc' = [proc EXCEPT ![p].pc = point, ![p].saw = saw]
            PROVE  proc'[p].op = proc[p].op
        <4>1. proc'[p] = [proc[p] EXCEPT !.pc = point, !.saw = saw]
          BY <1>i, <3>3
        <4>2. QED
          BY <1>i, <4>1 DEF ProcState
      <3>4. proc'[p].op = proc[p].op
        <4>1. CASE \E point : Goto(p, point)
          <5>1. PICK point : Goto(p, point)
            BY <4>1
          <5>2. QED
            BY <1>i, <5>1, GotoAt
        <4>2. CASE \E point, saw : proc' = [proc EXCEPT ![p].pc = point, ![p].saw = saw]
          <5>1. PICK point, saw : proc' = [proc EXCEPT ![p].pc = point, ![p].saw = saw]
            BY <4>2
          <5>2. QED
            BY <3>3, <5>1
        <4>3. QED
          BY <3>2, <4>1, <4>2
      <3>5. QED
        BY <3>1, <3>4 DEF Guarded
    <2>3. QED
      BY <2>1, <2>2
  <1>3. CASE Start(p)
    <2>1. UNCHANGED marker
      BY <1>3, Frames
    <2>2. CASE StartGate(p) \/ StartFence(p)
      <3>1. proc'[p].op = "start" /\ marker = NoMarker
        BY <1>i, <2>2, GotoAt DEF StartGate, StartFence, At
      <3>2. QED
        BY <2>1, <3>1 DEF Guarded
    <2>3. CASE StartResume(p)
      <3>1. proc'[p] = [proc[p] EXCEPT !.pc = "ensure", !.saw = NoShutdown]
        BY <1>i, <2>3 DEF StartResume
      <3>2. proc'[p].op = proc[p].op /\ proc[p].op = "start" /\ proc[p].pc = "lock"
        BY <1>i, <2>3, <3>1 DEF StartResume, At, ProcState
      <3>3. QED
        BY <1>i, <2>1, <3>2 DEF Guarded
    <2>4. CASE StartAdmit(p)
      <3>1. proc'[p].op = "start" /\ proc[p].op = "start" /\ proc[p].pc = "lock"
        BY <1>i, <2>4, GotoAt DEF StartAdmit, At
      <3>2. QED
        BY <1>i, <2>1, <3>1 DEF Guarded
    <2>5. CASE StartController(p) \/ StartResumed(p) \/ StartRegister(p)
      <3>1. /\ proc'[p].op = "start" /\ proc'[p].pc \in {"resumed", "fence", "admit"}
        BY <1>i, <2>5, GotoAt DEF StartController, StartResumed, StartRegister, At
      <3>2. QED
        BY <3>1 DEF Guarded
    <2>6. CASE StartReturn(p)
      BY <1>e, <1>i, <2>6, EndAt DEF StartReturn
    <2>7. QED
      BY <1>3, <2>2, <2>3, <2>4, <2>5, <2>6 DEF Start
  <1>4. CASE Cancel(p)
    <2>1. CASE CancelArchive(p)
      <3>1. proc'[p].op = "cancel"
        BY <1>i, <2>1, GotoAt DEF CancelArchive, At
      <3>2. QED
        BY <3>1 DEF Guarded
    <2>2. CASE CancelRemove(p)
      BY <1>e, <1>i, <2>2, EndAt DEF CancelRemove
    <2>3. QED
      BY <1>4, <2>1, <2>2 DEF Cancel
  <1>5. CASE Begin(p)
    <2>1. CASE CancelBegin(p)
      <3>1. proc'[p].op = "cancel"
        BY <1>i, <2>1 DEF CancelBegin, NoProc
      <3>2. QED
        BY <3>1 DEF Guarded
    <2>2. CASE ~CancelBegin(p)
      <3>1. proc'[p].pc \in {"record", "gate", "fence"}
        BY <1>i, <1>5, <2>2 DEF Begin, UpdateBegin, ResumeBegin, StopBegin, StartBegin, NoProc
      <3>2. QED
        BY <1>e, <3>1
    <2>3. QED
      BY <2>1, <2>2
  <1>6. CASE Die(p)
    BY <1>e, <1>i, <1>6, EndAt DEF Die
  <1>7. QED
    BY <1>1, <1>2, <1>3, <1>4, <1>5, <1>6, StepKinds, BackendGuarded, EnsureGuarded

LEMMA GuardStep == GuardInv /\ [Next]_vars => GuardInv'
  <1> SUFFICES ASSUME GuardInv, [Next]_vars PROVE GuardInv'
    OBVIOUS
  <1>1. CustodyInv' /\ AdmitInv' /\ Exact'
    BY CustodyStep, AdmitStep, ExactStep DEF GuardInv
  <1>2. ASSUME NEW p \in Procs, Begin(p) \/ Step(p) \/ Setback(p) \/ Die(p), NEW q \in Procs
        PROVE  Guarded(q)'
    BY <1>2, GuardedKept, GuardedLaid
  <1>3. ASSUME BackendExits \/ BackendCrashes \/ UNCHANGED vars, NEW q \in Procs
        PROVE  Guarded(q)'
    <2>1. UNCHANGED <<proc, owners, marker>>
      BY <1>3 DEF BackendExits, BackendCrashes, vars, owners, documents
    <2>2. container.status = "Missing" => UNCHANGED container
      BY <1>3 DEF BackendExits, BackendCrashes, vars, Running
    <2>3. Guarded(q)
      BY DEF GuardInv
    <2>4. QED
      BY <2>1, <2>2, <2>3 DEF Guarded, owners, Owner
  <1>4. Pooled'
    BY DEF GuardInv
  <1>5. QED
    BY <1>1, <1>2, <1>3, <1>4 DEF GuardInv, Next

(* Where the pools fence every resumption with their maintenance marker,    *)
(* the target first opens the data with a checkpoint of what the old        *)
(* version wrote last.  Without pools a released binary can be started      *)
(* again and the property does not hold.                                    *)
THEOREM CheckpointIsFaithful == Pooled /\ Spec => CheckpointFaithful
  <1> DEFINE Kept == data' # data => checkpoint = "exact"
  <1>1. ASSUME GuardInv, [Next]_vars, data' # data
        PROVE  checkpoint = "exact"
    <2>1. CustodyInv /\ Exact /\ Inv /\ checkpoint \in {"none", "exact", "stale"}
      BY <1>1 DEF GuardInv, AdmitInv, Inv, StateTypes, WorldTypes
    <2>2. ~(BackendExits \/ BackendCrashes \/ UNCHANGED vars)
      BY <1>1 DEF BackendExits, BackendCrashes, vars
    <2>3. PICK p \in Procs : Begin(p) \/ Step(p) \/ Setback(p) \/ Die(p)
      BY <1>1, <2>2 DEF Next
    <2>4. EnsureStart(p) \/ EnsureLaunch(p)
      BY <1>1, <2>3, OpenedBy
    <2>5. CASE EnsureStart(p)
      BY <1>1, <2>1, <2>5 DEF EnsureStart, Opens, CustodyInv, Custodian
    <2>6. CASE EnsureLaunch(p)
      <3>1. Grounded(p)
        BY <2>1 DEF Inv
      <3>2. data' = Owner
        BY <2>6, <3>1 DEF EnsureLaunch, Opens, Grounded, Owner
      <3>3. checkpoint # "none"
        BY <1>1, <2>1, <3>2 DEF CustodyInv, Custodian
      <3>4. QED
        BY <2>1, <3>3 DEF Exact
    <2>7. QED
      BY <2>4, <2>5, <2>6
  <1>2. GuardInv /\ [Next]_vars => [Kept]_vars
    BY <1>1
  <1>3. CheckpointFaithful <=> [][Kept]_vars
    BY DEF CheckpointFaithful
  <1> HIDE DEF Kept
  <1>4. QED
    BY GuardInit, GuardStep, <1>2, <1>3, PTL DEF Spec

(* On such a host no old binary is started after its ownership was          *)
(* released: the promise that a host without pools breaks.                  *)
THEOREM ReleasedStaysDown == Pooled /\ Spec => NoOldBinaryAfterRelease
  <1> DEFINE Fresh == intent.phase \in {"Released", "Starting"} /\ ~Running /\ container'.status = "Running"
                      => data' = intent.target
  <1>1. ASSUME GuardInv, [Next]_vars, intent.phase \in {"Released", "Starting"}, ~Running,
               container'.status = "Running"
        PROVE  data' = intent.target
    <2>1. checkpoint # "none"
      BY <1>1 DEF GuardInv, Exact
    <2>2. ~(BackendExits \/ BackendCrashes \/ UNCHANGED vars)
      BY <1>1 DEF BackendExits, BackendCrashes, vars, Running
    <2>3. PICK p \in Procs : Begin(p) \/ Step(p) \/ Setback(p) \/ Die(p)
      BY <1>1, <2>2 DEF Next
    <2>4. QED
      BY <1>1, <2>1, <2>3, OpenedBy, TargetOpens
  <1>2. GuardInv /\ [Next]_vars => [Fresh]_vars
    BY <1>1
  <1>3. NoOldBinaryAfterRelease <=> [][Fresh]_vars
    BY DEF NoOldBinaryAfterRelease
  <1> HIDE DEF Fresh
  <1>4. QED
    BY GuardInit, GuardStep, <1>2, <1>3, PTL DEF Spec
==============================================================================
