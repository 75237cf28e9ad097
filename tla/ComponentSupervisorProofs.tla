---------------------- MODULE ComponentSupervisorProofs ----------------------
(* Proofs of the safety properties of ComponentSupervisor. *)
EXTENDS ComponentSupervisor, TLAPS

(* The part of TypeOK about requests and replies. *)
CallTypes ==
    /\ slots \in [Slots -> Request \cup {NoRequest}]
    /\ answer \in [Callers -> Observations \cup {None}]
    /\ acked \in Intents

LEMMA CallTypesOK == TypeOK => CallTypes
  BY DEF TypeOK, CallTypes

(* A request whose caller has left is still a request. *)
LEMMA DeafTypes ==
  ASSUME CallTypes, NEW s \in Slots, slots[s] # NoRequest
  PROVE  [slots[s] EXCEPT !.listening = FALSE] \in Request
  <1>1. slots[s] \in Request
    BY DEF CallTypes
  <1>2. QED
    BY <1>1 DEF Request

LEMMA SignalTypes ==
  ASSUME TypeOK, NEW p \in Supervisors
  PROVE  signaled \cup {child[p]} \in SUBSET (0 .. MaxLaunch)
  <1>1. signaled \in SUBSET (0 .. MaxLaunch) /\ child[p] \in 0 .. MaxLaunch
    BY DEF TypeOK
  <1>2. QED
    BY <1>1

(* A reply leaves the requests and the replies well typed. *)
LEMMA AnswerTypes ==
  ASSUME CallTypes, NEW s \in Slots, NEW observation \in Observations,
         Answer(s, observation)
  PROVE  CallTypes'
  BY DEF CallTypes, Answer, Intents

(* So does a new request. *)
LEMMA SendTypes ==
  ASSUME CallTypes, NEW s \in Slots, NEW c \in Callers, NEW action \in Actions,
         Call(c, s, action), acked' = acked, answer' = [answer EXCEPT ![c] = None]
  PROVE  CallTypes'
  BY DEF CallTypes, Call, Request

LEMMA LaunchTypes ==
  ASSUME TypeOK, NEW p \in Supervisors, HeldSpawn(p)
  PROVE  /\ launch' \in 0 .. MaxLaunch
         /\ native' \in [Launches -> [Procs -> {"unborn", "waiting", "alive", "dead"}]]
         /\ child' \in [Supervisors -> 0 .. MaxLaunch]
         /\ holds' \in SUBSET Supervisors
         /\ phase' \in [Supervisors -> Phases]
  <1>1. launch + 1 \in Launches /\ Main \in Procs
    BY SupervisorAssumption DEF TypeOK, HeldSpawn, Launches, Procs
  <1>2. launch' \in 0 .. MaxLaunch /\ launch + 1 \in 0 .. MaxLaunch
    BY SupervisorAssumption DEF TypeOK, HeldSpawn
  <1>3. native' \in [Launches -> [Procs -> {"unborn", "waiting", "alive", "dead"}]]
    BY <1>1 DEF TypeOK, HeldSpawn
  <1>4. /\ child' \in [Supervisors -> 0 .. MaxLaunch]
        /\ holds' \in SUBSET Supervisors
        /\ phase' \in [Supervisors -> Phases]
    BY <1>2 DEF TypeOK, HeldSpawn, Phases
  <1>5. QED
    BY <1>2, <1>3, <1>4

LEMMA InitIInv == Init => IInv
  <1> SUFFICES ASSUME Init PROVE IInv
    OBVIOUS
  <1>1. TypeOK
    <2>1. /\ disk \in [intent : Intents, epoch : Epochs]
          /\ launch \in 0 .. MaxLaunch
          /\ child \in [Supervisors -> 0 .. MaxLaunch]
      BY SupervisorAssumption DEF Init, Intents, Epochs
    <2>2. native \in [Launches -> [Procs -> {"unborn", "waiting", "alive", "dead"}]]
      BY DEF Init
    <2>3. CallTypes
      BY DEF Init, CallTypes, Intents
    <2>4. QED
      BY <2>1, <2>2, <2>3 DEF Init, TypeOK, CallTypes, Intents, Phases
  <1>2. \A n \in Launches, x \in Procs : native[n][x] = "unborn"
    BY DEF Init
  <1>3. QED
    BY <1>1, <1>2, SupervisorAssumption
    DEF Init, IInv, OwnerInv, EpochInv, HoldsInv, NativeInv, ChildInv, CellerInv,
        CleanIsQuiet, DispatchInv, HostRetirement, NoRequest, Serving, Quiet, Running, LockFree,
        Held, Procs

LEMMA TypeStep == TypeOK /\ [Next]_vars => TypeOK'
  <1> USE SupervisorAssumption DEF TypeOK, Intents, Epochs, Phases, Release, serverVars,
        nativeVars, callVars, hostVars
  <1> SUFFICES ASSUME TypeOK, [Next]_vars PROVE TypeOK'
    OBVIOUS
  <1>0. CallTypes /\ Hosts \subseteq Callers /\ Operators \subseteq Callers
    BY CallTypesOK DEF Callers
  <1>1. ASSUME NEW p \in Supervisors, Open(p) PROVE TypeOK'
    BY <1>1 DEF Open
  <1>2. ASSUME NEW p \in Supervisors, AcquireHeld(p) PROVE TypeOK'
    BY <1>2 DEF AcquireHeld
  <1>3. ASSUME NEW p \in Supervisors, SpawnFirst(p) PROVE TypeOK'
    BY <1>3 DEF SpawnFirst
  <1>4. ASSUME NEW p \in Supervisors, SpawnSecond(p) PROVE TypeOK'
    BY LaunchTypes, <1>4 DEF SpawnSecond, HeldSpawnFails
  <1>5. ASSUME NEW p \in Supervisors, StartRetired(p) PROVE TypeOK'
    BY <1>5 DEF StartRetired
  <1>6. ASSUME NEW p \in Supervisors, NEW outcome \in SaveOutcomes, Begin(p, outcome) PROVE TypeOK'
    BY SMTT(20), <1>6 DEF Begin, Saved
  <1>7. ASSUME NEW p \in Supervisors, FirstExited(p) PROVE TypeOK'
    BY <1>7 DEF FirstExited
  <1>8. ASSUME NEW p \in Supervisors, SecondExited(p) PROVE TypeOK'
    BY <1>8 DEF SecondExited
  <1>9. ASSUME NEW p \in Supervisors, Probe(p) PROVE TypeOK'
    BY <1>9 DEF Probe
  <1>10. ASSUME NEW p \in Supervisors, NEW s \in Slots, ApplyForeign(p, s) PROVE TypeOK'
    BY <1>0, AnswerTypes, <1>10 DEF ApplyForeign, CallTypes, Observed, Observations
  <1>11. ASSUME NEW p \in Supervisors, NEW s \in Slots, ApplyResumeBusy(p, s) PROVE TypeOK'
    BY <1>0, AnswerTypes, <1>11 DEF ApplyResumeBusy, CallTypes, Observed, Observations
  <1>12. ASSUME NEW p \in Supervisors, NEW s \in Slots, ApplyObserve(p, s) PROVE TypeOK'
    BY <1>0, AnswerTypes, <1>12 DEF ApplyObserve, CallTypes, Observed, Observations
  <1>13. ASSUME NEW p \in Supervisors, NEW s \in Slots, NEW outcome \in SaveOutcomes, ApplyRetire(p, s, outcome) PROVE TypeOK'
    <2>1. CallTypes'
      BY <1>0, <1>13, AnswerTypes DEF ApplyRetire, Observations
    <2>2. signaled' \in SUBSET (0 .. MaxLaunch)
      BY <1>13, SignalTypes DEF ApplyRetire
    <2>3. QED
      BY <1>13, <2>1, <2>2 DEF ApplyRetire, Saved, CallTypes
  <1>14. ASSUME NEW p \in Supervisors, NEW s \in Slots, NEW outcome \in SaveOutcomes, ApplyResume(p, s, outcome) PROVE TypeOK'
    BY <1>0, AnswerTypes, LaunchTypes, <1>14 DEF ApplyResume, CallTypes, Saved, Observations, HeldSpawnFails
  <1>15. ASSUME NEW p \in Supervisors, Stop(p) PROVE TypeOK'
    BY <1>15 DEF Stop
  <1>16. ASSUME NEW p \in Supervisors, CleanupSignal(p) PROVE TypeOK'
    <2>1. signaled' \in SUBSET (0 .. MaxLaunch)
      BY <1>16, SignalTypes DEF CleanupSignal
    <2>2. QED
      BY <1>16, <2>1 DEF CleanupSignal
  <1>17. ASSUME NEW p \in Supervisors, StopPhase(p) PROVE TypeOK'
    BY <1>17 DEF StopPhase
  <1>18. ASSUME NEW p \in Supervisors, NEW outcome \in SaveOutcomes, Finish(p, outcome) PROVE TypeOK'
    BY <1>18 DEF Finish, Saved
  <1>19. ASSUME NEW p \in Supervisors, Crash(p) PROVE TypeOK'
    BY <1>19 DEF Crash
  <1>20. ASSUME NEW p \in Supervisors, CellerExit(p) PROVE TypeOK'
    BY <1>20 DEF CellerExit
  <1>21. ASSUME ContainerDies PROVE TypeOK'
    BY <1>21 DEF ContainerDies
  <1>22. ASSUME NEW n \in Launches, NativeLock(n) PROVE TypeOK'
    BY <1>22 DEF NativeLock
  <1>23. ASSUME NEW n \in Launches, NEW x \in Descendants, NativeFork(n, x) PROVE TypeOK'
    BY <1>23 DEF NativeFork
  <1>24. ASSUME NEW n \in Launches, NEW x \in Procs, NativeExit(n, x) PROVE TypeOK'
    BY <1>24 DEF NativeExit
  <1>25. ASSUME NEW h \in Hosts, HostBegin(h) PROVE TypeOK'
    BY <1>25 DEF HostBegin
  <1>26. ASSUME NEW h \in Hosts, HostConfirmed(h) PROVE TypeOK'
    BY <1>26 DEF HostConfirmed
  <1>27. ASSUME NEW h \in Hosts, HostFinish(h) PROVE TypeOK'
    BY <1>27 DEF HostFinish
  <1>28. ASSUME NEW h \in Hosts, HostLost(h) PROVE TypeOK'
    <2>1. \A s \in Slots : slots[s].by = h
             => [slots[s] EXCEPT !.listening = FALSE] \in Request
      BY <1>0, DeafTypes DEF NoRequest
    <2>2. CallTypes'
      BY <1>0, <1>28, <2>1 DEF HostLost, CallTypes
    <2>3. QED
      BY <1>28, <2>2 DEF HostLost, CallTypes
  <1>29. ASSUME NEW h \in Hosts, NEW s \in Slots, HostRetire(h, s) PROVE TypeOK'
    BY <1>0, SendTypes, <1>29 DEF HostRetire, CallTypes, Actions
  <1>30. ASSUME NEW h \in Hosts, NEW s \in Slots, HostPoll(h, s) PROVE TypeOK'
    BY <1>0, SendTypes, <1>30 DEF HostPoll, CallTypes, Actions
  <1>31. ASSUME NEW c \in Operators, NEW s \in Slots, NEW action \in OperatorActions, OperatorCall(c, s, action) PROVE TypeOK'
    <2>1. c \in Callers /\ action \in Actions
      BY <1>0 DEF Actions
    <2>2. CallTypes'
      BY <1>0, <1>31, <2>1, SendTypes DEF OperatorCall
    <2>3. QED
      BY <1>31, <2>2 DEF OperatorCall, CallTypes
  <1>32. ASSUME NEW s \in Slots, OperatorTimeout(s) PROVE TypeOK'
    <2>1. [slots[s] EXCEPT !.listening = FALSE] \in Request
      BY <1>0, <1>32, DeafTypes DEF OperatorTimeout, NoRequest
    <2>2. CallTypes'
      BY <1>0, <1>32, <2>1 DEF OperatorTimeout, CallTypes
    <2>3. QED
      BY <1>32, <2>2 DEF OperatorTimeout, CallTypes
  <1>33. QED
    BY <1>1, <1>2, <1>3, <1>4, <1>5, <1>6, <1>7, <1>8, <1>9, <1>10, <1>11, <1>12, <1>13, <1>14, <1>15, <1>16, <1>17, <1>18, <1>19, <1>20, <1>21, <1>22, <1>23, <1>24, <1>25, <1>26, <1>27, <1>28, <1>29, <1>30, <1>31, <1>32 DEF Next, vars, Start, Serve, Apply, Cleanup, Native, Host, Operator

(* The inductive step. *)
Locks == OwnerInv /\ EpochInv /\ HoldsInv /\ ChildInv /\ CellerInv

(* What the steps need of the types. *)
Shapes ==
    /\ pc \in [Supervisors -> {"down", "opened", "held", "begun", "spawned",
                               "serving", "stopping", "acquired"}]
    /\ phase \in [Supervisors -> Phases]
    /\ child \in [Supervisors -> 0 .. MaxLaunch]
    /\ mem \in [Supervisors -> Intents]
    /\ disk \in [intent : Intents, epoch : Epochs]
    /\ native \in [Launches -> [Procs -> {"unborn", "waiting", "alive", "dead"}]]
    /\ launch \in 0 .. MaxLaunch
    /\ holds \in SUBSET Supervisors
    /\ celler \in SUBSET Supervisors

LEMMA ShapesOK == TypeOK => Shapes
  BY DEF TypeOK, Shapes

(* Requests, replies and host commands do not move the locks. *)
LEMMA ElsewhereStep ==
  ASSUME Locks, NativeInv, CleanIsQuiet, UNCHANGED <<serverVars, nativeVars>>
  PROVE  Locks' /\ NativeInv' /\ CleanIsQuiet'
  BY DEF Locks, OwnerInv, EpochInv, HoldsInv, NativeInv, ChildInv, CellerInv, CleanIsQuiet,
         Serving, Quiet, Running, LockFree, Held, serverVars, nativeVars

(* Held::spawn by the lock holder: the new helper is the only native       *)
(* process, and it waits for a lock nobody has.                            *)
LEMMA LaunchStep ==
  ASSUME Shapes, Locks, NativeInv, NEW p \in Supervisors, owner = p, owner' = owner,
         p \in holds, HeldSpawn(p), pc'[p] = "serving"
  PROVE  NativeInv'
  <1>1. /\ launch + 1 \in Launches /\ launch \in Nat /\ Main \in Procs
        /\ child'[p] = launch + 1 /\ phase'[p] = "Active"
    BY SupervisorAssumption DEF Shapes, HeldSpawn, Launches, Procs
  <1>2. \A n \in Launches, x \in Procs :
          native'[n][x] = IF n = launch + 1 /\ x = Main THEN "waiting" ELSE native[n][x]
    BY <1>1 DEF Shapes, HeldSpawn
  <1>3. /\ Quiet
        /\ \A n \in Launches : ~Held(n)
    BY DEF NativeInv, Quiet, Running, Held
  <1>4. holds' = {}
    BY DEF Locks, OwnerInv, HoldsInv, Shapes, HeldSpawn, Serving
  <1>5. \A n \in Launches : ~Held(n)' /\ (Running(n)' => n = launch + 1)
    BY <1>1, <1>2, <1>3 DEF Quiet, Running, Held
  <1>6. \A n \in Launches : n <= launch => n <= launch + 1
    BY <1>1 DEF Launches
  <1>7. launch' = launch + 1
    BY DEF HeldSpawn
  <1>8. QED
    BY <1>1, <1>2, <1>3, <1>4, <1>5, <1>6, <1>7
    DEF NativeInv, LockFree, Quiet, Running, Serving

(* Steps of the supervisors and of native processes leave the host alone,   *)
(* except that requests are answered or lost.                               *)
LEMMA DispatchElsewhere ==
  ASSUME DispatchInv, UNCHANGED hostVars, CallTypes,
         \/ UNCHANGED <<slots, answer>>
         \/ slots' = [s \in Slots |-> NoRequest] /\ UNCHANGED answer
  PROVE  DispatchInv'
  BY SupervisorAssumption DEF DispatchInv, HostRetirement, hostVars, NoRequest

LEMMA DispatchAnswered ==
  ASSUME DispatchInv, UNCHANGED hostVars, CallTypes, NEW s \in Slots, slots[s] # NoRequest,
         NEW observation \in Observations, Answer(s, observation)
  PROVE  DispatchInv'
  BY SupervisorAssumption
  DEF DispatchInv, HostRetirement, hostVars, NoRequest, Answer, CallTypes, Request, Callers

LEMMA DispatchStep ==
  ASSUME IInv, Next PROVE DispatchInv'
  <1>0. CallTypes /\ DispatchInv /\ hpc \in [Hosts -> {"idle", "fenced", "retiring", "polling", "confirmed"}]
    BY CallTypesOK DEF IInv, TypeOK
  <1> USE DEF Release, nativeVars, callVars
  <1>1. ASSUME NEW p \in Supervisors, Open(p) PROVE DispatchInv'
    BY <1>0, <1>1, DispatchElsewhere DEF Open
  <1>2. ASSUME NEW p \in Supervisors, AcquireHeld(p) PROVE DispatchInv'
    BY <1>0, <1>2, DispatchElsewhere DEF AcquireHeld
  <1>3. ASSUME NEW p \in Supervisors, SpawnFirst(p) PROVE DispatchInv'
    BY <1>0, <1>3, DispatchElsewhere DEF SpawnFirst
  <1>4. ASSUME NEW p \in Supervisors, SpawnSecond(p) PROVE DispatchInv'
    BY <1>0, <1>4, DispatchElsewhere DEF SpawnSecond
  <1>5. ASSUME NEW p \in Supervisors, StartRetired(p) PROVE DispatchInv'
    BY <1>0, <1>5, DispatchElsewhere DEF StartRetired
  <1>6. ASSUME NEW p \in Supervisors, NEW outcome \in SaveOutcomes, Begin(p, outcome) PROVE DispatchInv'
    BY <1>0, <1>6, DispatchElsewhere DEF Begin
  <1>7. ASSUME NEW p \in Supervisors, FirstExited(p) PROVE DispatchInv'
    BY <1>0, <1>7, DispatchElsewhere DEF FirstExited
  <1>8. ASSUME NEW p \in Supervisors, SecondExited(p) PROVE DispatchInv'
    BY <1>0, <1>8, DispatchElsewhere DEF SecondExited
  <1>9. ASSUME NEW p \in Supervisors, Probe(p) PROVE DispatchInv'
    BY <1>0, <1>9, DispatchElsewhere DEF Probe
  <1>10. ASSUME NEW p \in Supervisors, NEW s \in Slots, ApplyForeign(p, s) PROVE DispatchInv'
    BY <1>0, <1>10, DispatchAnswered, SupervisorAssumption DEF ApplyForeign, Pending, Observed, Observations, NoRequest
  <1>11. ASSUME NEW p \in Supervisors, NEW s \in Slots, ApplyResumeBusy(p, s) PROVE DispatchInv'
    BY <1>0, <1>11, DispatchAnswered, SupervisorAssumption DEF ApplyResumeBusy, Pending, Observed, Observations, NoRequest
  <1>12. ASSUME NEW p \in Supervisors, NEW s \in Slots, ApplyObserve(p, s) PROVE DispatchInv'
    BY <1>0, <1>12, DispatchAnswered, SupervisorAssumption DEF ApplyObserve, Pending, Observed, Observations, NoRequest
  <1>13. ASSUME NEW p \in Supervisors, NEW s \in Slots, NEW outcome \in SaveOutcomes, ApplyRetire(p, s, outcome) PROVE DispatchInv'
    BY <1>0, <1>13, DispatchAnswered, SupervisorAssumption DEF ApplyRetire, Pending, Observed, Observations, NoRequest
  <1>14. ASSUME NEW p \in Supervisors, NEW s \in Slots, NEW outcome \in SaveOutcomes, ApplyResume(p, s, outcome) PROVE DispatchInv'
    BY <1>0, <1>14, DispatchAnswered, SupervisorAssumption DEF ApplyResume, Pending, Observed, Observations, NoRequest
  <1>15. ASSUME NEW p \in Supervisors, Stop(p) PROVE DispatchInv'
    BY <1>0, <1>15, DispatchElsewhere DEF Stop
  <1>16. ASSUME NEW p \in Supervisors, CleanupSignal(p) PROVE DispatchInv'
    BY <1>0, <1>16, DispatchElsewhere DEF CleanupSignal
  <1>17. ASSUME NEW p \in Supervisors, StopPhase(p) PROVE DispatchInv'
    BY <1>0, <1>17, DispatchElsewhere DEF StopPhase
  <1>18. ASSUME NEW p \in Supervisors, NEW outcome \in SaveOutcomes, Finish(p, outcome) PROVE DispatchInv'
    BY <1>0, <1>18, DispatchElsewhere DEF Finish
  <1>19. ASSUME NEW p \in Supervisors, Crash(p) PROVE DispatchInv'
    BY <1>0, <1>19, DispatchElsewhere DEF Crash
  <1>20. ASSUME NEW p \in Supervisors, CellerExit(p) PROVE DispatchInv'
    BY <1>0, <1>20, DispatchElsewhere DEF CellerExit
  <1>21. ASSUME ContainerDies PROVE DispatchInv'
    BY <1>0, <1>21, DispatchElsewhere DEF ContainerDies
  <1>22. ASSUME NEW n \in Launches, NativeLock(n) PROVE DispatchInv'
    BY <1>0, <1>22, DispatchElsewhere DEF NativeLock
  <1>23. ASSUME NEW n \in Launches, NEW x \in Descendants, NativeFork(n, x) PROVE DispatchInv'
    BY <1>0, <1>23, DispatchElsewhere DEF NativeFork
  <1>24. ASSUME NEW n \in Launches, NEW x \in Procs, NativeExit(n, x) PROVE DispatchInv'
    BY <1>0, <1>24, DispatchElsewhere DEF NativeExit
  <1>25. ASSUME NEW h \in Hosts, HostBegin(h) PROVE DispatchInv'
    BY <1>0, <1>25, SupervisorAssumption DEF HostBegin, DispatchInv, HostRetirement, Call, Waiting, CallTypes, Request, Callers, NoRequest
  <1>26. ASSUME NEW h \in Hosts, HostConfirmed(h) PROVE DispatchInv'
    BY <1>0, <1>26, SupervisorAssumption DEF HostConfirmed, DispatchInv, HostRetirement, Call, Waiting, CallTypes, Request, Callers, NoRequest
  <1>27. ASSUME NEW h \in Hosts, HostFinish(h) PROVE DispatchInv'
    BY <1>0, <1>27, SupervisorAssumption DEF HostFinish, DispatchInv, HostRetirement, Call, Waiting, CallTypes, Request, Callers, NoRequest
  <1>28. ASSUME NEW h \in Hosts, HostLost(h) PROVE DispatchInv'
    BY <1>0, <1>28, SupervisorAssumption DEF HostLost, DispatchInv, HostRetirement, Call, Waiting, CallTypes, Request, Callers, NoRequest
  <1>29. ASSUME NEW h \in Hosts, NEW s \in Slots, HostRetire(h, s) PROVE DispatchInv'
    BY <1>0, <1>29, SupervisorAssumption DEF HostRetire, DispatchInv, HostRetirement, Call, Waiting, CallTypes, Request, Callers, NoRequest
  <1>30. ASSUME NEW h \in Hosts, NEW s \in Slots, HostPoll(h, s) PROVE DispatchInv'
    BY <1>0, <1>30, SupervisorAssumption DEF HostPoll, DispatchInv, HostRetirement, Call, Waiting, CallTypes, Request, Callers, NoRequest
  <1>31. ASSUME NEW c \in Operators, NEW s \in Slots, NEW action \in OperatorActions, OperatorCall(c, s, action) PROVE DispatchInv'
    <2>1. c \in Callers /\ c \notin Hosts
      BY SupervisorAssumption DEF Callers
    <2>2. \A h \in Hosts : answer'[h] = answer[h]
      BY <1>0, <1>31, <2>1 DEF OperatorCall, CallTypes, Callers
    <2>3. \A t \in Slots : slots'[t] = IF t = s
             THEN [by |-> c, action |-> action, listening |-> TRUE] ELSE slots[t]
      BY <1>0, <1>31 DEF OperatorCall, Call, CallTypes
    <2>4. QED
      BY <1>0, <1>31, <2>1, <2>2, <2>3
      DEF OperatorCall, Call, Waiting, DispatchInv, HostRetirement, hostVars
  <1>32. ASSUME NEW s \in Slots, OperatorTimeout(s) PROVE DispatchInv'
    <2>1. slots[s] \in Request /\ slots[s].by \notin Hosts
      BY <1>0, <1>32, SupervisorAssumption DEF OperatorTimeout, CallTypes, NoRequest
    <2>2. \A t \in Slots : t # s => slots'[t] = slots[t]
      BY <1>32, <1>0 DEF OperatorTimeout, CallTypes
    <2>3. slots'[s].by = slots[s].by /\ slots'[s].listening = FALSE
      BY <1>32, <1>0, <2>1 DEF OperatorTimeout, CallTypes, Request
    <2>4. QED
      BY <1>0, <1>32, <2>1, <2>2, <2>3
      DEF OperatorTimeout, DispatchInv, HostRetirement, hostVars
  <1>33. QED
    BY <1>1, <1>2, <1>3, <1>4, <1>5, <1>6, <1>7, <1>8, <1>9, <1>10, <1>11, <1>12, <1>13, <1>14, <1>15, <1>16, <1>17, <1>18, <1>19, <1>20, <1>21, <1>22, <1>23, <1>24, <1>25, <1>26, <1>27, <1>28, <1>29, <1>30, <1>31, <1>32 DEF Next, Start, Serve, Apply, Cleanup, Native, Host, Operator

LEMMA LocksStep ==
  ASSUME IInv, Next PROVE Locks' /\ NativeInv' /\ CleanIsQuiet'
  <1>0. Shapes /\ Locks /\ NativeInv /\ CleanIsQuiet
    BY ShapesOK DEF IInv, Locks
  <1>1. ASSUME NEW p \in Supervisors, Open(p)
        PROVE  Locks' /\ NativeInv' /\ CleanIsQuiet'
    <2> USE DEF Open, Release, HeldSpawn, HeldSpawnFails, Saved, nativeVars, serverVars
    <2>1. Locks'
      BY <1>0, <1>1, SupervisorAssumption DEF Shapes, Locks, OwnerInv, EpochInv, HoldsInv, NativeInv, ChildInv, CellerInv,
         Serving, LockFree, HeldSpawn, CleanIsQuiet, Quiet, Running
    <2>2. NativeInv'
      BY <1>0, <1>1, SupervisorAssumption DEF Shapes, Locks, OwnerInv, HoldsInv, NativeInv, ChildInv, Serving, Quiet, Running,
         LockFree, Held, ChildExited, Procs, CleanIsQuiet
    <2>3. CleanIsQuiet'
      BY <1>0, <1>1, SupervisorAssumption DEF Shapes, Locks, OwnerInv, EpochInv, HoldsInv, CellerInv, NativeInv, CleanIsQuiet, Quiet, Running, Serving, Held
    <2>4. QED
      BY <2>1, <2>2, <2>3
  <1>2. ASSUME NEW p \in Supervisors, AcquireHeld(p)
        PROVE  Locks' /\ NativeInv' /\ CleanIsQuiet'
    <2> USE DEF AcquireHeld, Release, HeldSpawn, HeldSpawnFails, Saved, nativeVars, serverVars
    <2>1. Locks'
      BY <1>0, <1>2, SupervisorAssumption DEF Shapes, Locks, OwnerInv, EpochInv, HoldsInv, NativeInv, ChildInv, CellerInv,
         Serving, LockFree, HeldSpawn
    <2>2. NativeInv'
      BY <1>0, <1>2, SupervisorAssumption DEF Shapes, Locks, OwnerInv, HoldsInv, NativeInv, ChildInv, Serving, Quiet, Running,
         LockFree, Held, ChildExited, Procs
    <2>3. CleanIsQuiet'
      BY <1>0, <1>2, SupervisorAssumption DEF Shapes, Locks, OwnerInv, EpochInv, HoldsInv, CellerInv, NativeInv, CleanIsQuiet, Quiet, Running, Serving, Held
    <2>4. QED
      BY <2>1, <2>2, <2>3
  <1>3. ASSUME NEW p \in Supervisors, SpawnFirst(p)
        PROVE  Locks' /\ NativeInv' /\ CleanIsQuiet'
    <2> USE DEF SpawnFirst, Release, HeldSpawn, HeldSpawnFails, Saved, nativeVars, serverVars
    <2>1. Locks'
      BY <1>0, <1>3, SupervisorAssumption DEF Shapes, Locks, OwnerInv, EpochInv, HoldsInv, NativeInv, ChildInv, CellerInv,
         Serving, LockFree, HeldSpawn
    <2>2. NativeInv'
      BY <1>0, <1>3, SupervisorAssumption DEF Shapes, Locks, OwnerInv, HoldsInv, NativeInv, ChildInv, Serving, Quiet, Running,
         LockFree, Held, ChildExited, Procs
    <2>3. CleanIsQuiet'
      BY <1>0, <1>3, SupervisorAssumption DEF Shapes, Locks, OwnerInv, EpochInv, HoldsInv, CellerInv, NativeInv, CleanIsQuiet, Quiet, Running, Serving, Held
    <2>4. QED
      BY <2>1, <2>2, <2>3
  <1>4. ASSUME NEW p \in Supervisors, SpawnSecond(p)
        PROVE  Locks' /\ NativeInv' /\ CleanIsQuiet'
    <2> USE DEF SpawnSecond, Release, HeldSpawnFails, Saved, nativeVars, serverVars
    <2>1. Locks'
      BY <1>0, <1>4, SupervisorAssumption DEF Shapes, Locks, OwnerInv, EpochInv, HoldsInv, NativeInv, ChildInv, CellerInv,
         Serving, LockFree, HeldSpawn
    <2>2. NativeInv'
      <3>1. CASE HeldSpawn(p)
        <4>1. owner = p /\ owner' = owner /\ p \in holds /\ pc'[p] = "serving"
          BY <1>0, <1>4, <3>1 DEF Shapes, Locks, OwnerInv, HoldsInv, Serving, HeldSpawn
        <4>2. QED
          BY <1>0, <3>1, <4>1, LaunchStep
      <3>2. CASE ~HeldSpawn(p)
        BY <1>0, <1>4, <3>2, SupervisorAssumption DEF Shapes, Locks, OwnerInv, HoldsInv, NativeInv,
           ChildInv, Serving, Quiet, Running, LockFree, Held
      <3>3. QED
        BY <3>1, <3>2
    <2>3. CleanIsQuiet'
      BY <1>0, <1>4, SupervisorAssumption DEF Shapes, Locks, OwnerInv, EpochInv, HoldsInv, CellerInv, NativeInv, CleanIsQuiet, Quiet, Running, Serving, Held
    <2>4. QED
      BY <2>1, <2>2, <2>3
  <1>5. ASSUME NEW p \in Supervisors, StartRetired(p)
        PROVE  Locks' /\ NativeInv' /\ CleanIsQuiet'
    <2> USE DEF StartRetired, Release, HeldSpawn, HeldSpawnFails, Saved, nativeVars, serverVars
    <2>1. Locks'
      BY <1>0, <1>5, SupervisorAssumption DEF Shapes, Locks, OwnerInv, EpochInv, HoldsInv, NativeInv, ChildInv, CellerInv,
         Serving, LockFree, HeldSpawn
    <2>2. NativeInv'
      BY <1>0, <1>5, SupervisorAssumption DEF Shapes, Locks, OwnerInv, HoldsInv, NativeInv, ChildInv, Serving, Quiet, Running,
         LockFree, Held, ChildExited, Procs
    <2>3. CleanIsQuiet'
      BY <1>0, <1>5, SupervisorAssumption DEF Shapes, Locks, OwnerInv, EpochInv, HoldsInv, CellerInv, NativeInv, CleanIsQuiet, Quiet, Running, Serving, Held
    <2>4. QED
      BY <2>1, <2>2, <2>3
  <1>6. ASSUME NEW p \in Supervisors, NEW outcome \in SaveOutcomes, Begin(p, outcome)
        PROVE  Locks' /\ NativeInv' /\ CleanIsQuiet'
    <2> USE DEF Begin, Release, HeldSpawn, HeldSpawnFails, Saved, nativeVars, serverVars
    <2>1. Locks'
      BY <1>0, <1>6, SupervisorAssumption DEF Shapes, Locks, OwnerInv, EpochInv, HoldsInv, NativeInv, ChildInv, CellerInv,
         Serving, LockFree, HeldSpawn
    <2>2. NativeInv'
      BY <1>0, <1>6, SupervisorAssumption DEF Shapes, Locks, OwnerInv, HoldsInv, NativeInv, ChildInv, Serving, Quiet, Running,
         LockFree, Held, ChildExited, Procs
    <2>3. CleanIsQuiet'
      BY <1>0, <1>6, SupervisorAssumption DEF Shapes, Locks, OwnerInv, EpochInv, HoldsInv, CellerInv, NativeInv, CleanIsQuiet, Quiet, Running, Serving, Held
    <2>4. QED
      BY <2>1, <2>2, <2>3
  <1>7. ASSUME NEW p \in Supervisors, FirstExited(p)
        PROVE  Locks' /\ NativeInv' /\ CleanIsQuiet'
    <2> USE DEF FirstExited, Release, HeldSpawn, HeldSpawnFails, Saved, nativeVars, serverVars
    <2>1. Locks'
      BY <1>0, <1>7, SupervisorAssumption DEF Shapes, Locks, OwnerInv, EpochInv, HoldsInv, NativeInv, ChildInv, CellerInv,
         Serving, LockFree, HeldSpawn
    <2>2. NativeInv'
      BY <1>0, <1>7, SupervisorAssumption DEF Shapes, Locks, OwnerInv, HoldsInv, NativeInv, ChildInv, Serving, Quiet, Running,
         LockFree, Held, ChildExited, Procs
    <2>3. CleanIsQuiet'
      BY <1>0, <1>7, SupervisorAssumption DEF Shapes, Locks, OwnerInv, EpochInv, HoldsInv, CellerInv, NativeInv, CleanIsQuiet, Quiet, Running, Serving, Held
    <2>4. QED
      BY <2>1, <2>2, <2>3
  <1>8. ASSUME NEW p \in Supervisors, SecondExited(p)
        PROVE  Locks' /\ NativeInv' /\ CleanIsQuiet'
    <2> USE DEF SecondExited, Release, HeldSpawn, HeldSpawnFails, Saved, nativeVars, serverVars
    <2>1. Locks'
      BY <1>0, <1>8, SupervisorAssumption DEF Shapes, Locks, OwnerInv, EpochInv, HoldsInv, NativeInv, ChildInv, CellerInv,
         Serving, LockFree, HeldSpawn
    <2>2. NativeInv'
      BY <1>0, <1>8, SupervisorAssumption DEF Shapes, Locks, OwnerInv, HoldsInv, NativeInv, ChildInv, Serving, Quiet, Running,
         LockFree, Held, ChildExited, Procs
    <2>3. CleanIsQuiet'
      BY <1>0, <1>8, SupervisorAssumption DEF Shapes, Locks, OwnerInv, EpochInv, HoldsInv, CellerInv, NativeInv, CleanIsQuiet, Quiet, Running, Serving, Held
    <2>4. QED
      BY <2>1, <2>2, <2>3
  <1>9. ASSUME NEW p \in Supervisors, Probe(p)
        PROVE  Locks' /\ NativeInv' /\ CleanIsQuiet'
    <2> USE DEF Probe, Release, HeldSpawn, HeldSpawnFails, Saved, nativeVars, serverVars
    <2>1. Locks'
      BY <1>0, <1>9, SupervisorAssumption DEF Shapes, Locks, OwnerInv, EpochInv, HoldsInv, NativeInv, ChildInv, CellerInv,
         Serving, LockFree, HeldSpawn
    <2>2. NativeInv'
      BY <1>0, <1>9, SupervisorAssumption DEF Shapes, Locks, OwnerInv, HoldsInv, NativeInv, ChildInv, Serving, Quiet, Running,
         LockFree, Held, ChildExited, Procs
    <2>3. CleanIsQuiet'
      BY <1>0, <1>9, SupervisorAssumption DEF Shapes, Locks, OwnerInv, EpochInv, HoldsInv, CellerInv, NativeInv, CleanIsQuiet, Quiet, Running, Serving, Held
    <2>4. QED
      BY <2>1, <2>2, <2>3
  <1>10. ASSUME NEW p \in Supervisors, NEW s \in Slots, ApplyForeign(p, s)
        PROVE  Locks' /\ NativeInv' /\ CleanIsQuiet'
    BY <1>0, <1>10, ElsewhereStep DEF ApplyForeign
  <1>11. ASSUME NEW p \in Supervisors, NEW s \in Slots, ApplyResumeBusy(p, s)
        PROVE  Locks' /\ NativeInv' /\ CleanIsQuiet'
    BY <1>0, <1>11, ElsewhereStep DEF ApplyResumeBusy
  <1>12. ASSUME NEW p \in Supervisors, NEW s \in Slots, ApplyObserve(p, s)
        PROVE  Locks' /\ NativeInv' /\ CleanIsQuiet'
    BY <1>0, <1>12, ElsewhereStep DEF ApplyObserve
  <1>13. ASSUME NEW p \in Supervisors, NEW s \in Slots, NEW outcome \in SaveOutcomes, ApplyRetire(p, s, outcome)
        PROVE  Locks' /\ NativeInv' /\ CleanIsQuiet'
    <2> USE DEF ApplyRetire, Release, HeldSpawn, HeldSpawnFails, Saved, nativeVars, serverVars, Pending
    <2>1. Locks'
      BY <1>0, <1>13, SupervisorAssumption DEF Shapes, Locks, OwnerInv, EpochInv, HoldsInv, NativeInv, ChildInv, CellerInv,
         Serving, LockFree, HeldSpawn
    <2>2. NativeInv'
      BY <1>0, <1>13, SupervisorAssumption DEF Shapes, Locks, OwnerInv, HoldsInv, NativeInv, ChildInv, Serving, Quiet, Running,
         LockFree, Held, ChildExited, Procs
    <2>3. CleanIsQuiet'
      BY <1>0, <1>13, SupervisorAssumption DEF Shapes, Locks, OwnerInv, EpochInv, HoldsInv, CellerInv, NativeInv, CleanIsQuiet, Quiet, Running, Serving, Held
    <2>4. QED
      BY <2>1, <2>2, <2>3
  <1>14. ASSUME NEW p \in Supervisors, NEW s \in Slots, NEW outcome \in SaveOutcomes, ApplyResume(p, s, outcome)
        PROVE  Locks' /\ NativeInv' /\ CleanIsQuiet'
    <2> USE DEF ApplyResume, Release, HeldSpawnFails, Saved, nativeVars, serverVars, Pending
    <2>1. Locks'
      BY <1>0, <1>14, SupervisorAssumption DEF Shapes, Locks, OwnerInv, EpochInv, HoldsInv, NativeInv, ChildInv, CellerInv,
         Serving, LockFree, HeldSpawn
    <2>2. NativeInv'
      <3>1. CASE HeldSpawn(p)
        <4>1. owner = p /\ owner' = owner /\ p \in holds /\ pc'[p] = "serving"
          BY <1>0, <1>14, <3>1 DEF Shapes, Locks, OwnerInv, HoldsInv, Serving, HeldSpawn
        <4>2. QED
          BY <1>0, <3>1, <4>1, LaunchStep
      <3>2. CASE ~HeldSpawn(p)
        BY <1>0, <1>14, <3>2, SupervisorAssumption DEF Shapes, Locks, OwnerInv, HoldsInv, NativeInv,
           ChildInv, Serving, Quiet, Running, LockFree, Held
      <3>3. QED
        BY <3>1, <3>2
    <2>3. CleanIsQuiet'
      BY <1>0, <1>14, SupervisorAssumption DEF Shapes, Locks, OwnerInv, EpochInv, HoldsInv, CellerInv, NativeInv, CleanIsQuiet, Quiet, Running, Serving, Held
    <2>4. QED
      BY <2>1, <2>2, <2>3
  <1>15. ASSUME NEW p \in Supervisors, Stop(p)
        PROVE  Locks' /\ NativeInv' /\ CleanIsQuiet'
    <2> USE DEF Stop, Release, HeldSpawn, HeldSpawnFails, Saved, nativeVars, serverVars
    <2>1. Locks'
      BY <1>0, <1>15, SupervisorAssumption DEF Shapes, Locks, OwnerInv, EpochInv, HoldsInv, NativeInv, ChildInv, CellerInv,
         Serving, LockFree, HeldSpawn
    <2>2. NativeInv'
      BY <1>0, <1>15, SupervisorAssumption DEF Shapes, Locks, OwnerInv, HoldsInv, NativeInv, ChildInv, Serving, Quiet, Running,
         LockFree, Held, ChildExited, Procs
    <2>3. CleanIsQuiet'
      BY <1>0, <1>15, SupervisorAssumption DEF Shapes, Locks, OwnerInv, EpochInv, HoldsInv, CellerInv, NativeInv, CleanIsQuiet, Quiet, Running, Serving, Held
    <2>4. QED
      BY <2>1, <2>2, <2>3
  <1>16. ASSUME NEW p \in Supervisors, CleanupSignal(p)
        PROVE  Locks' /\ NativeInv' /\ CleanIsQuiet'
    <2> USE DEF CleanupSignal, Release, HeldSpawn, HeldSpawnFails, Saved, nativeVars, serverVars
    <2>1. Locks'
      BY <1>0, <1>16, SupervisorAssumption DEF Shapes, Locks, OwnerInv, EpochInv, HoldsInv, NativeInv, ChildInv, CellerInv,
         Serving, LockFree, HeldSpawn
    <2>2. NativeInv'
      BY <1>0, <1>16, SupervisorAssumption DEF Shapes, Locks, OwnerInv, HoldsInv, NativeInv, ChildInv, Serving, Quiet, Running,
         LockFree, Held, ChildExited, Procs
    <2>3. CleanIsQuiet'
      BY <1>0, <1>16, SupervisorAssumption DEF Shapes, Locks, OwnerInv, EpochInv, HoldsInv, CellerInv, NativeInv, CleanIsQuiet, Quiet, Running, Serving, Held
    <2>4. QED
      BY <2>1, <2>2, <2>3
  <1>17. ASSUME NEW p \in Supervisors, StopPhase(p)
        PROVE  Locks' /\ NativeInv' /\ CleanIsQuiet'
    <2> USE DEF StopPhase, Release, HeldSpawn, HeldSpawnFails, Saved, nativeVars, serverVars
    <2>1. Locks'
      BY <1>0, <1>17, SupervisorAssumption DEF Shapes, Locks, OwnerInv, EpochInv, HoldsInv, NativeInv, ChildInv, CellerInv,
         Serving, LockFree, HeldSpawn
    <2>2. NativeInv'
      BY <1>0, <1>17, SupervisorAssumption DEF Shapes, Locks, OwnerInv, HoldsInv, NativeInv, ChildInv, Serving, Quiet, Running,
         LockFree, Held, ChildExited, Procs
    <2>3. CleanIsQuiet'
      BY <1>0, <1>17, SupervisorAssumption DEF Shapes, Locks, OwnerInv, EpochInv, HoldsInv, CellerInv, NativeInv, CleanIsQuiet, Quiet, Running, Serving, Held
    <2>4. QED
      BY <2>1, <2>2, <2>3
  <1>18. ASSUME NEW p \in Supervisors, NEW outcome \in SaveOutcomes, Finish(p, outcome)
        PROVE  Locks' /\ NativeInv' /\ CleanIsQuiet'
    <2> USE DEF Finish, Release, HeldSpawn, HeldSpawnFails, Saved, nativeVars, serverVars
    <2>1. Locks'
      BY <1>0, <1>18, SupervisorAssumption DEF Shapes, Locks, OwnerInv, EpochInv, HoldsInv, NativeInv, ChildInv, CellerInv,
         Serving, LockFree, HeldSpawn
    <2>2. NativeInv'
      BY <1>0, <1>18, SupervisorAssumption DEF Shapes, Locks, OwnerInv, HoldsInv, NativeInv, ChildInv, Serving, Quiet, Running,
         LockFree, Held, ChildExited, Procs
    <2>3. CleanIsQuiet'
      BY <1>0, <1>18, SupervisorAssumption DEF Shapes, Locks, OwnerInv, EpochInv, HoldsInv, CellerInv, NativeInv, CleanIsQuiet, Quiet, Running, Serving, Held
    <2>4. QED
      BY <2>1, <2>2, <2>3
  <1>19. ASSUME NEW p \in Supervisors, Crash(p)
        PROVE  Locks' /\ NativeInv' /\ CleanIsQuiet'
    <2> USE DEF Crash, Release, HeldSpawn, HeldSpawnFails, Saved, nativeVars, serverVars
    <2>1. Locks'
      BY <1>0, <1>19, SupervisorAssumption DEF Shapes, Locks, OwnerInv, EpochInv, HoldsInv, NativeInv, ChildInv, CellerInv,
         Serving, LockFree, HeldSpawn
    <2>2. NativeInv'
      BY <1>0, <1>19, SupervisorAssumption DEF Shapes, Locks, OwnerInv, HoldsInv, NativeInv, ChildInv, Serving, Quiet, Running,
         LockFree, Held, ChildExited, Procs
    <2>3. CleanIsQuiet'
      BY <1>0, <1>19, SupervisorAssumption DEF Shapes, Locks, OwnerInv, EpochInv, HoldsInv, CellerInv, NativeInv, CleanIsQuiet, Quiet, Running, Serving, Held
    <2>4. QED
      BY <2>1, <2>2, <2>3
  <1>20. ASSUME NEW p \in Supervisors, CellerExit(p)
        PROVE  Locks' /\ NativeInv' /\ CleanIsQuiet'
    <2> USE DEF CellerExit, Release, HeldSpawn, HeldSpawnFails, Saved, nativeVars, serverVars
    <2>1. Locks'
      BY <1>0, <1>20, SupervisorAssumption DEF Shapes, Locks, OwnerInv, EpochInv, HoldsInv, NativeInv, ChildInv, CellerInv,
         Serving, LockFree, HeldSpawn
    <2>2. NativeInv'
      BY <1>0, <1>20, SupervisorAssumption DEF Shapes, Locks, OwnerInv, HoldsInv, NativeInv, ChildInv, Serving, Quiet, Running,
         LockFree, Held, ChildExited, Procs
    <2>3. CleanIsQuiet'
      BY <1>0, <1>20, SupervisorAssumption DEF Shapes, Locks, OwnerInv, EpochInv, HoldsInv, CellerInv, NativeInv, CleanIsQuiet, Quiet, Running, Serving, Held
    <2>4. QED
      BY <2>1, <2>2, <2>3
  <1>21. ASSUME ContainerDies
        PROVE  Locks' /\ NativeInv' /\ CleanIsQuiet'
    <2> USE DEF ContainerDies, Release, HeldSpawn, HeldSpawnFails, Saved, nativeVars, serverVars
    <2>1. Locks'
      BY <1>0, <1>21, SupervisorAssumption DEF Shapes, Locks, OwnerInv, EpochInv, HoldsInv, NativeInv, ChildInv, CellerInv,
         Serving, LockFree, HeldSpawn
    <2>2. NativeInv'
      BY <1>0, <1>21, SupervisorAssumption DEF Shapes, Locks, OwnerInv, HoldsInv, NativeInv, ChildInv, Serving, Quiet, Running,
         LockFree, Held, ChildExited, Procs
    <2>3. CleanIsQuiet'
      BY <1>0, <1>21, SupervisorAssumption DEF Shapes, Locks, OwnerInv, EpochInv, HoldsInv, CellerInv, NativeInv, CleanIsQuiet, Quiet, Running, Serving, Held
    <2>4. QED
      BY <2>1, <2>2, <2>3
  <1>22. ASSUME NEW n \in Launches, NativeLock(n)
        PROVE  Locks' /\ NativeInv' /\ CleanIsQuiet'
    <2> USE DEF NativeLock, Release, HeldSpawn, HeldSpawnFails, Saved, nativeVars, serverVars
    <2>1. Locks'
      BY <1>0, <1>22, SupervisorAssumption DEF Shapes, Locks, OwnerInv, EpochInv, HoldsInv, NativeInv, ChildInv, CellerInv,
         Serving, LockFree, HeldSpawn
    <2>2. NativeInv'
      BY <1>0, <1>22, SupervisorAssumption DEF Shapes, Locks, OwnerInv, HoldsInv, NativeInv, ChildInv, Serving, Quiet, Running,
         LockFree, Held, ChildExited, Procs
    <2>3. CleanIsQuiet'
      BY <1>0, <1>22, SupervisorAssumption DEF Shapes, Locks, OwnerInv, EpochInv, HoldsInv, CellerInv, NativeInv, CleanIsQuiet, Quiet, Running, Serving, Held
    <2>4. QED
      BY <2>1, <2>2, <2>3
  <1>23. ASSUME NEW n \in Launches, NEW x \in Descendants, NativeFork(n, x)
        PROVE  Locks' /\ NativeInv' /\ CleanIsQuiet'
    <2> USE DEF NativeFork, Release, HeldSpawn, HeldSpawnFails, Saved, nativeVars, serverVars
    <2>1. Locks'
      BY <1>0, <1>23, SupervisorAssumption DEF Shapes, Locks, OwnerInv, EpochInv, HoldsInv, NativeInv, ChildInv, CellerInv,
         Serving, LockFree, HeldSpawn
    <2>2. NativeInv'
      BY <1>0, <1>23, SupervisorAssumption DEF Shapes, Locks, OwnerInv, HoldsInv, NativeInv, ChildInv, Serving, Quiet, Running,
         LockFree, Held, ChildExited, Procs
    <2>3. CleanIsQuiet'
      BY <1>0, <1>23, SupervisorAssumption DEF Shapes, Locks, OwnerInv, EpochInv, HoldsInv, CellerInv, NativeInv, CleanIsQuiet, Quiet, Running, Serving, Held
    <2>4. QED
      BY <2>1, <2>2, <2>3
  <1>24. ASSUME NEW n \in Launches, NEW x \in Procs, NativeExit(n, x)
        PROVE  Locks' /\ NativeInv' /\ CleanIsQuiet'
    <2> USE DEF NativeExit, Release, HeldSpawn, HeldSpawnFails, Saved, nativeVars, serverVars
    <2>1. Locks'
      BY <1>0, <1>24, SupervisorAssumption DEF Shapes, Locks, OwnerInv, EpochInv, HoldsInv, NativeInv, ChildInv, CellerInv,
         Serving, LockFree, HeldSpawn
    <2>2. NativeInv'
      BY <1>0, <1>24, SupervisorAssumption DEF Shapes, Locks, OwnerInv, HoldsInv, NativeInv, ChildInv, Serving, Quiet, Running,
         LockFree, Held, ChildExited, Procs
    <2>3. CleanIsQuiet'
      BY <1>0, <1>24, SupervisorAssumption DEF Shapes, Locks, OwnerInv, EpochInv, HoldsInv, CellerInv, NativeInv, CleanIsQuiet, Quiet, Running, Serving, Held
    <2>4. QED
      BY <2>1, <2>2, <2>3
  <1>25. ASSUME NEW h \in Hosts, HostBegin(h)
        PROVE  Locks' /\ NativeInv' /\ CleanIsQuiet'
    BY <1>0, <1>25, ElsewhereStep DEF HostBegin
  <1>26. ASSUME NEW h \in Hosts, HostConfirmed(h)
        PROVE  Locks' /\ NativeInv' /\ CleanIsQuiet'
    BY <1>0, <1>26, ElsewhereStep DEF HostConfirmed
  <1>27. ASSUME NEW h \in Hosts, HostFinish(h)
        PROVE  Locks' /\ NativeInv' /\ CleanIsQuiet'
    BY <1>0, <1>27, ElsewhereStep DEF HostFinish
  <1>28. ASSUME NEW h \in Hosts, HostLost(h)
        PROVE  Locks' /\ NativeInv' /\ CleanIsQuiet'
    BY <1>0, <1>28, ElsewhereStep DEF HostLost
  <1>29. ASSUME NEW h \in Hosts, NEW s \in Slots, HostRetire(h, s)
        PROVE  Locks' /\ NativeInv' /\ CleanIsQuiet'
    BY <1>0, <1>29, ElsewhereStep DEF HostRetire
  <1>30. ASSUME NEW h \in Hosts, NEW s \in Slots, HostPoll(h, s)
        PROVE  Locks' /\ NativeInv' /\ CleanIsQuiet'
    BY <1>0, <1>30, ElsewhereStep DEF HostPoll
  <1>31. ASSUME NEW c \in Operators, NEW s \in Slots, NEW action \in OperatorActions, OperatorCall(c, s, action)
        PROVE  Locks' /\ NativeInv' /\ CleanIsQuiet'
    BY <1>0, <1>31, ElsewhereStep DEF OperatorCall
  <1>32. ASSUME NEW s \in Slots, OperatorTimeout(s)
        PROVE  Locks' /\ NativeInv' /\ CleanIsQuiet'
    BY <1>0, <1>32, ElsewhereStep DEF OperatorTimeout
  <1>33. QED
    BY <1>1, <1>2, <1>3, <1>4, <1>5, <1>6, <1>7, <1>8, <1>9, <1>10, <1>11, <1>12, <1>13, <1>14, <1>15, <1>16, <1>17, <1>18, <1>19, <1>20, <1>21, <1>22, <1>23, <1>24, <1>25, <1>26, <1>27, <1>28, <1>29, <1>30, <1>31, <1>32 DEF Next, Start, Serve, Apply, Cleanup, Native, Host, Operator

LEMMA IInvStep == IInv /\ [Next]_vars => IInv'
  <1> SUFFICES ASSUME IInv, [Next]_vars PROVE IInv'
    OBVIOUS
  <1>1. TypeOK'
    BY TypeStep DEF IInv
  <1>2. Locks' /\ NativeInv' /\ CleanIsQuiet'
    <2>1. CASE Next
      BY <2>1, LocksStep
    <2>2. CASE UNCHANGED vars
      BY <2>2, ElsewhereStep DEF vars, serverVars, nativeVars, IInv, Locks
    <2>3. QED
      BY <2>1, <2>2
  <1>3. DispatchInv'
    <2>1. CASE Next
      BY <2>1, DispatchStep
    <2>2. CASE UNCHANGED vars
      BY <2>2, DispatchElsewhere, CallTypesOK DEF vars, hostVars, IInv
    <2>3. QED
      BY <2>1, <2>2
  <1>4. QED
    BY <1>1, <1>2, <1>3 DEF IInv, Locks

(* The invariant the safety properties follow from. *)
THEOREM Invariant == Spec => []IInv
  <1>1. QED
    BY InitIInv, IInvStep, PTL DEF Spec

-----------------------------------------------------------------------------
(* The variables always have their types. *)
THEOREM TypesHold == Spec => []TypeOK
  <1>1. IInv => TypeOK
    BY DEF IInv
  <1>2. QED
    BY <1>1, Invariant, PTL

(* Two epochs of Dolt never share the epoch lock, nor does a supervisor     *)
(* hold it beside one of them.                                              *)
THEOREM OneEpochAtATime == Spec => []SingleEpoch
  <1>1. IInv => SingleEpoch
    BY DEF IInv, NativeInv, SingleEpoch, Held, Running, Quiet
  <1>2. QED
    BY <1>1, Invariant, PTL

(* The flock helper of Held::spawn never finds the lock taken. *)
THEOREM HandoffNeverConflicts == Spec => []HandoffUncontended
  <1>1. IInv => HandoffUncontended
    BY DEF IInv, NativeInv, HandoffUncontended, Procs
  <1>2. QED
    BY <1>1, Invariant, PTL

(* A record that admits a new owner is on disk only over a quiet directory. *)
THEOREM CleanRecordIsTruthful == Spec => []CleanIsQuiet
  <1>1. IInv => CleanIsQuiet
    BY DEF IInv
  <1>2. QED
    BY <1>1, Invariant, PTL

(* A supervisor in the Retired phase has no native process behind it. *)
THEOREM RetirementIsTruthful == Spec => []RetiredIsQuiet
  <1>1. IInv => RetiredIsQuiet
    BY DEF IInv, NativeInv, HoldsInv, RetiredIsQuiet, Serving
  <1>2. QED
    BY <1>1, Invariant, PTL

(* A host retirement that may still be applied is always behind the fence. *)
THEOREM DispatchAlwaysFenced == Spec => []DispatchIsFenced
  <1>1. IInv => DispatchIsFenced
    BY DEF IInv, DispatchInv, DispatchIsFenced, HostRetirement
  <1>2. QED
    BY <1>1, Invariant, PTL

-----------------------------------------------------------------------------
(* Steps that launch nothing leave the launch counter alone; the two that   *)
(* launch do it over a durable Active intent.                               *)
LEMMA LaunchIntent ==
  ASSUME IInv, Next, launch' # launch PROVE disk'.intent = "Active"
  <1>1. ASSUME NEW p \in Supervisors, SpawnSecond(p) PROVE disk'.intent = "Active"
    BY <1>1 DEF SpawnSecond, IInv, EpochInv
  <1>2. ASSUME NEW p \in Supervisors, NEW s \in Slots, NEW outcome \in SaveOutcomes,
               ApplyResume(p, s, outcome)
        PROVE  disk'.intent = "Active"
    <2>1. outcome = "ok"
      BY <1>2 DEF ApplyResume
    <2>2. QED
      BY <1>2, <2>1 DEF ApplyResume, Saved
  <1>3. ASSUME NEW p \in Supervisors, Start(p) PROVE disk'.intent = "Active"
    BY <1>1, <1>3 DEF Start, Open, AcquireHeld, Begin, SpawnFirst, StartRetired, nativeVars
  <1>4. ASSUME NEW p \in Supervisors, NEW s \in Slots, Apply(p, s)
        PROVE  disk'.intent = "Active"
    BY <1>2, <1>4 DEF Apply, ApplyForeign, ApplyRetire, ApplyResumeBusy, ApplyObserve, nativeVars
  <1>5. ASSUME NEW p \in Supervisors, Serve(p) PROVE disk'.intent = "Active"
    BY <1>4, <1>5 DEF Serve, FirstExited, SecondExited, Probe, nativeVars
  <1>6. ASSUME NEW p \in Supervisors, Stop(p) \/ Cleanup(p) \/ Crash(p) \/ CellerExit(p)
        PROVE  FALSE
    BY <1>6 DEF Stop, Cleanup, CleanupSignal, StopPhase, Finish, Crash, CellerExit, nativeVars
  <1>7. ASSUME NEW n \in Launches, Native(n) PROVE FALSE
    BY <1>7 DEF Native, NativeLock, NativeFork, NativeExit
  <1>8. ASSUME NEW h \in Hosts, Host(h) PROVE FALSE
    BY <1>8 DEF Host, HostBegin, HostRetire, HostPoll, HostConfirmed, HostFinish, HostLost,
       nativeVars
  <1>9. ASSUME ContainerDies \/ Operator PROVE FALSE
    BY <1>9 DEF ContainerDies, Operator, OperatorCall, OperatorTimeout, nativeVars
  <1>10. QED
    BY <1>3, <1>5, <1>6, <1>7, <1>8, <1>9 DEF Next

(* Dolt is launched only under a durable Active intent. *)
THEOREM LaunchesAuthorized == Spec => LaunchAuthorized
  <1>1. IInv /\ [Next]_vars => [launch' # launch => disk'.intent = "Active"]_vars
    BY LaunchIntent
  <1>2. QED
    BY <1>1, Invariant, PTL DEF Spec, LaunchAuthorized

(* An epoch that lost its owner while serving is never served or rewritten. *)
THEOREM UncleanStaysFinal == Spec => UncleanIsFinal
  <1>1. ASSUME IInv, Next, disk.epoch = "Serving", owner = None
        PROVE  disk' = disk /\ launch' = launch /\ owner' = None
    <2>1. \A p \in Supervisors : pc[p] = "down"
      BY <1>1, SupervisorAssumption DEF IInv, OwnerInv
    <2> DEFINE Goal == disk' = disk /\ launch' = launch /\ owner' = None
    <2>2. ASSUME NEW p \in Supervisors, Start(p) PROVE Goal
      BY <1>1, <2>1, <2>2 DEF Start, Open, AcquireHeld, Begin, SpawnFirst, SpawnSecond, StartRetired
    <2>3. ASSUME NEW p \in Supervisors, Serve(p) PROVE Goal
      BY <1>1, <2>1, <2>3 DEF Serve, Apply, FirstExited, SecondExited, Probe, ApplyForeign,
         ApplyRetire, ApplyResume, ApplyResumeBusy, ApplyObserve, Pending
    <2>4. ASSUME NEW p \in Supervisors, Stop(p) \/ Cleanup(p) \/ Crash(p) \/ CellerExit(p)
          PROVE  Goal
      BY <1>1, <2>1, <2>4 DEF Stop, Cleanup, CleanupSignal, StopPhase, Finish, Crash, CellerExit,
         nativeVars
    <2>5. ASSUME NEW n \in Launches, Native(n) PROVE Goal
      BY <1>1, <2>5 DEF Native, NativeLock, NativeFork, NativeExit, serverVars
    <2>6. ASSUME NEW h \in Hosts, Host(h) PROVE Goal
      BY <1>1, <2>6 DEF Host, HostBegin, HostRetire, HostPoll, HostConfirmed, HostFinish,
         HostLost, serverVars, nativeVars
    <2>7. ASSUME ContainerDies \/ Operator PROVE Goal
      BY <1>1, <2>1, <2>7 DEF ContainerDies, Operator, OperatorCall, OperatorTimeout, serverVars,
         nativeVars
    <2>8. QED
      BY <1>1, <2>2, <2>3, <2>4, <2>5, <2>6, <2>7 DEF Next
  <1>2. IInv /\ [Next]_vars
          => [disk.epoch = "Serving" /\ owner = None
               => disk' = disk /\ launch' = launch /\ owner' = None]_vars
    BY <1>1
  <1>3. QED
    BY <1>2, Invariant, PTL DEF Spec, UncleanIsFinal

-----------------------------------------------------------------------------
(* A confirmed retirement is not undone.  No caller of the repository sends *)
(* Resume (supervisor/serve/mod.rs answers it), and with one that does the  *)
(* property is false: a Resume whose save or spawn fails leaves the intent  *)
(* Active behind a supervisor that still observes Retired.                  *)
NeverResumed == "Resume" \notin OperatorActions

NoResumePending == \A s \in Slots : slots[s].action # "Resume"

(* From the accepted Retire on, the intent is Retired in memory and on disk.*)
RetiringIsRecorded ==
    \A p \in Supervisors : pc[p] = "serving" /\ phase[p] # "Active"
        => mem[p] = "Retired" /\ disk.intent = "Retired"

(* Once a caller was told Retired, every later record says so.              *)
ConfirmedIsRecorded ==
    acked = "Retired" => /\ disk.intent = "Retired"
                         /\ \A p \in Supervisors : pc[p] # "down" => mem[p] = "Retired"

RestInv == NeverResumed /\ IInv /\ NoResumePending /\ RetiringIsRecorded /\ ConfirmedIsRecorded

LEMMA RestPending ==
  ASSUME TypeOK, NoResumePending, NeverResumed, Next
  PROVE  NoResumePending'
  <1>1. slots \in [Slots -> Request \cup {NoRequest}]
    BY DEF TypeOK
  <1>2. ASSUME NEW p \in Supervisors, Start(p) \/ Stop(p) \/ Cleanup(p) \/ Crash(p) \/ CellerExit(p)
        PROVE  NoResumePending'
    BY <1>1, <1>2 DEF NoResumePending, NoRequest, Start, Open, AcquireHeld, Begin, SpawnFirst,
       SpawnSecond, StartRetired, Stop, Cleanup, CleanupSignal, StopPhase, Finish, Crash,
       CellerExit, Release, callVars
  <1>3. ASSUME NEW p \in Supervisors, Serve(p) PROVE NoResumePending'
    BY <1>1, <1>3 DEF NoResumePending, NoRequest, Serve, Apply, FirstExited, SecondExited, Probe,
       ApplyForeign, ApplyRetire, ApplyResume, ApplyResumeBusy, ApplyObserve, Answer, callVars
  <1>4. ASSUME NEW n \in Launches, Native(n) PROVE NoResumePending'
    BY <1>4 DEF NoResumePending, Native, NativeLock, NativeFork, NativeExit, callVars
  <1>5. ASSUME NEW h \in Hosts, Host(h) PROVE NoResumePending'
    BY <1>1, <1>5 DEF NoResumePending, Host, HostBegin, HostRetire, HostPoll, HostConfirmed,
       HostFinish, HostLost, Call, Request, NoRequest, callVars
  <1>6. CASE ContainerDies
    BY <1>6 DEF NoResumePending, ContainerDies, Release, NoRequest
  <1>7. ASSUME NEW c \in Operators, NEW s \in Slots, NEW action \in OperatorActions,
               OperatorCall(c, s, action)
        PROVE  NoResumePending'
    BY <1>1, <1>7 DEF NoResumePending, NeverResumed, OperatorCall, Call
  <1>8. ASSUME NEW s \in Slots, OperatorTimeout(s) PROVE NoResumePending'
    BY <1>1, <1>8 DEF NoResumePending, OperatorTimeout, Request, NoRequest
  <1>9. QED
    BY <1>2, <1>3, <1>4, <1>5, <1>6, <1>7, <1>8 DEF Next, Operator

(* A step of the event loop that applies no Resume. *)
LEMMA RestApply ==
  ASSUME RestInv, NEW p \in Supervisors, NEW s \in Slots, Apply(p, s)
  PROVE  /\ RetiringIsRecorded' /\ ConfirmedIsRecorded'
         /\ launch' = launch
  <1>0. /\ mem \in [Supervisors -> Intents] /\ disk \in [intent : Intents, epoch : Epochs]
        /\ phase \in [Supervisors -> Phases] /\ acked \in Intents
        /\ RetiringIsRecorded /\ ConfirmedIsRecorded
        /\ slots[s].action # "Resume"
        /\ \A q \in Supervisors : pc[q] # "down" <=> owner = q
    BY DEF RestInv, IInv, TypeOK, OwnerInv, NoResumePending
  <1>1. CASE ApplyForeign(p, s)
    BY <1>0, <1>1 DEF ApplyForeign, Answer, RetiringIsRecorded, ConfirmedIsRecorded, serverVars,
       nativeVars
  <1>2. CASE ApplyObserve(p, s)
    <2>1. Observed(p) = "Retired" => phase[p] = "Retired"
      BY DEF Observed
    <2>2. pc[p] = "serving" /\ (\A q \in Supervisors : q # p => pc[q] = "down")
      BY <1>0, <1>2 DEF ApplyObserve, Pending
    <2>3. acked' = "Retired" => acked = "Retired" \/ phase[p] = "Retired"
      BY <1>0, <1>2, <2>1 DEF ApplyObserve, Answer
    <2>4. UNCHANGED <<pc, phase, mem, disk, launch>>
      BY <1>2 DEF ApplyObserve, serverVars, nativeVars
    <2>5. QED
      BY <1>0, <2>2, <2>3, <2>4 DEF RetiringIsRecorded, ConfirmedIsRecorded
  <1>3. ASSUME NEW outcome \in SaveOutcomes, ApplyRetire(p, s, outcome)
        PROVE  /\ RetiringIsRecorded' /\ ConfirmedIsRecorded'
               /\ launch' = launch
    <2>1. pc[p] = "serving" /\ (\A q \in Supervisors : q # p => pc[q] = "down")
      BY <1>0, <1>3 DEF ApplyRetire, Pending
    <2>2. mem'[p] = "Retired" /\ disk'.intent \in {disk.intent, "Retired"}
      BY <1>0, <1>3 DEF ApplyRetire, Saved
    <2>3. acked' = acked
      BY <1>0, <1>3 DEF ApplyRetire, Answer
    <2>4. UNCHANGED <<pc, launch>> /\ (\A q \in Supervisors : q # p => phase'[q] = phase[q])
      BY <1>0, <1>3 DEF ApplyRetire
    <2>5. phase'[p] # "Active" => disk'.intent = "Retired"
      BY <1>0, <1>3 DEF ApplyRetire, Saved
    <2>6. RetiringIsRecorded'
      BY <2>1, <2>2, <2>4, <2>5 DEF RetiringIsRecorded
    <2>7. ConfirmedIsRecorded'
      BY <1>0, <2>1, <2>2, <2>3, <2>4 DEF ConfirmedIsRecorded
    <2>8. QED
      BY <2>4, <2>6, <2>7
  <1>4. ASSUME NEW outcome \in SaveOutcomes, ApplyResume(p, s, outcome) PROVE FALSE
    BY <1>0, <1>4 DEF ApplyResume, Pending
  <1>5. ApplyResumeBusy(p, s) => FALSE
    BY <1>0 DEF ApplyResumeBusy, Pending
  <1>6. QED
    BY <1>1, <1>2, <1>3, <1>4, <1>5 DEF Apply

LEMMA RestStep ==
  ASSUME RestInv, Next
  PROVE  /\ RestInv'
         /\ launch' # launch => acked' = "Active"
  <1> DEFINE Goal == /\ RetiringIsRecorded' /\ ConfirmedIsRecorded'
                     /\ launch' # launch => acked' = "Active"
  <1>0. /\ mem \in [Supervisors -> Intents] /\ disk \in [intent : Intents, epoch : Epochs]
        /\ pc \in [Supervisors -> {"down", "opened", "held", "begun", "spawned",
                                   "serving", "stopping", "acquired"}]
        /\ phase \in [Supervisors -> Phases] /\ acked \in Intents
        /\ RetiringIsRecorded /\ ConfirmedIsRecorded
        /\ \A q \in Supervisors : pc[q] # "down" <=> owner = q
        /\ \A q \in Supervisors : pc[q] \in {"begun", "spawned"} => disk.intent = mem[q]
    BY DEF RestInv, IInv, TypeOK, OwnerInv, EpochInv
  <1>1. ASSUME NEW p \in Supervisors, Open(p) PROVE Goal
    BY <1>0, <1>1 DEF Open, RetiringIsRecorded, ConfirmedIsRecorded, nativeVars, callVars
  <1>2. ASSUME NEW p \in Supervisors, AcquireHeld(p) PROVE Goal
    BY <1>0, <1>2 DEF AcquireHeld, Release, RetiringIsRecorded, ConfirmedIsRecorded
  <1>3. ASSUME NEW p \in Supervisors, NEW outcome \in SaveOutcomes, Begin(p, outcome) PROVE Goal
    <2>1. disk'.intent \in {disk.intent, mem[p]}
      BY <1>0, <1>3 DEF Begin, Saved
    <2>2. pc[p] = "held" /\ (\A q \in Supervisors : q # p => pc[q] = "down")
      BY <1>0, <1>3 DEF Begin
    <2>3. acked' = acked /\ launch' = launch
      BY <1>3 DEF Begin
    <2>4. \A q \in Supervisors : pc'[q] # "serving"
      BY <1>0, <1>3, <2>2 DEF Begin, Release
    <2>5. \A q \in Supervisors : pc'[q] # "down" => q = p /\ mem'[q] = mem[q]
      BY <1>0, <1>3, <2>2 DEF Begin, Release
    <2>6. ConfirmedIsRecorded'
      BY <1>0, <2>1, <2>2, <2>3, <2>5 DEF ConfirmedIsRecorded
    <2>7. QED
      BY <2>3, <2>4, <2>6 DEF RetiringIsRecorded
  <1>4. ASSUME NEW p \in Supervisors, SpawnFirst(p) PROVE Goal
    BY <1>0, <1>4 DEF SpawnFirst, RetiringIsRecorded, ConfirmedIsRecorded, nativeVars, callVars
  <1>5. ASSUME NEW p \in Supervisors, SpawnSecond(p) PROVE Goal
    <2>1. acked = "Active"
      BY <1>0, <1>5 DEF SpawnSecond, ConfirmedIsRecorded, Intents
    <2>2. acked' = acked
      BY <1>5 DEF SpawnSecond, callVars
    <2>3. \A q \in Supervisors : pc'[q] = "serving" => phase'[q] = "Active"
      BY <1>0, <1>5 DEF SpawnSecond, HeldSpawn, HeldSpawnFails
    <2>4. QED
      BY <2>1, <2>2, <2>3 DEF RetiringIsRecorded, ConfirmedIsRecorded
  <1>6. ASSUME NEW p \in Supervisors, StartRetired(p) PROVE Goal
    BY <1>0, <1>6 DEF StartRetired, RetiringIsRecorded, ConfirmedIsRecorded, nativeVars, callVars
  <1>7. ASSUME NEW p \in Supervisors, FirstExited(p) \/ Stop(p) PROVE Goal
    BY <1>0, <1>7 DEF FirstExited, Stop, RetiringIsRecorded, ConfirmedIsRecorded, nativeVars,
       callVars
  <1>8. ASSUME NEW p \in Supervisors, SecondExited(p) PROVE Goal
    BY <1>0, <1>8 DEF SecondExited, RetiringIsRecorded, ConfirmedIsRecorded, nativeVars, callVars
  <1>9. ASSUME NEW p \in Supervisors, Probe(p) PROVE Goal
    BY <1>0, <1>9 DEF Probe, RetiringIsRecorded, ConfirmedIsRecorded, callVars
  <1>10. ASSUME NEW p \in Supervisors, NEW s \in Slots, Apply(p, s) PROVE Goal
    BY <1>10, RestApply
  <1>11. ASSUME NEW p \in Supervisors, CleanupSignal(p) \/ CellerExit(p) PROVE Goal
    BY <1>0, <1>11 DEF CleanupSignal, CellerExit, RetiringIsRecorded, ConfirmedIsRecorded,
       serverVars, nativeVars, callVars
  <1>12. ASSUME NEW p \in Supervisors, StopPhase(p) PROVE Goal
    BY <1>0, <1>12 DEF StopPhase, Release, RetiringIsRecorded, ConfirmedIsRecorded
  <1>13. ASSUME NEW p \in Supervisors, NEW outcome \in SaveOutcomes, Finish(p, outcome) PROVE Goal
    <2>1. disk'.intent \in {disk.intent, mem[p]}
      BY <1>0, <1>13 DEF Finish, Saved
    <2>2. pc[p] # "down" /\ (\A q \in Supervisors : q # p => pc[q] = "down")
      BY <1>0, <1>13 DEF Finish
    <2>3. acked' = acked /\ launch' = launch
      BY <1>13 DEF Finish
    <2>4. \A q \in Supervisors : pc'[q] = "down"
      BY <1>0, <1>13, <2>2 DEF Finish, Release
    <2>5. QED
      BY <1>0, <2>1, <2>2, <2>3, <2>4 DEF RetiringIsRecorded, ConfirmedIsRecorded
  <1>14. ASSUME NEW p \in Supervisors, Crash(p) PROVE Goal
    BY <1>0, <1>14 DEF Crash, Release, RetiringIsRecorded, ConfirmedIsRecorded
  <1>15. ASSUME ContainerDies PROVE Goal
    <2>1. PICK p \in Supervisors : pc[p] # "down" /\ Release(p)
      BY <1>15 DEF ContainerDies
    <2>2. UNCHANGED <<disk, acked, launch>>
      BY <1>15 DEF ContainerDies
    <2>3. \A q \in Supervisors : q # p => pc[q] = "down"
      BY <1>0, <2>1
    <2>4. \A q \in Supervisors : pc'[q] = "down"
      BY <1>0, <2>1, <2>3 DEF Release
    <2>5. QED
      BY <1>0, <2>2, <2>4 DEF RetiringIsRecorded, ConfirmedIsRecorded
  <1>16. ASSUME NEW n \in Launches, Native(n) PROVE Goal
    BY <1>0, <1>16 DEF Native, NativeLock, NativeFork, NativeExit, RetiringIsRecorded,
       ConfirmedIsRecorded, serverVars, callVars
  <1>17. ASSUME NEW h \in Hosts, Host(h) PROVE Goal
    BY <1>0, <1>17 DEF Host, HostBegin, HostRetire, HostPoll, HostConfirmed, HostFinish, HostLost,
       RetiringIsRecorded, ConfirmedIsRecorded, serverVars, nativeVars, callVars
  <1>18. ASSUME Operator PROVE Goal
    <2>1. UNCHANGED <<pc, phase, mem, disk, launch, acked>>
      BY <1>18 DEF Operator, OperatorCall, OperatorTimeout, serverVars, nativeVars
    <2>2. QED
      BY <1>0, <2>1 DEF RetiringIsRecorded, ConfirmedIsRecorded
  <1> HIDE DEF Goal
  <1>19. ASSUME NEW p \in Supervisors, Start(p) \/ Serve(p) \/ Stop(p) \/ Cleanup(p) \/ Crash(p)
                                         \/ CellerExit(p)
         PROVE  Goal
    <2>1. CASE Start(p)
      BY <1>1, <1>2, <1>3, <1>4, <1>5, <1>6, <2>1 DEF Start
    <2>2. CASE Serve(p)
      BY <1>7, <1>8, <1>9, <1>10, <2>2 DEF Serve
    <2>3. CASE Cleanup(p)
      BY <1>11, <1>12, <1>13, <2>3 DEF Cleanup
    <2>4. QED
      BY <1>7, <1>11, <1>14, <1>19, <2>1, <2>2, <2>3
  <1>20. Goal
    BY <1>15, <1>16, <1>17, <1>18, <1>19 DEF Next
  <1>21. IInv' /\ NoResumePending' /\ NeverResumed'
    BY IInvStep, RestPending DEF RestInv, IInv, NeverResumed
  <1>22. QED
    BY <1>20, <1>21 DEF RestInv, Goal

LEMMA RestHolds == NeverResumed /\ Spec => []RestInv
  <1>1. NeverResumed /\ Init => RestInv
    <2>1. Init => IInv
      BY InitIInv
    <2>2. QED
      BY <2>1, SupervisorAssumption
         DEF Init, RestInv, NoResumePending, RetiringIsRecorded, ConfirmedIsRecorded, NoRequest
  <1>2. RestInv /\ [Next]_vars => RestInv'
    <2>1. RestInv /\ Next => RestInv'
      BY RestStep
    <2>2. RestInv /\ UNCHANGED vars => RestInv'
      <3>1. IInv /\ UNCHANGED vars => IInv'
        BY IInvStep
      <3>2. QED
        BY <3>1 DEF RestInv, vars, NoResumePending, RetiringIsRecorded, ConfirmedIsRecorded,
           NeverResumed
    <2>3. QED
      BY <2>1, <2>2
  <1>3. QED
    BY <1>1, <1>2, PTL DEF Spec

(* A confirmed retirement is not undone by any restart: while nobody asks   *)
(* for a Resume, no Dolt is launched after a caller was told Retired        *)
(* (supervisor/serve/mod.rs, supervisor/state/mod.rs).                      *)
THEOREM RetirementIsKept == NeverResumed /\ Spec => NoResurrection
  <1>1. RestInv /\ [Next]_vars => [launch' # launch => acked' = "Active"]_vars
    BY RestStep
  <1>2. QED
    BY <1>1, RestHolds, PTL DEF Spec, NoResurrection

-----------------------------------------------------------------------------
(* Refinement of ExclusiveService. *)

LEMMA LeaseInitially == Init => Lease!LeaseInit
  BY DEF Init, Lease!LeaseInit, Mode, Quiet, Running

(* A step that moves neither the owner, the epoch, the launch counter nor   *)
(* the presence of native processes is a stutter of the abstract service.   *)
LEMMA LeaseStutter ==
  ASSUME owner' = owner, disk'.epoch = disk.epoch, native' = native, launch' = launch
  PROVE  UNCHANGED Lease!leaseVars
  BY DEF Lease!leaseVars, Mode, Quiet, Running

(* The owner goes away: with a clean record the directory is vacant again,  *)
(* with a serving one it is abandoned.                                      *)
LEMMA LeaseEnds ==
  ASSUME NativeInv, owner # None, owner' = None, launch' = launch,
         (~Quiet)' \in {~Quiet, FALSE},
         disk'.epoch # "Serving" => Quiet
  PROVE  Lease!LeaseNext
  <1>1. CASE disk'.epoch = "Serving"
    BY <1>1 DEF Lease!LeaseNext, Lease!Abandon, Mode
  <1>2. CASE disk'.epoch # "Serving"
    BY <1>2 DEF Lease!LeaseNext, Lease!Yield, Mode
  <1>3. QED
    BY <1>1, <1>2

LEMMA LeaseLaunches ==
  ASSUME Shapes, owner # None, owner' = owner, Quiet, NEW p \in Supervisors, HeldSpawn(p)
  PROVE  Lease!LeaseNext
  <1>1. launch + 1 \in Launches /\ Main \in Procs
    BY SupervisorAssumption DEF Shapes, HeldSpawn, Launches, Procs
  <1>2. native'[launch + 1][Main] = "waiting"
    BY <1>1 DEF Shapes, HeldSpawn
  <1>3. ~Quiet'
    BY <1>1, <1>2 DEF Quiet, Running
  <1>4. QED
    BY <1>3 DEF HeldSpawn, Lease!LeaseNext, Lease!LaunchEpoch, Mode

LEMMA LeaseStep == IInv /\ [Next]_vars => [Lease!LeaseNext]_Lease!leaseVars
  <1> SUFFICES ASSUME IInv, [Next]_vars PROVE [Lease!LeaseNext]_Lease!leaseVars
    OBVIOUS
  <1> DEFINE Goal == [Lease!LeaseNext]_Lease!leaseVars
  <1> USE SupervisorAssumption
  <1>0. /\ Shapes /\ Locks /\ NativeInv /\ CleanIsQuiet /\ owner \in Supervisors \cup {None}
        /\ \A p \in Supervisors : pc[p] # "down" => owner = p /\ owner # None
    BY ShapesOK DEF IInv, Locks, OwnerInv, TypeOK
  <1>1. ASSUME NEW p \in Supervisors, Start(p) PROVE Goal
    <2>1. CASE Open(p)
      BY <1>0, <2>1 DEF Open, CleanIsQuiet, Lease!LeaseNext, Lease!Take, Mode, Quiet, Running,
         nativeVars
    <2>2. CASE AcquireHeld(p)
      BY <1>0, <2>2, LeaseStutter, LeaseEnds
      DEF AcquireHeld, Release, Locks, EpochInv, CleanIsQuiet, Quiet, Running
    <2>3. ASSUME NEW outcome \in SaveOutcomes, Begin(p, outcome) PROVE Goal
      <3>1. Quiet /\ Quiet' /\ owner # None /\ launch' = launch
        BY <1>0, <2>3 DEF Begin, Locks, EpochInv, CleanIsQuiet, Quiet, Running
      <3>2. CASE outcome = "ok"
        BY <1>0, <2>3, <3>1, <3>2 DEF Begin, Saved, Lease!leaseVars, Mode
      <3>3. CASE outcome # "ok"
        BY <1>0, <2>3, <3>1, <3>3, LeaseEnds DEF Begin, Release
      <3>4. QED
        BY <3>2, <3>3
    <2>4. CASE SpawnFirst(p)
      BY <2>4, LeaseStutter DEF SpawnFirst, nativeVars
    <2>5. CASE StartRetired(p)
      BY <2>5, LeaseStutter DEF StartRetired, nativeVars
    <2>6. CASE SpawnSecond(p)
      <3>1. Quiet /\ owner # None /\ owner' = owner
        BY <1>0, <2>6 DEF SpawnSecond, Locks, HoldsInv, NativeInv
      <3>2. CASE HeldSpawn(p)
        BY <1>0, <3>1, <3>2, LeaseLaunches
      <3>3. CASE ~HeldSpawn(p)
        BY <2>6, <3>3, LeaseStutter DEF SpawnSecond, HeldSpawnFails
      <3>4. QED
        BY <3>2, <3>3
    <2>7. QED
      BY <1>1, <2>1, <2>2, <2>3, <2>4, <2>5, <2>6 DEF Start
  <1>2. ASSUME NEW p \in Supervisors, NEW s \in Slots, Apply(p, s) PROVE Goal
    <2>1. CASE ApplyForeign(p, s) \/ ApplyResumeBusy(p, s) \/ ApplyObserve(p, s)
      BY <2>1, LeaseStutter DEF ApplyForeign, ApplyResumeBusy, ApplyObserve, serverVars, nativeVars
    <2>2. ASSUME NEW outcome \in SaveOutcomes, ApplyRetire(p, s, outcome) PROVE Goal
      BY <1>0, <2>2, LeaseStutter DEF ApplyRetire, Pending, Saved, Locks, EpochInv
    <2>3. ASSUME NEW outcome \in SaveOutcomes, ApplyResume(p, s, outcome) PROVE Goal
      <3>1. /\ Quiet /\ owner # None /\ owner' = owner
            /\ disk'.epoch = disk.epoch
        BY <1>0, <2>3
        DEF ApplyResume, Pending, Saved, Locks, EpochInv, HoldsInv, Serving, NativeInv
      <3>2. CASE HeldSpawn(p)
        BY <1>0, <3>1, <3>2, LeaseLaunches
      <3>3. CASE ~HeldSpawn(p)
        BY <2>3, <3>1, <3>3, LeaseStutter DEF ApplyResume, HeldSpawnFails
      <3>4. QED
        BY <3>2, <3>3
    <2>4. QED
      BY <1>2, <2>1, <2>2, <2>3 DEF Apply
  <1>3. ASSUME NEW p \in Supervisors, Serve(p) \/ Stop(p) \/ CellerExit(p) PROVE Goal
    BY <1>2, <1>3, LeaseStutter DEF Serve, FirstExited, SecondExited, Probe, Stop, CellerExit, nativeVars
  <1>4. ASSUME NEW p \in Supervisors, Cleanup(p) PROVE Goal
    <2>1. CASE CleanupSignal(p)
      BY <2>1, LeaseStutter DEF CleanupSignal, serverVars
    <2>2. CASE StopPhase(p)
      BY <1>0, <2>2, LeaseStutter, LeaseEnds
      DEF StopPhase, Release, Locks, EpochInv, Quiet, Running
    <2>3. ASSUME NEW outcome \in SaveOutcomes, Finish(p, outcome) PROVE Goal
      <3>1. Quiet /\ Quiet' /\ owner # None /\ owner' = None /\ launch' = launch
        BY <1>0, <2>3 DEF Finish, Release, Locks, HoldsInv, NativeInv, Quiet, Running
      <3>2. QED
        BY <1>0, <3>1, LeaseEnds
    <2>4. QED
      BY <1>4, <2>1, <2>2, <2>3 DEF Cleanup
  <1>5. ASSUME NEW p \in Supervisors, Crash(p) PROVE Goal
    BY <1>0, <1>5, LeaseEnds DEF Crash, Release, CleanIsQuiet, Quiet, Running
  <1>6. CASE ContainerDies
    <2>1. owner # None /\ owner' = None /\ launch' = launch /\ disk' = disk
      BY <1>0, <1>6 DEF ContainerDies, Release
    <2>2. Quiet'
      BY <1>6 DEF ContainerDies, Quiet, Running
    <2>3. QED
      BY <1>0, <2>1, <2>2, LeaseEnds DEF CleanIsQuiet
  <1>7. ASSUME NEW n \in Launches, Native(n) PROVE Goal
    <2>1. launch' = launch /\ Mode' = Mode
      BY <1>7 DEF Native, NativeLock, NativeFork, NativeExit, serverVars, Mode
    <2>2. Quiet => Quiet'
      BY <1>0, <1>7 DEF Native, NativeLock, NativeFork, NativeExit, Quiet, Running, Held, Procs, Shapes
    <2>3. QED
      BY <2>1, <2>2 DEF Lease!LeaseNext, Lease!Settle, Lease!leaseVars
  <1>8. ASSUME NEW h \in Hosts, Host(h) PROVE Goal
    BY <1>8, LeaseStutter DEF Host, HostBegin, HostRetire, HostPoll, HostConfirmed, HostFinish,
       HostLost, serverVars, nativeVars
  <1>9. CASE Operator
    BY <1>9, LeaseStutter DEF Operator, OperatorCall, OperatorTimeout, serverVars, nativeVars
  <1>10. CASE UNCHANGED vars
    BY <1>10, LeaseStutter DEF vars
  <1>11. QED
    BY <1>1, <1>3, <1>4, <1>5, <1>6, <1>7, <1>8, <1>9, <1>10 DEF Next

(* The supervisor implements the abstract exclusive service. *)
THEOREM LeaseRefined == Spec => ImplementsLease
  <1>1. QED
    BY LeaseInitially, LeaseStep, Invariant, PTL DEF Spec, ImplementsLease, Lease!LeaseSpec
=============================================================================
