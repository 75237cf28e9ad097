------------------------- MODULE ComponentSupervisor -------------------------
(***************************************************************************)
(* The private supervisor that runs Celler and Dolt for one namespace and  *)
(* retires or resumes Dolt while Celler keeps serving:                     *)
(* crates/wrix-service/src/lifecycle/supervisor/, with the host's `stop`   *)
(* that dispatches a retirement behind the component-transition fence.     *)
(*                                                                         *)
(* Three locks and two files carry the safety of the protocol.             *)
(*   ownership              flock, held for the life of one supervisor     *)
(*   dolt-epoch.lock        flock, held by a supervisor or inherited by    *)
(*                          Dolt and every descendant of it                *)
(*   lifecycle.lock         flock, held by one host mutation               *)
(*   component.json         the durable record: intent and epoch           *)
(*   component-transition.json  the host's fence                           *)
(***************************************************************************)
EXTENDS Naturals, FiniteSets

CONSTANTS
    Supervisors,      \* supervisor processes (container starts)
    Hosts,            \* host commands that stop the namespace
    Operators,        \* other callers of the control socket
    Foreign,          \* the operators whose namespace is not the owner's
    OperatorActions,  \* what an operator may ask
    Descendants,      \* native processes Dolt may fork
    Slots,            \* the bounded requests in flight (16 in serve::run)
    MaxLaunch,        \* bound: Dolt launches in one behaviour
    SaveOutcomes,     \* how an Owner::save may end
    None              \* nobody

ASSUME SupervisorAssumption ==
    /\ MaxLaunch \in Nat
    /\ Foreign \subseteq Operators
    /\ OperatorActions \subseteq {"Inspect", "Retire", "Resume"}
    /\ SaveOutcomes \subseteq {"ok", "unsaved", "committed"}
    /\ Hosts \cap Operators = {}
    /\ None \notin Supervisors \cup Hosts \cup Operators
    /\ None \notin {"Active", "Retiring", "Retired", "Busy", "Rejected"}

Main == "main"                       \* the process the supervisor spawned
Procs == {Main} \cup Descendants
Launches == 1 .. MaxLaunch
Callers == Hosts \cup Operators
Intents == {"Active", "Retired"}
Epochs == {"Absent", "Clean", "Serving"}
Actions == {"Inspect", "Retire", "Resume"}
Observations == {"Active", "Retiring", "Retired", "Busy", "Rejected"}
Phases == {"Active", "Retiring", "Draining", "Retired"}

VARIABLES
    owner,    \* holder of the ownership lock
    disk,     \* component.json: [intent, epoch]
    mem,      \* mem[p]: the intent of the record p holds in memory
    pc,       \* pc[p]: where p is in serve::run
    phase,    \* phase[p]: serve::Phase
    child,    \* child[p]: the launch p spawned last, 0 when none
    celler,   \* supervisors whose Celler child is alive
    native,   \* native[n][x]: process x of launch n
    launch,   \* launches so far
    holds,    \* supervisors that hold dolt-epoch.lock
    signaled, \* launches that were sent SIGTERM
    slots,    \* requests accepted and not yet applied
    answer,   \* answer[c]: the reply on its way to caller c
    hpc,      \* hpc[h]: where host command h is in `stop`
    guard,    \* holder of lifecycle.lock
    fence,    \* whether component-transition.json exists
    acked     \* what callers may rely on: Retired since a reply said so,
              \* Active since a Resume was asked for

serverVars == <<owner, disk, mem, pc, phase, child, celler>>
nativeVars == <<native, launch, holds, signaled>>
callVars == <<slots, answer, acked>>
hostVars == <<hpc, guard, fence>>
vars == <<owner, disk, mem, pc, phase, child, celler, native, launch, holds,
          signaled, slots, answer, acked, hpc, guard, fence>>

NoRequest == [by |-> None, action |-> "Inspect", listening |-> FALSE]
Request == [by : Callers, action : Actions, listening : BOOLEAN]

TypeOK ==
    /\ owner \in Supervisors \cup {None}
    /\ disk \in [intent : Intents, epoch : Epochs]
    /\ mem \in [Supervisors -> Intents]
    /\ pc \in [Supervisors -> {"down", "opened", "held", "begun", "spawned",
                               "serving", "stopping", "acquired"}]
    /\ phase \in [Supervisors -> Phases]
    /\ child \in [Supervisors -> 0 .. MaxLaunch]
    /\ celler \in SUBSET Supervisors
    /\ native \in [Launches -> [Procs -> {"unborn", "waiting", "alive", "dead"}]]
    /\ launch \in 0 .. MaxLaunch
    /\ holds \in SUBSET Supervisors
    /\ signaled \in SUBSET (0 .. MaxLaunch)
    /\ slots \in [Slots -> Request \cup {NoRequest}]
    /\ answer \in [Callers -> Observations \cup {None}]
    /\ acked \in Intents
    /\ hpc \in [Hosts -> {"idle", "fenced", "retiring", "polling", "confirmed"}]
    /\ guard \in Hosts \cup {None}
    /\ fence \in BOOLEAN

Init ==
    /\ owner = None
    /\ disk = [intent |-> "Active", epoch |-> "Absent"]
    /\ mem = [p \in Supervisors |-> "Active"]
    /\ pc = [p \in Supervisors |-> "down"]
    /\ phase = [p \in Supervisors |-> "Draining"]
    /\ child = [p \in Supervisors |-> 0]
    /\ celler = {}
    /\ native = [n \in Launches |-> [x \in Procs |-> "unborn"]]
    /\ launch = 0
    /\ holds = {}
    /\ signaled = {}
    /\ slots = [s \in Slots |-> NoRequest]
    /\ answer = [c \in Callers |-> None]
    /\ acked = "Active"
    /\ hpc = [h \in Hosts |-> "idle"]
    /\ guard = None
    /\ fence = FALSE

-----------------------------------------------------------------------------
(* dolt-epoch.lock.  A flock belongs to an open file description: it is    *)
(* free when no supervisor holds it and no process that inherited it lives.*)

Held(n) == \E x \in Procs : native[n][x] = "alive"
(* Mutant: descendants do not inherit the lock. *)
MutLockMainOnly == holds = {} /\ \A n \in Launches : native[n][Main] # "alive"

LockFree == holds = {} /\ \A n \in Launches : ~Held(n)

(* A process of Dolt exists, whether or not it has the lock yet. *)
Running(n) == \E x \in Procs : native[n][x] \in {"waiting", "alive"}
Quiet == \A n \in Launches : ~Running(n)
ChildExited(p) == child[p] = 0 \/ native[child[p]][Main] = "dead"

(* Owner::save writes the in-memory record: "ok" is durable, "unsaved"     *)
(* failed before the rename, "committed" failed after it.                  *)
Saved(outcome, record) == IF outcome = "unsaved" THEN disk ELSE record

(* serve::run returns or the process dies: both of its locks are released, *)
(* its memory is gone, its socket is dead and the requests it had accepted *)
(* are lost.                                                               *)
Release(p) ==
    /\ owner' = None
    /\ holds' = holds \ {p}
    /\ pc' = [pc EXCEPT ![p] = "down"]
    /\ mem' = [mem EXCEPT ![p] = "Active"]
    /\ phase' = [phase EXCEPT ![p] = "Draining"]
    /\ child' = [child EXCEPT ![p] = 0]
    /\ slots' = [s \in Slots |-> NoRequest]

-----------------------------------------------------------------------------
(* serve::run, from Owner::open to the first pass of the loop. *)

Open(p) ==
    /\ pc[p] = "down"
    /\ owner = None
    /\ disk.epoch # "Serving"
    /\ owner' = p
    /\ mem' = [mem EXCEPT ![p] = disk.intent]
    /\ pc' = [pc EXCEPT ![p] = "opened"]
    /\ UNCHANGED <<disk, phase, child, celler, nativeVars, callVars, hostVars>>

AcquireHeld(p) ==
    /\ pc[p] = "opened"
    /\ IF LockFree
         THEN /\ holds' = holds \cup {p}
              /\ pc' = [pc EXCEPT ![p] = "held"]
              /\ UNCHANGED <<owner, mem, phase, child, slots>>
         ELSE Release(p)
    /\ UNCHANGED <<disk, celler, native, launch, signaled,
                   answer, acked, hostVars>>

Begin(p, outcome) ==
    /\ pc[p] = "held"
    /\ disk' = Saved(outcome, [intent |-> mem[p], epoch |-> "Serving"])
    /\ IF outcome = "ok"
         THEN /\ pc' = [pc EXCEPT ![p] = "begun"]
              /\ UNCHANGED <<owner, holds, mem, phase, child, slots>>
         ELSE Release(p)
    /\ UNCHANGED <<celler, native, launch, signaled,
                   answer, acked, hostVars>>

SpawnFirst(p) ==
    /\ pc[p] = "begun"
    /\ celler' = celler \cup {p}
    /\ pc' = [pc EXCEPT ![p] = "spawned"]
    /\ UNCHANGED <<owner, disk, mem, phase, child, nativeVars, callVars, hostVars>>

(* Held::spawn drops the supervisor's lock, then starts the flock helper   *)
(* that takes it again and becomes Dolt.                                   *)
HeldSpawn(p) ==
    /\ launch < MaxLaunch
    /\ launch' = launch + 1
    /\ native' = [native EXCEPT ![launch + 1][Main] = "waiting"]
    /\ child' = [child EXCEPT ![p] = launch + 1]
    /\ holds' = holds \ {p}
    /\ phase' = [phase EXCEPT ![p] = "Active"]

HeldSpawnFails(p) ==
    /\ holds' = holds \ {p}
    /\ phase' = [phase EXCEPT ![p] = "Draining"]
    /\ UNCHANGED <<launch, native, child>>

SpawnSecond(p) ==
    /\ pc[p] = "spawned"
    /\ mem[p] = "Active"
    /\ \/ HeldSpawn(p) /\ pc' = [pc EXCEPT ![p] = "serving"]
       \/ HeldSpawnFails(p) /\ pc' = [pc EXCEPT ![p] = "stopping"]
    /\ UNCHANGED <<owner, disk, mem, celler, signaled, callVars, hostVars>>

StartRetired(p) ==
    /\ pc[p] = "spawned"
    /\ mem[p] = "Retired"
    /\ phase' = [phase EXCEPT ![p] = "Retired"]
    /\ child' = [child EXCEPT ![p] = 0]
    /\ pc' = [pc EXCEPT ![p] = "serving"]
    /\ UNCHANGED <<owner, disk, mem, celler, nativeVars, callVars, hostVars>>

-----------------------------------------------------------------------------
(* The event loop of serve::run. *)

FirstExited(p) ==
    /\ pc[p] = "serving"
    /\ p \notin celler
    /\ pc' = [pc EXCEPT ![p] = "stopping"]
    /\ UNCHANGED <<owner, disk, mem, phase, child, celler, nativeVars, callVars, hostVars>>

(* Mutant: a retiring child that exits does not start the draining. *)
MutSecondExitedIgnored(p) ==
    /\ pc[p] = "serving" /\ phase[p] = "Active" /\ ChildExited(p)
    /\ pc' = [pc EXCEPT ![p] = "stopping"]
    /\ UNCHANGED <<owner, disk, mem, phase, child, celler, nativeVars, callVars, hostVars>>

SecondExited(p) ==
    /\ pc[p] = "serving"
    /\ phase[p] \in {"Active", "Retiring"}
    /\ ChildExited(p)
    /\ \/ /\ phase[p] = "Active"
          /\ pc' = [pc EXCEPT ![p] = "stopping"]
          /\ UNCHANGED phase
       \/ /\ phase[p] = "Retiring"
          /\ phase' = [phase EXCEPT ![p] = "Draining"]
          /\ UNCHANGED pc
    /\ UNCHANGED <<owner, disk, mem, child, celler, nativeVars, callVars, hostVars>>

Probe(p) ==
    /\ pc[p] = "serving"
    /\ phase[p] = "Draining"
    /\ LockFree
    /\ holds' = holds \cup {p}
    /\ phase' = [phase EXCEPT ![p] = "Retired"]
    /\ UNCHANGED <<owner, disk, mem, pc, child, celler, native, launch, signaled,
                   callVars, hostVars>>

(* A signal, a failed accept or a probe that cannot open the lock. *)
Stop(p) ==
    /\ pc[p] = "serving"
    /\ pc' = [pc EXCEPT ![p] = "stopping"]
    /\ UNCHANGED <<owner, disk, mem, phase, child, celler, nativeVars, callVars, hostVars>>

Observed(p) == IF phase[p] \in {"Active", "Retired"} THEN phase[p] ELSE "Retiring"

(* The reply leaves for the caller, unless the caller has gone: the        *)
(* transition is retained either way.                                      *)
Answer(s, observation) ==
    /\ answer' = IF slots[s].listening
                   THEN [answer EXCEPT ![slots[s].by] = observation]
                   ELSE answer
    /\ slots' = [slots EXCEPT ![s] = NoRequest]
    /\ acked' = IF observation = "Retired" THEN "Retired"
                ELSE IF observation # "Rejected" /\ slots[s].action = "Resume" THEN "Active"
                ELSE acked

Pending(p, s, action) ==
    /\ pc[p] = "serving"
    /\ slots[s] # NoRequest
    /\ slots[s].action = action
    /\ slots[s].by \notin Foreign

ApplyForeign(p, s) ==
    /\ pc[p] = "serving"
    /\ slots[s].by \in Foreign
    /\ Answer(s, "Rejected")
    /\ UNCHANGED <<serverVars, nativeVars, hostVars>>

(* Mutant: retirement stops Dolt without recording the intent. *)
MutRetireUnrecorded(p, s, outcome) ==
    /\ Pending(p, s, "Retire") /\ phase[p] = "Active"
    /\ phase' = [phase EXCEPT ![p] = "Retiring"]
    /\ signaled' = signaled \cup {child[p]}
    /\ Answer(s, "Retiring")
    /\ UNCHANGED <<owner, disk, mem, pc, child, celler, native, launch, holds, hostVars>>

ApplyRetire(p, s, outcome) ==
    /\ Pending(p, s, "Retire")
    /\ phase[p] = "Active"
    /\ mem' = [mem EXCEPT ![p] = "Retired"]
    /\ disk' = Saved(outcome, [intent |-> "Retired", epoch |-> "Serving"])
    /\ \/ /\ outcome = "ok"
          /\ phase' = [phase EXCEPT ![p] = "Retiring"]
          /\ signaled' = signaled \cup {child[p]}
          /\ Answer(s, "Retiring")
       \/ /\ Answer(s, "Busy")          \* the save or the signal failed
          /\ UNCHANGED <<phase, signaled>>
    /\ UNCHANGED <<owner, pc, child, celler, native, launch, holds, hostVars>>

(* Mutant: a resume while an older epoch is still draining. *)
MutResumeDraining(p, s, outcome) ==
    /\ Pending(p, s, "Resume") /\ phase[p] \in {"Draining", "Retired"}
    /\ mem' = [mem EXCEPT ![p] = "Active"]
    /\ disk' = Saved(outcome, [intent |-> "Active", epoch |-> "Serving"])
    /\ outcome = "ok"
    /\ HeldSpawn(p)
    /\ Answer(s, "Active")
    /\ UNCHANGED <<owner, pc, celler, signaled, hostVars>>

ApplyResume(p, s, outcome) ==
    /\ Pending(p, s, "Resume")
    /\ phase[p] = "Retired"
    /\ mem' = [mem EXCEPT ![p] = "Active"]
    /\ disk' = Saved(outcome, [intent |-> "Active", epoch |-> "Serving"])
    /\ \/ /\ outcome = "ok"
          /\ HeldSpawn(p)
          /\ Answer(s, "Active")
       \/ /\ outcome = "ok"
          /\ HeldSpawnFails(p)
          /\ Answer(s, "Busy")
       \/ /\ outcome # "ok"
          /\ Answer(s, "Busy")
          /\ UNCHANGED <<phase, child, native, launch, holds>>
    /\ UNCHANGED <<owner, pc, celler, signaled, hostVars>>

ApplyResumeBusy(p, s) ==
    /\ Pending(p, s, "Resume")
    /\ phase[p] \in {"Retiring", "Draining"}
    /\ Answer(s, "Busy")
    /\ UNCHANGED <<serverVars, nativeVars, hostVars>>

ApplyObserve(p, s) ==
    /\ \/ Pending(p, s, "Inspect")
       \/ Pending(p, s, "Retire") /\ phase[p] # "Active"
       \/ Pending(p, s, "Resume") /\ phase[p] = "Active"
    /\ Answer(s, Observed(p))
    /\ UNCHANGED <<serverVars, nativeVars, hostVars>>

-----------------------------------------------------------------------------
(* cleanup: join(stop_child(first), stop_phase(phase)), then finish. *)

CleanupSignal(p) ==
    /\ pc[p] = "stopping"
    /\ phase[p] \in {"Active", "Retiring"}
    /\ child[p] \notin signaled
    /\ ~ChildExited(p)
    /\ signaled' = signaled \cup {child[p]}
    /\ UNCHANGED <<serverVars, native, launch, holds, callVars, hostVars>>

(* Mutant: cleanup does not wait for Celler. *)
MutStopBesideCeller(p) ==
    /\ pc[p] = "stopping"
    /\ phase[p] \in {"Active", "Retiring"} => ChildExited(p)
    /\ phase[p] = "Retired" \/ LockFree
    /\ holds' = holds \cup {p}
    /\ pc' = [pc EXCEPT ![p] = "acquired"]
    /\ UNCHANGED <<owner, disk, mem, phase, child, celler, native, launch, signaled,
                   slots, answer, acked, hostVars>>

StopPhase(p) ==
    /\ pc[p] = "stopping"
    /\ p \notin celler
    /\ phase[p] \in {"Active", "Retiring"} => ChildExited(p)
    /\ IF phase[p] = "Retired" \/ LockFree
         THEN /\ holds' = holds \cup {p}
              /\ pc' = [pc EXCEPT ![p] = "acquired"]
              /\ UNCHANGED <<owner, mem, phase, child, slots>>
         ELSE Release(p)                 \* Error::Unclean, the epoch stays Serving
    /\ UNCHANGED <<disk, celler, native, launch, signaled,
                   answer, acked, hostVars>>

Finish(p, outcome) ==
    /\ pc[p] = "acquired"
    /\ disk' = Saved(outcome, [intent |-> mem[p], epoch |-> "Clean"])
    /\ Release(p)
    /\ UNCHANGED <<celler, native, launch, signaled, answer, acked, hostVars>>

(* The process is killed, or an error path of serve::run returns without   *)
(* reaching finish: its children are left alone (kill_on_drop is false).   *)
Crash(p) ==
    /\ pc[p] # "down"
    /\ Release(p)
    /\ UNCHANGED <<disk, celler, native, launch, signaled, answer, acked, hostVars>>

(* The container dies and takes every process in it. *)
ContainerDies ==
    /\ \E p \in Supervisors : pc[p] # "down" /\ Release(p)
    /\ celler' = {}
    /\ native' = [n \in Launches |-> [x \in Procs |->
                    IF native[n][x] \in {"waiting", "alive"} THEN "dead" ELSE native[n][x]]]
    /\ UNCHANGED <<disk, launch, signaled, answer, acked, hostVars>>

-----------------------------------------------------------------------------
(* Native processes (the flock helper, Dolt, what Dolt forks, Celler). *)

NativeLock(n) ==
    /\ native[n][Main] = "waiting"
    /\ native' = [native EXCEPT ![n][Main] = IF LockFree THEN "alive" ELSE "dead"]
    /\ UNCHANGED <<serverVars, launch, holds, signaled, callVars, hostVars>>

NativeFork(n, x) ==
    /\ Held(n)
    /\ native[n][x] = "unborn"
    /\ native' = [native EXCEPT ![n][x] = "alive"]
    /\ UNCHANGED <<serverVars, launch, holds, signaled, callVars, hostVars>>

NativeExit(n, x) ==
    /\ native[n][x] \in {"waiting", "alive"}
    /\ native' = [native EXCEPT ![n][x] = "dead"]
    /\ UNCHANGED <<serverVars, launch, holds, signaled, callVars, hostVars>>

CellerExit(p) ==
    /\ p \in celler
    /\ celler' = celler \ {p}
    /\ UNCHANGED <<owner, disk, mem, pc, phase, child, nativeVars, callVars, hostVars>>

-----------------------------------------------------------------------------
(* Callers of the control socket: client::request. *)

Waiting(c) == \E s \in Slots : slots[s].by = c /\ slots[s].listening

Call(c, s, action) ==
    /\ \E p \in Supervisors : pc[p] = "serving"
    /\ slots[s] = NoRequest
    /\ ~Waiting(c)
    /\ slots' = [slots EXCEPT ![s] = [by |-> c, action |-> action, listening |-> TRUE]]

OperatorCall(c, s, action) ==
    /\ Call(c, s, action)
    /\ answer' = [answer EXCEPT ![c] = None]
    /\ UNCHANGED <<serverVars, nativeVars, acked, hostVars>>

(* The three-second budget ends: the caller leaves, its request does not. *)
OperatorTimeout(s) ==
    /\ slots[s].by \in Operators
    /\ slots[s].listening
    /\ slots' = [slots EXCEPT ![s].listening = FALSE]
    /\ UNCHANGED <<serverVars, nativeVars, answer, acked, hostVars>>

-----------------------------------------------------------------------------
(* The host's `stop` of a namespace whose container supervises components: *)
(* fence, retire, poll, and clear the fence on the matching observation.   *)

HostBegin(h) ==
    /\ hpc[h] = "idle"
    /\ guard = None
    /\ ~fence
    /\ guard' = h
    /\ fence' = TRUE
    /\ hpc' = [hpc EXCEPT ![h] = "fenced"]
    /\ UNCHANGED <<serverVars, nativeVars, callVars>>

HostRetire(h, s) ==
    /\ hpc[h] = "fenced"
    /\ Call(h, s, "Retire")
    /\ answer' = [answer EXCEPT ![h] = None]
    /\ hpc' = [hpc EXCEPT ![h] = "retiring"]
    /\ UNCHANGED <<serverVars, nativeVars, acked, guard, fence>>

HostPoll(h, s) ==
    /\ hpc[h] \in {"retiring", "polling"}
    /\ answer[h] = "Retiring"
    /\ Call(h, s, "Inspect")
    /\ answer' = [answer EXCEPT ![h] = None]
    /\ hpc' = [hpc EXCEPT ![h] = "polling"]
    /\ UNCHANGED <<serverVars, nativeVars, acked, guard, fence>>

HostConfirmed(h) ==
    /\ hpc[h] \in {"retiring", "polling"}
    /\ answer[h] = "Retired"
    /\ answer' = [answer EXCEPT ![h] = None]
    /\ hpc' = [hpc EXCEPT ![h] = "confirmed"]
    /\ UNCHANGED <<serverVars, nativeVars, slots, acked, guard, fence>>

HostFinish(h) ==
    /\ hpc[h] = "confirmed"
    /\ fence' = FALSE
    /\ guard' = None
    /\ hpc' = [hpc EXCEPT ![h] = "idle"]
    /\ UNCHANGED <<serverVars, nativeVars, callVars>>

(* Mutant: a failed command removes its fence on the way out. *)
MutHostLostUnfences(h) ==
    /\ hpc[h] # "idle"
    /\ hpc' = [hpc EXCEPT ![h] = "idle"]
    /\ guard' = None
    /\ fence' = FALSE
    /\ answer' = [answer EXCEPT ![h] = None]
    /\ slots' = [s \in Slots |-> IF slots[s].by = h
                                   THEN [slots[s] EXCEPT !.listening = FALSE]
                                   ELSE slots[s]]
    /\ UNCHANGED <<serverVars, nativeVars, acked>>

(* A busy or refused answer, the ten-second budget, a failed transport or  *)
(* the death of the command: the fence stays behind.                       *)
HostLost(h) ==
    /\ hpc[h] # "idle"
    /\ hpc' = [hpc EXCEPT ![h] = "idle"]
    /\ guard' = None
    /\ answer' = [answer EXCEPT ![h] = None]
    /\ slots' = [s \in Slots |-> IF slots[s].by = h
                                   THEN [slots[s] EXCEPT !.listening = FALSE]
                                   ELSE slots[s]]
    /\ UNCHANGED <<serverVars, nativeVars, acked, fence>>

-----------------------------------------------------------------------------
Start(p) ==
    \/ Open(p) \/ AcquireHeld(p) \/ SpawnFirst(p) \/ SpawnSecond(p) \/ StartRetired(p)
    \/ \E outcome \in SaveOutcomes : Begin(p, outcome)

Apply(p, s) ==
    \/ ApplyForeign(p, s) \/ ApplyResumeBusy(p, s) \/ ApplyObserve(p, s)
    \/ \E outcome \in SaveOutcomes : ApplyRetire(p, s, outcome) \/ ApplyResume(p, s, outcome)

Cleanup(p) ==
    \/ CleanupSignal(p) \/ StopPhase(p)
    \/ \E outcome \in SaveOutcomes : Finish(p, outcome)

Serve(p) ==
    \/ FirstExited(p) \/ SecondExited(p) \/ Probe(p)
    \/ \E s \in Slots : Apply(p, s)

Native(n) ==
    \/ NativeLock(n)
    \/ \E x \in Descendants : NativeFork(n, x)
    \/ \E x \in Procs : NativeExit(n, x)

Host(h) ==
    \/ HostBegin(h) \/ HostConfirmed(h) \/ HostFinish(h) \/ HostLost(h)
    \/ \E s \in Slots : HostRetire(h, s) \/ HostPoll(h, s)

Operator ==
    \/ \E c \in Operators, s \in Slots, action \in OperatorActions : OperatorCall(c, s, action)
    \/ \E s \in Slots : OperatorTimeout(s)

Next ==
    \/ \E p \in Supervisors : Start(p) \/ Serve(p) \/ Stop(p) \/ Cleanup(p) \/ Crash(p)
                              \/ CellerExit(p)
    \/ ContainerDies
    \/ \E n \in Launches : Native(n)
    \/ \E h \in Hosts : Host(h)
    \/ Operator

Spec == Init /\ [][Next]_vars

(* What the runtime schedules: the loop of a live supervisor turns, and a  *)
(* process that was sent SIGTERM exits, with the ones it forked.           *)
Fairness ==
    /\ \A p \in Supervisors :
         /\ WF_vars(SecondExited(p)) /\ WF_vars(Probe(p)) /\ WF_vars(FirstExited(p))
         /\ WF_vars(Cleanup(p))
         /\ WF_vars(CellerExit(p) /\ pc[p] = "stopping")
    /\ \A n \in Launches, x \in Procs : WF_vars(NativeExit(n, x) /\ n \in signaled)

FairSpec == Spec /\ Fairness

-----------------------------------------------------------------------------
(* Properties. *)

(* At most one Dolt epoch has a process that holds the epoch lock, and no   *)
(* supervisor holds it at the same time: neither a retirement that left     *)
(* descendants behind, nor a resume, a crash or a restart, ever puts two    *)
(* epochs on one data directory (hold::Held, serve::run).                   *)
SingleEpoch ==
    /\ \A n, m \in Launches : Held(n) /\ Held(m) => n = m
    /\ holds # {} => \A n \in Launches : ~Held(n)

(* The drop-then-respawn window of Held::spawn is never contended: while a  *)
(* flock helper waits for the epoch lock nobody has it, so the one-second   *)
(* wait cannot end in exit code 75 and take the whole supervisor down.      *)
HandoffUncontended ==
    \A n \in Launches : native[n][Main] = "waiting" => LockFree

(* A record that lets a new supervisor start (no record, or a clean epoch)  *)
(* is never on disk while a native process of an earlier epoch is alive     *)
(* (Owner::finish: "call only after observing both native child exits").    *)
CleanIsQuiet == disk.epoch # "Serving" => Quiet /\ celler = {}

(* A supervisor that answers Retired has no Dolt process behind it, not     *)
(* even a descendant that outlived the main child (client::retire:          *)
(* completion requires exit and inherited-epoch exclusion).                 *)
RetiredIsQuiet ==
    \A p \in Supervisors : pc[p] = "serving" /\ phase[p] = "Retired" => Quiet

(* A host retirement that may still be dispatched or applied is always      *)
(* covered by the fence, so no second mutation is let through meanwhile     *)
(* (transition.rs: a lost caller never authorizes another mutation).        *)
DispatchIsFenced ==
    /\ \A h \in Hosts : hpc[h] # "idle" => fence /\ guard = h
    /\ \A s \in Slots : slots[s].by \in Hosts /\ slots[s].action = "Retire" => fence

(* Dolt is started only under a durable Active intent: a start after a      *)
(* retirement that reached the disk leaves Dolt down.                       *)
LaunchAuthorized == [][launch' # launch => disk'.intent = "Active"]_vars

(* Once a serving epoch has lost its owner, nobody serves, launches or      *)
(* rewrites the record again: only explicit reconciliation may.             *)
UncleanIsFinal ==
    [][disk.epoch = "Serving" /\ owner = None
         => disk' = disk /\ launch' = launch /\ owner' = None]_vars

(* A retirement that was confirmed to a caller is not undone by a restart   *)
(* (test clean_restart_retains_retirement_instead_of_resurrecting_the_      *)
(* namespace): Dolt is started again only when a Resume was asked for since. *)
NoResurrection == [][launch' # launch => acked' = "Active"]_vars

(* A retirement in progress completes, or its supervisor stops serving.     *)
RetirementCompletes ==
    \A p \in Supervisors :
        (pc[p] = "serving" /\ phase[p] \in {"Retiring", "Draining"})
            ~> (phase[p] = "Retired" \/ pc[p] # "serving")

-----------------------------------------------------------------------------
(* The inductive invariant behind the safety properties. *)

Serving(p) == pc[p] \in {"serving", "stopping"}

(* The ownership lock: exactly the process that is not down has it. *)
OwnerInv == \A p \in Supervisors : pc[p] # "down" <=> owner = p

(* The record on disk against the place of the owner in serve::run. *)
EpochInv ==
    \A p \in Supervisors :
        /\ pc[p] \in {"opened", "held"} => disk.epoch # "Serving"
        /\ pc[p] \in {"begun", "spawned", "serving", "stopping", "acquired"}
             => disk.epoch = "Serving"
        /\ pc[p] \in {"begun", "spawned"} => disk.intent = mem[p]

(* dolt-epoch.lock is with the owner exactly where serve::run has a Held. *)
HoldsInv ==
    \A p \in Supervisors :
        p \in holds <=> \/ pc[p] \in {"held", "begun", "spawned", "acquired"}
                        \/ Serving(p) /\ phase[p] = "Retired"

(* Native processes: a supervisor that has the lock has none left, only the *)
(* main process waits, and it waits as the current child of a live owner or *)
(* as an orphan.                                                            *)
NativeInv ==
    /\ holds # {} => Quiet
    /\ \A n, m \in Launches : Running(n) /\ Running(m) => n = m
    /\ \A n \in Launches, x \in Procs :
         /\ native[n][x] = "waiting" => x = Main /\ LockFree
         /\ native[n][x] # "unborn" => n <= launch
    /\ \A n \in Launches, p \in Supervisors :
         owner = p /\ native[n][Main] = "waiting"
           => Serving(p) /\ phase[p] \in {"Active", "Retiring"} /\ child[p] = n

ChildInv ==
    \A p \in Supervisors :
        Serving(p) /\ phase[p] \in {"Active", "Retiring"} => child[p] \in 1 .. launch

CellerInv ==
    \A p \in Supervisors : owner = p =>
        /\ celler \subseteq {p}
        /\ pc[p] = "acquired" => celler = {}

(* A retirement of the host that is still in flight belongs to the command  *)
(* that holds the guard and waits for it, or to one that left its fence.    *)
HostRetirement(s) == slots[s].by \in Hosts /\ slots[s].action = "Retire"

DispatchInv ==
    /\ \A h \in Hosts : hpc[h] # "idle" => fence /\ guard = h
    /\ \A s \in Slots : HostRetirement(s) =>
         /\ fence
         /\ \A h \in Hosts : hpc[h] # "idle" =>
              /\ hpc[h] = "retiring" /\ answer[h] = None
              /\ slots[s].by = h /\ slots[s].listening
    /\ \A s, t \in Slots :
         \/ HostRetirement(s) /\ HostRetirement(t)
         \/ slots[s].listening /\ slots[t].listening /\ slots[s].by = slots[t].by
         => s = t

IInv ==
    /\ TypeOK
    /\ OwnerInv /\ EpochInv /\ HoldsInv /\ NativeInv /\ ChildInv /\ CellerInv
    /\ CleanIsQuiet /\ DispatchInv

-----------------------------------------------------------------------------
(* The supervisor implements ExclusiveService. *)

Mode == IF owner # None THEN "Owned"
        ELSE IF disk.epoch = "Serving" THEN "Abandoned" ELSE "Vacant"

Lease == INSTANCE ExclusiveService WITH mode <- Mode, running <- ~Quiet, launches <- launch

(* Every step of the supervisor, its callers, its native processes and its  *)
(* crashes is a step of the abstract service or leaves it unchanged.        *)
ImplementsLease == Lease!LeaseSpec
=============================================================================
