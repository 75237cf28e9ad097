------------------------------ MODULE HostUpdate ------------------------------
(***************************************************************************)
(* The host-wide lifecycle of the shared backend: `service update`,        *)
(* `--resume` and `--cancel`, `service stop --host` and `service start`,   *)
(* run by separate processes that may die at any point.                    *)
(* crates/wrix-service/src/lifecycle/deployment, lifecycle/owner/host.rs,  *)
(* lifecycle/generation and nix_store/lifecycle.                           *)
(*                                                                         *)
(* Three locks order the commands.                                         *)
(*   service-update           exclusive: update and cancel                 *)
(*   nix-pool-lifecycle.lock  tried, never awaited: exclusive for update,  *)
(*                            cancel and host stop, shared for admission   *)
(*   host-lifecycle           exclusive: one backend transition            *)
(* Everything else is a file, which outlives the process that wrote it.    *)
(* A step that the code refuses with an error is not enabled; the process  *)
(* then ends by Die, exactly as if it had been killed there.               *)
(***************************************************************************)
EXTENDS Naturals, FiniteSets

CONSTANTS
    Procs,            \* command-line processes
    Commands,         \* the commands they run
    Versions,         \* exact image and package bindings
    Old,              \* the binding deployed at the start
    Pooled,           \* whether the host has provisioned Nix pools
    Provisioned,      \* whether routing generations exist at the start
    None              \* nothing, nobody

ASSUME HostUpdateAssumption ==
    /\ Old \in Versions
    /\ Commands \subseteq {"update", "resume", "cancel", "stop", "start"}
    /\ None \notin Versions \cup Procs
    /\ Pooled \in BOOLEAN
    /\ Provisioned \in BOOLEAN

UpdatePhases == {"Prepared", "Preparing", "Draining", "Releasing", "Released",
                 "Starting", "Checking", "Activated"}
Failures == {"none", "BackendDrain", "NativeReadiness", "PoolReadiness"}
Operations == {"none", "update", "resume", "stop", "start", "cancel"}

VARIABLES
    intent,       \* update.json
    shutdown,     \* shutdown.json
    marker,       \* the pool maintenance marker
    selected,     \* celler-owner.json: the binding of the selected backend
    candidate,    \* celler-candidate/celler-owner.json
    native,       \* whether shared.json records native ports
    plan,         \* the routing plan: backend, gateway, admission open
    controller,   \* package.json and the `stopped` file
    checkpoint,   \* the checkpoint of the attempt in update.json: none, exact,
                  \* or stale: the data was opened by another version since
    archived,     \* its cancelled-update file
    container,    \* the backend container
    updateLock, gate, hostLock,
    proc,         \* what each process is doing
    data,         \* history: the version that opened the data last
    touched       \* history: whether the attempt changed a native owner

documents == <<intent, shutdown, marker>>
owners == <<selected, candidate>>
core == <<native, plan, controller>>
evidence == <<archived, touched>>
world == <<container, data, checkpoint>>
locks == <<updateLock, gate, hostLock>>
vars == <<intent, shutdown, marker, selected, candidate, native, plan,
          controller, checkpoint, archived, container, updateLock, gate,
          hostLock, proc, data, touched>>

Intent == [target : Versions, phase : UpdatePhases, failure : Failures,
           owned : BOOLEAN]
NoIntent == [target |-> None, phase |-> "Prepared", failure |-> "none",
             owned |-> FALSE]
Shutdown == [phase : {"stopping", "stopped", "resuming"},
             image : Versions, package : Versions]
NoShutdown == [phase |-> "none", image |-> None, package |-> None]
Marker == [kind : {"update", "shutdown"}, target : Versions \cup {None}]
NoMarker == [kind |-> "none", target |-> None]
Plan == [backend : Versions, gateway : Versions, open : BOOLEAN]
NoPlan == [backend |-> None, gateway |-> None, open |-> FALSE]

Points == {"idle", "record", "prepare", "pools", "check", "control", "gateway",
           "own", "drain", "close", "quiesce", "releasing", "release",
           "exiting", "checkpoint", "released", "remove", "starting", "ensure",
           "launch", "ready", "commit", "retire", "ensured", "activate",
           "activated", "finalize", "finish",
           "gate", "lock", "halt", "confirm", "resumed", "fence",
           "admit", "archived"}

NoProc == [op |-> "none", pc |-> "idle", mine |-> NoIntent,
           seen |-> "Running", saw |-> NoShutdown]

TypeOK ==
    /\ intent \in Intent \cup {NoIntent}
    /\ shutdown \in Shutdown \cup {NoShutdown}
    /\ marker \in Marker \cup {NoMarker}
    /\ selected \in Versions
    /\ candidate \in Versions \cup {None}
    /\ native \in BOOLEAN
    /\ plan \in Plan \cup {NoPlan}
    /\ controller \in [package : Versions, stopped : BOOLEAN]
    /\ checkpoint \in {"none", "exact", "stale"}
    /\ archived \in Intent \cup {NoIntent}
    /\ container \in [status : {"Running", "Stopped", "Missing"},
                      image : Versions, drained : BOOLEAN,
                      releasing : BOOLEAN, clean : BOOLEAN]
    /\ updateLock \in Procs \cup {None}
    /\ gate \in [owner : Procs \cup {None}, readers : SUBSET Procs]
    /\ hostLock \in Procs \cup {None}
    /\ proc \in [Procs -> [op : Operations, pc : Points,
                           mine : Intent \cup {NoIntent},
                           seen : {"Running", "Stopped", "Missing"},
                           saw : Shutdown \cup {NoShutdown}]]
    /\ data \in Versions
    /\ touched \in BOOLEAN

Init ==
    /\ intent = NoIntent
    /\ shutdown = NoShutdown
    /\ marker = NoMarker
    /\ selected = Old
    /\ candidate = None
    /\ native = Provisioned
    /\ plan = IF Provisioned
                THEN [backend |-> Old, gateway |-> Old, open |-> TRUE]
                ELSE NoPlan
    /\ controller = [package |-> Old, stopped |-> FALSE]
    /\ checkpoint = "none"
    /\ archived = NoIntent
    /\ container = [status |-> "Running", image |-> Old, drained |-> FALSE,
                    releasing |-> FALSE, clean |-> FALSE]
    /\ updateLock = None
    /\ gate = [owner |-> None, readers |-> {}]
    /\ hostLock = None
    /\ proc = [p \in Procs |-> NoProc]
    /\ data = Old
    /\ touched = FALSE

-----------------------------------------------------------------------------
(* Locks, reading and publishing. *)

Running == container.status = "Running"
Updating == intent # NoIntent
HasPlan == plan # NoPlan

(* recorded_owner: a pending candidate stands before the selection. *)
Owner == IF candidate # None THEN candidate ELSE selected

At(p, op, point) == proc[p].op = op /\ proc[p].pc = point
Goto(p, point) == proc' = [proc EXCEPT ![p].pc = point]

Begins(p, command) == proc[p].pc = "idle" /\ command \in Commands

GateFree == gate.owner = None /\ gate.readers = {}
TakeGate(p) == GateFree /\ gate' = [gate EXCEPT !.owner = p]
TakeHost(p) == hostLock = None /\ hostLock' = p

(* The process returns, with or without an error: its locks are released. *)
End(p) ==
    /\ updateLock' = IF updateLock = p THEN None ELSE updateLock
    /\ hostLock' = IF hostLock = p THEN None ELSE hostLock
    /\ gate' = [owner |-> IF gate.owner = p THEN None ELSE gate.owner,
                readers |-> gate.readers \ {p}]
    /\ proc' = [proc EXCEPT ![p] = NoProc]

Die(p) ==
    /\ proc[p].pc # "idle"
    /\ End(p)
    /\ UNCHANGED <<documents, owners, core, evidence, world>>

(* The update writes update.json from its own copy. *)
PublishAs(p, mine, point) ==
    /\ intent' = mine
    /\ proc' = [proc EXCEPT ![p].op = "update", ![p].mine = mine, ![p].pc = point]

Publish(p, phase, point) ==
    PublishAs(p, [proc[p].mine EXCEPT !.phase = phase], point)

(* Publish a failure and return the error. *)
Refuse(p, failure) ==
    /\ intent' = [proc[p].mine EXCEPT !.failure = failure]
    /\ End(p)

(* A backend of version v opens the persistent data. *)
Opens(v) ==
    /\ container' = [status |-> "Running", image |-> v, drained |-> FALSE,
                     releasing |-> FALSE, clean |-> FALSE]
    /\ data' = v
    /\ checkpoint' = IF checkpoint = "exact" /\ v # intent.target
                       THEN "stale" ELSE checkpoint

(* update.json is removed.  Its attempt is unique, so what is filed under  *)
(* it is not looked up again.                                              *)
RemoveIntent ==
    /\ intent' = NoIntent
    /\ checkpoint' = "none"
    /\ archived' = NoIntent
    /\ touched' = FALSE

-----------------------------------------------------------------------------
(* `service update` and `service update --resume`: update::run_reported. *)

UpdateBegin(p, v) ==
    /\ Begins(p, "update")
    /\ updateLock = None
    /\ updateLock' = p
    /\ proc' = [proc EXCEPT ![p] = [NoProc EXCEPT !.op = "update", !.pc = "record",
                  !.mine = [target |-> v, phase |-> "Prepared", failure |-> "none",
                            owned |-> FALSE]]]
    /\ UNCHANGED <<documents, owners, core, evidence, world, gate, hostLock>>

ResumeBegin(p) ==
    /\ Begins(p, "resume")
    /\ updateLock = None
    /\ hostLock = None
    /\ Updating
    /\ updateLock' = p
    /\ proc' = [proc EXCEPT ![p] = [NoProc EXCEPT !.op = "resume", !.pc = "record",
                                                  !.mine = intent]]
    /\ UNCHANGED <<documents, owners, core, evidence, world, gate, hostLock>>

(* A retained intent is adopted when it has the same target. *)
UpdateRecord(p) ==
    /\ proc[p].pc = "record"
    /\ hostLock = None
    /\ IF Updating
         THEN /\ intent.target = proc[p].mine.target
              /\ proc[p].op = "resume" => intent = proc[p].mine
              /\ PublishAs(p, intent, "prepare")
         ELSE /\ proc[p].op = "update"
              /\ PublishAs(p, proc[p].mine, "prepare")
    /\ UNCHANGED <<shutdown, marker, owners, core, evidence, world, locks>>

UpdatePrepare(p) ==
    /\ At(p, "update", "prepare")
    /\ hostLock = None
    /\ IF proc[p].mine.phase = "Prepared"
         THEN /\ intent = proc[p].mine
              /\ Publish(p, "Preparing", "pools")
         ELSE /\ Goto(p, "pools")
              /\ UNCHANGED intent
    /\ UNCHANGED <<shutdown, marker, owners, core, evidence, world, locks>>

(* recovery::retire_missing_gateways: an obsolete gateway vanished without  *)
(* a receipt, so the completed host shutdown is run once more.  Dying      *)
(* inside it leaves what a host stop that died leaves.                     *)
UpdateRetireGateways(p) ==
    /\ At(p, "update", "pools")
    /\ GateFree /\ hostLock = None
    /\ HasPlan /\ ~Running
    /\ shutdown.phase = "stopped"
    /\ selected = shutdown.image /\ Owner = selected
    /\ marker' = IF marker.kind = "update" THEN marker ELSE NoMarker
    /\ shutdown' = [shutdown EXCEPT !.package = controller.package]
    /\ controller' = [controller EXCEPT !.stopped = TRUE]
    /\ UNCHANGED <<intent, owners, native, plan, evidence, world, locks, proc>>

(* Update::begin or Update::unprovisioned: pool admission is fenced until   *)
(* the update completes.                                                   *)
UpdatePools(p) ==
    LET mine == [kind |-> "update", target |-> proc[p].mine.target]
    IN  /\ At(p, "update", "pools")
        /\ TakeGate(p)
        /\ marker \in {NoMarker, mine}
        /\ marker' = IF Pooled THEN mine ELSE marker
        /\ Goto(p, "check")
        /\ UNCHANGED <<intent, shutdown, owners, core, evidence, world,
                       updateLock, hostLock>>

(* recovery::repair_endpoints stops a controller that leased other ports:   *)
(* only under a completed shutdown, without a plan or a candidate, before  *)
(* ownership or with the checkpoint of a transition that had started.      *)
RepairsEndpoints(p) ==
    /\ shutdown.phase = "stopped" /\ shutdown.image = Owner
    /\ ~HasPlan /\ candidate = None
    /\ controller.package \in {shutdown.package, proc[p].mine.target}
    /\ \/ /\ ~proc[p].mine.owned /\ proc[p].mine.phase \in {"Prepared", "Preparing"}
          /\ container.status = "Stopped"
       \/ /\ proc[p].mine.owned /\ proc[p].mine.phase = "Starting"
          /\ container.status = "Missing" /\ checkpoint # "none"

UpdateCheck(p) ==
    /\ At(p, "update", "check")
    /\ hostLock = None
    /\ intent = proc[p].mine
    /\ candidate \in {None, proc[p].mine.target}
    /\ IF Running /\ ~HasPlan
         THEN Refuse(p, "BackendDrain") /\ UNCHANGED controller
         ELSE LET mine == [proc[p].mine EXCEPT !.failure = "none"]
              IN  /\ \E repair \in BOOLEAN :
                        /\ repair => RepairsEndpoints(p)
                        /\ controller' = [controller EXCEPT !.stopped = @ \/ repair]
                  /\ hostLock' = p
                  /\ intent' = mine
                  /\ proc' = [proc EXCEPT ![p].mine = mine, ![p].pc = "control",
                                          ![p].seen = container.status]
                  /\ UNCHANGED <<updateLock, gate>>
    /\ UNCHANGED <<shutdown, marker, owners, native, plan, evidence, world>>

(* A stopped controller is upgraded; a running one must answer. *)
UpdateControl(p) ==
    /\ At(p, "update", "control")
    /\ IF controller.stopped
         THEN /\ controller' = [package |-> proc[p].mine.target, stopped |-> FALSE]
              /\ touched' = TRUE
         ELSE UNCHANGED <<controller, touched>>
    /\ Goto(p, "gateway")
    /\ UNCHANGED <<documents, owners, native, plan, archived, world, locks>>

(* generation::prepare_gateway; without a plan there is nothing to prepare. *)
UpdateGateway(p) ==
    /\ At(p, "update", "gateway")
    /\ IF HasPlan
         THEN /\ plan' = [plan EXCEPT !.gateway = proc[p].mine.target,
                                      !.open = plan.open /\ Running]
              /\ touched' = TRUE
         ELSE UNCHANGED <<plan, touched>>
    /\ Goto(p, "own")
    /\ UNCHANGED <<documents, owners, native, controller, archived, world, locks>>

Replaces(p) == Owner # proc[p].mine.target \/ ~HasPlan

UpdateOwn(p) ==
    /\ At(p, "update", "own")
    /\ IF Replaces(p)
         THEN /\ PublishAs(p, [proc[p].mine EXCEPT !.owned = TRUE], "drain")
              /\ touched' = TRUE
         ELSE /\ Goto(p, "ensure")
              /\ UNCHANGED <<intent, touched>>
    /\ UNCHANGED <<shutdown, marker, owners, core, archived, world, locks>>

(* Whether to drain and release is decided on the status read at the check; *)
(* an update that was already releasing does not drain again.              *)
UpdateDrain(p) ==
    /\ At(p, "update", "drain")
    /\ IF proc[p].seen = "Running" \/ proc[p].mine.phase = "Releasing"
         THEN IF proc[p].mine.phase \in {"Releasing", "Released", "Starting"}
                THEN Goto(p, "release") /\ UNCHANGED intent
                ELSE Publish(p, "Draining", "close")
         ELSE Goto(p, "checkpoint") /\ UNCHANGED intent
    /\ UNCHANGED <<shutdown, marker, owners, core, evidence, world, locks>>

UpdateClose(p) ==
    /\ At(p, "update", "close")
    /\ HasPlan
    /\ plan' = [plan EXCEPT !.open = FALSE]
    /\ Goto(p, "quiesce")
    /\ UNCHANGED <<documents, owners, native, controller, evidence, world, locks>>

UpdateQuiesced(p) ==
    /\ At(p, "update", "quiesce")
    /\ Running
    /\ container' = [container EXCEPT !.drained = TRUE]
    /\ Goto(p, "releasing")
    /\ UNCHANGED <<documents, owners, core, evidence, data, checkpoint, locks>>

(* The budget ran out or a role did not answer.  Admission is reopened only *)
(* when every role confirmed that it serves again.                         *)
UpdateBusy(p, aborted) ==
    /\ At(p, "update", "quiesce")
    /\ aborted => Running
    /\ Refuse(p, "BackendDrain")
    /\ plan' = [plan EXCEPT !.open = aborted]
    /\ container' = [container EXCEPT !.drained = @ /\ ~aborted]
    /\ UNCHANGED <<shutdown, marker, owners, native, controller, evidence,
                   data, checkpoint>>

UpdateReleasing(p) ==
    /\ At(p, "update", "releasing")
    /\ Publish(p, "Releasing", "release")
    /\ UNCHANGED <<shutdown, marker, owners, core, evidence, world, locks>>

(* backend::release: the planned stop and the release of both trackers are *)
(* accepted only by drained roles; the container then exits by itself.     *)
UpdateRelease(p) ==
    /\ At(p, "update", "release")
    /\ Running => container.drained
    /\ container' = [container EXCEPT !.releasing = Running]
    /\ Goto(p, "exiting")
    /\ UNCHANGED <<documents, owners, core, evidence, data, checkpoint, locks>>

(* clean_exit: stopped, zero exit and this boot's certificate. *)
UpdateExited(p) ==
    /\ At(p, "update", "exiting")
    /\ container.status = "Stopped"
    /\ container.clean
    /\ proc' = [proc EXCEPT ![p].pc = "checkpoint", ![p].seen = "Stopped"]
    /\ UNCHANGED <<documents, owners, core, evidence, world, locks>>

(* Mutant: no checkpoint is made. *)
MutNoCheckpoint(p) ==
    /\ At(p, "update", "checkpoint")
    /\ ~Running
    /\ UNCHANGED checkpoint
    /\ Goto(p, "released")
    /\ UNCHANGED <<documents, owners, core, evidence, container, data, locks>>

(* Mutant: a checkpoint that exists already is a conflict. *)
MutCheckpointOnce(p) ==
    /\ At(p, "update", "checkpoint")
    /\ ~Running
    /\ checkpoint = "none"
    /\ checkpoint' = "exact"
    /\ Goto(p, "released")
    /\ UNCHANGED <<documents, owners, core, evidence, container, data, locks>>

(* Pin::confirm needs the storage locks free; an existing checkpoint of    *)
(* the attempt is verified, never made again.                              *)
UpdateCheckpoint(p) ==
    /\ At(p, "update", "checkpoint")
    /\ ~Running
    /\ checkpoint' = IF checkpoint = "none" THEN "exact" ELSE checkpoint
    /\ Goto(p, "released")
    /\ UNCHANGED <<documents, owners, core, evidence, container, data, locks>>

UpdateReleased(p) ==
    /\ At(p, "update", "released")
    /\ Publish(p, "Released", "remove")
    /\ UNCHANGED <<shutdown, marker, owners, core, evidence, world, locks>>

UpdateRemove(p) ==
    /\ At(p, "update", "remove")
    /\ container' = [container EXCEPT
          !.status = IF proc[p].seen = "Stopped" THEN "Missing" ELSE @]
    /\ proc' = [proc EXCEPT ![p].pc = "starting", ![p].seen = "Running"]
    /\ UNCHANGED <<documents, owners, core, evidence, data, checkpoint, locks>>

UpdateStarting(p) ==
    /\ At(p, "update", "starting")
    /\ Publish(p, "Starting", "ensure")
    /\ UNCHANGED <<shutdown, marker, owners, core, evidence, world, locks>>

UpdateChecking(p) ==
    /\ At(p, "update", "ensured")
    /\ Owner = proc[p].mine.target
    /\ Publish(p, "Checking", "activate")
    /\ UNCHANGED <<shutdown, marker, owners, core, evidence, world, locks>>

(* generation::activate_backend publishes the plan and waits; confirm_target *)
(* requires the target in both roles.                                      *)
UpdateActivate(p) ==
    /\ At(p, "update", "activate")
    /\ HasPlan /\ native
    /\ plan' = [plan EXCEPT !.backend = proc[p].mine.target, !.open = TRUE]
    /\ plan.gateway = proc[p].mine.target
    /\ Publish(p, "Activated", "activated")
    /\ UNCHANGED <<shutdown, marker, owners, native, controller, evidence, world,
                   locks>>

UpdateUnready(p) ==
    /\ At(p, "update", "activate")
    /\ \E published \in BOOLEAN :
           plan' = IF published /\ HasPlan
                     THEN [plan EXCEPT !.backend = proc[p].mine.target, !.open = TRUE]
                     ELSE plan
    /\ Refuse(p, "NativeReadiness")
    /\ UNCHANGED <<shutdown, marker, owners, native, controller, evidence, world>>

UpdatePoolsComplete(p) ==
    /\ At(p, "update", "activated")
    /\ marker' = NoMarker
    /\ Goto(p, "finalize")
    /\ UNCHANGED <<intent, shutdown, owners, core, evidence, world, locks>>

UpdatePoolsUnready(p) ==
    /\ At(p, "update", "activated")
    /\ marker # NoMarker
    /\ Refuse(p, "PoolReadiness")
    /\ UNCHANGED <<shutdown, marker, owners, core, evidence, world>>

UpdateFinalize(p) ==
    /\ At(p, "update", "finalize")
    /\ shutdown' = NoShutdown
    /\ Goto(p, "finish")
    /\ UNCHANGED <<intent, marker, owners, core, evidence, world, locks>>

UpdateFinish(p) ==
    /\ At(p, "update", "finish")
    /\ RemoveIntent
    /\ End(p)
    /\ UNCHANGED <<shutdown, marker, owners, core, container, data>>

-----------------------------------------------------------------------------
(* owner::host::ensure, called by an update, by the resumption of a stopped *)
(* deployment and by ordinary admission.  Only the first two are           *)
(* maintenance: they may start or create the backend.                      *)

Maintaining(p) == proc[p].op = "update" \/ shutdown.phase = "resuming"

(* The binding of a new container: the update's target, or the recipe of   *)
(* the recorded owner.                                                     *)
Bound(p) == IF proc[p].op = "update" THEN proc[p].mine.target ELSE Owner

EnsureRunning(p) ==
    /\ proc[p].pc = "ensure"
    /\ Running
    /\ Goto(p, "ready")
    /\ UNCHANGED <<documents, owners, core, evidence, world, locks>>

(* Start the retained container; a running one whose socket is gone is     *)
(* stopped and started again.                                              *)
EnsureStart(p) ==
    /\ proc[p].pc = "ensure"
    /\ Maintaining(p)
    /\ container.status # "Missing"
    /\ Opens(container.image)
    /\ Goto(p, "ready")
    /\ UNCHANGED <<documents, owners, core, evidence, locks>>

(* The controller runs and the candidate is on disk before the container.  *)
EnsureCandidate(p) ==
    /\ proc[p].pc = "ensure"
    /\ Maintaining(p)
    /\ container.status = "Missing"
    /\ controller' = [controller EXCEPT !.stopped = FALSE]
    /\ native' = TRUE
    /\ candidate' = Bound(p)
    /\ Goto(p, "launch")
    /\ UNCHANGED <<documents, selected, plan, evidence, world, locks>>

EnsureLaunch(p) ==
    /\ proc[p].pc = "launch"
    /\ Opens(candidate)
    /\ Goto(p, "ready")
    /\ UNCHANGED <<documents, owners, core, evidence, locks>>

(* ready_all: SQL admission is reopened, and generation::ensure creates the *)
(* plan or accepts one that routes another recipe only when it is closed   *)
(* and the recorded update selects this one.                               *)
EnsureReady(p) ==
    /\ proc[p].pc = "ready"
    /\ Running /\ ~container.releasing
    /\ HasPlan /\ plan.backend # Owner => ~plan.open /\ intent.target = Owner
    /\ plan' = IF native /\ ~HasPlan
                 THEN [backend |-> Owner, gateway |-> Owner, open |-> TRUE]
                 ELSE plan
    /\ container' = [container EXCEPT !.drained = FALSE]
    /\ Goto(p, IF candidate = None THEN "ensured" ELSE "commit")
    /\ UNCHANGED <<documents, owners, native, controller, evidence, data, checkpoint, locks>>

(* Mutant: the candidate is retired before it is committed. *)
MutCommitSwapped(p) ==
    /\ proc[p].pc = "commit"
    /\ candidate' = None
    /\ Goto(p, "retire")
    /\ UNCHANGED <<documents, selected, core, evidence, world, locks>>

EnsureCommit(p) ==
    /\ proc[p].pc = "commit"
    /\ selected' = candidate
    /\ Goto(p, "retire")
    /\ UNCHANGED <<documents, candidate, core, evidence, world, locks>>

EnsureRetire(p) ==
    /\ proc[p].pc = "retire"
    /\ candidate' = None
    /\ Goto(p, "ensured")
    /\ UNCHANGED <<documents, selected, core, evidence, world, locks>>

-----------------------------------------------------------------------------
(* `service stop --host`: deployment::stop. *)

StopBegin(p) ==
    /\ Begins(p, "stop")
    /\ proc' = [proc EXCEPT ![p] = [NoProc EXCEPT !.op = "stop", !.pc = "gate",
                  !.saw = [phase |-> "stopping", image |-> Owner,
                           package |-> controller.package]]]
    /\ UNCHANGED <<documents, owners, core, evidence, world, locks>>

(* The marker of an interrupted update is retained instead of a new one. *)
StopPools(p) ==
    /\ At(p, "stop", "gate")
    /\ TakeGate(p)
    /\ marker' = IF Pooled /\ marker = NoMarker
                   THEN [kind |-> "shutdown", target |-> None] ELSE marker
    /\ Goto(p, "lock")
    /\ UNCHANGED <<intent, shutdown, owners, core, evidence, world,
                   updateLock, hostLock>>

StopRecord(p) ==
    /\ At(p, "stop", "lock")
    /\ TakeHost(p)
    /\ Owner = proc[p].saw.image
    /\ shutdown' = proc[p].saw
    /\ proc' = [proc EXCEPT ![p].pc = "control", ![p].saw = NoShutdown]
    /\ UNCHANGED <<intent, marker, owners, core, evidence, world, updateLock, gate>>

StopController(p) ==
    /\ At(p, "stop", "control")
    /\ controller' = [controller EXCEPT !.stopped = TRUE]
    /\ Goto(p, "halt")
    /\ UNCHANGED <<documents, owners, native, plan, evidence, world, locks>>

Halted == [container EXCEPT !.status = "Stopped", !.drained = FALSE,
                            !.releasing = FALSE, !.clean = FALSE]

StopBackend(p) ==
    /\ At(p, "stop", "halt")
    /\ container' = IF Running THEN Halted ELSE container
    /\ Goto(p, "confirm")
    /\ UNCHANGED <<documents, owners, core, evidence, data, checkpoint, locks>>

StopConfirm(p) ==
    /\ At(p, "stop", "confirm")
    /\ ~Running
    /\ shutdown' = [shutdown EXCEPT !.phase = "stopped"]
    /\ Goto(p, "finish")
    /\ UNCHANGED <<intent, marker, owners, core, evidence, world, locks>>

StopComplete(p) ==
    /\ At(p, "stop", "finish")
    /\ marker' = IF marker.kind = "update" THEN marker ELSE NoMarker
    /\ End(p)
    /\ UNCHANGED <<intent, shutdown, owners, core, evidence, world>>

-----------------------------------------------------------------------------
(* `service start`: deployment::resume, then admission under the shared gate. *)

(* The shutdown record is read without a lock. *)
StartBegin(p) ==
    /\ Begins(p, "start")
    /\ shutdown.phase # "stopping"
    /\ proc' = [proc EXCEPT ![p] = [NoProc EXCEPT !.op = "start", !.saw = shutdown,
                  !.pc = IF shutdown = NoShutdown THEN "fence" ELSE "gate"]]
    /\ UNCHANGED <<documents, owners, core, evidence, world, locks>>

(* Mutant: the resumption ignores the marker. *)
MutStartUnfenced(p) ==
    /\ At(p, "start", "gate")
    /\ TakeGate(p)
    /\ Goto(p, "lock")
    /\ UNCHANGED <<documents, owners, core, evidence, world, updateLock, hostLock>>

StartGate(p) ==
    /\ At(p, "start", "gate")
    /\ TakeGate(p)
    /\ marker = NoMarker
    /\ Goto(p, "lock")
    /\ UNCHANGED <<documents, owners, core, evidence, world, updateLock, hostLock>>

StartResume(p) ==
    /\ At(p, "start", "lock")
    /\ gate.owner = p
    /\ TakeHost(p)
    /\ shutdown = proc[p].saw
    /\ shutdown.image = Owner
    /\ shutdown.package = controller.package
    /\ shutdown' = [shutdown EXCEPT !.phase = "resuming"]
    /\ proc' = [proc EXCEPT ![p].pc = "ensure", ![p].saw = NoShutdown]
    /\ UNCHANGED <<intent, marker, owners, core, evidence, world, updateLock, gate>>

StartController(p) ==
    /\ At(p, "start", "ensured")
    /\ gate.owner = p
    /\ controller' = [controller EXCEPT !.stopped = FALSE]
    /\ Goto(p, "resumed")
    /\ UNCHANGED <<documents, owners, native, plan, evidence, world, locks>>

StartResumed(p) ==
    /\ At(p, "start", "resumed")
    /\ shutdown' = NoShutdown
    /\ gate' = [gate EXCEPT !.owner = None]
    /\ hostLock' = None
    /\ Goto(p, "fence")
    /\ UNCHANGED <<intent, marker, owners, core, evidence, world, updateLock>>

(* gate::shared: no exclusive holder, no marker, no shutdown, no update. *)
StartFence(p) ==
    /\ At(p, "start", "fence")
    /\ gate.owner = None
    /\ marker = NoMarker /\ shutdown = NoShutdown /\ ~Updating
    /\ gate' = [gate EXCEPT !.readers = @ \cup {p}]
    /\ Goto(p, "lock")
    /\ UNCHANGED <<documents, owners, core, evidence, world, updateLock, hostLock>>

StartAdmit(p) ==
    /\ At(p, "start", "lock")
    /\ gate.owner # p
    /\ TakeHost(p)
    /\ Goto(p, "ensure")
    /\ UNCHANGED <<documents, owners, core, evidence, world, updateLock, gate>>

(* The workspace is registered and its grants issued under both locks. *)
StartRegister(p) ==
    /\ At(p, "start", "ensured")
    /\ gate.owner # p
    /\ Goto(p, "admit")
    /\ UNCHANGED <<documents, owners, core, evidence, world, locks>>

StartReturn(p) ==
    /\ At(p, "start", "admit")
    /\ End(p)
    /\ UNCHANGED <<documents, owners, core, evidence, world>>

-----------------------------------------------------------------------------
(* `service update --cancel`: update::cancel. *)

CancelBegin(p) ==
    /\ Begins(p, "cancel")
    /\ updateLock = None
    /\ TakeGate(p)
    /\ marker = NoMarker
    /\ updateLock' = p
    /\ proc' = [proc EXCEPT ![p] = [NoProc EXCEPT !.op = "cancel", !.pc = "check"]]
    /\ UNCHANGED <<documents, owners, core, evidence, world, hostLock>>

LegacyRefusal ==
    intent.phase \in {"Prepared", "Preparing"} /\ intent.failure = "BackendDrain"

Cancellable ==
    /\ ~intent.owned
    /\ \/ intent.phase = "Prepared" /\ intent.failure = "none"
       \/ LegacyRefusal

(* Mutant: the refused update may have upgraded the controller. *)
MutCancelUpgraded(p) ==
    /\ At(p, "cancel", "check")
    /\ TakeHost(p)
    /\ Updating
    /\ Cancellable
    /\ checkpoint = "none"
    /\ shutdown = NoShutdown
    /\ candidate = None
    /\ Running /\ ~controller.stopped
    /\ LegacyRefusal => /\ ~HasPlan /\ ~Pooled
                        /\ selected # intent.target
    /\ archived \in {NoIntent, intent}
    /\ archived' = intent
    /\ Goto(p, "archived")
    /\ UNCHANGED <<documents, owners, core, touched, world, updateLock, gate>>

CancelArchive(p) ==
    /\ At(p, "cancel", "check")
    /\ TakeHost(p)
    /\ Updating
    /\ Cancellable
    /\ checkpoint = "none"
    /\ shutdown = NoShutdown
    /\ candidate = None
    /\ Running /\ ~controller.stopped
    /\ LegacyRefusal => /\ ~HasPlan /\ ~Pooled
                        /\ selected # intent.target
                        /\ controller.package # intent.target
    /\ archived \in {NoIntent, intent}
    /\ archived' = intent
    /\ Goto(p, "archived")
    /\ UNCHANGED <<documents, owners, core, touched, world, updateLock, gate>>

CancelRemove(p) ==
    /\ At(p, "cancel", "archived")
    /\ RemoveIntent
    /\ End(p)
    /\ UNCHANGED <<shutdown, marker, owners, core, container, data>>

-----------------------------------------------------------------------------
(* The backend container. *)

(* After a planned stop and both releases the container exits at zero. *)
BackendExits ==
    /\ Running
    /\ container.releasing
    /\ container' = [container EXCEPT !.status = "Stopped", !.clean = TRUE,
                                      !.releasing = FALSE]
    /\ UNCHANGED <<documents, owners, core, evidence, data, checkpoint, locks, proc>>

BackendCrashes ==
    /\ Running
    /\ container' = Halted
    /\ UNCHANGED <<documents, owners, core, evidence, data, checkpoint, locks, proc>>

(* The steps of an update that went well, and its refusals. *)
Advance(p) ==
    \/ UpdateRecord(p) \/ UpdatePrepare(p) \/ UpdateRetireGateways(p)
    \/ UpdatePools(p) \/ UpdateCheck(p)
    \/ UpdateControl(p) \/ UpdateGateway(p) \/ UpdateOwn(p) \/ UpdateDrain(p)
    \/ UpdateClose(p) \/ UpdateQuiesced(p) \/ UpdateReleasing(p)
    \/ UpdateRelease(p) \/ UpdateExited(p) \/ UpdateCheckpoint(p)
    \/ UpdateReleased(p) \/ UpdateRemove(p) \/ UpdateStarting(p)
    \/ UpdateChecking(p) \/ UpdateActivate(p) \/ UpdatePoolsComplete(p)
    \/ UpdateFinalize(p) \/ UpdateFinish(p)

Setback(p) ==
    \/ \E aborted \in BOOLEAN : UpdateBusy(p, aborted)
    \/ UpdateUnready(p)
    \/ UpdatePoolsUnready(p)

Ensure(p) ==
    \/ EnsureRunning(p) \/ EnsureStart(p) \/ EnsureCandidate(p)
    \/ EnsureLaunch(p) \/ EnsureReady(p) \/ EnsureCommit(p) \/ EnsureRetire(p)

Stop(p) ==
    \/ StopPools(p) \/ StopRecord(p) \/ StopController(p)
    \/ StopBackend(p) \/ StopConfirm(p) \/ StopComplete(p)

Start(p) ==
    \/ StartGate(p) \/ StartResume(p) \/ StartController(p)
    \/ StartResumed(p) \/ StartFence(p) \/ StartAdmit(p) \/ StartRegister(p)
    \/ StartReturn(p)

Cancel(p) == CancelArchive(p) \/ CancelRemove(p)

Begin(p) ==
    \/ \E v \in Versions : UpdateBegin(p, v)
    \/ ResumeBegin(p) \/ StopBegin(p) \/ StartBegin(p) \/ CancelBegin(p)

Step(p) == Advance(p) \/ Ensure(p) \/ Stop(p) \/ Start(p) \/ Cancel(p)

Next ==
    \/ \E p \in Procs : Begin(p) \/ Step(p) \/ Setback(p) \/ Die(p)
    \/ BackendExits
    \/ BackendCrashes

Spec == Init /\ [][Next]_vars

(* The next step of the command is refused (for a single process: nobody   *)
(* else holds a lock it waits for), and the command returns the error.     *)
Fails(p) == ~ENABLED Step(p) /\ (Setback(p) \/ Die(p))

(* A process that can take a step of its command takes it and otherwise    *)
(* returns, a container that was released exits, and the operator resumes  *)
(* an interrupted update.                                                  *)
FairSpec ==
    /\ Spec
    /\ \A p \in Procs :
          WF_vars(Step(p)) /\ WF_vars(Fails(p)) /\ WF_vars(ResumeBegin(p))
    /\ WF_vars(BackendExits)

-----------------------------------------------------------------------------
(* Properties. *)

(* The recorded owner names the image of whatever container exists, at     *)
(* every point of an update and of a restart: recorded_owner and           *)
(* owner::host::validate never meet a container they did not record.       *)
OwnerMatchesContainer == container.status # "Missing" => container.image = Owner

(* The update that holds the update lock is the only writer of update.json: *)
(* its in-memory copy is the document, over every publication.             *)
IntentUndisturbed ==
    \A p \in Procs :
        proc[p].op = "update" /\ proc[p].pc # "record" => intent = proc[p].mine

(* A workspace is never being admitted while a maintenance step is under   *)
(* way: no stop, and no update that went past its preparation.             *)
NoAdmissionDuringHandoff ==
    \A p \in Procs : At(p, "start", "admit") =>
        /\ shutdown = NoShutdown /\ marker = NoMarker
        /\ intent.phase \in {"Prepared", "Preparing"}

(* update.json disappears only for a completed update, with the target     *)
(* selected and routed and every maintenance document gone, or for one     *)
(* that was archived as it stands and changed no native owner.             *)
IntentRemovalJustified ==
    [][Updating /\ intent' = NoIntent =>
        \/ intent = archived /\ ~touched
        \/ /\ selected = intent.target /\ candidate = None
           /\ plan = [backend |-> intent.target, gateway |-> intent.target,
                      open |-> TRUE]
           /\ marker = NoMarker /\ shutdown = NoShutdown]_vars

(* A release that lost its backend before the clean exit can be neither    *)
(* completed nor undone.                                                   *)
Wedged == intent.phase = "Releasing" /\ ~container.drained /\ ~container.clean

(* No old binary is started after its ownership was released. *)
NoOldBinaryAfterRelease ==
    [][intent.phase \in {"Released", "Starting"} /\ ~Running /\ container'.status = "Running"
        => data' = intent.target]_vars

(* When the target first opens the data, the checkpoint of the attempt is  *)
(* a copy of what the old version wrote last.                              *)
CheckpointFaithful == [][data' # data => checkpoint = "exact"]_vars

(* Processes no longer die, the backend does not crash and no command but   *)
(* the resumption is begun.                                                *)
Calm ==
    /\ \A p \in Procs : Begin(p) => ResumeBegin(p)
    /\ \A p \in Procs : Setback(p) \/ Die(p) => Fails(p)
    /\ ~BackendCrashes

(* The released binary was started again.                                  *)
Revived ==
    /\ intent.phase \in {"Released", "Starting"}
    /\ \/ Running /\ container.image # intent.target
       \/ candidate \notin {None, intent.target}

(* Once it is calm, an interrupted update completes, from whatever state it *)
(* was left in, unless its release was interrupted, a host stop or a start  *)
(* must be repeated first, a legacy backend needs its host stopped, or the  *)
(* released binary was started again (run_reported, resume).               *)
UpdateResumable ==
    <>[][Calm]_vars =>
        (Updating ~> \/ ~Updating \/ Wedged \/ Revived
                     \/ marker.kind = "shutdown" \/ shutdown.phase \in {"stopping", "resuming"}
                     \/ Running /\ ~native)

Custody == INSTANCE DataCustody WITH
    writer <- IF Running THEN container.image ELSE None,
    saved <- IF checkpoint = "none" THEN None ELSE intent.target

(* The commands implement the custody of the data: whoever writes it does   *)
(* so alone, and passes it on over a checkpoint made while nobody wrote.    *)
ImplementsCustody == Custody!Spec
==============================
