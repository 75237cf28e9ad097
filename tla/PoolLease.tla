------------------------------ MODULE PoolLease ------------------------------
(***************************************************************************)
(* One installed-store pool: the host's record of its owner                *)
(* (nix_store/owner/backend), the records of the executions it protects    *)
(* and their retirement (backend/client, client/supervisor), whole-host    *)
(* maintenance of the pool (nix_store/lifecycle), collection               *)
(* (nix_store/gc), and the service VM with its leases, its census of work  *)
(* and its release certificate (nix_store/native, native/restart,          *)
(* lib/services/nix-pool).                                                 *)
(*                                                                         *)
(* Every host operation holds the owner's `ownership` lock from its first  *)
(* read to its last write, so at most one is in progress: `task`.  A call  *)
(* to the VM outlives the host process that made it: `stray`.              *)
(***************************************************************************)
EXTENDS Naturals, FiniteSets

CONSTANTS
    Tickets,    \* executions that ask for the pool
    MaxStops,   \* maintenance commands that stop the pool
    MaxFaults,  \* kinds of fault in a run
    Faults      \* the kinds that may occur

ASSUME PoolAssumption ==
    /\ MaxStops \in Nat
    /\ MaxFaults \in Nat
    /\ Faults \subseteq {"crash", "timeout", "drop", "guest", "vanish", "unmount"}
    /\ \A t \in Tickets : t \notin {"none", "own", "retained"}

VARIABLES
    phase,      \* owner record: State
    index,      \* owner record: executions
    fence,      \* maintenance marker, with its intent
    client,     \* execution records: client.json
    mount,      \* tickets whose projection is mounted on the host
    exec,       \* the executions themselves
    boot,       \* bootstrap.json: how the VM takes its storage
    files,      \* the release certificate and the resume marker
    dirty,      \* the store was opened and not synced since
    lease,      \* the VM's lease records
    vm,         \* the container and the guest's supervisor in it
    admission,  \* guest memory: AdmissionState
    handler,    \* guest memory: the command that holds the state's mutex
    session,    \* client Nix sessions in the guest
    export,     \* tickets with an export session in the guest
    task,       \* the host operation in progress
    call,       \* its command to the guest
    stray,      \* commands whose caller is gone
    watch,      \* tickets a retirement thread of the controller watches
    up,         \* the controller runs
    begun,      \* a maintenance command holds the gate after its first half
    stops,      \* maintenance commands begun
    faults      \* kinds of fault that occurred

record == <<phase, index, fence, client>>
guest == <<lease, vm, admission, handler, session, export, dirty, files>>
host == <<task, call, stray, watch, up, begun>>
vars == <<phase, index, fence, client, mount, exec, boot, files, dirty, lease,
          vm, admission, handler, session, export, task, call, stray, watch, up,
          begun, stops, faults>>

NoTask == [op |-> "none", t |-> "none", pc |-> "none"]
NoCall == [st |-> "none", reply |-> "none"]
NoHandler == [op |-> "none", t |-> "none", stage |-> "none", own |-> FALSE]

Requests == [op : {"register", "release"}, t : Tickets]
            \cup [op : {"collect", "shutdown"}, t : {"none"}]

TypeOK ==
    /\ phase \in {"none", "starting", "created", "serving", "stopping",
                  "released"}
    /\ index \subseteq Tickets
    /\ fence \in {"none", "repair", "keep", "shutdown", "update"}
    /\ client \in [Tickets -> {"none", "registering", "attaching", "attached",
                               "detaching", "detached", "released"}]
    /\ mount \subseteq Tickets
    /\ exec \in [Tickets -> {"waiting", "running", "terminal"}]
    /\ boot \in {"fresh", "resume"}
    /\ files \in [released : BOOLEAN, resuming : BOOLEAN]
    /\ dirty \in BOOLEAN
    /\ lease \in [Tickets -> {"none", "open", "closing"}]
    /\ vm \in {"absent", "created", "check", "consume", "open", "up", "down",
               "sync", "unmark", "certify", "done", "dead"}
    /\ admission \in {"serving", "stopping"}
    /\ handler \in [op : {"none", "release", "collect", "shutdown"},
                    t : Tickets \cup {"none"},
                    stage : {"none", "daemon", "procs", "gc", "again", "last"},
                    own : BOOLEAN]
    /\ session \in [Tickets -> {"none", "keyed", "admitted", "served", "orphan"}]
    /\ export \subseteq Tickets
    /\ task \in [op : {"none", "admit", "release", "collect", "stop", "complete"},
                 t : Tickets \cup {"none", "own", "retained"},
                 pc : {"none", "config", "create", "record", "run", "ready",
                       "admit", "register", "mount", "attach", "deliver",
                       "unmount", "detach", "call", "index", "publish", "exit", "verify", "gone",
                       "finish", "wait"}]
    /\ call \in [st : {"none", "sent", "held", "done"},
                 reply : {"none", "applied", "busy", "rejected", "stopping",
                          "failed", "lost"}]
    /\ stray \subseteq Requests
    /\ watch \subseteq Tickets
    /\ up \in BOOLEAN
    /\ begun \in {"none", "own", "retained"}
    /\ stops \in 0 .. MaxStops
    /\ faults \subseteq Faults

(* A pool reserved and prepared: its ledger is not written yet. *)
Init ==
    /\ phase = "none" /\ index = {} /\ fence = "none"
    /\ client = [t \in Tickets |-> "none"]
    /\ mount = {}
    /\ exec = [t \in Tickets |-> "waiting"]
    /\ boot = "fresh"
    /\ files = [released |-> FALSE, resuming |-> FALSE]
    /\ dirty = FALSE
    /\ lease = [t \in Tickets |-> "none"]
    /\ vm = "absent"
    /\ admission = "serving"
    /\ handler = NoHandler
    /\ session = [t \in Tickets |-> "none"]
    /\ export = {}
    /\ task = NoTask /\ call = NoCall /\ stray = {}
    /\ watch = {} /\ up = TRUE /\ begun = "none"
    /\ stops = 0 /\ faults = {}

-----------------------------------------------------------------------------
(* What the parts observe of each other. *)

Fault(kind) ==
    /\ kind \in Faults \ faults
    /\ Cardinality(faults) < MaxFaults
    /\ faults' = faults \cup {kind}

Leased == {t \in Tickets : lease[t] # "none"}

\* The supervisor's daemon has children, by the daemon's cgroup.
Children == {t \in Tickets : session[t] \in {"served", "orphan"}}

\* Processes of the client and export users, by /proc.
Readers == export \cup {t \in Tickets : session[t] \in {"keyed", "admitted", "served"}}

ContainerRunning == vm \notin {"absent", "created", "done", "dead"}

\* The management process takes commands.
Answers == vm \in {"up", "down"}

\* `inspect` answers Ready.
Inspectable == vm = "up" /\ handler = NoHandler /\ admission = "serving"

Quiet == Leased = {} /\ Children = {} /\ Readers = {}

\* `released`: the certificate without a resume marker.
Certified == files.released /\ ~files.resuming

\* `retained` fails on an indexed ticket without its record.
Poisoned == \E t \in index : client[t] = "none"
Protected == \E t \in Tickets : client[t] \notin {"none", "released"}

Free == task = NoTask
At(op, pc) == task.op = op /\ task.pc = pc
Go(pc) == task' = [task EXCEPT !.pc = pc]
Done == task' = NoTask
Retire(t) == watch' = watch \ {t}

\* Records `recover` starts a retirement thread for.
Owed == {t \in Tickets : client[t] \in {"attached", "detaching", "detached"}}

-----------------------------------------------------------------------------
(* Commands to the guest. *)

Request ==
    [op |-> CASE task.op = "admit" -> "register"
              [] task.op = "release" -> "release"
              [] task.op = "collect" -> "collect"
              [] OTHER -> "shutdown",
     t |-> IF task.op \in {"admit", "release"} THEN task.t ELSE "none"]

Send ==
    /\ task' = [task EXCEPT !.pc = "wait"]
    /\ call' = [st |-> "sent", reply |-> "none"]

Answered(op, reply) == At(op, "wait") /\ call.st = "done" /\ call.reply = reply
Received(op) == At(op, "wait") /\ call.st = "done"

\* The command is executed without its caller, or never arrives.
Orphan ==
    /\ stray' \in {stray, IF call.st = "sent" THEN stray \cup {Request} ELSE stray}
    /\ handler' = [handler EXCEPT !.own = FALSE]

\* The guest takes the command without an answer yet, or answers at once.
Hold(r, own) ==
    /\ call' = IF own THEN [call EXCEPT !.st = "held"] ELSE call
    /\ stray' = IF own THEN stray ELSE stray \ {r}

Answer(r, own, reply) ==
    /\ call' = IF own THEN [st |-> "done", reply |-> reply] ELSE call
    /\ stray' = IF own THEN stray ELSE stray \ {r}

Reply(reply) ==
    call' = IF handler.own THEN [st |-> "done", reply |-> reply] ELSE call

-----------------------------------------------------------------------------
(* The guest's management process: one command holds the mutex at a time. *)

GuestIdle == handler = NoHandler /\ admission = "serving"

(* Collect and Shutdown never wait for the mutex. *)
Contended(r, own) ==
    /\ Answers /\ handler # NoHandler
    /\ r.op \in {"collect", "shutdown"}
    /\ Answer(r, own, "busy")
    /\ UNCHANGED <<record, mount, exec, boot, guest, task, watch, up, begun, stops,
                   faults>>

RefusedStopping(r, own) ==
    /\ Answers /\ handler = NoHandler /\ admission = "stopping"
    /\ Answer(r, own, "stopping")
    /\ UNCHANGED <<record, mount, exec, boot, guest, task, watch, up, begun, stops,
                   faults>>

\* Mutant: registration does not wait for the command in hand.
MutRegister(r, own) ==
    /\ r.op = "register"
    /\ vm = "up" /\ admission = "serving"
    /\ IF lease[r.t] = "closing"
       THEN Answer(r, own, "rejected") /\ UNCHANGED lease
       ELSE Answer(r, own, "applied") /\ lease' = [lease EXCEPT ![r.t] = "open"]
    /\ UNCHANGED <<record, mount, exec, boot, vm, admission, handler, session,
                   export, dirty, files, task, watch, up, begun, stops, faults>>

(* The same key registers again; a closing lease is never opened again. *)
Register(r, own) ==
    /\ r.op = "register"
    /\ vm = "up" /\ GuestIdle
    /\ IF lease[r.t] = "closing"
       THEN Answer(r, own, "rejected") /\ UNCHANGED lease
       ELSE Answer(r, own, "applied") /\ lease' = [lease EXCEPT ![r.t] = "open"]
    /\ UNCHANGED <<record, mount, exec, boot, vm, admission, handler, session,
                   export, dirty, files, task, watch, up, begun, stops, faults>>

(* The lease is closed for good before the census of work. *)
Release(r, own) ==
    /\ r.op = "release"
    /\ vm = "up" /\ GuestIdle
    /\ IF lease[r.t] = "none"
       THEN Answer(r, own, "rejected") /\ UNCHANGED <<lease, handler>>
       ELSE /\ Hold(r, own)
            /\ lease' = [lease EXCEPT ![r.t] = "closing"]
            /\ handler' = [op |-> "release", t |-> r.t, stage |-> "daemon",
                           own |-> own]
    /\ UNCHANGED <<record, mount, exec, boot, vm, admission, session, export,
                   dirty, files, task, watch, up, begun, stops, faults>>

(* Collect and Shutdown need a pool without leases. *)
Maintain(r, own) ==
    /\ r.op \in {"collect", "shutdown"}
    /\ vm = "up" /\ GuestIdle
    /\ IF Leased # {}
       THEN Answer(r, own, "busy") /\ UNCHANGED handler
       ELSE /\ Hold(r, own)
            /\ handler' = [op |-> r.op, t |-> "none", stage |-> "daemon",
                           own |-> own]
    /\ UNCHANGED <<record, mount, exec, boot, lease, vm, admission, session,
                   export, dirty, files, task, watch, up, begun, stops, faults>>

(* `r` arrives: `own` is the call of the operation in progress.             *)
Take(r, own) ==
    \/ Contended(r, own) \/ RefusedStopping(r, own)
    \/ Register(r, own) \/ Release(r, own) \/ Maintain(r, own)

InHand(stage) == vm = "up" /\ handler.stage = stage

(* `activity`, first half: the daemon's children and its builds. *)
CensusDaemon ==
    /\ \/ /\ InHand("daemon")
          /\ IF Children = {}
             THEN handler' = [handler EXCEPT !.stage = "procs"] /\ UNCHANGED call
             ELSE handler' = NoHandler /\ Reply("busy")
       \/ /\ InHand("again") /\ UNCHANGED call
          /\ handler' = IF Children = {} THEN [handler EXCEPT !.stage = "last"]
                                         ELSE NoHandler
    /\ UNCHANGED <<record, mount, exec, boot, lease, vm, admission, session,
                   export, dirty, files, task, stray, watch, up, begun, stops,
                   faults>>

(* Second half: the processes of the client and export users. *)
CensusBusy ==
    /\ InHand("procs") /\ Readers # {}
    /\ handler' = NoHandler
    /\ Reply("busy")
    /\ UNCHANGED <<record, mount, exec, boot, lease, vm, admission, session,
                   export, dirty, files, task, stray, watch, up, begun, stops,
                   faults>>

LeaseRemoved ==
    /\ InHand("procs") /\ handler.op = "release" /\ Readers = {}
    /\ lease' = [lease EXCEPT ![handler.t] = "none"]
    /\ handler' = NoHandler
    /\ Reply("applied")
    /\ UNCHANGED <<record, mount, exec, boot, vm, admission, session, export,
                   dirty, files, task, stray, watch, up, begun, stops, faults>>

(* gc.lock is given up for the collector's run and taken again after it. *)
CollectBegins ==
    /\ InHand("procs") /\ handler.op = "collect" /\ Readers = {}
    /\ handler' = [handler EXCEPT !.stage = "gc"]
    /\ UNCHANGED <<record, mount, exec, boot, lease, vm, admission, session,
                   export, dirty, files, task, call, stray, watch, up, begun,
                   stops, faults>>

CollectEnds ==
    /\ InHand("gc")
    /\ handler' = NoHandler
    /\ \E reply \in {"applied", "failed"} : Reply(reply)
    /\ UNCHANGED <<record, mount, exec, boot, lease, vm, admission, session,
                   export, dirty, files, task, stray, watch, up, begun, stops,
                   faults>>

(* The answer is sent before the daemon is signalled. *)
StopAccepted ==
    /\ InHand("procs") /\ handler.op = "shutdown" /\ Readers = {}
    /\ admission' = "stopping"
    /\ handler' = [handler EXCEPT !.stage = "again"]
    /\ Reply("stopping")
    /\ UNCHANGED <<record, mount, exec, boot, lease, vm, session, export, dirty,
                   files, task, stray, watch, up, begun, stops, faults>>

(* `signal_shutdown` counts again; work it finds leaves the daemon running  *)
(* and the admission stopping.                                              *)
Terminate ==
    /\ InHand("last")
    /\ vm' = IF Readers = {} THEN "down" ELSE "up"
    /\ handler' = NoHandler
    /\ UNCHANGED <<record, mount, exec, boot, lease, admission, session, export,
                   dirty, files, task, call, stray, watch, up, begun, stops, faults>>

-----------------------------------------------------------------------------
(* Sessions of the guest. *)

(* sshd accepts a key for as long as the lease's record is not closing. *)
Connect(t) ==
    /\ vm = "up" /\ exec[t] = "running"
    /\ lease[t] = "open" /\ session[t] = "none"
    /\ session' = [session EXCEPT ![t] = "keyed"]
    /\ UNCHANGED <<record, mount, exec, boot, lease, vm, admission, handler, export,
                   dirty, files, host, stops, faults>>

(* The session asks again under the mutex. *)
Admit(t) ==
    /\ session[t] = "keyed" /\ handler = NoHandler
    /\ session' = [session EXCEPT ![t] =
          IF admission = "serving" /\ lease[t] = "open" THEN "admitted" ELSE "none"]
    /\ UNCHANGED <<record, mount, exec, boot, lease, vm, admission, handler, export,
                   dirty, files, host, stops, faults>>

(* nix-daemon forks a child for the session. *)
Work(t) ==
    /\ session[t] = "admitted" /\ vm = "up"
    /\ session' = [session EXCEPT ![t] = "served"]
    /\ UNCHANGED <<record, mount, exec, boot, lease, vm, admission, handler, export,
                   dirty, files, host, stops, faults>>

(* The client goes first; the daemon's child notices afterwards. *)
Disconnect(t) ==
    /\ session[t] \in {"keyed", "admitted", "served"}
    /\ session' = [session EXCEPT ![t] = IF @ = "served" THEN "orphan" ELSE "none"]
    /\ UNCHANGED <<record, mount, exec, boot, lease, vm, admission, handler, export,
                   dirty, files, host, stops, faults>>

ChildEnds(t) ==
    /\ session[t] = "orphan"
    /\ session' = [session EXCEPT ![t] = "none"]
    /\ UNCHANGED <<record, mount, exec, boot, lease, vm, admission, handler, export,
                   dirty, files, host, stops, faults>>

(* An export session ends some time after its projection is unmounted. *)
ExportEnds(t) ==
    /\ t \in export \ mount
    /\ export' = export \ {t}
    /\ UNCHANGED <<record, mount, exec, boot, lease, vm, admission, handler,
                   session, dirty, files, host, stops, faults>>

-----------------------------------------------------------------------------
(* The guest's supervisor. *)

\* With the container go its processes and every command it did not answer.
Emptied ==
    /\ session' = [t \in Tickets |-> "none"]
    /\ export' = {}
    /\ handler' = NoHandler
    /\ stray' = {}
    /\ call' = IF call.st \in {"sent", "held"}
               THEN [st |-> "done", reply |-> "lost"] ELSE call

Dies ==
    /\ vm' = "dead"
    /\ Emptied

(* `nix-pool-initialize`: a fresh pool has no files of an owner; a retained *)
(* one needs its certificate, no resume marker and no lease.                *)
GuestCheck ==
    /\ vm = "check"
    /\ LET accepted == IF boot = "fresh" THEN ~files.released /\ ~files.resuming
                                         ELSE Certified /\ Leased = {}
       IN  IF accepted
           THEN /\ files' = [files EXCEPT !.resuming = boot = "resume"]
                /\ vm' = IF boot = "resume" THEN "consume" ELSE "open"
                /\ UNCHANGED <<session, export, handler, stray, call>>
           ELSE Dies /\ UNCHANGED files
    /\ UNCHANGED <<record, mount, exec, boot, lease, admission, dirty, task, watch,
                   up, begun, stops, faults>>

(* `begin`: the certificate goes after the marker is written. *)
Consume ==
    /\ vm = "consume"
    /\ files' = [files EXCEPT !.released = FALSE]
    /\ vm' = "open"
    /\ UNCHANGED <<record, mount, exec, boot, lease, admission, handler, session,
                   export, dirty, host, stops, faults>>

(* The store is mounted and written, the daemon and `serve` start. *)
Open ==
    /\ vm = "open"
    /\ vm' = "up" /\ dirty' = TRUE /\ admission' = "serving"
    /\ UNCHANGED <<record, mount, exec, boot, lease, handler, session, export, files,
                   host, stops, faults>>

(* The daemon has ended.  Only an empty work group is a clean end. *)
DaemonEnds ==
    /\ vm = "down"
    /\ IF Children = {} THEN vm' = "sync" /\ Emptied ELSE Dies
    /\ UNCHANGED <<record, mount, exec, boot, lease, admission, dirty, files, task,
                   watch, up, begun, stops, faults>>

Sync ==
    /\ vm = "sync"
    /\ vm' = "unmark" /\ dirty' = FALSE
    /\ UNCHANGED <<record, mount, exec, boot, lease, admission, handler, session,
                   export, files, host, stops, faults>>

Unmark ==
    /\ vm = "unmark"
    /\ vm' = "certify" /\ files' = [files EXCEPT !.resuming = FALSE]
    /\ UNCHANGED <<record, mount, exec, boot, lease, admission, handler, session,
                   export, dirty, host, stops, faults>>

Certify ==
    /\ vm = "certify" /\ ~files.released
    /\ vm' = "done" /\ files' = [files EXCEPT !.released = TRUE]
    /\ UNCHANGED <<record, mount, exec, boot, lease, admission, handler, session,
                   export, dirty, host, stops, faults>>

GuestCrash ==
    /\ ContainerRunning
    /\ Fault("guest")
    /\ Dies
    /\ UNCHANGED <<record, mount, exec, boot, lease, admission, dirty, files, task,
                   watch, up, begun, stops>>

(* Somebody else removes the stopped container. *)
Vanish ==
    /\ vm \in {"done", "dead"}
    /\ Fault("vanish")
    /\ vm' = "absent"
    /\ UNCHANGED <<record, mount, exec, boot, lease, admission, handler, session,
                   export, dirty, files, host, stops>>

(* sshfs gives up a mount whose session is gone. *)
MountLost(t) ==
    /\ t \in mount /\ ~ContainerRunning
    /\ mount' = mount \ {t}
    /\ UNCHANGED <<record, exec, boot, guest, host, stops, faults>>

-----------------------------------------------------------------------------
(* Boot of the service VM: `start`, `resume` and `update`. *)

(* Intent is recorded before the configuration of the guest changes. *)
Config ==
    /\ task.pc = "config"
    /\ boot' = "resume"
    /\ Go("create")
    /\ UNCHANGED <<record, mount, exec, guest, call, stray, watch, up, begun,
                   stops, faults>>

Create ==
    /\ task.pc = "create"
    /\ vm' = "created"
    /\ Go("record")
    /\ UNCHANGED <<record, mount, exec, boot, lease, admission, handler, session,
                   export, dirty, files, call, stray, watch, up, begun, stops, faults>>

Record ==
    /\ task.pc = "record"
    /\ phase' = "created"
    /\ Go("run")
    /\ UNCHANGED <<index, fence, client, mount, exec, boot, guest, call, stray, watch,
                   up, begun, stops, faults>>

Run ==
    /\ task.pc = "run"
    /\ vm' = "check"
    /\ Go("ready")
    /\ UNCHANGED <<record, mount, exec, boot, lease, admission, handler, session,
                   export, dirty, files, call, stray, watch, up, begun, stops, faults>>

(* `ready` publishes only an owner that answers without a lease. *)
Ready ==
    /\ task.pc = "ready"
    /\ Inspectable /\ Leased = {}
    /\ phase' = "serving"
    /\ Go(IF task.op = "admit" THEN "admit" ELSE "finish")
    /\ UNCHANGED <<index, fence, client, mount, exec, boot, guest, call, stray, watch,
                   up, begun, stops, faults>>

(* The VM ended, or did not answer within `ready`'s minute. *)
BootFails ==
    /\ task.pc = "ready"
    /\ \/ ~ContainerRunning /\ UNCHANGED faults
       \/ ContainerRunning /\ Fault("timeout")
    /\ Done
    /\ begun' = "none"
    /\ UNCHANGED <<record, mount, exec, boot, guest, call, stray, watch, up, stops>>

-----------------------------------------------------------------------------
(* Admission of an execution: the pool's job in the controller. *)

(* Under the shared gate and the owner's lock; `ensure` starts or resumes   *)
(* the owner first.                                                         *)
AdmitStart(t) ==
    /\ Free /\ up /\ begun = "none" /\ fence = "none"
    /\ exec[t] = "waiting"
    /\ \/ /\ phase = "serving" /\ Inspectable
          /\ task' = [op |-> "admit", t |-> t, pc |-> "admit"]
          /\ UNCHANGED phase
       \/ /\ phase = "none"
          /\ phase' = "starting"
          /\ task' = [op |-> "admit", t |-> t, pc |-> "create"]
       \/ /\ phase = "released" /\ Certified /\ vm = "absent"
          /\ phase' = "starting"
          /\ task' = [op |-> "admit", t |-> t, pc |-> "config"]
    /\ UNCHANGED <<index, fence, client, mount, exec, boot, guest, call, stray, watch,
                   up, begun, stops, faults>>

(* Retirement threads are recovered; released tickets leave the ledger.  A  *)
(* new ticket enters it before its own record exists.                       *)
AdmitIndex ==
    /\ At("admit", "admit")
    /\ LET t == task.t
           kept == {s \in index : client[s] # "released"}
       IN  IF Poisoned THEN Done /\ UNCHANGED <<index, watch>>
           ELSE /\ watch' = watch \cup Owed
                /\ \/ /\ Answers /\ client[t] = "none" /\ t \notin index
                      /\ index' = kept \cup {t}
                      /\ Go("register")
                   \/ /\ Answers /\ client[t] = "attached" /\ t \in index
                      /\ t \in mount \cap export
                      /\ index' = kept
                      /\ Go("deliver")
                   \/ /\ \/ ~Answers
                         \/ client[t] \notin {"none", "attached"}
                         \/ client[t] = "attached" /\ t \notin mount \cap export
                      /\ index' = kept
                      /\ Done
    /\ UNCHANGED <<phase, fence, client, mount, exec, boot, guest, call, stray, up,
                   begun, stops, faults>>

AdmitRegister ==
    /\ At("admit", "register")
    /\ client' = [client EXCEPT ![task.t] = "registering"]
    /\ IF ContainerRunning THEN Send ELSE Done /\ UNCHANGED call
    /\ UNCHANGED <<phase, index, fence, mount, exec, boot, guest, stray, watch, up,
                   begun, stops, faults>>

AdmitRegistered ==
    /\ Received("admit")
    /\ IF call.reply = "applied"
       THEN client' = [client EXCEPT ![task.t] = "attaching"] /\ Go("mount")
       ELSE Done /\ UNCHANGED client
    /\ call' = NoCall
    /\ UNCHANGED <<phase, index, fence, mount, exec, boot, guest, stray, watch, up,
                   begun, stops, faults>>

AdmitMount ==
    /\ At("admit", "mount")
    /\ IF vm = "up" /\ lease[task.t] = "open"
       THEN /\ mount' = mount \cup {task.t}
            /\ export' = export \cup {task.t}
            /\ Go("attach")
       ELSE Done /\ UNCHANGED <<mount, export>>
    /\ UNCHANGED <<record, exec, boot, lease, vm, admission, handler, session, dirty,
                   files, call, stray, watch, up, begun, stops, faults>>

AdmitAttach ==
    /\ At("admit", "attach")
    /\ IF task.t \in mount \cap export
       THEN client' = [client EXCEPT ![task.t] = "attached"] /\ Go("deliver")
       ELSE Done /\ UNCHANGED client
    /\ UNCHANGED <<phase, index, fence, mount, exec, boot, guest, call, stray, watch,
                   up, begun, stops, faults>>

(* The execution starts with what is delivered to it. *)
AdmitDeliver ==
    /\ At("admit", "deliver")
    /\ watch' = watch \cup {task.t}
    /\ exec' = [exec EXCEPT ![task.t] = IF @ = "waiting" THEN "running" ELSE @]
    /\ Done
    /\ UNCHANGED <<record, mount, boot, guest, call, stray, up, begun, stops, faults>>

(* Terminal evidence: the execution's processes are gone, see              *)
(* ExecutionRecord.                                                         *)
Terminal(t) ==
    /\ exec[t] # "terminal"
    /\ exec' = [exec EXCEPT ![t] = "terminal"]
    /\ UNCHANGED <<record, mount, boot, guest, host, stops, faults>>

-----------------------------------------------------------------------------
(* Retirement of an execution: `release_execution`, called by its watch.   *)

\* The watch returns on every answer but Busy; protection stays.
Abandon(t) == Done /\ Retire(t)

\* Mutant: retirement without terminal evidence.
MutReleaseStart(t) ==
    /\ Free /\ up /\ t \in watch
    /\ LET begins(pc) == task' = [op |-> "release", t |-> t, pc |-> pc]
       IN  \/ /\ t \in index /\ client[t] = "attached" /\ t \in mount
              /\ client' = [client EXCEPT ![t] = "detaching"]
              /\ begins("unmount") /\ UNCHANGED watch
           \/ /\ t \in index /\ client[t] = "detaching"
              /\ begins("unmount") /\ UNCHANGED <<client, watch>>
           \/ /\ t \in index /\ client[t] = "detached"
              /\ begins("call") /\ UNCHANGED <<client, watch>>
           \/ /\ t \in index /\ client[t] = "attached" /\ t \notin mount
              /\ Retire(t) /\ UNCHANGED <<client, task>>
    /\ UNCHANGED <<phase, index, fence, mount, exec, boot, guest, call, stray, up,
                   begun, stops, faults>>

ReleaseStart(t) ==
    /\ Free /\ up /\ t \in watch
    /\ exec[t] = "terminal"
    /\ LET begins(pc) == task' = [op |-> "release", t |-> t, pc |-> pc]
       IN  \/ /\ t \in index /\ client[t] = "attached" /\ t \in mount
              /\ client' = [client EXCEPT ![t] = "detaching"]
              /\ begins("unmount") /\ UNCHANGED watch
           \/ /\ t \in index /\ client[t] = "detaching"
              /\ begins("unmount") /\ UNCHANGED <<client, watch>>
           \/ /\ t \in index /\ client[t] = "detached"
              /\ begins("call") /\ UNCHANGED <<client, watch>>
           \/ /\ t \in index /\ client[t] = "attached" /\ t \notin mount
              /\ Retire(t) /\ UNCHANGED <<client, task>>
    /\ UNCHANGED <<phase, index, fence, mount, exec, boot, guest, call, stray, up,
                   begun, stops, faults>>

Unmount ==
    /\ At("release", "unmount")
    /\ \/ /\ mount' = mount \ {task.t}
          /\ Go("detach") /\ UNCHANGED <<watch, faults>>
       \/ /\ task.t \in mount /\ Fault("unmount")
          /\ Abandon(task.t) /\ UNCHANGED mount
    /\ UNCHANGED <<record, exec, boot, guest, call, stray, up, begun, stops>>

Detach ==
    /\ At("release", "detach")
    /\ client' = [client EXCEPT ![task.t] = "detached"]
    /\ Go("call")
    /\ UNCHANGED <<phase, index, fence, mount, exec, boot, guest, call, stray, watch,
                   up, begun, stops, faults>>

ReleaseCall ==
    /\ At("release", "call")
    /\ IF ContainerRunning THEN Send /\ UNCHANGED watch
                           ELSE Abandon(task.t) /\ UNCHANGED call
    /\ UNCHANGED <<record, mount, exec, boot, guest, stray, up, begun, stops, faults>>

Released ==
    /\ Received("release")
    /\ call' = NoCall
    /\ CASE call.reply = "applied" ->
              /\ client' = [client EXCEPT ![task.t] = "released"]
              /\ Go("index") /\ UNCHANGED watch
         [] call.reply = "busy" -> Done /\ UNCHANGED <<client, watch>>
         [] OTHER -> Abandon(task.t) /\ UNCHANGED client
    /\ UNCHANGED <<phase, index, fence, mount, exec, boot, guest, stray, up, begun,
                   stops, faults>>

ReleaseIndex ==
    /\ At("release", "index")
    /\ index' = index \ {task.t}
    /\ Abandon(task.t)
    /\ UNCHANGED <<phase, fence, client, mount, exec, boot, guest, call, stray, up,
                   begun, stops, faults>>

-----------------------------------------------------------------------------
(* Collection, asked by the host's collector. *)

CollectStart ==
    /\ Free /\ ~Poisoned /\ ~Protected
    /\ phase = "serving" /\ ContainerRunning
    /\ task' = [op |-> "collect", t |-> "none", pc |-> "wait"]
    /\ call' = [st |-> "sent", reply |-> "none"]
    /\ UNCHANGED <<record, mount, exec, boot, guest, stray, watch, up, begun, stops,
                   faults>>

CollectDone ==
    /\ Received("collect")
    /\ Done /\ call' = NoCall
    /\ UNCHANGED <<record, mount, exec, boot, guest, stray, watch, up, begun, stops,
                   faults>>

-----------------------------------------------------------------------------
(* Whole-host maintenance, first half: `begin_intent`, `Shutdown::begin`.   *)
(* The gate is held exclusively until the command ends.                     *)

Intents == {"repair", "shutdown", "update"}

\* `maintenance_state` on a pool that stopped or is stopping.
Stopped == vm \in {"absent", "done"} /\ Certified

\* Before a fence exists an interrupted stop is refused.
Preflight ==
    \/ phase = "serving" /\ Inspectable /\ Quiet
    \/ phase = "released" /\ vm = "absent" /\ Certified
    \/ phase = "stopping" /\ fence # "none" /\ (Stopped \/ ContainerRunning)

\* Repair leaves a released pool released.
Entry(intent) ==
    IF intent = "repair" /\ phase = "released" THEN "keep" ELSE intent

\* A pending fence admits its own command, and a shutdown keeps another's.
Mode(intent) ==
    IF fence \in {"none", intent} \/ (intent = "repair" /\ fence = "keep")
    THEN "own"
    ELSE IF intent = "shutdown" THEN "retained" ELSE "none"

StopStart(intent) ==
    /\ Free /\ begun = "none" /\ stops < MaxStops
    /\ ~Poisoned /\ ~Protected /\ phase \notin {"none", "starting", "created"}
    /\ Preflight
    /\ Mode(intent) # "none"
    /\ fence = "keep" => phase = "released"
    /\ stops' = stops + 1
    /\ fence' = IF fence = "none" THEN Entry(intent) ELSE fence
    /\ IF phase = "released"
       THEN begun' = Mode(intent) /\ UNCHANGED task
       ELSE /\ task' = [op |-> "stop", t |-> Mode(intent), pc |-> "publish"]
            /\ UNCHANGED begun
    /\ UNCHANGED <<phase, index, client, mount, exec, boot, guest, call, stray, watch,
                   up, faults>>

StopPublish ==
    /\ At("stop", "publish")
    /\ phase' = "stopping"
    /\ CASE vm = "absent" ->
              UNCHANGED call /\ IF Certified THEN Go("gone") ELSE Done
         [] ContainerRunning -> Send
         [] OTHER -> Go("verify") /\ UNCHANGED call
    /\ UNCHANGED <<index, fence, client, mount, exec, boot, guest, stray, watch, up,
                   begun, stops, faults>>

(* A helper that failed may have stopped the VM: it is waited for. *)
StopAnswered ==
    /\ Received("stop")
    /\ call' = NoCall
    /\ CASE call.reply = "busy" -> phase' = "serving" /\ Done
         [] call.reply \in {"stopping", "lost"} -> Go("exit") /\ UNCHANGED phase
         [] OTHER -> Done /\ UNCHANGED phase
    /\ UNCHANGED <<index, fence, client, mount, exec, boot, guest, stray, watch, up,
                   begun, stops, faults>>

(* `podman wait` gives the exit status, or its deadline ends it. *)
StopExit ==
    /\ At("stop", "exit")
    /\ IF vm = "done" THEN Go("verify") ELSE Done
    /\ UNCHANGED <<record, mount, exec, boot, guest, call, stray, watch, up, begun,
                   stops, faults>>

\* Mutant: any exited container counts as stopped.
MutStopVerify ==
    /\ At("stop", "verify")
    /\ IF vm \in {"done", "dead"}
       THEN vm' = "absent" /\ Go("gone")
       ELSE Done /\ UNCHANGED vm
    /\ UNCHANGED <<record, mount, exec, boot, lease, admission, handler, session,
                   export, dirty, files, call, stray, watch, up, begun, stops, faults>>

StopVerify ==
    /\ At("stop", "verify")
    /\ IF vm = "done" /\ Certified
       THEN vm' = "absent" /\ Go("gone")
       ELSE Done /\ UNCHANGED vm
    /\ UNCHANGED <<record, mount, exec, boot, lease, admission, handler, session,
                   export, dirty, files, call, stray, watch, up, begun, stops, faults>>

StopGone ==
    /\ At("stop", "gone")
    /\ phase' = "released"
    /\ begun' = task.t
    /\ Done
    /\ UNCHANGED <<index, fence, client, mount, exec, boot, guest, call, stray, watch,
                   up, stops, faults>>

-----------------------------------------------------------------------------
(* Second half: `complete`. *)

CompleteStart ==
    /\ Free /\ begun # "none" /\ ~Protected
    /\ phase = "released" /\ vm = "absent" /\ Certified
    /\ CASE begun = "retained" ->
              begun' = "none" /\ UNCHANGED <<phase, fence, task>>
         [] begun = "own" /\ fence \in {"keep", "shutdown"} ->
              begun' = "none" /\ fence' = "none" /\ UNCHANGED <<phase, task>>
         [] begun = "own" /\ fence \in {"repair", "update"} ->
              /\ phase' = "starting"
              /\ task' = [op |-> "complete", t |-> "none", pc |-> "config"]
              /\ UNCHANGED <<begun, fence>>
    /\ UNCHANGED <<index, client, mount, exec, boot, guest, call, stray, watch, up,
                   stops, faults>>

CompleteFinish ==
    /\ At("complete", "finish")
    /\ fence' = IF Inspectable /\ Quiet THEN "none" ELSE fence
    /\ begun' = "none"
    /\ Done
    /\ UNCHANGED <<phase, index, client, mount, exec, boot, guest, call, stray, watch,
                   up, stops, faults>>

(* The command fails or ends between its halves. *)
MaintenanceEnds ==
    /\ Free /\ begun # "none"
    /\ begun' = "none"
    /\ UNCHANGED <<record, mount, exec, boot, guest, task, call, stray, watch, up,
                   stops, faults>>

-----------------------------------------------------------------------------
(* Faults of the host's processes. *)

\* A call of the task is not answered yet.
Pending == task.pc = "wait" /\ call.st \in {"sent", "held"}

Aborted ==
    /\ Done /\ call' = NoCall
    /\ IF Pending THEN Orphan ELSE UNCHANGED <<stray, handler>>

(* The process of the operation dies: the controller for admissions and     *)
(* releases, a command for the others.                                      *)
Crash ==
    /\ Fault("crash")
    /\ Aborted
    /\ IF task.op \in {"none", "admit", "release"}
       THEN up /\ up' = FALSE /\ watch' = {} /\ UNCHANGED begun
       ELSE begun' = "none" /\ UNCHANGED <<up, watch>>
    /\ UNCHANGED <<record, mount, exec, boot, lease, vm, admission, session, export,
                   dirty, files, stops>>

(* A call's budget ends; Collect has none. *)
Timeout ==
    /\ Pending /\ task.op # "collect"
    /\ Fault("timeout")
    /\ Aborted
    /\ watch' = IF task.op = "release" THEN watch \ {task.t} ELSE watch
    /\ UNCHANGED <<record, mount, exec, boot, lease, vm, admission, session, export,
                   dirty, files, up, begun, stops>>

(* The connection fails, before the command or after. *)
Drop ==
    /\ Pending
    /\ Fault("drop")
    /\ Orphan
    /\ call' = [st |-> "done", reply |-> "lost"]
    /\ UNCHANGED <<record, mount, exec, boot, lease, vm, admission, session, export,
                   dirty, files, task, watch, up, begun, stops>>

\* Mutant: a detached record is taken for a released one.
MutRecover ==
    /\ ~up
    /\ up' = TRUE
    /\ watch' = IF Poisoned THEN {} ELSE {t \in Owed : client[t] # "detached"}
    /\ UNCHANGED <<record, mount, exec, boot, guest, task, call, stray, begun, stops,
                   faults>>

(* `recover_all`, when the controller starts. *)
Recover ==
    /\ ~up
    /\ up' = TRUE
    /\ watch' = IF Poisoned THEN {} ELSE Owed
    /\ UNCHANGED <<record, mount, exec, boot, guest, task, call, stray, begun, stops,
                   faults>>

-----------------------------------------------------------------------------
GuestStep ==
    \/ call.st = "sent" /\ Take(Request, TRUE)
    \/ \E r \in stray : Take(r, FALSE)
    \/ CensusDaemon \/ CensusBusy \/ LeaseRemoved \/ CollectBegins \/ CollectEnds
    \/ StopAccepted \/ Terminate
    \/ GuestCheck \/ Consume \/ Open \/ DaemonEnds \/ Sync \/ Unmark \/ Certify
    \/ \E t \in Tickets : Admit(t)

HostStep ==
    \/ Config \/ Create \/ Record \/ Run \/ Ready
    \/ AdmitIndex \/ AdmitRegister \/ AdmitRegistered \/ AdmitMount \/ AdmitAttach
    \/ AdmitDeliver
    \/ Unmount \/ Detach \/ ReleaseCall \/ Released \/ ReleaseIndex
    \/ CollectDone
    \/ StopPublish \/ StopAnswered \/ StopExit \/ StopVerify \/ StopGone
    \/ CompleteFinish
    \/ Recover

Leaves(t) ==
    \/ exec[t] # "running" /\ Disconnect(t)
    \/ ChildEnds(t)
    \/ ExportEnds(t)

Next ==
    \/ GuestStep
    \/ HostStep
    \/ BootFails
    \/ \E t \in Tickets : AdmitStart(t) \/ ReleaseStart(t) \/ Terminal(t)
    \/ CollectStart
    \/ \E intent \in Intents : StopStart(intent)
    \/ CompleteStart \/ MaintenanceEnds
    \/ \E t \in Tickets : Connect(t) \/ Work(t) \/ Disconnect(t) \/ ChildEnds(t)
                          \/ ExportEnds(t) \/ MountLost(t)
    \/ Crash \/ Timeout \/ Drop \/ GuestCrash \/ Vanish

Spec == Init /\ [][Next]_vars

(* The VM and a host operation proceed, the daemon ends what its clients    *)
(* left, and a watch tries every two seconds to take the owner's lock.      *)
Fairness ==
    /\ WF_vars(GuestStep)
    /\ WF_vars(HostStep)
    /\ WF_vars(BootFails /\ ~ContainerRunning)
    /\ \A t \in Tickets : WF_vars(Leaves(t)) /\ SF_vars(ReleaseStart(t))

FairSpec == Spec /\ Fairness

-----------------------------------------------------------------------------
(* Safety. *)

(* While an execution runs, everything it was delivered stands: its record  *)
(* and its place in the ledger protect the pool, its lease is open, the     *)
(* owner serves, no maintenance is pending, and the projection is mounted   *)
(* as long as the VM lives.  No retirement of another execution, no         *)
(* collection, stop, update or crash of the controller takes any of it      *)
(* away (admit_execution, release_execution, protected).                    *)
LiveExecutionHeld ==
    \A t \in Tickets : exec[t] = "running" =>
        /\ client[t] = "attached" /\ t \in index
        /\ lease[t] = "open"
        /\ phase = "serving" /\ fence = "none"
        /\ vm = "up" => t \in mount

(* While the collector runs without the shared lock on gc.lock, nobody      *)
(* reads the store: there is no lease, no session and no projection, and    *)
(* none appears before it ends (native administer, Operation::Collect).     *)
CollectionExcludesReaders ==
    handler.stage = "gc" => Leased = {} /\ Readers = {} /\ mount = {}

(* Whoever reads the store holds a lease: a session or a projection outlives *)
(* neither its execution's lease nor, closing, the census that removes it   *)
(* (native release and activity).                                           *)
ReadersHoldLeases ==
    \A t \in Tickets :
        t \in export \/ session[t] \in {"admitted", "served"} => lease[t] # "none"

(* The release certificate tells the truth: a pool with one and without a   *)
(* resume marker is synced, and an owner recorded as released has it, has   *)
(* no container, and protects nobody, so a resume or an update takes over   *)
(* a store nobody uses (guest supervisor, restart begin, Owner shutdown).   *)
CertificateHonest ==
    /\ Certified => ~dirty
    /\ phase = "released" =>
          Certified /\ vm = "absent" /\ Leased = {} /\ mount = {}

-----------------------------------------------------------------------------
(* Liveness. *)

\* What a fault leaves that no retry of this code gets past.
Wedged(t) ==
    \/ Poisoned
    \/ client[t] = "detached" /\ lease[t] = "none"
    \/ faults \cap {"timeout", "drop", "guest", "unmount"} # {} /\ t \notin watch

(* A terminal execution gives its protection back as soon as no other one   *)
(* reads the store, also when the controller that began its release died at *)
(* any point: its lease is removed and its record released.  The exceptions *)
(* are a ledger with a ticket without its record, a lease whose removal the *)
(* dead controller did not learn of, and a watch that a fault other than a  *)
(* crash ended (watch, recover_all, release_execution).                     *)
ReleaseProceeds ==
    \A t \in Tickets :
        <>[](\A s \in Tickets \ {t} : session[s] = "none" /\ s \notin export) =>
            (exec[t] = "terminal" /\ t \in Owed ~> client[t] = "released" \/ Wedged(t))

=============================================================================
