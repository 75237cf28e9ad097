----------------------------- MODULE BackendDrain -----------------------------
(***************************************************************************)
(* The drain and the release of the shared backend's native roles, which   *)
(* an update performs before it replaces the backend container:            *)
(*   Celler and the compiler count admitted work in a Tracker              *)
(*     (lib/services/celler-work-drain-state.rs, lifecycle/drain/native),  *)
(*   Dolt is guarded by the SQL gate (lifecycle/sql),                      *)
(*   the host drives the three with commands executed in the container     *)
(*     (lifecycle/drain, lifecycle/deployment/backend), and                *)
(*   the container's first process waits for its children and certifies    *)
(*     their clean end (dolt/server, lifecycle/compiler).                  *)
(*                                                                         *)
(* The host may die at any point and an update be resumed.  A command      *)
(* whose client timed out or died may have been executed, may never be, or *)
(* may still be executed at any later time.                                *)
(***************************************************************************)
EXTENDS Naturals, FiniteSets, ReleaseCertificate

CONSTANTS
    Kinds,       \* the kinds of work that arrive
    MaxWork,     \* bound on every counter of work
    MaxLate      \* how many commands may be waiting to be executed late

ASSUME BackendDrainAssumption ==
    /\ Kinds \subseteq {"request", "workflow", "background", "session", "broker"}
    /\ MaxWork \in Nat
    /\ MaxLate \in Nat

TrackerPhases == {"Serving", "Draining", "Releasing", "Released"}
RoleCommands == {"begin", "quiesce", "status", "abort", "release"}
Replies == {"none", "drained", "busy", "serving", "released", "error"}
Stages == {"idle", "close", "begin", "poll", "confirm", "undo", "recheck",
           "abort", "abort again", "releasing", "plan", "freed", "compiler",
           "celler", "exit"}

VARIABLES       \* besides intent, planned, children and certificate
    tracker,      \* Inner of Celler's and the compiler's Tracker
    sql,          \* State of Dolt's gate, and the sessions Dolt itself has
    call,         \* the command the host waits for
    late,         \* commands that nobody waits for any more
    host,         \* the update process: where it is, in which role
    route,        \* whether the gateway routes to the backend
    freed,        \* /run/wrix/compiler/released
    main          \* the first process of the container

native == <<tracker, sql>>
commands == <<call, late>>
records == <<intent, route>>
container == <<planned, freed, children, main, certificate>>
vars == <<tracker, sql, call, late, host, intent, route, planned, freed,
          children, main, certificate>>

Message == [role : Roles, command : RoleCommands]
NoCall == [role |-> "dolt", command |-> "status", state |-> "none",
           reply |-> "none", empty |-> FALSE]
Work == 0 .. MaxWork

TypeOK ==
    /\ tracker \in [Tracked -> [phase : TrackerPhases, requests : Work,
                                workflows : Work, background : Work,
                                failed : BOOLEAN]]
    /\ sql \in [closed : BOOLEAN, sessions : Work, pending : Work,
                broker : Work, native : Work]
    /\ call \in [role : Roles, command : RoleCommands,
                 state : {"none", "sent", "taken", "answered"},
                 reply : Replies, empty : BOOLEAN]
    /\ late \in SUBSET Message
    /\ host \in [stage : Stages, role : Roles, failed : BOOLEAN]
    /\ intent \in {"none", "draining", "releasing", "released"}
    /\ route \in BOOLEAN
    /\ planned \in BOOLEAN
    /\ freed \in BOOLEAN
    /\ children \in [Roles -> {"running", "zero", "failed"}]
    /\ main \in {"serving", "waiting", "quiesce", "census", "stop", "exited",
                 "failed"}
    /\ certificate \in BOOLEAN

(* A backend whose readiness opened SQL admission. *)
Init ==
    /\ tracker = [r \in Tracked |-> [phase |-> "Serving", requests |-> 0,
                    workflows |-> 0, background |-> 0, failed |-> FALSE]]
    /\ sql = [closed |-> FALSE, sessions |-> 0, pending |-> 0, broker |-> 0,
              native |-> 0]
    /\ call = NoCall
    /\ late = {}
    /\ host = [stage |-> "idle", role |-> "dolt", failed |-> FALSE]
    /\ intent = "none"
    /\ route = TRUE
    /\ planned = FALSE
    /\ freed = FALSE
    /\ children = [r \in Roles |-> "running"]
    /\ main = "serving"
    /\ certificate = FALSE

Runs(r) == children[r] = "running"
ContainerRunning == main \notin {"exited", "failed"}

-----------------------------------------------------------------------------
(* Work of the tracked roles. *)

NoWork(t) == t.requests = 0 /\ t.workflows = 0 /\ t.background = 0
Drained(t) == t.phase = "Draining" /\ NoWork(t) /\ ~t.failed

Working(r, kind) == Runs(r) /\ kind \in Kinds
Track(r, t) ==
    /\ tracker' = [tracker EXCEPT ![r] = t]
    /\ UNCHANGED <<sql, commands, host, records, container>>

(* Tracker::request without a workflow. *)
Request(r) ==
    /\ Working(r, "request")
    /\ tracker[r].phase = "Serving"
    /\ tracker[r].requests < MaxWork
    /\ Track(r, [tracker[r] EXCEPT !.requests = @ + 1])

(* An open publication workflow carries its requests through the drain. *)
WorkflowRequest ==
    LET t == tracker["celler"]
    IN  /\ Working("celler", "workflow")
        /\ t.workflows > 0
        /\ t.requests < MaxWork
        /\ t.phase \notin {"Releasing", "Released"}
        /\ Track("celler", [t EXCEPT !.requests = @ + 1])

(* Opening and closing a workflow are requests themselves. *)
OpenWorkflow ==
    LET t == tracker["celler"]
    IN  /\ Working("celler", "workflow")
        /\ t.requests > 0
        /\ t.phase = "Serving"
        /\ t.workflows < MaxWork
        /\ Track("celler", [t EXCEPT !.workflows = @ + 1])

CloseWorkflow ==
    LET t == tracker["celler"]
    IN  /\ Working("celler", "workflow")
        /\ t.requests > 0
        /\ t.workflows > 0
        /\ Track("celler", [t EXCEPT !.workflows = @ - 1])

(* Detached work is counted before its request ends. *)
Detach(r) ==
    /\ Working(r, "background")
    /\ tracker[r].requests > 0
    /\ tracker[r].background < MaxWork
    /\ Track(r, [tracker[r] EXCEPT !.background = @ + 1])

(* Garbage collection and the heartbeat. *)
Maintenance ==
    LET t == tracker["celler"]
    IN  /\ Working("celler", "background")
        /\ t.phase = "Serving"
        /\ t.background < MaxWork
        /\ Track("celler", [t EXCEPT !.background = @ + 1])

(* A guard is dropped; an end nobody observed marks the role as failed. *)
EndRequest(r) ==
    /\ Runs(r)
    /\ tracker[r].requests > 0
    /\ \E uncertain \in BOOLEAN :
           Track(r, [tracker[r] EXCEPT !.requests = @ - 1,
                                       !.failed = @ \/ uncertain])

EndBackground(r) ==
    /\ Runs(r)
    /\ tracker[r].background > 0
    /\ \E uncertain \in BOOLEAN :
           Track(r, [tracker[r] EXCEPT !.background = @ - 1,
                                       !.failed = @ \/ uncertain])

-----------------------------------------------------------------------------
(* SQL sessions and broker work. *)

Gated(s) ==
    /\ sql' = s
    /\ UNCHANGED <<tracker, commands, host, records, container>>

(* Mutant: admission does not look at the gate. *)
MutAdmit ==
    /\ Working("dolt", "session")
    /\ sql.sessions < MaxWork
    /\ Gated([sql EXCEPT !.sessions = @ + 1, !.pending = @ + 1])

(* A connection is accepted and takes its lease. *)
Admit ==
    /\ Working("dolt", "session")
    /\ ~sql.closed
    /\ sql.sessions < MaxWork
    /\ Gated([sql EXCEPT !.sessions = @ + 1, !.pending = @ + 1])

(* It is joined to a session of Dolt, or is not. *)
Connect ==
    /\ Runs("dolt")
    /\ sql.pending > 0
    /\ sql.native < MaxWork
    /\ Gated([sql EXCEPT !.pending = @ - 1, !.native = @ + 1])

ConnectFails ==
    /\ Runs("dolt")
    /\ sql.pending > 0
    /\ Gated([sql EXCEPT !.pending = @ - 1, !.sessions = @ - 1])

(* The client is gone: the lease ends, the session of Dolt lingers. *)
Disconnect ==
    /\ Runs("dolt")
    /\ sql.sessions > sql.pending
    /\ Gated([sql EXCEPT !.sessions = @ - 1])

NativeEnds ==
    /\ Runs("dolt")
    /\ sql.native > 0
    /\ Gated([sql EXCEPT !.native = @ - 1])

AdmitBroker ==
    /\ Working("dolt", "broker")
    /\ ~sql.closed
    /\ sql.broker < MaxWork
    /\ Gated([sql EXCEPT !.broker = @ + 1])

EndBroker ==
    /\ Runs("dolt")
    /\ sql.broker > 0
    /\ Gated([sql EXCEPT !.broker = @ - 1])

-----------------------------------------------------------------------------
(* The roles execute commands. *)

Ask(stage, role, command) ==
    /\ host' = [host EXCEPT !.stage = stage, !.role = role]
    /\ call' = [NoCall EXCEPT !.role = role, !.command = command, !.state = "sent"]

Answered == call.state = "answered"
Answer(reply) == call' = [call EXCEPT !.state = "answered", !.reply = reply]

Asked(r) == call.state = "sent" /\ call.role = r

(* The control loop of a tracked role serves one command at a time and ends *)
(* with its release.                                                       *)
Controls(r) == Runs(r) /\ tracker[r].phase \in {"Serving", "Draining"}

(* Tracker::begin, abort, release, quiescent and status. *)
Commanded(t, command) ==
    [t EXCEPT !.phase =
        IF command = "begin" THEN "Draining"
        ELSE IF command = "abort" THEN "Serving"
        ELSE IF command = "release" /\ Drained(t) THEN "Releasing"
        ELSE @]

(* What the client makes of the response. *)
TrackerReply(t, command) ==
    IF Drained(t) /\ command # "release" THEN "drained"
    ELSE IF command \in {"quiesce", "release"} THEN "error"
    ELSE IF t.phase = "Serving" THEN "serving"
    ELSE IF t.failed THEN "error"
    ELSE "busy"

TakeTracked(r) ==
    LET t == Commanded(tracker[r], call.command)
    IN  /\ Asked(r)
        /\ Controls(r)
        /\ tracker' = [tracker EXCEPT ![r] = t]
        /\ IF t.phase = "Releasing"
             THEN call' = [call EXCEPT !.state = "taken"]
             ELSE Answer(TrackerReply(t, call.command))
        /\ UNCHANGED <<sql, late, host, records, container>>

(* Gate::command: the gate and its counters are read under the lock, the    *)
(* native sessions are counted after it was released.                      *)
GateAfter(command) ==
    IF command = "begin" THEN TRUE
    ELSE IF command = "abort" THEN FALSE
    ELSE sql.closed

TakeSql ==
    LET closed == GateAfter(call.command)
    IN  /\ Asked("dolt")
        /\ Runs("dolt")
        /\ sql' = [sql EXCEPT !.closed = closed]
        /\ IF closed
             THEN call' = [call EXCEPT !.state = "taken",
                             !.empty = (sql.sessions = 0 /\ sql.broker = 0)]
             ELSE Answer("serving")
        /\ UNCHANGED <<tracker, late, host, records, container>>

(* Mutant: Dolt's own sessions are not counted. *)
MutNoneNative == TRUE

NoneNative == sql.native = 0

Census ==
    /\ call.state = "taken" /\ call.role = "dolt"
    /\ Runs("dolt")
    /\ Answer(IF call.empty /\ NoneNative THEN "drained" ELSE "busy")
    /\ UNCHANGED <<native, late, host, records, container>>

(* A command nobody waits for: its effect is all that is left of it. *)
TakeLate ==
    \E m \in late :
        /\ Runs(m.role)
        /\ late' = late \ {m}
        /\ IF m.role = "dolt"
             THEN /\ sql' = [sql EXCEPT !.closed = GateAfter(m.command)]
                  /\ UNCHANGED tracker
             ELSE /\ Controls(m.role)
                  /\ tracker' = [tracker EXCEPT ![m.role] = Commanded(@, m.command)]
                  /\ UNCHANGED sql
        /\ UNCHANGED <<call, host, records, container>>

(* The client of a command that was not executed yet is gone. *)
Overtaken ==
    IF call.state = "sent" /\ Cardinality(late) < MaxLate
      THEN {late, late \cup {[role |-> call.role, command |-> call.command]}}
      ELSE {late}

(* The timeout of every command but a release, or a role that does not run. *)
GiveUp ==
    /\ call.state \in {"sent", "taken"}
    /\ call.command # "release" \/ ~Runs(call.role)
    /\ Answer("error")
    /\ late' \in Overtaken
    /\ UNCHANGED <<native, host, records, container>>

-----------------------------------------------------------------------------
(* The native processes end. *)

(* A released role closes its storage and answers. *)
Close(r) ==
    /\ Runs(r)
    /\ tracker[r].phase = "Releasing"
    /\ tracker' = [tracker EXCEPT ![r].phase = "Released"]
    /\ IF call.role = r /\ call.state = "taken"
         THEN Answer("released")
         ELSE UNCHANGED call
    /\ UNCHANGED <<sql, late, host, records, container>>

(* The process ends at zero; a closed compiler is recorded as freed. *)
Ends(r) ==
    /\ Runs(r)
    /\ tracker[r].phase = "Released"
    /\ ContainerRunning
    /\ planned
    /\ children' = [children EXCEPT ![r] = "zero"]
    /\ freed' = (freed \/ r = "compiler")
    /\ main' = IF r = "celler" THEN "waiting" ELSE main
    /\ UNCHANGED <<native, commands, host, records, planned, certificate>>

(* Mutant: a planned stop is certified however it ends. *)
MutDisrupted ==
    /\ ContainerRunning
    /\ main' = "failed"
    /\ children' = [r \in Roles |-> IF Runs(r) THEN "failed" ELSE children[r]]
    /\ certificate' = planned
    /\ UNCHANGED <<native, commands, host, records, planned, freed>>

(* A process ends otherwise, or the container is told to terminate: what    *)
(* still runs is ended, whatever it does, and nothing is certified.        *)
Disrupted ==
    /\ ContainerRunning
    /\ main' = "failed"
    /\ children' = [r \in Roles |-> IF Runs(r) THEN "failed" ELSE children[r]]
    /\ UNCHANGED <<native, commands, host, records, planned, freed, certificate>>

(* planned_release. *)
Supervise(from, to) == main = from /\ main' = to

AwaitCompiler ==
    /\ Supervise("waiting", "quiesce")
    /\ freed
    /\ UNCHANGED <<native, commands, host, records, planned, freed, children, certificate>>

QuiesceSql ==
    /\ Supervise("quiesce", "census")
    /\ sql.closed /\ sql.sessions = 0 /\ sql.broker = 0
    /\ UNCHANGED <<native, commands, host, records, planned, freed, children, certificate>>

CensusSql ==
    /\ main = "census"
    /\ main' = IF NoneNative THEN "stop" ELSE "quiesce"
    /\ UNCHANGED <<native, commands, host, records, planned, freed, children, certificate>>

(* Dolt is terminated, its clean end reaped and this boot certified. *)
StopDolt ==
    /\ Supervise("stop", "exited")
    /\ children' = [children EXCEPT !["dolt"] = "zero"]
    /\ certificate' = TRUE
    /\ UNCHANGED <<native, commands, host, records, planned, freed>>

-----------------------------------------------------------------------------
(* The update process. *)

Next1 == [dolt |-> "celler", celler |-> "compiler", compiler |-> "compiler"]
LastRole == host.role = "compiler"
Stage(stage) == host' = [host EXCEPT !.stage = stage, !.role = "dolt"]
At(stage) == host.stage = stage
Told(stage) == At(stage) /\ Answered

Fail == Stage("idle") /\ call' = NoCall

HostDrain ==
    /\ At("idle")
    /\ intent \in {"none", "draining"}
    /\ ContainerRunning
    /\ intent' = "draining"
    /\ Stage("close")
    /\ UNCHANGED <<native, commands, route, container>>

HostClose ==
    /\ At("close")
    /\ route' = FALSE
    /\ Ask("begin", "dolt", "begin")
    /\ UNCHANGED <<native, late, intent, container>>

(* drain::quiesce: a busy role is asked again within the budget. *)
HostPolled ==
    /\ Told("begin") \/ Told("poll")
    /\ \/ call.reply = "drained" /\ Ask("confirm", host.role, "quiesce")
       \/ call.reply = "busy" /\ Ask("poll", host.role, "status")
       \/ call.reply # "drained" /\ Ask("undo", host.role, "abort")
    /\ UNCHANGED <<native, late, records, container>>

HostConfirmed ==
    /\ Told("confirm")
    /\ IF call.reply # "drained" THEN Ask("undo", host.role, "abort")
       ELSE IF LastRole THEN Ask("recheck", "dolt", "quiesce")
       ELSE Ask("begin", Next1[host.role], "begin")
    /\ UNCHANGED <<native, late, records, container>>

HostUndone ==
    /\ Told("undo")
    /\ Ask("abort", "dolt", "abort")
    /\ UNCHANGED <<native, late, records, container>>

(* backend::quiesce asks all roles once more. *)
HostRechecked ==
    /\ Told("recheck")
    /\ IF call.reply # "drained" THEN Ask("abort", "dolt", "abort")
       ELSE IF LastRole THEN Stage("releasing") /\ call' = NoCall
       ELSE Ask("recheck", Next1[host.role], "quiesce")
    /\ UNCHANGED <<native, late, records, container>>

(* backend::abort, within quiesce and after it. *)
HostAborted ==
    /\ Told("abort")
    /\ IF LastRole
         THEN Ask("abort again", "dolt", "abort")
         ELSE Ask("abort", Next1[host.role], "abort")
    /\ UNCHANGED <<native, late, records, container>>

(* Admission is reopened when every role confirmed that it serves. *)
HostReopened ==
    LET failed == host.failed \/ call.reply # "serving"
    IN  /\ Told("abort again")
        /\ IF LastRole
             THEN /\ host' = [stage |-> "idle", role |-> "dolt", failed |-> FALSE]
                  /\ call' = NoCall
                  /\ route' = ~failed
             ELSE /\ host' = [host EXCEPT !.role = Next1[host.role], !.failed = failed]
                  /\ call' = [NoCall EXCEPT !.role = Next1[host.role],
                                           !.command = "abort", !.state = "sent"]
                  /\ UNCHANGED route
        /\ UNCHANGED <<native, late, intent, container>>

HostReleasing ==
    /\ At("releasing")
    /\ intent' = "releasing"
    /\ Stage("plan")
    /\ UNCHANGED <<native, commands, route, container>>

(* An interrupted release is taken up where it was. *)
HostResume ==
    /\ At("idle")
    /\ intent = "releasing"
    /\ Stage(IF ContainerRunning THEN "plan" ELSE "exit")
    /\ UNCHANGED <<native, commands, records, container>>

HostPlan ==
    /\ At("plan")
    /\ ContainerRunning
    /\ planned' = TRUE
    /\ Stage("freed")
    /\ UNCHANGED <<native, commands, records, freed, children, main, certificate>>

(* Mutant: the compiler is asked again when it was freed. *)
MutFreed ==
    /\ At("freed")
    /\ ContainerRunning
    /\ Ask("compiler", "compiler", "release")
    /\ UNCHANGED <<native, late, records, container>>

HostFreed ==
    /\ At("freed")
    /\ ContainerRunning
    /\ IF freed THEN Ask("celler", "celler", "release")
                ELSE Ask("compiler", "compiler", "release")
    /\ UNCHANGED <<native, late, records, container>>

HostFreedCompiler ==
    /\ Told("compiler")
    /\ IF call.reply = "released" THEN Ask("celler", "celler", "release") ELSE Fail
    /\ UNCHANGED <<native, late, records, container>>

HostFreedCeller ==
    /\ Told("celler")
    /\ Stage(IF call.reply = "released" \/ ~ContainerRunning THEN "exit" ELSE "idle")
    /\ call' = NoCall
    /\ UNCHANGED <<native, late, records, container>>

(* clean_exit. *)
HostExited ==
    /\ At("exit")
    /\ main = "exited"
    /\ certificate
    /\ intent' = "released"
    /\ Stage("idle")
    /\ UNCHANGED <<native, commands, route, container>>

(* The process dies, or returns an error that leaves nothing to undo. *)
HostDies ==
    /\ ~At("idle")
    /\ host' = [stage |-> "idle", role |-> "dolt", failed |-> FALSE]
    /\ call' = NoCall
    /\ late' \in Overtaken
    /\ UNCHANGED <<native, records, container>>

-----------------------------------------------------------------------------
Arrive ==
    \/ \E r \in Tracked : Request(r) \/ Detach(r)
    \/ WorkflowRequest \/ OpenWorkflow \/ Maintenance
    \/ Admit \/ Connect \/ AdmitBroker

Finish ==
    \/ \E r \in Tracked : EndRequest(r) \/ EndBackground(r)
    \/ CloseWorkflow
    \/ ConnectFails \/ Disconnect \/ NativeEnds \/ EndBroker

Serve ==
    \/ \E r \in Tracked : TakeTracked(r) \/ Close(r) \/ Ends(r)
    \/ TakeSql \/ Census

Release == AwaitCompiler \/ QuiesceSql \/ CensusSql \/ StopDolt

Host ==
    \/ HostDrain \/ HostClose \/ HostPolled \/ HostConfirmed \/ HostUndone
    \/ HostRechecked \/ HostAborted \/ HostReopened \/ HostReleasing
    \/ HostResume \/ HostPlan \/ HostFreed \/ HostFreedCompiler
    \/ HostFreedCeller \/ HostExited

Next ==
    \/ Arrive \/ Finish \/ Serve \/ TakeLate \/ Release \/ Host
    \/ GiveUp \/ HostDies \/ Disrupted

Spec == Init /\ [][Next]_vars

(* Commands are executed and processes end, the first process supervises,  *)
(* and the update is resumed and goes on.                                  *)
FairSpec ==
    /\ Spec
    /\ WF_vars(Serve)
    /\ WF_vars(Release)
    /\ WF_vars(Host)
    /\ WF_vars(GiveUp)

-----------------------------------------------------------------------------
(* Properties. *)

Idle(r) == IF r = "dolt"
             THEN sql.sessions = 0 /\ sql.broker = 0 /\ sql.native = 0
             ELSE NoWork(tracker[r])
Shut(r) == IF r = "dolt" THEN sql.closed ELSE tracker[r].phase # "Serving"

(* The release is decided over roles that admit nothing and do nothing, and *)
(* they stay so.                                                           *)
ReleaseFindsQuiet ==
    intent \in {"releasing", "released"} => \A r \in Roles : Shut(r) /\ Idle(r)

(* A planned end of a native process cuts off no work. *)
NoWorkAbandoned ==
    [][\A r \in Roles : children[r] = "running" /\ children'[r] = "zero" => Idle(r)]_vars

(* Traffic is routed only to roles that all admit it. *)
OpenMeansServing == route => \A r \in Roles : ~Shut(r)

(* Celler and the compiler never end a planned release with work left,     *)
(* whatever late command reaches them.                                     *)
TrackedNeverAbandons ==
    [][\A r \in Tracked : children[r] = "running" /\ children'[r] = "zero" => Idle(r)]_vars

(* A release that was planned over quiet roles ends the container, whenever *)
(* the host died before (an error return is taken up again, too), unless a  *)
(* late command opens a role again.                                        *)
PlannedReleaseEnds ==
    <>[][HostDies => Host]_vars =>
        (planned /\ (\A r \in Roles : Shut(r) /\ Idle(r))
                 /\ (\A r \in Tracked : ~tracker[r].failed)
            ~> ~ContainerRunning \/ \E r \in Roles : ~Shut(r))

(* The drain implements the handover. *)
Handover == INSTANCE CleanHandover WITH
    open <- {r \in Roles : ~Shut(r)},
    busy <- {r \in Roles : ~Idle(r)},
    gone <- {r \in Roles : children[r] = "zero"},
    proven <- certificate

(* Every step of the drain, its undoing and the release is one of the      *)
(* abstract handover, or none.                                             *)
ImplementsHandover == Handover!Spec
=============================================================================
