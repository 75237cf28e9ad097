---------------------------- MODULE GatewayHandoff ----------------------------
(***************************************************************************)
(* Egress gateway generations: the routing plan and its retirement         *)
(* receipts (lifecycle/generation), the controller that follows the plan   *)
(* (control/serving/native), the issuer that moves live grants from one    *)
(* generation to the next (control/gateway), the gateways themselves       *)
(* (gateway, gateway/management, gateway/traffic) and the front door that  *)
(* routes new connections (route).                                         *)
(*                                                                         *)
(* The plan and the receipts are files.  Grants live in the memory of a    *)
(* gateway and last as long as the attachment the controller holds on it;  *)
(* launch ownership lives in the memory of the controller.  The command    *)
(* that publishes a plan waits for a status the controller publishes.      *)
(*                                                                         *)
(* A launch's grant is its scoped credential with its policy: the policy   *)
(* never changes, so it is not a variable.  Of the five roles only Egress,  *)
(* the gateway's, is modelled: the routes of the backend's four change with *)
(* the same plan and protect no grant.                                      *)
(***************************************************************************)
EXTENDS Naturals, FiniteSets

CONSTANTS
    Launches,       \* launches that own an egress grant
    Streams,        \* proxy connections
    MaxGen,         \* gateway generations of a run
    ObsoleteLimit,  \* obsolete generations a plan may hold (32)
    MaxFaults,      \* crashes, lost replies and refused calls in a run
    Faults          \* which of them occur

ASSUME GatewayAssumption ==
    /\ MaxGen \in Nat \ {0}
    /\ ObsoleteLimit \in Nat
    /\ MaxFaults \in Nat
    /\ Faults \subseteq {"gateway", "controller", "call", "vanish", "command"}

Gens == 1 .. MaxGen
NoGen == 0

VARIABLES
    plan,       \* native-generation.json
    receipt,    \* native-retirement-<n>.json
    status,     \* native-status.json
    container,  \* the gateway containers
    draining,   \* gateway memory: new data connections refused
    grants,     \* gateway memory: the grant table
    seen,       \* gateway memory: credentials it ever installed
    stream,     \* proxy connections through the front door
    route,      \* front door: the generation new Egress connections reach
    ctl,        \* the controller
    owner,      \* controller memory: launch ownership
    held,       \* controller memory: its attachments to gateways
    cli,        \* the command that changes the plan
    halted,     \* the controller's `stopped` file
    faults

files == <<plan, receipt, status>>
gateways == <<container, draining, grants, seen>>
vars == <<plan, receipt, status, container, draining, grants, seen, stream,
          route, ctl, owner, held, cli, halted, faults>>

NoPlan == [gateway |-> NoGen, obsolete |-> {}, preparing |-> NoGen]
Plan == [gateway : Gens, obsolete : SUBSET Gens, preparing : Gens \cup {NoGen}]

Idle == [pc |-> "idle", plan |-> NoPlan, serving |-> NoGen,
         selected |-> NoGen, retiring |-> {}, todo |-> {}, gone |-> {},
         pending |-> {}]
Ended == [Idle EXCEPT !.pc = "down"]

NoStream == [stage |-> "none", owner |-> "none", gen |-> NoGen,
             counted |-> FALSE, late |-> FALSE]

Points == {"down", "idle", "ready", "prepare", "activate", "select", "drain",
           "obsolete", "retire", "release", "detach", "eligible", "stop",
           "remove", "removed"}

TypeOK ==
    /\ plan \in Plan \cup {NoPlan}
    /\ receipt \in [Gens -> {"none", "eligible", "removed"}]
    /\ status \in [current : BOOLEAN, plan : Plan \cup {NoPlan},
                   ok : BOOLEAN]
    /\ container \in [Gens -> {"Missing", "Stopped", "Crashed", "Running"}]
    /\ draining \in [Gens -> BOOLEAN]
    /\ grants \in [Gens -> [Launches -> {"none", "prepared", "active"}]]
    /\ seen \in [Gens -> SUBSET Launches]
    /\ stream \in [Streams ->
          [stage : {"none", "dialled", "accepted", "serving"},
           owner : Launches \cup {"none"}, gen : Gens \cup {NoGen},
           counted : BOOLEAN, late : BOOLEAN]]
    /\ route \in Gens \cup {NoGen}
    /\ ctl \in [pc : Points, plan : Plan \cup {NoPlan},
                serving : Gens \cup {NoGen},
                selected : Gens \cup {NoGen}, retiring : SUBSET Gens,
                todo : SUBSET Gens, gone : SUBSET Gens,
                pending : SUBSET Launches]
    /\ owner \in [Launches -> {"none", "live", "revoked"}]
    /\ held \in [Gens -> [Launches -> {"none", "prepared", "activated",
                                       "followed", "detaching", "broken"}]]
    /\ cli \in {"idle", "publish", "launch", "boot", "evict", "swap", "wait", "halt"}
    /\ halted \in BOOLEAN
    /\ faults \in 0 .. MaxFaults

Init ==
    /\ plan = NoPlan
    /\ receipt = [g \in Gens |-> "none"]
    /\ status = [current |-> FALSE, plan |-> NoPlan, ok |-> FALSE]
    /\ container = [g \in Gens |-> "Missing"]
    /\ draining = [g \in Gens |-> FALSE]
    /\ grants = [g \in Gens |-> [l \in Launches |-> "none"]]
    /\ seen = [g \in Gens |-> {}]
    /\ stream = [s \in Streams |-> NoStream]
    /\ route = NoGen
    /\ ctl = Idle
    /\ owner = [l \in Launches |-> "none"]
    /\ held = [g \in Gens |-> [l \in Launches |-> "none"]]
    /\ cli = "idle"
    /\ halted = FALSE
    /\ faults = 0

-----------------------------------------------------------------------------
(* What the parts observe of each other. *)

Fault(kind) ==
    /\ kind \in Faults
    /\ faults < MaxFaults
    /\ faults' = faults + 1

Up == ctl.pc # "down"
At(pc) == ctl.pc = pc
Live(l) == owner[l] = "live"
Running(g) == container[g] = "Running"

\* Permits taken: `Status.connections` of a gateway.
Connections(g) ==
    {s \in Streams : stream[s].gen = g /\ stream[s].stage \in {"accepted", "serving"}}

\* `Generation::connections(Egress)` of the routes the controller kept for g:
\* pending connects count, connections of a replaced target do not.
Counted(g) ==
    {s \in Streams : stream[s].gen = g /\ stream[s].counted}

Granted(g) == {l \in Launches : grants[g][l] # "none"}

\* Mutant: a stopped generation is asked to drain again.
MutEligibleStopped(g) == FALSE

\* `Gateway::removed`, `Gateway::eligible_stopped`.
IsRemoved(g) == receipt[g] # "none" /\ container[g] = "Missing"

EligibleStopped(g) == receipt[g] # "none" /\ ~Running(g)

First(set) == CHOOSE g \in set : \A h \in set : g <= h

\* What a gateway process forgets when it ends, and the connections it drops.
Forget(g) ==
    /\ draining' = [draining EXCEPT ![g] = FALSE]
    /\ grants' = [grants EXCEPT ![g] = [l \in Launches |-> "none"]]
    /\ seen' = [seen EXCEPT ![g] = {}]
    /\ stream' = [s \in Streams |->
         IF stream[s].gen = g THEN NoStream ELSE stream[s]]

-----------------------------------------------------------------------------
(* Gateways and their traffic. *)

(* Client -> front door -> gateway: `Selection::admit` counts the            *)
(* connection, and the accept loop finds the gateway not draining.  A refused *)
(* connection is one that was never made.                                    *)
Dial(s, l) ==
    /\ stream[s] = NoStream
    /\ Up /\ route # NoGen /\ owner[l] # "none"
    /\ Running(route) /\ ~draining[route]
    /\ stream' = [stream EXCEPT ![s] =
         [stage |-> "dialled", owner |-> l, gen |-> route, counted |-> TRUE,
          late |-> FALSE]]
    /\ UNCHANGED <<files, gateways, route, ctl, owner, held, cli, halted, faults>>

(* The accept loop takes the permit in a later step: the management task     *)
(* that closes admission runs on another thread and may come between, then   *)
(* the permit is late.                                                       *)
Accept(s) ==
    /\ stream[s].stage = "dialled"
    /\ stream' = [stream EXCEPT ![s].stage = "accepted",
                                ![s].late = draining[stream[s].gen]]
    /\ UNCHANGED <<files, gateways, route, ctl, owner, held, cli, halted, faults>>

(* `admit`: an active grant binds the connection, anything else is answered  *)
(* 407 and closed.                                                           *)
Request(s) ==
    /\ stream[s].stage = "accepted"
    /\ stream' = [stream EXCEPT ![s] =
         IF grants[@.gen][@.owner] = "active" THEN [@ EXCEPT !.stage = "serving"]
                                             ELSE NoStream]
    /\ UNCHANGED <<files, gateways, route, ctl, owner, held, cli, halted, faults>>

(* A connection ends: cancelled with its grant, or closed by its client. *)
Cancel(s) ==
    /\ stream[s].stage = "serving"
    /\ grants[stream[s].gen][stream[s].owner] = "none"
    /\ stream' = [stream EXCEPT ![s] = NoStream]
    /\ UNCHANGED <<files, gateways, route, ctl, owner, held, cli, halted, faults>>

Close(s) ==
    /\ stream[s] # NoStream
    /\ stream' = [stream EXCEPT ![s] = NoStream]
    /\ UNCHANGED <<files, gateways, route, ctl, owner, held, cli, halted, faults>>

(* `hold` reads end of file: the controller dropped the attachment. *)
Hangup(g, l) ==
    /\ Running(g)
    /\ grants[g][l] # "none" /\ held[g][l] \in {"none", "broken"}
    /\ grants' = [grants EXCEPT ![g][l] = "none"]
    /\ UNCHANGED <<files, container, draining, seen, stream, route, ctl, owner,
                   held, cli, halted, faults>>

(* A gateway process dies; the runtime restarts it with an empty table. *)
GatewayCrash(g) ==
    /\ Running(g)
    /\ Fault("gateway")
    /\ container' = [container EXCEPT ![g] = "Crashed"]
    /\ Forget(g)
    /\ UNCHANGED <<files, route, ctl, owner, held, cli, halted>>

GatewayRestart(g) ==
    /\ container[g] = "Crashed"
    /\ container' = [container EXCEPT ![g] = "Running"]
    /\ UNCHANGED <<files, draining, grants, seen, stream, route, ctl, owner,
                   held, cli, halted, faults>>

(* Somebody removes a container that is not running. *)
Vanish(g) ==
    /\ container[g] \in {"Crashed", "Stopped"}
    /\ Fault("vanish")
    /\ container' = [container EXCEPT ![g] = "Missing"]
    /\ UNCHANGED <<files, draining, grants, seen, stream, route, ctl, owner,
                   held, cli, halted>>

-----------------------------------------------------------------------------
(* Launch ownership and the follower task of each attachment. *)

\* The issuer's mutex is held through a handoff and through release_drained.
Locked == ctl.pc \in {"prepare", "activate", "detach"}

(* Mutant: a launch is issued while a handoff is under way. *)
MutIssue(l) ==
    /\ owner[l] = "none"
    /\ Up /\ ctl.serving # NoGen
    /\ LET g == ctl.selected IN
       /\ Running(g) /\ ~draining[g] /\ l \notin seen[g]
       /\ grants' = [grants EXCEPT ![g][l] = "active"]
       /\ seen' = [seen EXCEPT ![g] = @ \cup {l}]
       /\ held' = [held EXCEPT ![g][l] = "followed"]
    /\ owner' = [owner EXCEPT ![l] = "live"]
    /\ UNCHANGED <<files, container, draining, stream, route, ctl, cli, halted,
                   faults>>

(* `Issuer::issue`: attach at the selected generation, then follow. *)
Issue(l) ==
    /\ owner[l] = "none"
    /\ Up /\ ~Locked /\ ctl.serving # NoGen
    /\ LET g == ctl.selected IN
       /\ Running(g) /\ ~draining[g] /\ l \notin seen[g]
       /\ grants' = [grants EXCEPT ![g][l] = "active"]
       /\ seen' = [seen EXCEPT ![g] = @ \cup {l}]
       /\ held' = [held EXCEPT ![g][l] = "followed"]
    /\ owner' = [owner EXCEPT ![l] = "live"]
    /\ UNCHANGED <<files, container, draining, stream, route, ctl, cli, halted,
                   faults>>

(* `Owner::drop`, `observe` at end of file, `revoke_namespace`. *)
Revoke(l) ==
    /\ Live(l)
    /\ owner' = [owner EXCEPT ![l] = "revoked"]
    /\ UNCHANGED <<files, gateways, stream, route, ctl, held, cli, halted, faults>>

(* The follower task: a planned detach is answered, a revoked owner's        *)
(* attachment is dropped, and an attachment the gateway lost revokes.        *)
FollowDetach(g, l) ==
    /\ held[g][l] = "detaching"
    /\ \/ /\ grants[g][l] # "none"
          /\ grants' = [grants EXCEPT ![g][l] = "none"]
          /\ held' = [held EXCEPT ![g][l] = "none"]
       \/ /\ grants[g][l] = "none"
          /\ held' = [held EXCEPT ![g][l] = IF At("detach") THEN "broken" ELSE "none"]
          /\ UNCHANGED grants
    /\ UNCHANGED <<files, container, draining, seen, stream, route, ctl, owner,
                   cli, halted, faults>>

FollowCancel(g, l) ==
    /\ held[g][l] = "followed" /\ ~Live(l)
    /\ held' = [held EXCEPT ![g][l] = "none"]
    /\ UNCHANGED <<files, gateways, stream, route, ctl, owner, cli, halted, faults>>

FollowLost(g, l) ==
    /\ held[g][l] = "followed" /\ grants[g][l] = "none"
    /\ owner' = [owner EXCEPT ![l] = "revoked"]
    /\ held' = [held EXCEPT ![g][l] = "none"]
    /\ UNCHANGED <<files, gateways, stream, route, ctl, cli, halted, faults>>

-----------------------------------------------------------------------------
(* The controller's reconciliation, one tick at a time. *)

Goto(pc) == ctl' = [ctl EXCEPT !.pc = pc]

(* An error ends the tick: what a handoff prepared is dropped and a Failed   *)
(* status is published; retiring generations and routes stay.                *)
Report(ok) == status' = [current |-> TRUE, plan |-> ctl.plan, ok |-> ok]

Drop == held' = [g \in Gens |-> [l \in Launches |->
    IF held[g][l] \in {"prepared", "activated", "broken"} THEN "none"
    ELSE held[g][l]]]

Fail ==
    /\ ctl' = [ctl EXCEPT !.pc = "idle", !.todo = {}, !.gone = {}, !.pending = {}]
    /\ Report(FALSE)
    /\ Drop

Changed == ctl.serving # plan.gateway

Tick ==
    /\ At("idle") /\ plan # NoPlan
    /\ ctl' = [ctl EXCEPT !.pc = IF Changed THEN "ready" ELSE "obsolete",
                          !.plan = plan]
    /\ UNCHANGED <<files, gateways, stream, route, owner, held, cli, halted, faults>>

Green == ctl.plan.gateway

(* `Plan::ready`, `Gateway::ready`, and the checks of `Issuer::handoff`. *)
Serviceable(g) == Running(g) /\ ~draining[g]
Ready ==
    /\ At("ready")
    /\ Serviceable(Green)
    /\ \/ ctl.selected \in {NoGen, Green} /\ ctl' = [ctl EXCEPT !.pc = "select",
                                                                !.selected = Green]
       \/ /\ ctl.selected \notin {NoGen, Green}
          /\ Running(ctl.selected)
          /\ ctl' = [ctl EXCEPT !.pc = "prepare",
                                !.pending = {l \in Launches : owner[l] # "none"}]
    /\ UNCHANGED <<files, gateways, stream, route, owner, held, cli, halted, faults>>

NotReady ==
    /\ At("ready")
    /\ ~Serviceable(Green)
    /\ Fail
    /\ UNCHANGED <<plan, receipt, gateways, stream, route, owner, cli, halted, faults>>

(* The selected gateway does not answer: every live owner is revoked. *)
SelectedLost ==
    /\ At("ready") /\ Serviceable(Green)
    /\ ctl.selected \notin {NoGen, Green} /\ ~Running(ctl.selected)
    /\ owner' = [l \in Launches |-> IF Live(l) THEN "revoked" ELSE owner[l]]
    /\ Fail
    /\ UNCHANGED <<plan, receipt, gateways, stream, route, cli, halted, faults>>

(* `Client::prepare` installs an inactive grant; a credential the gateway    *)
(* has installed before is denied, and so is any while it drains.            *)
Installs(l) == Serviceable(Green) /\ l \notin seen[Green]

Install(l, stage) ==
    /\ grants' = [grants EXCEPT ![Green][l] = stage]
    /\ seen' = [seen EXCEPT ![Green] = @ \cup {l}]

Prepare(l) ==
    /\ At("prepare") /\ l \in ctl.pending
    /\ ctl' = [ctl EXCEPT !.pending = @ \ {l}]
    /\ \/ ~Live(l) /\ UNCHANGED <<grants, seen, held>>
       \/ /\ Live(l) /\ Installs(l)
          /\ Install(l, "prepared")
          /\ held' = [held EXCEPT ![Green][l] = "prepared"]
    /\ UNCHANGED <<files, container, draining, stream, route, owner, cli, halted,
                   faults>>

(* The request is denied, or its answer is lost after it took effect. *)
PrepareFails(l) ==
    /\ At("prepare") /\ l \in ctl.pending /\ Live(l)
    /\ \/ ~Installs(l) /\ UNCHANGED <<grants, seen, faults>>
       \/ Installs(l) /\ Fault("call") /\ Install(l, "prepared")
    /\ Fail
    /\ UNCHANGED <<plan, receipt, container, draining, stream, route, owner, cli,
                   halted>>

Prepared ==
    /\ At("prepare") /\ ctl.pending = {}
    /\ ctl' = [ctl EXCEPT !.pc = "activate",
                          !.pending = {l \in Launches : held[Green][l] = "prepared"}]
    /\ UNCHANGED <<files, gateways, stream, route, owner, held, cli, halted, faults>>

Activate(l) ==
    /\ At("activate") /\ l \in ctl.pending
    /\ ctl' = [ctl EXCEPT !.pending = @ \ {l}]
    /\ \/ ~Live(l) /\ UNCHANGED <<grants, held>>
       \/ /\ Live(l) /\ grants[Green][l] = "prepared"
          /\ grants' = [grants EXCEPT ![Green][l] = "active"]
          /\ held' = [held EXCEPT ![Green][l] = "activated"]
    /\ UNCHANGED <<files, container, draining, seen, stream, route, owner, cli,
                   halted, faults>>

ActivateFails(l) ==
    /\ At("activate") /\ l \in ctl.pending /\ Live(l)
    /\ \/ grants[Green][l] = "none" /\ UNCHANGED <<grants, faults>>
       \/ /\ grants[Green][l] = "prepared"
          /\ Fault("call")
          /\ grants' = [grants EXCEPT ![Green][l] = "active"]
    /\ Fail
    /\ UNCHANGED <<plan, receipt, container, draining, seen, stream, route, owner,
                   cli, halted>>

(* Mutant: the attachment of a revoked owner is kept. *)
MutTransfer ==
    /\ At("activate") /\ ctl.pending = {}
    /\ held' = [held EXCEPT ![Green] = [l \in Launches |->
         IF @[l] \notin {"prepared", "activated"} THEN @[l]
         ELSE IF Live(l) THEN "followed" ELSE @[l]]]
    /\ ctl' = [ctl EXCEPT !.pc = "select", !.selected = Green]
    /\ UNCHANGED <<files, gateways, stream, route, owner, cli, halted, faults>>

(* A revoked owner's attachment is dropped, every other one is followed, and *)
(* green becomes the generation of later issues.                             *)
Transfer ==
    /\ At("activate") /\ ctl.pending = {}
    /\ held' = [held EXCEPT ![Green] = [l \in Launches |->
         IF @[l] \notin {"prepared", "activated"} THEN @[l]
         ELSE IF Live(l) THEN "followed" ELSE "none"]]
    /\ ctl' = [ctl EXCEPT !.pc = "select", !.selected = Green]
    /\ UNCHANGED <<files, gateways, stream, route, owner, cli, halted, faults>>

(* The front door turns; a new target starts with no connection counted. *)
Select ==
    /\ At("select")
    /\ route' = Green
    /\ stream' = [s \in Streams |->
         IF stream[s].gen = Green /\ ctl.serving # Green
           THEN [stream[s] EXCEPT !.counted = FALSE] ELSE stream[s]]
    /\ ctl' = IF ctl.serving \in {NoGen, Green}
                THEN [ctl EXCEPT !.pc = "obsolete", !.serving = Green]
                ELSE [ctl EXCEPT !.pc = "drain"]
    /\ UNCHANGED <<files, gateways, owner, held, cli, halted, faults>>

DrainOld ==
    /\ At("drain") /\ Running(ctl.serving)
    /\ draining' = [draining EXCEPT ![ctl.serving] = TRUE]
    /\ ctl' = [ctl EXCEPT !.pc = "obsolete", !.serving = Green,
                          !.retiring = @ \cup {ctl.serving}]
    /\ UNCHANGED <<files, container, grants, seen, stream, route, owner, held, cli,
                   halted, faults>>

DrainFails ==
    /\ At("drain")
    /\ \/ ~Running(ctl.serving) /\ UNCHANGED <<draining, faults>>
       \/ /\ Running(ctl.serving)
          /\ Fault("call")
          /\ draining' = [draining EXCEPT ![ctl.serving] = TRUE]
    /\ Fail
    /\ UNCHANGED <<plan, receipt, container, grants, seen, stream, route, owner,
                   cli, halted>>

-----------------------------------------------------------------------------
(* Retirement of obsolete generations. *)

Obsolete ==
    /\ At("obsolete")
    /\ LET unknown == ctl.plan.obsolete \ ctl.retiring
           known == {g \in unknown : IsRemoved(g)} IN
       /\ receipt' = [g \in Gens |-> IF g \in known THEN "removed" ELSE receipt[g]]
       /\ stream' = [s \in Streams |->
            IF stream[s].gen \in unknown \ known
              THEN [stream[s] EXCEPT !.counted = FALSE] ELSE stream[s]]
       /\ ctl' = [ctl EXCEPT !.pc = "retire",
                             !.retiring = @ \cup (unknown \ known),
                             !.todo = ctl.retiring \cup (unknown \ known)]
    /\ UNCHANGED <<plan, status, gateways, route, owner, held, cli, halted,
                   faults>>

Blue == First(ctl.todo)
Skip == [ctl EXCEPT !.todo = @ \ {Blue}]
Retired == [Skip EXCEPT !.pc = "retire", !.gone = @ \cup {Blue}]
Retiring(pc) == At(pc) /\ ctl.todo # {}

(* Mutant: a generation is retired without waiting for its connections. *)
MutRetireOne ==
    /\ Retiring("retire")
    /\ \/ /\ IsRemoved(Blue)
          /\ receipt' = [receipt EXCEPT ![Blue] = "removed"]
          /\ ctl' = Retired
          /\ UNCHANGED draining
       \/ /\ ~IsRemoved(Blue) /\ EligibleStopped(Blue)
          /\ ctl' = [ctl EXCEPT !.pc = "stop"]
          /\ UNCHANGED <<receipt, draining>>
       \/ /\ Running(Blue)
          /\ draining' = [draining EXCEPT ![Blue] = TRUE]
          /\ ctl' = [ctl EXCEPT !.pc = "eligible"]
          /\ UNCHANGED receipt
    /\ UNCHANGED <<plan, status, container, grants, seen, stream, route, owner,
                   held, cli, halted, faults>>

(* Connections still counted keep a generation; a stopped one with a receipt *)
(* goes to its removal; a running one is told to drain.                      *)
RetireOne ==
    /\ Retiring("retire")
    /\ \/ /\ Counted(Blue) # {}
          /\ ctl' = Skip
          /\ UNCHANGED <<receipt, draining>>
       \/ /\ Counted(Blue) = {} /\ IsRemoved(Blue)
          /\ receipt' = [receipt EXCEPT ![Blue] = "removed"]
          /\ ctl' = Retired
          /\ UNCHANGED draining
       \/ /\ Counted(Blue) = {} /\ ~IsRemoved(Blue) /\ EligibleStopped(Blue)
          /\ ctl' = [ctl EXCEPT !.pc = "stop"]
          /\ UNCHANGED <<receipt, draining>>
       \/ /\ Counted(Blue) = {} /\ Running(Blue)
          /\ draining' = [draining EXCEPT ![Blue] = TRUE]
          /\ ctl' = IF Connections(Blue) # {} THEN Skip
                    ELSE [ctl EXCEPT !.pc = "release"]
          /\ UNCHANGED receipt
    /\ UNCHANGED <<plan, status, container, grants, seen, stream, route, owner,
                   held, cli, halted, faults>>

(* `Issuer::release_drained`: check, detach every link to blue, wait for the *)
(* followers, and ask once more that no grant is left.                       *)
Release ==
    /\ Retiring("release")
    /\ Running(Blue) /\ Blue # ctl.selected
    /\ draining[Blue] /\ Connections(Blue) = {}
    /\ held' = [held EXCEPT ![Blue] = [l \in Launches |->
         IF @[l] = "followed" THEN "detaching" ELSE @[l]]]
    /\ Goto("detach")
    /\ UNCHANGED <<files, gateways, stream, route, owner, cli, halted, faults>>

Detached(g) == \A l \in Launches : held[g][l] # "detaching"
Broken(g) == \E l \in Launches : held[g][l] = "broken"

Released ==
    /\ Retiring("detach")
    /\ Detached(Blue) /\ ~Broken(Blue)
    /\ Running(Blue) /\ Granted(Blue) = {}
    /\ Goto("eligible")
    /\ UNCHANGED <<files, gateways, stream, route, owner, held, cli, halted, faults>>

RecordEligible ==
    /\ Retiring("eligible")
    /\ receipt' = [receipt EXCEPT ![Blue] = "eligible"]
    /\ Goto("stop")
    /\ UNCHANGED <<plan, status, gateways, stream, route, owner, held, cli, halted,
                   faults>>

(* `Gateway::retire`: stop it if it runs, then remove it. *)
Stop ==
    /\ Retiring("stop")
    /\ \/ /\ container[Blue] = "Missing"
          /\ Goto("removed")
          /\ UNCHANGED <<gateways, stream>>
       \/ /\ Running(Blue)
          /\ container' = [container EXCEPT ![Blue] = "Stopped"]
          /\ Forget(Blue)
          /\ Goto("remove")
       \/ /\ container[Blue] \in {"Stopped", "Crashed"}
          /\ Goto("remove")
          /\ UNCHANGED <<gateways, stream>>
    /\ UNCHANGED <<files, route, owner, held, cli, halted, faults>>

Remove ==
    /\ Retiring("remove")
    /\ container[Blue] \in {"Stopped", "Crashed"}
    /\ container' = [container EXCEPT ![Blue] = "Missing"]
    /\ Goto("removed")
    /\ UNCHANGED <<files, draining, grants, seen, stream, route, owner, held, cli,
                   halted, faults>>

RecordRemoved ==
    /\ Retiring("removed")
    /\ IsRemoved(Blue)
    /\ receipt' = [receipt EXCEPT ![Blue] = "removed"]
    /\ ctl' = Retired
    /\ UNCHANGED <<plan, status, gateways, stream, route, owner, held, cli, halted,
                   faults>>

(* Every way a retirement step is refused ends the tick. *)
RetireFails ==
    /\ \/ /\ Retiring("retire")
          /\ Counted(Blue) = {} /\ receipt[Blue] = "none" /\ ~Running(Blue)
       \/ /\ Retiring("release")
          /\ ~Running(Blue) \/ Blue = ctl.selected \/ ~draining[Blue]
             \/ Connections(Blue) # {}
       \/ /\ Retiring("detach")
          /\ \/ Broken(Blue)
             \/ Detached(Blue) /\ (~Running(Blue) \/ Granted(Blue) # {})
       \/ Retiring("remove") /\ container[Blue] \in {"Missing", "Running"}
    /\ Fail
    /\ UNCHANGED <<plan, receipt, gateways, stream, route, owner, cli, halted,
                   faults>>

Publish ==
    /\ At("retire") /\ ctl.todo = {}
    /\ ctl' = [ctl EXCEPT !.pc = "idle", !.retiring = @ \ ctl.gone, !.gone = {}]
    /\ Report(TRUE)
    /\ UNCHANGED <<plan, receipt, gateways, stream, route, owner, held, cli, halted,
                   faults>>

-----------------------------------------------------------------------------
(* The controller process. *)

(* With the process go its routes, its connections, its attachments and the  *)
(* owners it kept.                                                           *)
ControllerEnds ==
    /\ ctl' = Ended
    /\ route' = NoGen
    /\ stream' = [s \in Streams |-> NoStream]
    /\ held' = [g \in Gens |-> [l \in Launches |-> "none"]]
    /\ owner' = [l \in Launches |-> IF Live(l) THEN "revoked" ELSE owner[l]]

ControllerCrash ==
    /\ Up
    /\ Fault("controller")
    /\ ControllerEnds
    /\ UNCHANGED <<files, gateways, cli, halted>>

(* `Controller::bind` renews the epoch: no published status is current. *)
ControllerStart ==
    /\ ~Up /\ ~halted
    /\ ctl' = Idle
    /\ status' = [status EXCEPT !.current = FALSE]
    /\ UNCHANGED <<plan, receipt, gateways, stream, route, owner, held, cli, halted,
                   faults>>

-----------------------------------------------------------------------------
(* The commands that change the plan, one at a time under the host's locks:  *)
(* what a command read of the plan stays true until it publishes.            *)

Step(pc) == cli' = pc

FirstPlan == [NoPlan EXCEPT !.gateway = 1]

\* `Plan::next`: one more than every generation the plan names.
NextGeneration == LET used == plan.obsolete \cup {plan.gateway} IN
    1 + (CHOOSE g \in used : \A h \in used : g >= h)

BeginPlan ==
    /\ cli = "idle"
    /\ Step("publish")
    /\ halted' = FALSE
    /\ UNCHANGED <<files, gateways, stream, route, ctl, owner, held, faults>>

BeginStop ==
    /\ cli = "idle"
    /\ Step("halt")
    /\ halted' = TRUE
    /\ ControllerEnds
    /\ UNCHANGED <<files, gateways, faults>>

(* `ensure` records the first plan, or the retained one again, and so does   *)
(* `prepare_gateway` when the candidate is bound already.                    *)
Ensure ==
    /\ cli = "publish"
    /\ plan' = IF plan = NoPlan THEN FirstPlan ELSE plan
    /\ Step("launch")
    /\ UNCHANGED <<receipt, status, gateways, stream, route, ctl, owner, held,
                   halted, faults>>

Refused == Cardinality(plan.obsolete) >= ObsoleteLimit

(* `prepare_gateway`: a new generation is recorded before it exists. *)
Advance ==
    /\ cli = "publish" /\ plan # NoPlan
    /\ ~Refused
    /\ \/ plan.preparing # NoGen /\ UNCHANGED plan
       \/ /\ plan.preparing = NoGen /\ NextGeneration \in Gens
          /\ plan' = [plan EXCEPT !.preparing = NextGeneration]
    /\ Step("boot")
    /\ UNCHANGED <<receipt, status, gateways, stream, route, ctl, owner, held,
                   halted, faults>>

(* `start_gateway` of the current generation, or of the preparing one. *)
Launch ==
    /\ \/ /\ cli = "launch"
          /\ container' = [container EXCEPT ![plan.gateway] = "Running"]
          /\ Step("wait")
       \/ /\ cli = "boot"
          /\ container' = [container EXCEPT ![plan.preparing] = "Running"]
          /\ Step("evict")
    /\ UNCHANGED <<files, draining, grants, seen, stream, route, ctl, owner, held,
                   halted, faults>>

(* With the backend down, a current gateway found stopped gets its receipt   *)
(* before the plan names it obsolete; a host stop leaves both stopped, one   *)
(* that was interrupted only the gateway.                                    *)
Evict ==
    /\ cli = "evict"
    /\ \/ UNCHANGED receipt
       \/ /\ container[plan.gateway] = "Stopped"
          /\ receipt' = [receipt EXCEPT ![plan.gateway] = "eligible"]
    /\ Step("swap")
    /\ UNCHANGED <<plan, status, gateways, stream, route, ctl, owner, held, halted,
                   faults>>

Swap ==
    /\ cli = "swap"
    /\ plan' = [gateway |-> plan.preparing, preparing |-> NoGen,
                obsolete |-> plan.obsolete \cup {plan.gateway}]
    /\ Step("wait")
    /\ UNCHANGED <<receipt, status, gateways, stream, route, ctl, owner, held,
                   halted, faults>>

(* `wait`: a status of this controller that matches the plan byte for byte. *)
Confirmed == status.current /\ status.plan = plan /\ status.ok

WaitEnds ==
    /\ cli = "wait"
    /\ Confirmed
    /\ Step("idle")
    /\ UNCHANGED <<files, gateways, stream, route, ctl, owner, held, halted, faults>>

(* `stop_gateways`: with the controller gone, each gateway of the plan is    *)
(* stopped, and an obsolete one that is down gets its receipt.               *)
Halt(g) ==
    /\ cli = "halt" /\ g \in plan.obsolete \cup {plan.gateway, plan.preparing}
    /\ g # NoGen
    /\ Running(g) \/ (g \in plan.obsolete /\ receipt[g] # "eligible")
    /\ \/ /\ Running(g)
          /\ container' = [container EXCEPT ![g] = "Stopped"]
          /\ Forget(g)
       \/ ~Running(g) /\ UNCHANGED <<gateways, stream>>
    /\ receipt' = IF g \in plan.obsolete THEN [receipt EXCEPT ![g] = "eligible"]
                  ELSE receipt
    /\ UNCHANGED <<plan, status, route, ctl, owner, held, cli, halted, faults>>

(* A stop is done, the wait times out, or the command is killed where it is. *)
CommandEnds ==
    /\ cli # "idle"
    /\ \/ cli \in {"wait", "halt"} /\ UNCHANGED faults
       \/ cli \notin {"wait", "halt"} /\ Fault("command")
    /\ Step("idle")
    /\ UNCHANGED <<files, gateways, stream, route, ctl, owner, held, halted>>

-----------------------------------------------------------------------------
Traffic == \E s \in Streams :
    \/ \E l \in Launches : Dial(s, l)
    \/ Accept(s) \/ Request(s) \/ Cancel(s) \/ Close(s)

GatewayStep == \E g \in Gens :
    \/ GatewayCrash(g) \/ GatewayRestart(g) \/ Vanish(g)
    \/ \E l \in Launches : Hangup(g, l)

Ownership == \E l \in Launches :
    \/ Issue(l) \/ Revoke(l)
    \/ \E g \in Gens : FollowDetach(g, l) \/ FollowCancel(g, l) \/ FollowLost(g, l)

Handoff ==
    \/ Tick \/ Ready \/ NotReady \/ SelectedLost
    \/ \E l \in Launches : Prepare(l) \/ PrepareFails(l)
    \/ Prepared
    \/ \E l \in Launches : Activate(l) \/ ActivateFails(l)
    \/ Transfer \/ Select \/ DrainOld \/ DrainFails

Retirement ==
    \/ Obsolete \/ RetireOne \/ Release \/ Released \/ RecordEligible
    \/ Stop \/ Remove \/ RecordRemoved \/ RetireFails \/ Publish

Process == ControllerCrash \/ ControllerStart

Command ==
    \/ BeginPlan \/ BeginStop
    \/ Ensure \/ Advance \/ Launch \/ Evict \/ Swap
    \/ WaitEnds
    \/ \E g \in Gens : Halt(g)
    \/ CommandEnds

Next == Traffic \/ GatewayStep \/ Ownership \/ Handoff \/ Retirement \/ Process
        \/ Command

Spec == Init /\ [][Next]_vars

(* The controller's loop, its follower tasks and the runtime's restarts keep *)
(* going; clients and commands owe nothing.                                  *)
Fairness ==
    /\ WF_vars(Handoff \/ Retirement \/ ControllerStart)
    /\ WF_vars(\E g \in Gens, l \in Launches : FollowDetach(g, l) \/ FollowCancel(g, l))
    /\ WF_vars(\/ \E g \in Gens : GatewayRestart(g) \/ \E l \in Launches : Hangup(g, l)
               \/ \E s \in Streams : Cancel(s))

FairSpec == Spec /\ Fairness

-----------------------------------------------------------------------------
(* Safety. *)

(* A handoff, a retirement and the gateway's own losses never take a live    *)
(* launch's authority: the controller holds its attachment on the generation *)
(* that later launches are issued at, and the grant there is active unless   *)
(* that gateway lost it (control/gateway handoff, release_drained, follow).  *)
OwnersStayAuthorized == \A l \in Launches : Live(l) =>
    /\ ctl.selected # NoGen
    /\ held[ctl.selected][l] = "followed"
    /\ grants[ctl.selected][l] \in {"active", "none"}

Serving(g) == {s \in Streams : stream[s].gen = g /\ stream[s].stage = "serving"}

(* Retirement never cuts a connection that either count can see: when a      *)
(* generation is stopped, its drain has counted no permit and its routes no  *)
(* connection.  What may still be there is a connection the front door no    *)
(* longer counts, because a controller that failed to drain the previous     *)
(* generation selected this one again with fresh counters, and whose permit  *)
(* was taken after the drain closed admission (reconcile's retiring loop,    *)
(* Issuer::release_drained, run_network).                                    *)
RetirementSparesStreams == [][\A g \in Gens :
    Stop /\ Running(g) /\ container'[g] = "Stopped" =>
        \A s \in Serving(g) : stream[s].late /\ ~stream[s].counted]_vars

-----------------------------------------------------------------------------
(* Liveness. *)

(* Revocation reaches every generation: a launch whose ownership ended loses *)
(* its grants and its connections everywhere, whichever handoff or           *)
(* retirement was under way (Owner::drop, follow, hold).                     *)
RevocationReaches == \A l \in Launches :
    owner[l] = "revoked" ~>
        /\ \A g \in Gens : grants[g][l] = "none"
        /\ \A s \in Streams : stream[s].owner = l => stream[s].stage # "serving"

\* An obsolete container that is not running and has no receipt: only a host
\* stop writes one (`needs_retirement_maintenance` knows the missing ones).
NeedsMaintenance == \E g \in plan.obsolete :
    receipt[g] = "none" /\ container[g] \in {"Missing", "Stopped"}

\* A live launch whose credential the plan's gateway saw in a handoff that
\* failed: every later handoff to that gateway is denied.
Wedged == \E l \in Launches :
    Live(l) /\ l \in seen[plan.gateway] /\ held[plan.gateway][l] # "followed"

(* Retirement proceeds: it never stays so that an obsolete generation        *)
(* without connections is not removed, unless the host is stopped, the       *)
(* gateway in service is down, the handoff to it is denied, or an obsolete   *)
(* container ended without a receipt (reconcile's retiring loop).            *)
RetirementProceeds == []<>(
    \/ \A g \in plan.obsolete :
         receipt[g] = "removed" \/ \E s \in Streams : stream[s].gen = g
    \/ halted \/ ~Running(plan.gateway) \/ Wedged \/ NeedsMaintenance)
=============================================================================
