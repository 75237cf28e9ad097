------------------------ MODULE GatewayHandoffProofs ------------------------
(***************************************************************************)
(* What the gateway generations promise, for any number of launches,        *)
(* connections, generations and faults.                                     *)
(*                                                                          *)
(* Two invariants carry the two properties.  For OwnersStayAuthorized it is *)
(* what a handoff has prepared: while it runs, a live launch is still to be  *)
(* prepared or activated, or its attachment to the new gateway is as far as  *)
(* the handoff is.  For RetirementSparesStreams it is the order of the       *)
(* generations: what retires is older than the generation the front door     *)
(* routes to, so nothing new reaches it, and from the drain on every         *)
(* connection left there is uncounted and either not yet accepted or late.   *)
(***************************************************************************)
EXTENDS GatewayHandoff, WellFoundedInduction, TLAPS

-----------------------------------------------------------------------------
(* The plan, and the order of its generations. *)

Ordered(p) ==
    /\ \A g \in p.obsolete : g < p.gateway
    /\ p.preparing = NoGen \/ p.gateway < p.preparing

PlanInv ==
    /\ plan \in Plan \cup {NoPlan}
    /\ Ordered(plan)
    /\ cli \in {"boot", "evict", "swap"} => plan.preparing # NoGen

(* A nonempty set of generations has a first one. *)
LEMMA Least ==
  ASSUME NEW S \in SUBSET Nat, S # {}
  PROVE  First(S) \in S
  <1>1. PICK m \in S : \A n \in S : ~(<<n, m>> \in OpToRel(<, Nat))
    BY NatLessThanWellFounded, WFMin, Zenon
  <1>2. m \in Nat /\ \A n \in S : n \in Nat
    OBVIOUS
  <1>3. ASSUME NEW n \in S, n < m
        PROVE  FALSE
    <2>1. <<n, m>> \in Nat \X Nat /\ <<n, m>>[1] = n /\ <<n, m>>[2] = m
      BY <1>2
    <2>2. <<n, m>>[1] < <<n, m>>[2]
      BY <1>3, <2>1
    <2>3. <<n, m>> \in OpToRel(<, Nat)
      BY <2>1, <2>2, Zenon DEF OpToRel
    <2>4. QED
      BY <1>1, <2>3, Zenon
  <1>4. \A n \in S : m <= n
    BY <1>2, <1>3
  <1>5. QED
    BY <1>4 DEF First

LEMMA GensAreNumbers == Gens \subseteq Nat /\ NoGen = 0 /\ NoGen \notin Gens /\ 1 \in Gens
  BY GatewayAssumption DEF Gens, NoGen

(* The plan's own gateway is the latest generation it names, so the next one *)
(* is newer (`Plan::next`).                                                  *)
LEMMA NextIsNewer ==
  ASSUME plan \in Plan, Ordered(plan)
  PROVE  NextGeneration = plan.gateway + 1
  <1>1. plan.gateway \in Nat /\ \A g \in plan.obsolete : g \in Nat /\ g < plan.gateway
    BY GensAreNumbers DEF Plan, Ordered
  <1> DEFINE used == plan.obsolete \cup {plan.gateway}
             last == CHOOSE g \in used : \A h \in used : g >= h
  <1>2. \E g \in used : \A h \in used : g >= h
    BY <1>1
  <1>3. last \in used /\ \A h \in used : last >= h
    BY <1>2
  <1>4. last = plan.gateway
    BY <1>1, <1>3
  <1>5. QED
    BY <1>1, <1>4 DEF NextGeneration

LEMMA PlanInit == Init => PlanInv
  BY DEF Init, PlanInv, Ordered, NoPlan

LEMMA PlanStep ==
  ASSUME PlanInv, [Next]_vars
  PROVE  PlanInv'
  <1> USE GensAreNumbers
  <1>1. CASE UNCHANGED <<plan, cli>>
    BY <1>1 DEF PlanInv, Ordered
  <1>2. CASE Ensure
    <2>1. FirstPlan \in Plan /\ Ordered(FirstPlan)
      BY DEF FirstPlan, NoPlan, Plan, Ordered
    <2>2. plan' \in {plan, FirstPlan} /\ cli' = "launch"
      BY <1>2 DEF Ensure, Step
    <2>3. QED
      BY <2>1, <2>2 DEF PlanInv, Ordered
  <1>3. CASE Advance
    <2>1. plan \in Plan
      BY <1>3 DEF PlanInv, Advance
    <2>2. CASE plan.preparing # NoGen /\ UNCHANGED plan
      BY <1>3, <2>2 DEF PlanInv, Advance, Step, Ordered
    <2>3. CASE NextGeneration \in Gens /\ plan' = [plan EXCEPT !.preparing = NextGeneration]
      <3>1. NextGeneration = plan.gateway + 1 /\ plan.gateway \in Nat
        BY <2>1, NextIsNewer DEF PlanInv, Plan
      <3>2. plan' \in Plan /\ plan'.preparing = plan.gateway + 1
            /\ plan'.gateway = plan.gateway /\ plan'.obsolete = plan.obsolete
        BY <2>1, <2>3, <3>1 DEF Plan
      <3>3. QED
        BY <3>1, <3>2 DEF PlanInv, Ordered
    <2>4. QED
      BY <1>3, <2>2, <2>3 DEF Advance
  <1>4. CASE Launch
    BY <1>4 DEF Launch, Step, PlanInv, Ordered, files
  <1>5. CASE Evict
    BY <1>5 DEF Evict, Step, PlanInv, Ordered
  <1>6. CASE Swap
    <2>1. plan \in Plan /\ plan.preparing \in Gens /\ plan.gateway < plan.preparing
      BY <1>6 DEF Swap, PlanInv, Ordered, Plan, NoPlan
    <2>2. plan' \in Plan
      BY <1>6, <2>1 DEF Swap, Plan
    <2>3. plan'.preparing = NoGen /\ cli' = "wait"
      BY <1>6 DEF Swap, Step
    <2>4. \A g \in plan'.obsolete : g < plan'.gateway
      <3>1. plan'.gateway = plan.preparing /\ plan'.obsolete = plan.obsolete \cup {plan.gateway}
        BY <1>6 DEF Swap
      <3>2. plan.preparing \in Nat /\ plan.gateway \in Nat
            /\ \A g \in plan.obsolete : g \in Nat /\ g < plan.gateway
        BY <2>1 DEF Plan, PlanInv, Ordered
      <3>3. QED
        BY <2>1, <3>1, <3>2
    <2>5. QED
      BY <2>2, <2>3, <2>4 DEF PlanInv, Ordered
  <1>7. CASE BeginPlan \/ BeginStop \/ WaitEnds \/ CommandEnds
    BY <1>7 DEF BeginPlan, BeginStop, WaitEnds, CommandEnds, Step, PlanInv, Ordered, files
  <1>8. QED
    BY <1>1, <1>2, <1>3, <1>4, <1>5, <1>6, <1>7
    DEF Next, vars, Command, Process, Retirement, Handoff, Ownership, GatewayStep, Traffic,
        Dial, Accept, Request, Cancel, Close, Hangup, GatewayCrash, GatewayRestart, Vanish,
        Issue, Revoke, FollowDetach, FollowCancel, FollowLost, Tick, Ready, NotReady,
        SelectedLost, Prepare, PrepareFails, Prepared, Activate, ActivateFails, Transfer,
        Select, DrainOld, DrainFails, Obsolete, RetireOne, Release, Released,
        RecordEligible, Stop, Remove, RecordRemoved, RetireFails, Publish,
        ControllerCrash, ControllerStart, Halt, files

-----------------------------------------------------------------------------
(* The controller, and the order of the generations it works on: what       *)
(* retires is older than the routed generation, and that one is no newer    *)
(* than the plan's.                                                          *)

Controller ==
    [pc : Points, plan : Plan \cup {NoPlan}, serving : Gens \cup {NoGen},
     selected : Gens \cup {NoGen}, retiring : SUBSET Gens, todo : SUBSET Gens,
     gone : SUBSET Gens, pending : SUBSET Launches]

Underway == ctl.pc \notin {"down", "idle"}

AfterSelect == {"obsolete", "retire", "release", "detach", "eligible", "stop", "remove",
                "removed"}

CtlInv ==
    /\ ctl \in Controller
    /\ Underway => /\ ctl.plan \in Plan
                   /\ Ordered(ctl.plan)
                   /\ ctl.plan.gateway <= plan.gateway

Routing ==
    /\ route \in Gens \cup {NoGen}
    /\ ctl.serving <= route
    /\ route <= plan.gateway
    /\ Underway => route <= ctl.plan.gateway
    /\ ctl.pc = "drain" => /\ route = ctl.plan.gateway
                           /\ ctl.serving \notin {NoGen, route}
    /\ ctl.pc \in AfterSelect => route = ctl.plan.gateway /\ ctl.serving = route
    /\ \A g \in ctl.retiring : g < route
    /\ ctl.todo \subseteq ctl.retiring

LEMMA PlanNumbers ==
  ASSUME NEW p \in Plan \cup {NoPlan}
  PROVE  /\ p.gateway \in Nat /\ p.preparing \in Nat
         /\ p \in Plan => p.gateway \in Gens /\ p.obsolete \subseteq Gens
         /\ p = NoPlan => p.gateway = NoGen /\ p.obsolete = {} /\ p.preparing = NoGen
  <1>1. CASE p \in Plan
    <2>1. p.gateway \in Gens /\ p.obsolete \subseteq Gens /\ p.preparing \in Gens \cup {NoGen}
      BY <1>1 DEF Plan
    <2>2. p # NoPlan
      BY <2>1, GensAreNumbers DEF NoPlan
    <2>3. Gens \subseteq Nat /\ NoGen \in Nat
      BY GensAreNumbers
    <2>4. p.gateway \in Nat /\ p.preparing \in Nat
      BY <2>1, <2>3, Zenon
    <2>5. QED
      BY <2>1, <2>2, <2>4
  <1>2. CASE p = NoPlan
    <2>1. p.gateway = NoGen /\ p.obsolete = {} /\ p.preparing = NoGen
      BY <1>2 DEF NoPlan
    <2>2. p \notin Plan
      BY <2>1, GensAreNumbers DEF Plan
    <2>3. QED
      BY <2>1, <2>2, GensAreNumbers
  <1>3. QED
    BY <1>1, <1>2

LEMMA PlanGrows ==
  ASSUME PlanInv, [Next]_vars
  PROVE  plan.gateway \in Nat /\ plan'.gateway \in Nat /\ plan.gateway <= plan'.gateway
  <1>1. PlanInv'
    BY PlanStep
  <1>2. plan.gateway \in Nat /\ plan'.gateway \in Nat
    BY <1>1, PlanNumbers DEF PlanInv
  <1>3. CASE UNCHANGED plan
    BY <1>2, <1>3
  <1>4. CASE Ensure
    <2>1. plan' = plan \/ plan = NoPlan
      BY <1>4 DEF Ensure
    <2>2. plan = NoPlan => plan.gateway = 0
      BY GensAreNumbers DEF NoPlan
    <2>3. QED
      BY <1>2, <2>1, <2>2
  <1>5. CASE Advance
    <2>1. plan'.gateway = plan.gateway
      <3>1. plan \in Plan
        BY <1>5 DEF Advance, PlanInv
      <3>2. QED
        BY <1>5, <3>1 DEF Advance, Plan
    <2>2. QED
      BY <1>2, <2>1
  <1>6. CASE Swap
    <2>1. plan'.gateway = plan.preparing /\ plan.gateway < plan.preparing
      BY <1>6 DEF Swap, PlanInv, Ordered
    <2>2. plan.preparing \in Nat
      BY PlanNumbers DEF PlanInv
    <2>3. QED
      BY <1>2, <2>1, <2>2
  <1>7. QED
    BY <1>3, <1>4, <1>5, <1>6
    DEF Next, vars, Command, Process, Retirement, Handoff, Ownership, GatewayStep, Traffic,
        Dial, Accept, Request, Cancel, Close, Hangup, GatewayCrash, GatewayRestart, Vanish,
        Issue, Revoke, FollowDetach, FollowCancel, FollowLost, Tick, Ready, NotReady,
        SelectedLost, Prepare, PrepareFails, Prepared, Activate, ActivateFails, Transfer,
        Select, DrainOld, DrainFails, Obsolete, RetireOne, Release, Released,
        RecordEligible, Stop, Remove, RecordRemoved, RetireFails, Publish,
        ControllerCrash, ControllerStart, BeginPlan, BeginStop, Launch,
        Evict, WaitEnds, Halt, CommandEnds, files

(* How the steps that decide little move the controller: an error, a step of *)
(* the handoff before the front door turns, and a step of the retirement.    *)
Keeps == /\ ctl' \in Controller /\ UNCHANGED route
         /\ ctl'.plan = ctl.plan /\ ctl'.serving = ctl.serving

Fails == /\ Underway /\ Keeps
         /\ ctl'.pc = "idle" /\ ctl'.retiring = ctl.retiring /\ ctl'.todo = {}

Prepares == /\ ctl.pc \in {"ready", "prepare", "activate"} /\ Keeps
            /\ ctl'.pc \in {"prepare", "activate", "select"}
            /\ ctl'.retiring = ctl.retiring /\ ctl'.todo = ctl.todo

Retires == /\ ctl.pc \in AfterSelect \ {"obsolete"} /\ Keeps
           /\ ctl'.pc \in (AfterSelect \ {"obsolete"}) \cup {"idle"}
           /\ ctl'.retiring \subseteq ctl.retiring
           /\ ctl'.todo \subseteq ctl.todo /\ ctl'.todo \subseteq ctl'.retiring

LEMMA HandoffMoves ==
  ASSUME CtlInv, Handoff
  PROVE  Fails \/ Tick \/ Prepares \/ Select \/ DrainOld
  <1> USE DEF At, Goto, Keeps, Underway
  <1>c. ctl \in Controller
    BY DEF CtlInv
  <1>1. CASE \/ NotReady \/ SelectedLost \/ DrainFails
             \/ \E l \in Launches : PrepareFails(l) \/ ActivateFails(l)
    <2>1. Underway /\ Fail /\ UNCHANGED route
      BY <1>1 DEF NotReady, SelectedLost, DrainFails, PrepareFails, ActivateFails
    <2>2. ctl' = [ctl EXCEPT !.pc = "idle", !.todo = {}, !.gone = {}, !.pending = {}]
      BY <2>1 DEF Fail
    <2>3. Fails
      BY <1>c, <2>1, <2>2 DEF Controller, Points, Fails
    <2>4. QED
      BY <2>3
  <1>2. CASE Ready
    <2>1. Green \in Gens
      BY <1>2 DEF Ready, CtlInv, Plan, Green
    <2>2. CASE ctl' = [ctl EXCEPT !.pc = "select", !.selected = Green]
      BY <1>c, <1>2, <2>1, <2>2 DEF Ready, Controller, Points, Prepares
    <2>3. CASE ctl' = [ctl EXCEPT !.pc = "prepare",
                                  !.pending = {l \in Launches : owner[l] # "none"}]
      BY <1>c, <1>2, <2>3 DEF Ready, Controller, Points, Prepares
    <2>4. QED
      BY <1>2, <2>2, <2>3 DEF Ready
  <1>3. ASSUME NEW l \in Launches, Prepare(l) \/ Activate(l)
        PROVE  Prepares
    <2>1. ctl.pc \in {"prepare", "activate"} /\ ctl' = [ctl EXCEPT !.pending = @ \ {l}]
          /\ UNCHANGED route
      BY <1>3 DEF Prepare, Activate
    <2>2. QED
      BY <1>c, <2>1 DEF Controller, Points, Prepares
  <1>4. CASE Prepared
    <2>1. {l \in Launches : held[Green][l] = "prepared"} \in SUBSET Launches
      OBVIOUS
    <2>2. QED
      BY <1>c, <1>4, <2>1 DEF Prepared, Controller, Points, Prepares
  <1>5. CASE Transfer
    <2>1. Green \in Gens
      BY <1>5 DEF Transfer, CtlInv, Plan, Green
    <2>2. QED
      BY <1>c, <1>5, <2>1 DEF Transfer, Controller, Points, Prepares
  <1>6. QED
    BY <1>1, <1>2, <1>3, <1>4, <1>5 DEF Handoff

LEMMA FirstIsListed ==
  ASSUME CtlInv, ctl.todo # {}
  PROVE  Blue \in ctl.todo /\ Blue \in Gens
  <1>1. ctl.todo \in SUBSET Nat /\ ctl.todo \subseteq Gens
    BY GensAreNumbers DEF CtlInv, Controller
  <1>2. QED
    BY <1>1, Least DEF Blue

LEMMA RetirementMoves ==
  ASSUME CtlInv, Routing, Retirement
  PROVE  Fails \/ Obsolete \/ Retires
  <1> USE DEF At, Goto, Keeps, Underway, Retiring, AfterSelect
  <1>c. ctl \in Controller /\ ctl.todo \subseteq ctl.retiring
    BY DEF CtlInv, Routing
  <1>b. ctl.todo # {} => Blue \in Gens
    BY FirstIsListed
  <1>1. CASE RetireFails
    <2>1. Underway /\ Fail /\ UNCHANGED route
      BY <1>1 DEF RetireFails
    <2>2. ctl' = [ctl EXCEPT !.pc = "idle", !.todo = {}, !.gone = {}, !.pending = {}]
      BY <2>1 DEF Fail
    <2>3. Fails
      BY <1>c, <2>1, <2>2 DEF Controller, Points, Fails
    <2>4. QED
      BY <2>3
  <1>2. ASSUME NEW pc \in AfterSelect \ {"obsolete"}, ctl' = [ctl EXCEPT !.pc = pc],
               ctl.pc \in AfterSelect \ {"obsolete"}, UNCHANGED route
        PROVE  Retires
    BY <1>c, <1>2 DEF Controller, Points, Retires
  <1>3. ASSUME ctl' \in {Skip, Retired}, ctl.pc \in AfterSelect \ {"obsolete"}, ctl.todo # {},
               UNCHANGED route
        PROVE  Retires
    <2>1. CASE ctl' = Skip
      BY <1>c, <1>3, <2>1 DEF Controller, Points, Retires, Skip
    <2>2. CASE ctl' = Retired
      <3>1. ctl' = [ctl EXCEPT !.todo = @ \ {Blue}, !.pc = "retire", !.gone = @ \cup {Blue}]
        BY <2>2, <1>c DEF Retired, Skip, Controller
      <3>2. QED
        BY <1>b, <1>c, <1>3, <3>1 DEF Controller, Points, Retires
    <2>3. QED
      BY <1>3, <2>1, <2>2
  <1>4. CASE RetireOne
    <2>1. /\ ctl.pc = "retire" /\ ctl.todo # {} /\ UNCHANGED route
          /\ ctl' \in {Skip, Retired} \/ ctl' = [ctl EXCEPT !.pc = "stop"]
             \/ ctl' = [ctl EXCEPT !.pc = "release"]
      BY <1>4 DEF RetireOne
    <2>2. QED
      BY <1>2, <1>3, <2>1
  <1>5. CASE Release \/ Released \/ RecordEligible \/ Stop \/ Remove
    <2>1. ctl.pc \in AfterSelect \ {"obsolete"} /\ UNCHANGED route
      BY <1>5 DEF Release, Released, RecordEligible, Stop, Remove, gateways
    <2>2. \E pc \in AfterSelect \ {"obsolete"} : ctl' = [ctl EXCEPT !.pc = pc]
      BY <1>5 DEF Release, Released, RecordEligible, Stop, Remove
    <2>3. QED
      BY <1>2, <2>1, <2>2
  <1>6. CASE RecordRemoved
    BY <1>3, <1>6 DEF RecordRemoved
  <1>7. CASE Publish
    BY <1>c, <1>7 DEF Publish, Controller, Points, Retires
  <1>8. QED
    BY <1>1, <1>4, <1>5, <1>6, <1>7 DEF Retirement

LEMMA CtlInit == Init => CtlInv /\ Routing
  BY GensAreNumbers
  DEF Init, CtlInv, Routing, Controller, Points, Idle, NoPlan, Underway, AfterSelect

(* What the rest of the system leaves to the controller. *)
LEMMA ElseSame ==
  ASSUME Traffic \/ GatewayStep \/ Ownership \/ UNCHANGED vars
         \/ (Command /\ ~BeginStop)
  PROVE  UNCHANGED <<ctl, route>>
  BY DEF vars, Command, Ownership, GatewayStep, Traffic, Dial, Accept, Request, Cancel, Close,
     Hangup, GatewayCrash, GatewayRestart, Vanish, Issue, Revoke, FollowDetach, FollowCancel,
     FollowLost, BeginPlan, Ensure, Advance, Launch, Evict, Swap, WaitEnds, Halt, CommandEnds

LEMMA ControlStep ==
  ASSUME PlanInv, CtlInv, Routing, [Next]_vars
  PROVE  CtlInv' /\ Routing'
  <1> USE GensAreNumbers DEF Underway, AfterSelect
  <1>c. /\ ctl \in Controller /\ ctl.serving \in Nat /\ route \in Nat
        /\ ctl.serving \in Gens \cup {NoGen} /\ ctl.retiring \subseteq Nat
        /\ ctl.plan.gateway \in Nat
    <2>1. /\ ctl.serving \in Gens \cup {NoGen} /\ ctl.retiring \subseteq Gens
          /\ ctl.plan \in Plan \cup {NoPlan} /\ route \in Gens \cup {NoGen}
      BY DEF CtlInv, Routing, Controller
    <2>2. ctl.plan.gateway \in Nat
      BY <2>1, PlanNumbers
    <2>3. ctl \in Controller
      BY DEF CtlInv
    <2>4. Gens \subseteq Nat /\ NoGen \in Nat
      BY GensAreNumbers
    <2>5. ctl.retiring \subseteq Nat
      BY <2>1, <2>4, Zenon
    <2>6. ctl.serving \in Nat
      BY <2>1, <2>4, Zenon
    <2>7. route \in Nat
      BY <2>1
    <2>8. QED
      BY <2>1, <2>2, <2>3, <2>5, <2>6, <2>7
  <1>p. plan.gateway \in Nat /\ plan'.gateway \in Nat /\ plan.gateway <= plan'.gateway
    BY PlanGrows
  <1>1. CASE UNCHANGED <<ctl, route>>
    BY <1>1, <1>c, <1>p DEF CtlInv, Routing, Ordered
  <1>2. CASE ControllerEnds
    <2>1. ctl' = Ended /\ route' = NoGen
      BY <1>2 DEF ControllerEnds
    <2>2. /\ ctl' \in Controller /\ ctl'.pc = "down" /\ ctl'.serving = NoGen
          /\ ctl'.retiring = {} /\ ctl'.todo = {}
      BY <2>1 DEF Ended, Idle, Controller, Points, NoPlan
    <2>3. QED
      BY <1>p, <2>1, <2>2 DEF CtlInv, Routing
  <1>3. CASE ControllerStart
    <2>1. ctl' = Idle /\ UNCHANGED route /\ ctl.pc = "down"
      BY <1>3 DEF ControllerStart, Up
    <2>2. /\ ctl' \in Controller /\ ctl'.pc = "idle" /\ ctl'.serving = NoGen
          /\ ctl'.retiring = {} /\ ctl'.todo = {}
      BY <2>1 DEF Idle, Controller, Points, NoPlan
    <2>3. QED
      BY <1>c, <1>p, <2>1, <2>2 DEF CtlInv, Routing
  <1>4. CASE Fails
    <2>1. CtlInv'
      BY <1>4 DEF CtlInv, Fails, Keeps
    <2>2. QED
      BY <1>4, <1>c, <1>p, <2>1 DEF Fails, Keeps, Routing
  <1>5. CASE Prepares
    <2>1. CtlInv'
      BY <1>5, <1>c, <1>p DEF CtlInv, Prepares, Keeps
    <2>2. QED
      BY <1>5, <1>c, <1>p, <2>1 DEF Prepares, Keeps, Routing
  <1>6. CASE Retires
    <2>1. CtlInv'
      BY <1>6, <1>c, <1>p DEF CtlInv, Retires, Keeps
    <2>2. QED
      BY <1>6, <1>c, <1>p, <2>1 DEF Retires, Keeps, Routing
  <1>7. CASE Tick
    <2>1. /\ ctl.pc = "idle" /\ plan # NoPlan /\ UNCHANGED <<plan, route>>
          /\ ctl' = [ctl EXCEPT !.pc = IF Changed THEN "ready" ELSE "obsolete", !.plan = plan]
      BY <1>7 DEF Tick, At, files
    <2>2. /\ ctl' \in Controller /\ ctl'.plan = plan /\ ctl'.serving = ctl.serving
          /\ ctl'.retiring = ctl.retiring /\ ctl'.todo = ctl.todo
          /\ ctl'.pc = IF Changed THEN "ready" ELSE "obsolete"
      BY ZenonT(30), <1>c, <2>1 DEF Controller, Points, PlanInv
    <2>3. CtlInv'
      BY <1>p, <2>1, <2>2 DEF CtlInv, PlanInv
    <2>4. QED
      BY <1>c, <1>p, <2>1, <2>2, <2>3 DEF Routing, Changed
  <1>8. CASE Select
    <2>1. /\ ctl.pc = "select" /\ route' = ctl.plan.gateway /\ ctl.plan \in Plan
          /\ ctl' = IF ctl.serving \in {NoGen, Green}
                      THEN [ctl EXCEPT !.pc = "obsolete", !.serving = Green]
                      ELSE [ctl EXCEPT !.pc = "drain"]
      BY <1>8 DEF Select, At, CtlInv, Green
    <2>2. Green \in Gens /\ Green = ctl.plan.gateway
      BY <2>1 DEF Plan, Green
    <2>3. /\ ctl' \in Controller /\ ctl'.plan = ctl.plan
          /\ ctl'.retiring = ctl.retiring /\ ctl'.todo = ctl.todo
          /\ \/ ctl'.pc = "obsolete" /\ ctl'.serving = Green
             \/ ctl'.pc = "drain" /\ ctl'.serving = ctl.serving
                /\ ctl.serving \notin {NoGen, Green}
      BY <1>c, <2>1, <2>2 DEF Controller, Points
    <2>4. CtlInv'
      BY <1>p, <2>1, <2>3, <1>c DEF CtlInv
    <2>5. route <= route'
      BY <2>1 DEF Routing
    <2>6. QED
      BY <1>c, <1>p, <2>1, <2>2, <2>3, <2>4, <2>5 DEF Routing, CtlInv
  <1>9. CASE DrainOld
    <2>1. /\ ctl.pc = "drain" /\ UNCHANGED route /\ ctl.plan \in Plan
          /\ ctl' = [ctl EXCEPT !.pc = "obsolete", !.serving = Green,
                                !.retiring = @ \cup {ctl.serving}]
      BY <1>9 DEF DrainOld, At, CtlInv
    <2>2. Green \in Gens /\ Green = ctl.plan.gateway /\ ctl.serving \in Gens
      BY <1>c, <2>1 DEF Plan, Green, Routing
    <2>3. /\ ctl' \in Controller /\ ctl'.plan = ctl.plan /\ ctl'.todo = ctl.todo
          /\ ctl'.retiring = ctl.retiring \cup {ctl.serving}
          /\ ctl'.pc = "obsolete" /\ ctl'.serving = Green
      BY <1>c, <2>1, <2>2 DEF Controller, Points
    <2>4. CtlInv'
      BY <1>p, <2>1, <2>3, <1>c DEF CtlInv
    <2>5. ctl.serving < route
      BY <1>c, <2>1 DEF Routing
    <2>6. QED
      BY <1>c, <1>p, <2>1, <2>2, <2>3, <2>4, <2>5 DEF Routing
  <1>10. CASE Obsolete
    <2>1. PICK new \in SUBSET ctl.plan.obsolete :
            ctl' = [ctl EXCEPT !.pc = "retire", !.retiring = @ \cup new,
                               !.todo = ctl.retiring \cup new]
      BY <1>10 DEF Obsolete
    <2>2. ctl.pc = "obsolete" /\ UNCHANGED route /\ ctl.plan \in Plan
      BY <1>10 DEF Obsolete, At, CtlInv
    <2>3. new \subseteq Gens /\ \A g \in new : g < ctl.plan.gateway
      BY <2>1, <2>2 DEF Plan, CtlInv, Ordered
    <2>4. /\ ctl' \in Controller /\ ctl'.plan = ctl.plan /\ ctl'.serving = ctl.serving
          /\ ctl'.retiring = ctl.retiring \cup new /\ ctl'.todo = ctl'.retiring
          /\ ctl'.pc = "retire"
      BY <1>c, <2>1, <2>2, <2>3 DEF Controller, Points
    <2>5. CtlInv'
      BY <1>p, <2>2, <2>4, <1>c DEF CtlInv
    <2>6. \A g \in ctl'.retiring : g < route'
      BY <2>2, <2>3, <2>4 DEF Routing
    <2>7. QED
      BY <1>c, <1>p, <2>2, <2>4, <2>5, <2>6 DEF Routing
  <1>11. QED
    BY <1>1, <1>2, <1>3, <1>4, <1>5, <1>6, <1>7, <1>8, <1>9, <1>10, HandoffMoves,
       RetirementMoves, ElseSame
    DEF Next, Process, ControllerCrash, Command, BeginStop

-----------------------------------------------------------------------------
(* Ownership: the tables of the gateways and of the controller, the          *)
(* generation it issues at, and what a handoff has done for each live launch. *)

Stages == {"none", "prepared", "activated", "followed", "detaching", "broken"}

Tables ==
    /\ owner \in [Launches -> {"none", "live", "revoked"}]
    /\ grants \in [Gens -> [Launches -> {"none", "prepared", "active"}]]
    /\ held \in [Gens -> [Launches -> Stages]]

Selection ==
    /\ ctl.pc = "down" => ctl.selected = NoGen
    /\ ctl.serving # NoGen => ctl.selected # NoGen
    /\ ctl.pc \in {"prepare", "activate"} => ctl.selected \notin {NoGen, Green}
    /\ ctl.pc \in {"select", "drain"} => ctl.selected = Green

Handed == \A l \in Launches : Live(l) =>
    /\ ctl.pc = "prepare" =>
         \/ l \in ctl.pending
         \/ held[Green][l] = "prepared" /\ grants[Green][l] \in {"prepared", "none"}
    /\ ctl.pc = "activate" =>
         \/ l \in ctl.pending /\ held[Green][l] = "prepared"
         \/ held[Green][l] = "activated" /\ grants[Green][l] \in {"active", "none"}

LEMMA OwnInit == Init => Tables /\ Selection /\ Handed /\ OwnersStayAuthorized
  BY GensAreNumbers
  DEF Init, Tables, Stages, Selection, Handed, OwnersStayAuthorized, Live, Idle, NoPlan

LEMMA HeldWritten ==
  ASSUME Tables, NEW g \in Gens, NEW l \in Launches, NEW v \in Stages,
         held' = [held EXCEPT ![g][l] = v]
  PROVE  held' \in [Gens -> [Launches -> Stages]]
  BY DEF Tables

LEMMA GrantWritten ==
  ASSUME Tables, NEW g \in Gens, NEW l \in Launches, NEW v \in {"none", "prepared", "active"},
         grants' = [grants EXCEPT ![g][l] = v]
  PROVE  grants' \in [Gens -> [Launches -> {"none", "prepared", "active"}]]
  BY DEF Tables

LEMMA TablesStep ==
  ASSUME CtlInv, Tables, [Next]_vars
  PROVE  Tables'
  <1>b. Underway => Green \in Gens
    BY DEF CtlInv, Green, Plan
  <1>r. ctl.todo # {} => Blue \in Gens
    BY FirstIsListed
  <1>1. CASE UNCHANGED <<owner, grants, held>>
    BY <1>1 DEF Tables
  <1>2. CASE UNCHANGED <<grants, held>> /\ \E l \in Launches : Revoke(l)
    BY <1>2 DEF Revoke, Tables
  <1>3. ASSUME NEW g \in Gens, Forget(g), UNCHANGED <<owner, held>>
        PROVE  Tables'
    BY <1>3 DEF Forget, Tables
  <1>4. ASSUME NEW g \in Gens, NEW l \in Launches, Hangup(g, l)
        PROVE  Tables'
    BY <1>4 DEF Hangup, Tables
  <1>5. ASSUME NEW l \in Launches, Issue(l)
        PROVE  Tables'
    BY <1>5 DEF Issue, Tables, Stages
  <1>6. ASSUME NEW g \in Gens, NEW l \in Launches,
               FollowDetach(g, l) \/ FollowCancel(g, l) \/ FollowLost(g, l)
        PROVE  Tables'
    <2>1. {"none", "broken"} \subseteq Stages
      BY DEF Stages
    <2>2. held' = [held EXCEPT ![g][l] = "none"] \/ held' = [held EXCEPT ![g][l] = "broken"]
      BY <1>6 DEF FollowDetach, FollowCancel, FollowLost
    <2>3. held' \in [Gens -> [Launches -> Stages]]
      BY <2>1, <2>2, HeldWritten, Zenon
    <2>4. grants' = [grants EXCEPT ![g][l] = "none"] \/ UNCHANGED grants
      BY <1>6 DEF FollowDetach, FollowCancel, FollowLost, gateways
    <2>5. grants' \in [Gens -> [Launches -> {"none", "prepared", "active"}]]
      <3>1. CASE grants' = [grants EXCEPT ![g][l] = "none"]
        BY <3>1, GrantWritten, Zenon
      <3>2. QED
        BY <2>4, <3>1 DEF Tables
    <2>6. owner' = [owner EXCEPT ![l] = "revoked"] \/ UNCHANGED owner
      BY <1>6 DEF FollowDetach, FollowCancel, FollowLost
    <2>7. QED
      BY <2>3, <2>5, <2>6 DEF Tables
  <1>7. Drop => held' \in [Gens -> [Launches -> Stages]]
    BY DEF Drop, Tables, Stages
  <1>8. CASE NotReady \/ SelectedLost \/ DrainFails \/ RetireFails
    BY <1>7, <1>8 DEF NotReady, SelectedLost, DrainFails, RetireFails, Fail, Tables, gateways
  <1>9. ASSUME NEW l \in Launches, PrepareFails(l) \/ ActivateFails(l)
        PROVE  Tables'
    <2>1. Green \in Gens
      BY <1>9, <1>b DEF PrepareFails, ActivateFails, At, Underway
    <2>2. QED
      <3>1. \/ UNCHANGED grants
            \/ grants' = [grants EXCEPT ![Green][l] = "prepared"]
            \/ grants' = [grants EXCEPT ![Green][l] = "active"]
        BY <1>9 DEF PrepareFails, ActivateFails, Install
      <3>2. grants' \in [Gens -> [Launches -> {"none", "prepared", "active"}]]
        <4>1. CASE UNCHANGED grants
          BY <4>1 DEF Tables
        <4>2. QED
          BY <2>1, <3>1, <4>1, GrantWritten, Zenon
      <3>3. UNCHANGED owner /\ Drop
        BY <1>9 DEF PrepareFails, ActivateFails, Fail
      <3>4. QED
        BY <1>7, <3>2, <3>3 DEF Tables
  <1>10. ASSUME NEW l \in Launches, Prepare(l) \/ Activate(l)
         PROVE  Tables'
    <2>1. Green \in Gens
      BY <1>10, <1>b DEF Prepare, Activate, At, Underway
    <2>2. QED
      <3>1. /\ \/ UNCHANGED grants
               \/ grants' = [grants EXCEPT ![Green][l] = "prepared"]
               \/ grants' = [grants EXCEPT ![Green][l] = "active"]
            /\ \/ UNCHANGED held
               \/ held' = [held EXCEPT ![Green][l] = "prepared"]
               \/ held' = [held EXCEPT ![Green][l] = "activated"]
            /\ UNCHANGED owner
        BY <1>10 DEF Prepare, Activate, Install
      <3>2. grants' \in [Gens -> [Launches -> {"none", "prepared", "active"}]]
        <4>1. CASE UNCHANGED grants
          BY <4>1 DEF Tables
        <4>2. QED
          BY <2>1, <3>1, <4>1, GrantWritten, Zenon
      <3>3. {"prepared", "activated"} \subseteq Stages
        BY DEF Stages
      <3>4. held' \in [Gens -> [Launches -> Stages]]
        <4>1. CASE UNCHANGED held
          BY <4>1 DEF Tables
        <4>2. QED
          BY <2>1, <3>1, <3>3, <4>1, HeldWritten, Zenon
      <3>5. QED
        BY <3>1, <3>2, <3>4 DEF Tables
  <1>11. CASE Transfer
    <2>1. Green \in Gens
      BY <1>11, <1>b DEF Transfer, At, Underway
    <2>2. held' \in [Gens -> [Launches -> Stages]]
      BY <1>11, <2>1 DEF Transfer, Tables, Stages
    <2>3. QED
      BY <1>11, <2>2 DEF Transfer, Tables, gateways
  <1>12. CASE Release
    <2>1. held' \in [Gens -> [Launches -> Stages]]
      BY <1>12, <1>r DEF Release, Retiring, Tables, Stages
    <2>2. QED
      BY <1>12, <2>1 DEF Release, Tables, gateways
  <1>13. CASE Stop
    <2>1. Blue \in Gens
      BY <1>13, <1>r DEF Stop, Retiring
    <2>2. UNCHANGED <<owner, held>> /\ (Forget(Blue) \/ UNCHANGED grants)
      BY <1>13 DEF Stop, gateways
    <2>3. QED
      BY <1>1, <1>3, <2>1, <2>2
  <1>14. ASSUME ControllerEnds, UNCHANGED gateways
         PROVE  Tables'
    BY <1>14 DEF ControllerEnds, gateways, Tables, Stages
  <1>15. ASSUME NEW g \in Gens, Halt(g)
         PROVE  Tables'
    BY <1>1, <1>3, <1>15 DEF Halt, gateways
  <1>16. ASSUME NEW g \in Gens, GatewayCrash(g)
         PROVE  Tables'
    BY <1>3, <1>16 DEF GatewayCrash
  <1>17. QED
    BY <1>1, <1>2, <1>4, <1>5, <1>6, <1>8, <1>9, <1>10, <1>11, <1>12, <1>13, <1>14, <1>15, <1>16
    DEF Next, vars, gateways, files, Command, Process, Retirement, Handoff, Ownership,
        GatewayStep, Traffic, Dial, Accept, Request, Cancel, Close, GatewayRestart, Vanish,
        Revoke, Tick, Ready, Prepared, Select, DrainOld, Obsolete, RetireOne, Released,
        RecordEligible, Remove, RecordRemoved, Publish, ControllerCrash, ControllerStart,
        BeginPlan, BeginStop, Ensure, Advance, Launch, Evict, Swap, WaitEnds, CommandEnds

LEMMA SelectionStep ==
  ASSUME CtlInv, Routing, Selection, [Next]_vars
  PROVE  Selection'
  <1> USE DEF Green
  <1>c. ctl \in Controller
    BY DEF CtlInv
  <1>1. CASE UNCHANGED ctl
    BY <1>1 DEF Selection
  <1>2. CASE ctl' \in {Idle, Ended}
    BY <1>2 DEF Selection, Idle, Ended
  <1>3. CASE Fail
    BY <1>c, <1>3 DEF Fail, Selection, Controller
  <1>4. ASSUME ctl'.serving = ctl.serving, ctl'.selected = ctl.selected,
               ctl'.pc \in AfterSelect \cup {"idle", "ready"}
        PROVE  Selection'
    BY <1>4 DEF Selection, AfterSelect
  <1>5. CASE Tick
    BY <1>c, <1>4, <1>5 DEF Tick, Controller, AfterSelect
  <1>6. CASE Ready
    BY <1>c, <1>6, GensAreNumbers DEF Ready, At, Selection, Controller, CtlInv, Underway, Plan
  <1>7. ASSUME NEW l \in Launches, Prepare(l) \/ Activate(l)
        PROVE  Selection'
    BY <1>c, <1>7 DEF Prepare, Activate, Selection, Controller
  <1>8. CASE Prepared
    BY <1>c, <1>8 DEF Prepared, At, Selection, Controller
  <1>9. CASE Transfer
    BY <1>c, <1>9, GensAreNumbers DEF Transfer, At, Selection, Controller, CtlInv, Underway, Plan
  <1>10. CASE Select
    BY <1>c, <1>10, GensAreNumbers DEF Select, At, Selection, Controller, CtlInv, Underway, Plan
  <1>11. CASE DrainOld
    BY <1>c, <1>11, GensAreNumbers DEF DrainOld, At, Selection, Controller, CtlInv, Underway, Plan
  <1>12. CASE Obsolete
    BY <1>c, <1>4, <1>12 DEF Obsolete, Controller, AfterSelect
  <1>13. ASSUME ctl' \in {Skip, Retired}, At("retire") \/ At("removed")
         PROVE  Selection'
    BY <1>c, <1>13 DEF Skip, Retired, At, Selection, Controller
  <1>14. CASE RetireOne
    <2>1. \/ ctl' \in {Skip, Retired}
          \/ ctl' = [ctl EXCEPT !.pc = "stop"] \/ ctl' = [ctl EXCEPT !.pc = "release"]
          \/ ctl' = [ctl EXCEPT !.pc = "eligible"]
      BY <1>14 DEF RetireOne
    <2>2. QED
      BY <1>c, <1>4, <1>13, <1>14, <2>1 DEF RetireOne, Retiring, Controller, AfterSelect
  <1>15. CASE Release \/ Released \/ RecordEligible \/ Stop \/ Remove
    BY <1>c, <1>4, <1>15
    DEF Release, Released, RecordEligible, Stop, Remove, Goto, Controller, AfterSelect
  <1>16. CASE RecordRemoved
    BY <1>13, <1>16 DEF RecordRemoved, Retiring
  <1>17. CASE Publish
    BY <1>c, <1>4, <1>17 DEF Publish, Controller, AfterSelect
  <1>18. QED
    BY <1>1, <1>2, <1>3, <1>5, <1>6, <1>7, <1>8, <1>9, <1>10, <1>11, <1>12, <1>14, <1>15,
       <1>16, <1>17, ElseSame
    DEF Next, Process, Retirement, Handoff, ControllerCrash, ControllerStart, ControllerEnds,
        Command, BeginStop, NotReady, SelectedLost, PrepareFails, ActivateFails, DrainFails,
        RetireFails

-----------------------------------------------------------------------------
(* No step takes a live launch's authority, and a handoff keeps its promise. *)

(* A handoff's failure drops only what is not followed. *)
LEMMA DropKeeps ==
  ASSUME CtlInv, Tables, OwnersStayAuthorized, Drop, NEW l \in Launches, Live(l)
  PROVE  held'[ctl.selected][l] = "followed"
  <1>1. ctl.selected \in Gens /\ held[ctl.selected][l] = "followed"
    BY DEF OwnersStayAuthorized, CtlInv, Controller
  <1>2. QED
    BY <1>1 DEF Drop

LEMMA AuthStep ==
  ASSUME CtlInv, Routing, Tables, Selection, Handed, OwnersStayAuthorized, [Next]_vars
  PROVE  OwnersStayAuthorized' /\ Handed'
  <1>c. ctl \in Controller
    BY DEF CtlInv
  <1>s. \A l \in Launches : Live(l) =>
          /\ ctl.selected \in Gens
          /\ held[ctl.selected][l] = "followed"
          /\ grants[ctl.selected][l] \in {"active", "none"}
    BY <1>c DEF OwnersStayAuthorized, Controller
  <1>g. Underway => Green \in Gens
    BY DEF CtlInv, Green, Plan
  <1>b. ctl.todo # {} => Blue \in Gens
    BY FirstIsListed
  <1>t. \A l \in Launches : Live(l)' <=> owner'[l] = "live"
    BY DEF Live
  (* No live launch is left. *)
  <1>1. ASSUME owner' = [l \in Launches |-> IF Live(l) THEN "revoked" ELSE owner[l]]
        PROVE  OwnersStayAuthorized' /\ Handed'
    <2>1. \A l \in Launches : owner'[l] # "live"
      BY <1>1 DEF Live
    <2>2. QED
      BY <2>1 DEF OwnersStayAuthorized, Handed, Live
  (* The controller moves outside the handoff and nothing else changes. *)
  <1>2. ASSUME UNCHANGED <<owner, held, grants>>, ctl'.selected = ctl.selected,
               ctl'.pc \notin {"prepare", "activate"}
        PROVE  OwnersStayAuthorized' /\ Handed'
    BY <1>2 DEF OwnersStayAuthorized, Handed, Live
  (* Nothing moves but the grants of gateways that end or hang up. *)
  <1>3. ASSUME UNCHANGED <<owner, held>>,
               \A g \in Gens, l \in Launches : grants'[g][l] \in {grants[g][l], "none"},
               ctl'.selected = ctl.selected,
               UNCHANGED ctl \/ ctl'.pc \notin {"prepare", "activate"}
        PROVE  OwnersStayAuthorized' /\ Handed'
    <2>1. OwnersStayAuthorized'
      BY <1>s, <1>3 DEF OwnersStayAuthorized, Live
    <2>2. CASE UNCHANGED ctl
      <3>1. \A l \in Launches : Underway =>
              grants'[Green][l] \in {grants[Green][l], "none"}
        BY <1>3, <1>g
      <3>2. QED
        BY <1>3, <2>1, <2>2, <3>1 DEF Handed, Live, Green, Underway
    <2>3. QED
      BY <1>3, <2>1, <2>2 DEF Handed
  <1>4. ASSUME NEW g \in Gens, Forget(g)
        PROVE  \A h \in Gens, l \in Launches : grants'[h][l] \in {grants[h][l], "none"}
    BY <1>4 DEF Forget, Tables
  <1>5. CASE UNCHANGED <<owner, held, grants, ctl>>
    BY <1>3, <1>5
  <1>6. ASSUME NEW g \in Gens, GatewayCrash(g) \/ Halt(g)
        PROVE  OwnersStayAuthorized' /\ Handed'
    <2>1. UNCHANGED <<owner, held, ctl>> /\ (Forget(g) \/ UNCHANGED grants)
      BY <1>6 DEF GatewayCrash, Halt, gateways
    <2>2. QED
      BY <1>3, <1>4, <1>5, <2>1
  <1>7. ASSUME NEW g \in Gens, NEW l \in Launches, Hangup(g, l)
        PROVE  OwnersStayAuthorized' /\ Handed'
    <2>1. /\ UNCHANGED <<owner, held, ctl>>
          /\ \A h \in Gens, k \in Launches : grants'[h][k] \in {grants[h][k], "none"}
      BY <1>7 DEF Hangup, Tables
    <2>2. QED
      BY <1>3, <2>1
  <1>8. CASE Stop
    <2>1. Blue \in Gens /\ UNCHANGED <<owner, held>> /\ (Forget(Blue) \/ UNCHANGED grants)
      BY <1>8, <1>b DEF Stop, Retiring, gateways
    <2>2. ctl'.selected = ctl.selected /\ ctl'.pc \notin {"prepare", "activate"}
      BY <1>8, <1>c DEF Stop, Goto, Controller
    <2>3. QED
      BY <1>2, <1>3, <1>4, <2>1, <2>2
  <1>9. ASSUME NEW l \in Launches, Issue(l)
        PROVE  OwnersStayAuthorized' /\ Handed'
    <2>1. /\ ctl.selected \in Gens /\ UNCHANGED ctl /\ ctl.pc \notin {"prepare", "activate"}
          /\ held' = [held EXCEPT ![ctl.selected][l] = "followed"]
          /\ grants' = [grants EXCEPT ![ctl.selected][l] = "active"]
          /\ owner' = [owner EXCEPT ![l] = "live"]
      BY <1>9, <1>c DEF Issue, Locked, Selection, Controller
    <2>2. OwnersStayAuthorized'
      BY <1>s, <2>1, GensAreNumbers DEF OwnersStayAuthorized, Live, Tables
    <2>3. QED
      BY <2>1, <2>2 DEF Handed
  <1>10. ASSUME NEW l \in Launches, Revoke(l)
         PROVE  OwnersStayAuthorized' /\ Handed'
    <2>1. /\ UNCHANGED <<held, grants, ctl>>
          /\ \A k \in Launches : owner'[k] = "live" => owner[k] = "live"
      BY <1>10 DEF Revoke, Tables, gateways
    <2>2. QED
      BY <2>1 DEF OwnersStayAuthorized, Handed, Live, Green
  <1>11. ASSUME NEW g \in Gens, NEW l \in Launches,
                FollowDetach(g, l) \/ FollowCancel(g, l) \/ FollowLost(g, l)
         PROVE  OwnersStayAuthorized' /\ Handed'
    <2>1. /\ UNCHANGED ctl
          /\ \A k \in Launches : owner'[k] = "live" => owner[k] = "live"
      BY <1>11 DEF FollowDetach, FollowCancel, FollowLost, Tables
    <2>2. \A h \in Gens, k \in Launches :
            /\ grants'[h][k] \in {grants[h][k], "none"}
            /\ owner'[k] = "live" /\ held[h][k] \in {"followed", "prepared", "activated"}
                 => held'[h][k] = held[h][k]
      BY <1>11 DEF FollowDetach, FollowCancel, FollowLost, Tables, Live, gateways
    <2>3. OwnersStayAuthorized'
      BY <1>s, <2>1, <2>2 DEF OwnersStayAuthorized, Live
    <2>4. ASSUME NEW k \in Launches, owner'[k] = "live", ctl.pc \in {"prepare", "activate"}
          PROVE  /\ grants'[Green][k] \in {grants[Green][k], "none"}
                 /\ held[Green][k] \in {"prepared", "activated"} => held'[Green][k] = held[Green][k]
                 /\ Live(k)
      <3>1. Green \in Gens
        BY <1>g, <2>4 DEF Underway
      <3>2. QED
        BY <2>1, <2>2, <2>4, <3>1 DEF Live
    <2>5. Handed'
      BY <2>1, <2>4 DEF Handed, Live, Green
    <2>6. QED
      BY <2>3, <2>5
  (* A handoff's failure. *)
  <1>12. ASSUME Drop, UNCHANGED owner, ctl'.selected = ctl.selected, ctl'.pc = "idle",
                \A l \in Launches : Live(l) =>
                   grants'[ctl.selected][l] \in {"active", "none"}
         PROVE  OwnersStayAuthorized' /\ Handed'
    <2>1. \A l \in Launches : Live(l) => held'[ctl.selected][l] = "followed"
      BY <1>12, DropKeeps
    <2>2. QED
      BY <1>12, <1>s, <2>1 DEF OwnersStayAuthorized, Handed, Live
  <1>13. Fail => Drop /\ ctl'.selected = ctl.selected /\ ctl'.pc = "idle"
    BY <1>c DEF Fail, Controller
  <1>14. CASE NotReady \/ DrainFails \/ RetireFails
    <2>1. Fail /\ UNCHANGED <<owner, grants>>
      BY <1>14 DEF NotReady, DrainFails, RetireFails, gateways
    <2>2. QED
      BY <1>12, <1>13, <1>s, <2>1
  <1>15. CASE SelectedLost
    BY <1>1, <1>15 DEF SelectedLost
  <1>16. ASSUME NEW l \in Launches, PrepareFails(l) \/ ActivateFails(l)
         PROVE  OwnersStayAuthorized' /\ Handed'
    <2>1. Fail /\ UNCHANGED owner /\ Green \in Gens /\ Green # ctl.selected
      BY <1>16, <1>g DEF PrepareFails, ActivateFails, At, Selection, Underway
    <2>2. \A k \in Launches : Live(k) => grants'[ctl.selected][k] = grants[ctl.selected][k]
      BY <1>16, <1>s, <2>1 DEF PrepareFails, ActivateFails, Install, Tables
    <2>3. QED
      BY <1>12, <1>13, <1>s, <2>1, <2>2
  <1>17. CASE Ready
    <2>1. UNCHANGED <<owner, held, grants>>
      BY <1>17 DEF Ready, gateways
    <2>2. CASE /\ ctl.selected \in {NoGen, Green}
               /\ ctl' = [ctl EXCEPT !.pc = "select", !.selected = Green]
      <3>1. ctl'.selected = Green /\ ctl'.pc = "select"
        BY <1>c, <2>2 DEF Controller
      <3>2. \A l \in Launches : Live(l) => ctl.selected = Green
        BY <1>s, <2>2, GensAreNumbers
      <3>3. OwnersStayAuthorized'
        BY <1>s, <2>1, <3>1, <3>2, GensAreNumbers DEF OwnersStayAuthorized, Live
      <3>4. QED
        BY <3>1, <3>3 DEF Handed
    <2>3. CASE ctl' = [ctl EXCEPT !.pc = "prepare",
                                  !.pending = {l \in Launches : owner[l] # "none"}]
      <3>1. /\ ctl'.selected = ctl.selected /\ ctl'.pc = "prepare"
            /\ ctl'.pending = {l \in Launches : owner[l] # "none"}
        BY <1>c, <2>3 DEF Controller
      <3>2. OwnersStayAuthorized'
        BY <1>s, <2>1, <3>1 DEF OwnersStayAuthorized, Live
      <3>3. \A l \in Launches : Live(l)' => l \in ctl'.pending
        BY <2>1, <3>1 DEF Live
      <3>4. QED
        BY <3>1, <3>2, <3>3 DEF Handed
    <2>4. QED
      BY <1>17, <2>2, <2>3 DEF Ready
  <1>18. ASSUME NEW l \in Launches, Prepare(l)
         PROVE  OwnersStayAuthorized' /\ Handed'
    <2>1. /\ ctl.pc = "prepare" /\ Green \in Gens /\ Green # ctl.selected
          /\ ctl'.pc = "prepare" /\ ctl'.plan = ctl.plan /\ ctl'.selected = ctl.selected
          /\ ctl'.pending = ctl.pending \ {l} /\ UNCHANGED owner
      BY <1>18, <1>c, <1>g DEF Prepare, At, Underway, Selection, Controller
    <2>2. \/ ~Live(l) /\ UNCHANGED <<grants, held>>
          \/ /\ grants' = [grants EXCEPT ![Green][l] = "prepared"]
             /\ held' = [held EXCEPT ![Green][l] = "prepared"]
      BY <1>18 DEF Prepare, Install
    <2>3. OwnersStayAuthorized'
      BY <1>s, <2>1, <2>2 DEF OwnersStayAuthorized, Live, Tables
    <2>4. Green' = Green
      BY <2>1 DEF Green
    <2>5. ASSUME NEW k \in Launches, Live(k)
          PROVE  \/ k \in ctl'.pending
                 \/ held'[Green][k] = "prepared" /\ grants'[Green][k] \in {"prepared", "none"}
      BY <2>1, <2>2, <2>5 DEF Handed, Tables
    <2>6. QED
      BY <2>1, <2>3, <2>4, <2>5 DEF Handed, Live
  <1>19. CASE Prepared
    <2>1. /\ ctl.pc = "prepare" /\ ctl.pending = {} /\ UNCHANGED <<owner, held, grants>>
          /\ ctl'.pc = "activate" /\ ctl'.plan = ctl.plan /\ ctl'.selected = ctl.selected
          /\ ctl'.pending = {l \in Launches : held[Green][l] = "prepared"}
      BY <1>19, <1>c DEF Prepared, At, Controller, gateways
    <2>2. OwnersStayAuthorized'
      BY <1>s, <2>1 DEF OwnersStayAuthorized, Live
    <2>3. Green' = Green
      BY <2>1 DEF Green
    <2>4. QED
      BY <2>1, <2>2, <2>3 DEF Handed, Live
  <1>20. ASSUME NEW l \in Launches, Activate(l)
         PROVE  OwnersStayAuthorized' /\ Handed'
    <2>1. /\ ctl.pc = "activate" /\ Green \in Gens /\ Green # ctl.selected
          /\ ctl'.pc = "activate" /\ ctl'.plan = ctl.plan /\ ctl'.selected = ctl.selected
          /\ ctl'.pending = ctl.pending \ {l} /\ UNCHANGED owner
      BY <1>20, <1>c, <1>g DEF Activate, At, Underway, Selection, Controller
    <2>2. \/ ~Live(l) /\ UNCHANGED <<grants, held>>
          \/ /\ grants' = [grants EXCEPT ![Green][l] = "active"]
             /\ held' = [held EXCEPT ![Green][l] = "activated"]
      BY <1>20 DEF Activate
    <2>3. OwnersStayAuthorized'
      BY <1>s, <2>1, <2>2 DEF OwnersStayAuthorized, Live, Tables
    <2>4. Green' = Green
      BY <2>1 DEF Green
    <2>5. ASSUME NEW k \in Launches, Live(k)
          PROVE  \/ k \in ctl'.pending /\ held'[Green][k] = "prepared"
                 \/ held'[Green][k] = "activated" /\ grants'[Green][k] \in {"active", "none"}
      BY <2>1, <2>2, <2>5 DEF Handed, Tables
    <2>6. QED
      BY <2>1, <2>3, <2>4, <2>5 DEF Handed, Live
  <1>21. CASE Transfer
    <2>1. /\ ctl.pc = "activate" /\ ctl.pending = {} /\ Green \in Gens
          /\ ctl'.pc = "select" /\ ctl'.selected = Green /\ UNCHANGED <<owner, grants>>
      BY <1>21, <1>c, <1>g DEF Transfer, At, Underway, Controller, gateways
    <2>2. \A l \in Launches : Live(l) =>
            held[Green][l] = "activated" /\ grants[Green][l] \in {"active", "none"}
      BY <2>1 DEF Handed
    <2>3. \A l \in Launches : Live(l) => held'[Green][l] = "followed"
      BY <1>21, <2>1, <2>2 DEF Transfer, Tables
    <2>4. OwnersStayAuthorized'
      BY <2>1, <2>2, <2>3, GensAreNumbers DEF OwnersStayAuthorized, Live
    <2>5. QED
      BY <2>1, <2>4 DEF Handed
  <1>22. CASE Release
    <2>1. /\ Blue \in Gens /\ Blue # ctl.selected /\ UNCHANGED <<owner, grants>>
          /\ ctl'.selected = ctl.selected /\ ctl'.pc = "detach"
      BY <1>22, <1>b, <1>c DEF Release, Retiring, Goto, Controller, gateways
    <2>2. \A l \in Launches : Live(l) => held'[ctl.selected][l] = "followed"
      BY <1>22, <1>s, <2>1 DEF Release, Tables
    <2>3. QED
      BY <1>s, <2>1, <2>2 DEF OwnersStayAuthorized, Handed, Live
  <1>23. CASE Tick \/ Select \/ DrainOld \/ Obsolete
    <2>1. UNCHANGED <<owner, held, grants>> /\ ctl'.selected = ctl.selected
          /\ ctl'.pc \notin {"prepare", "activate"}
      BY <1>23, <1>c DEF Tick, Select, DrainOld, Obsolete, Controller, gateways
    <2>2. QED
      BY <1>2, <2>1
  <1>24. CASE RetireOne \/ Released \/ RecordEligible \/ Remove \/ RecordRemoved \/ Publish
    <2>1. UNCHANGED <<owner, held, grants>>
      BY <1>24 DEF RetireOne, Released, RecordEligible, Remove, RecordRemoved, Publish, gateways
    <2>2. /\ \/ ctl' \in {Skip, Retired}
             \/ \E pc \in AfterSelect : ctl' = [ctl EXCEPT !.pc = pc]
             \/ ctl' = [ctl EXCEPT !.pc = "idle", !.retiring = @ \ ctl.gone, !.gone = {}]
          /\ ctl.pc \in AfterSelect
      BY <1>24 DEF RetireOne, Released, RecordEligible, Remove, RecordRemoved, Publish, Goto,
                   AfterSelect, At, Retiring
    <2>3. ctl'.selected = ctl.selected /\ ctl'.pc \notin {"prepare", "activate"}
      BY <1>c, <2>2 DEF Controller, Skip, Retired, AfterSelect
    <2>4. QED
      BY <1>2, <2>1, <2>3
  <1>25. CASE ControllerStart
    <2>1. UNCHANGED <<owner, held, grants>> /\ ctl' = Idle /\ ctl.pc = "down"
      BY <1>25 DEF ControllerStart, Up, gateways
    <2>2. \A l \in Launches : ~Live(l)
      BY <1>s, <2>1, GensAreNumbers DEF Selection
    <2>3. QED
      BY <2>1, <2>2 DEF OwnersStayAuthorized, Handed, Live
  <1>26. CASE ControllerEnds
    BY <1>1, <1>26 DEF ControllerEnds
  <1>27. QED
    BY <1>5, <1>6, <1>7, <1>8, <1>9, <1>10, <1>11, <1>14, <1>15, <1>16, <1>17, <1>18, <1>19,
       <1>20, <1>21, <1>22, <1>23, <1>24, <1>25, <1>26
    DEF Next, vars, gateways, files, Command, Process, Retirement, Handoff, Ownership,
        GatewayStep, Traffic, Dial, Accept, Request, Cancel, Close, GatewayRestart, Vanish,
        ControllerCrash, BeginPlan, BeginStop, Ensure, Advance, Launch, Evict, Swap, WaitEnds,
        CommandEnds

-----------------------------------------------------------------------------
(* Connections: what is left of a generation that is being drained. *)

Connection ==
    [stage : {"none", "dialled", "accepted", "serving"},
     owner : Launches \cup {"none"}, gen : Gens \cup {NoGen},
     counted : BOOLEAN, late : BOOLEAN]

Streaming ==
    /\ stream \in [Streams -> Connection]
    /\ draining \in [Gens -> BOOLEAN]
    /\ container \in [Gens -> {"Missing", "Stopped", "Crashed", "Running"}]
    /\ \A s \in Streams :
         /\ stream[s].gen = NoGen <=> stream[s].stage = "none"
         /\ stream[s].gen \in Gens => Running(stream[s].gen)

Drained(g) == \A s \in Streams : stream[s].gen = g =>
    /\ draining[g]
    /\ ~stream[s].counted
    /\ stream[s].stage = "dialled" \/ stream[s].late

Spared ==
    ctl.pc \in {"release", "detach", "eligible", "stop"} /\ ctl.todo # {} => Drained(Blue)

LEMMA NoStreamIsConnection ==
  NoStream \in Connection /\ NoStream.gen = NoGen /\ NoStream.stage = "none"
  BY DEF NoStream, Connection

LEMMA StreamInit == Init => Streaming /\ Spared
  BY NoStreamIsConnection, GensAreNumbers DEF Init, Streaming, Spared, Idle

LEMMA TrafficStep ==
  ASSUME CtlInv, Routing, Streaming, Traffic
  PROVE  /\ Streaming'
         /\ \A g \in Gens : g # route /\ Drained(g) => Drained(g)'
  <1>1. ASSUME NEW s \in Streams, stream' = [stream EXCEPT ![s] = NoStream],
               UNCHANGED <<draining, container>>
        PROVE  /\ Streaming'
               /\ \A g \in Gens : Drained(g) => Drained(g)'
    <2>1. Streaming'
      BY <1>1, NoStreamIsConnection, GensAreNumbers DEF Streaming, Running
    <2>2. ASSUME NEW g \in Gens, Drained(g), NEW t \in Streams, stream'[t].gen = g
          PROVE  /\ draining'[g]
                 /\ ~stream'[t].counted
                 /\ stream'[t].stage = "dialled" \/ stream'[t].late
      <3>1. stream'[t] = stream[t]
        BY <1>1, <2>2, NoStreamIsConnection, GensAreNumbers DEF Streaming
      <3>2. QED
        BY <1>1, <2>2, <3>1 DEF Drained
    <2>3. QED
      BY <2>1, <2>2 DEF Drained
  <1>2. ASSUME NEW s \in Streams, NEW l \in Launches, Dial(s, l)
        PROVE  /\ Streaming'
               /\ \A g \in Gens : g # route /\ Drained(g) => Drained(g)'
    <2> DEFINE new == [stage |-> "dialled", owner |-> l, gen |-> route, counted |-> TRUE,
                       late |-> FALSE]
    <2>1. route \in Gens /\ Running(route) /\ UNCHANGED <<draining, container>>
          /\ stream' = [stream EXCEPT ![s] = new]
      BY <1>2 DEF Dial, Routing, gateways
    <2>2. new \in Connection /\ new.gen = route /\ new.stage = "dialled"
      BY <2>1 DEF Connection
    <2> HIDE DEF new
    <2>3. Streaming'
      BY <2>1, <2>2, GensAreNumbers DEF Streaming, Running
    <2>4. QED
      BY <2>1, <2>2, <2>3 DEF Streaming, Drained
  <1>3. ASSUME NEW s \in Streams, Accept(s)
        PROVE  /\ Streaming'
               /\ \A g \in Gens : g # route /\ Drained(g) => Drained(g)'
    <2>1. /\ stream[s].stage = "dialled" /\ UNCHANGED <<draining, container>>
          /\ stream' = [stream EXCEPT ![s].stage = "accepted",
                                      ![s].late = draining[stream[s].gen]]
      BY <1>3 DEF Accept, gateways
    <2>2. draining[stream[s].gen] \in BOOLEAN
      BY <2>1, GensAreNumbers DEF Streaming, Connection
    <2>3. Streaming'
      <3>1. stream' \in [Streams -> Connection]
        <4>1. stream[s] \in Connection
          BY DEF Streaming
        <4>2. ASSUME NEW late \in BOOLEAN
              PROVE  [stream[s] EXCEPT !.stage = "accepted", !.late = late] \in Connection
          BY <4>1 DEF Connection
        <4>3. [stream[s] EXCEPT !.stage = "accepted", !.late = draining[stream[s].gen]]
                \in Connection
          BY <2>2, <4>2
        <4>4. QED
          BY <2>1, <4>3 DEF Streaming
      <3>2. \A t \in Streams : stream'[t].gen = stream[t].gen
                                /\ stream'[t].stage = "none" <=> stream[t].stage = "none"
        BY <2>1 DEF Streaming, Connection
      <3>3. QED
        BY <2>1, <3>1, <3>2 DEF Streaming, Running
    <2>4. QED
      BY <2>1, <2>3 DEF Streaming, Drained, Connection
  <1>4. ASSUME NEW s \in Streams, Request(s)
        PROVE  /\ Streaming'
               /\ \A g \in Gens : g # route /\ Drained(g) => Drained(g)'
    <2>1. CASE stream' = [stream EXCEPT ![s] = NoStream]
      BY <1>1, <1>4, <2>1 DEF Request, gateways
    <2>2. CASE stream' = [stream EXCEPT ![s].stage = "serving"]
      <3>1. Streaming'
        BY <1>4, <2>2 DEF Request, gateways, Streaming, Running, Connection
      <3>2. QED
        BY <1>4, <2>2, <3>1 DEF Request, gateways, Streaming, Drained, Connection
    <2>3. QED
      BY <1>4, <2>1, <2>2 DEF Request, Streaming
  <1>5. QED
    BY <1>1, <1>2, <1>3, <1>4 DEF Traffic, Cancel, Close, gateways

LEMMA ForgetStep ==
  ASSUME Streaming, NEW g \in Gens, Forget(g),
         container' \in [Gens -> {"Missing", "Stopped", "Crashed", "Running"}],
         \A h \in Gens \ {g} : container'[h] = container[h]
  PROVE  /\ Streaming'
         /\ \A h \in Gens : Drained(h) => Drained(h)'
  <1>1. /\ draining' \in [Gens -> BOOLEAN]
        /\ \A h \in Gens \ {g} : draining'[h] = draining[h]
    BY DEF Forget, Streaming
  <1>2. /\ stream' \in [Streams -> Connection]
        /\ \A s \in Streams : stream'[s] = IF stream[s].gen = g THEN NoStream ELSE stream[s]
    BY NoStreamIsConnection DEF Forget, Streaming
  <1>3. Streaming'
    <2>1. ASSUME NEW s \in Streams
          PROVE  /\ stream'[s].gen = NoGen <=> stream'[s].stage = "none"
                 /\ stream'[s].gen \in Gens => container'[stream'[s].gen] = "Running"
      <3>1. CASE stream[s].gen = g
        BY <1>2, <3>1, NoStreamIsConnection, GensAreNumbers
      <3>2. CASE stream[s].gen # g
        <4>1. stream'[s] = stream[s]
          BY <1>2, <3>2
        <4>2. stream[s].gen \in Gens => container'[stream[s].gen] = container[stream[s].gen]
          BY <3>2
        <4>3. QED
          BY <4>1, <4>2, Zenon DEF Streaming, Running
      <3>3. QED
        BY <3>1, <3>2
    <2>2. QED
      BY <1>1, <1>2, <2>1 DEF Streaming, Running
  <1>4. ASSUME NEW h \in Gens, Drained(h), NEW s \in Streams, stream'[s].gen = h
        PROVE  /\ draining'[h]
               /\ ~stream'[s].counted
               /\ stream'[s].stage = "dialled" \/ stream'[s].late
    <2>1. stream'[s] = stream[s] /\ stream[s].gen # g
      BY <1>2, <1>4, NoStreamIsConnection, GensAreNumbers
    <2>2. draining'[h] = draining[h]
      BY <1>1, <1>4, <2>1
    <2>3. QED
      BY <1>4, <2>1, <2>2 DEF Drained
  <1>5. QED
    BY <1>3, <1>4 DEF Drained

(* The front door forgets a count; no connection changes otherwise. *)
LEMMA UncountStep ==
  ASSUME Streaming, NEW G,
         stream' = [s \in Streams |-> IF stream[s].gen \in G
                      THEN [stream[s] EXCEPT !.counted = FALSE] ELSE stream[s]],
         UNCHANGED <<draining, container>>
  PROVE  Streaming'
  <1>1. \A s \in Streams : stream[s] \in Connection
    BY DEF Streaming
  <1>2. \A s \in Streams : [stream[s] EXCEPT !.counted = FALSE] \in Connection
    BY <1>1 DEF Connection
  <1>3. \A s \in Streams : /\ stream'[s] \in Connection
                           /\ stream'[s].gen = stream[s].gen
                           /\ stream'[s].stage = stream[s].stage
    BY <1>1, <1>2 DEF Connection
  <1>4. QED
    BY <1>3 DEF Streaming, Running

LEMMA StreamStep ==
  ASSUME CtlInv, Routing, Streaming, [Next]_vars
  PROVE  Streaming'
  <1>b. ctl.todo # {} => Blue \in Gens
    BY FirstIsListed
  <1>1. CASE Traffic
    BY <1>1, TrafficStep
  <1>2. CASE UNCHANGED <<stream, draining, container>>
    BY <1>2 DEF Streaming, Running
  <1>3. ASSUME NEW g \in Gens, UNCHANGED <<stream, draining>>,
               \/ container' = [container EXCEPT ![g] = "Running"]
               \/ /\ ~Running(g)
                  /\ container' = [container EXCEPT ![g] = "Missing"]
        PROVE  Streaming'
    BY <1>3 DEF Streaming, Running
  <1>4. ASSUME NEW g \in Gens, Forget(g),
               \/ container' = [container EXCEPT ![g] = "Crashed"]
               \/ container' = [container EXCEPT ![g] = "Stopped"]
        PROVE  Streaming'
    <2>1. /\ container' \in [Gens -> {"Missing", "Stopped", "Crashed", "Running"}]
          /\ \A h \in Gens \ {g} : container'[h] = container[h]
      BY <1>4 DEF Streaming
    <2>2. QED
      BY <1>4, <2>1, ForgetStep
  <1>5. ASSUME NEW g \in Gens, draining' = [draining EXCEPT ![g] = TRUE],
               UNCHANGED <<stream, container>>
        PROVE  Streaming'
    BY <1>5 DEF Streaming, Running
  <1>6. ASSUME NEW g \in Gens, GatewayCrash(g) \/ GatewayRestart(g) \/ Vanish(g) \/ Halt(g)
        PROVE  Streaming'
    <2>1. CASE GatewayCrash(g)
      BY <1>4, <2>1 DEF GatewayCrash
    <2>2. CASE GatewayRestart(g)
      BY <1>3, <2>2 DEF GatewayRestart
    <2>3. CASE Vanish(g)
      BY <1>3, <2>3 DEF Vanish, Running
    <2>4. CASE Halt(g)
      BY <1>2, <1>4, <2>4 DEF Halt, gateways
    <2>5. QED
      BY <1>6, <2>1, <2>2, <2>3, <2>4
  <1>7. CASE Launch
    <2>1. PICK g \in {plan.gateway, plan.preparing} :
            container' = [container EXCEPT ![g] = "Running"]
      BY <1>7 DEF Launch
    <2>2. UNCHANGED <<stream, draining>>
      BY <1>7 DEF Launch
    <2>3. CASE g \in Gens
      BY <1>3, <2>1, <2>2, <2>3
    <2>4. CASE g \notin Gens
      <3>1. container' = container
        BY <2>1, <2>4 DEF Streaming
      <3>2. QED
        BY <1>2, <2>2, <3>1
    <2>5. QED
      BY <2>3, <2>4
  <1>8. CASE Stop
    <2>1. /\ Blue \in Gens
          /\ \/ UNCHANGED <<stream, draining, container>>
             \/ Forget(Blue) /\ container' = [container EXCEPT ![Blue] = "Stopped"]
      BY <1>8, <1>b DEF Stop, Retiring, gateways
    <2>2. QED
      BY <1>2, <1>4, <2>1
  <1>9. CASE Remove
    BY <1>3, <1>9, <1>b DEF Remove, Retiring, Running
  <1>10. CASE RetireOne
    <2>1. /\ Blue \in Gens /\ UNCHANGED <<stream, container>>
          /\ UNCHANGED draining \/ draining' = [draining EXCEPT ![Blue] = TRUE]
      BY <1>10, <1>b DEF RetireOne, Retiring
    <2>2. QED
      BY <1>2, <1>5, <2>1
  <1>11. CASE DrainOld \/ DrainFails
    <2>1. ctl.serving \in Gens
      <3>1. ctl.pc = "drain"
        BY <1>11 DEF DrainOld, DrainFails, At
      <3>2. QED
        BY <3>1 DEF CtlInv, Controller, Routing
    <2>2. /\ UNCHANGED <<stream, container>>
          /\ UNCHANGED draining \/ draining' = [draining EXCEPT ![ctl.serving] = TRUE]
      BY <1>11 DEF DrainOld, DrainFails
    <2>3. QED
      BY <1>2, <1>5, <2>1, <2>2
  <1>12. CASE Select
    <2> DEFINE G == IF ctl.serving # Green THEN {Green} ELSE {}
    <2>1. /\ stream' = [s \in Streams |-> IF stream[s].gen \in G
                          THEN [stream[s] EXCEPT !.counted = FALSE] ELSE stream[s]]
          /\ UNCHANGED <<draining, container>>
      BY <1>12 DEF Select, gateways
    <2> HIDE DEF G
    <2>2. QED
      BY <2>1, UncountStep
  <1>13. CASE Obsolete
    <2> DEFINE unknown == ctl.plan.obsolete \ ctl.retiring
               G == unknown \ {g \in unknown : IsRemoved(g)}
    <2>1. /\ stream' = [s \in Streams |-> IF stream[s].gen \in G
                          THEN [stream[s] EXCEPT !.counted = FALSE] ELSE stream[s]]
          /\ UNCHANGED <<draining, container>>
      BY <1>13 DEF Obsolete, gateways
    <2> HIDE DEF G
    <2>2. QED
      BY <2>1, UncountStep
  <1>14. ASSUME ControllerEnds, UNCHANGED gateways
         PROVE  Streaming'
    BY <1>14, NoStreamIsConnection, GensAreNumbers
    DEF ControllerEnds, gateways, Streaming
  <1>15. QED
    BY <1>1, <1>2, <1>6, <1>7, <1>8, <1>9, <1>10, <1>11, <1>12, <1>13, <1>14
    DEF Next, vars, gateways, files, Command, Process, Retirement, Handoff, Ownership,
        GatewayStep, Hangup, Issue, Revoke, FollowDetach, FollowCancel, FollowLost, Tick,
        Ready, NotReady, SelectedLost, Prepare, PrepareFails, Prepared, Activate,
        ActivateFails, Transfer, Release, Released, RecordEligible, RecordRemoved, RetireFails,
        Publish, ControllerCrash, ControllerStart, BeginPlan, BeginStop, Ensure, Advance,
        Evict, Swap, WaitEnds, CommandEnds

LEMMA SparedStep ==
  ASSUME CtlInv, Routing, Streaming, Spared, [Next]_vars
  PROVE  Spared'
  <1>c. ctl \in Controller
    BY DEF CtlInv
  <1>b. ctl.todo # {} => Blue \in Gens /\ Blue \in ctl.todo
    BY FirstIsListed
  <1>u. UNCHANGED ctl => Blue' = Blue
    BY DEF Blue
  <1>1. ASSUME ctl'.pc \notin {"release", "detach", "eligible", "stop"}
        PROVE  Spared'
    BY <1>1 DEF Spared
  (* The connections of the generation being drained stay spared. *)
  <1>2. ASSUME UNCHANGED ctl, \A g \in Gens : g # route /\ Drained(g) => Drained(g)'
        PROVE  Spared'
    <2>1. ctl.todo # {} => Blue # route
      BY <1>b, <1>c, GensAreNumbers DEF Routing, Controller
    <2>2. ASSUME ctl.pc \in {"release", "detach", "eligible", "stop"}, ctl.todo # {}
          PROVE  Drained(Blue)'
      <3>1. Drained(Blue)
        BY <2>2 DEF Spared
      <3>2. \A s \in Streams : stream'[s].gen = Blue' =>
              /\ draining'[Blue']
              /\ ~stream'[s].counted
              /\ stream'[s].stage = "dialled" \/ stream'[s].late
        BY <1>2, <1>b, <1>u, <2>1, <2>2, <3>1 DEF Drained
      <3>3. QED
        BY <3>2 DEF Drained
    <2>3. QED
      BY <1>2, <2>2 DEF Spared
  <1>3. CASE UNCHANGED <<ctl, stream, draining>>
    <2>1. \A g \in Gens : Drained(g) => Drained(g)'
      BY <1>3 DEF Drained
    <2>2. QED
      BY <1>2, <1>3, <2>1
  <1>4. CASE Traffic
    <2>1. UNCHANGED ctl
      BY <1>4, ElseSame
    <2>2. QED
      BY <1>2, <1>4, <2>1, TrafficStep
  <1>5. ASSUME NEW g \in Gens, GatewayCrash(g) \/ Halt(g)
        PROVE  Spared'
    <2>1. CASE UNCHANGED <<ctl, stream, draining>>
      BY <1>3, <2>1
    <2>2. CASE Forget(g) /\ UNCHANGED ctl
      <3>1. \/ container' = [container EXCEPT ![g] = "Crashed"]
            \/ container' = [container EXCEPT ![g] = "Stopped"]
            \/ UNCHANGED <<ctl, stream, draining>>
        BY <1>5 DEF GatewayCrash, Halt, gateways
      <3>2. CASE container' = [container EXCEPT ![g] = "Crashed"]
                 \/ container' = [container EXCEPT ![g] = "Stopped"]
        <4>1. /\ container' \in [Gens -> {"Missing", "Stopped", "Crashed", "Running"}]
              /\ \A h \in Gens \ {g} : container'[h] = container[h]
          BY <3>2 DEF Streaming
        <4>2. QED
          BY <1>2, <2>2, <4>1, ForgetStep
      <3>3. QED
        BY <1>3, <3>1, <3>2
    <2>3. QED
      BY <1>5, <2>1, <2>2 DEF GatewayCrash, Halt, gateways
  (* The drain. *)
  <1>6. CASE RetireOne
    <2>1. /\ ctl.todo # {} /\ Blue \in Gens /\ ctl.pc = "retire"
          /\ UNCHANGED stream
      BY <1>6, <1>b DEF RetireOne, Retiring, At
    <2>2. CASE ctl' \in {Skip, Retired}
      BY <1>1, <1>c, <2>1, <2>2 DEF Skip, Retired, Controller
    <2>3. CASE /\ ~Running(Blue) /\ ctl' = [ctl EXCEPT !.pc = "stop"]
      <3>1. Blue' = Blue
        BY <1>c, <2>3 DEF Blue, Controller
      <3>2. \A s \in Streams : stream'[s].gen # Blue
        BY <2>1, <2>3 DEF Streaming
      <3>3. Drained(Blue)'
        BY <3>1, <3>2 DEF Drained
      <3>4. QED
        BY <3>3 DEF Spared
    <2>4. CASE /\ Counted(Blue) = {} /\ Connections(Blue) = {}
               /\ draining' = [draining EXCEPT ![Blue] = TRUE]
               /\ ctl' = [ctl EXCEPT !.pc = "release"]
      <3>1. Blue' = Blue
        BY <1>c, <2>4 DEF Blue, Controller
      <3>2. draining'[Blue]
        BY <2>1, <2>4 DEF Streaming
      <3>3. ASSUME NEW s \in Streams, stream[s].gen = Blue
            PROVE  ~stream[s].counted /\ stream[s].stage = "dialled"
        <4>1. ~stream[s].counted
          BY <2>4, <3>3 DEF Counted
        <4>2. stream[s].stage \notin {"accepted", "serving"}
          BY <2>4, <3>3 DEF Connections
        <4>3. stream[s].stage \in {"dialled", "accepted", "serving"}
          BY <2>1, <3>3, GensAreNumbers DEF Streaming, Connection
        <4>4. QED
          BY <4>1, <4>2, <4>3
      <3>4. \A s \in Streams : stream'[s].gen = Blue' =>
              /\ draining'[Blue']
              /\ ~stream'[s].counted
              /\ stream'[s].stage = "dialled" \/ stream'[s].late
        BY <2>1, <3>1, <3>2, <3>3
      <3>5. Drained(Blue)'
        BY <3>4 DEF Drained
      <3>6. QED
        BY <3>5 DEF Spared
    <2>5. QED
      BY <1>6, <2>2, <2>3, <2>4 DEF RetireOne, EligibleStopped
  (* From the drain to the stop. *)
  <1>7. ASSUME UNCHANGED <<stream, draining>>, ctl.todo # {},
               ctl.pc \in {"release", "detach", "eligible"},
               \E pc \in {"detach", "eligible", "stop"} : ctl' = [ctl EXCEPT !.pc = pc]
        PROVE  Spared'
    <2>1. Blue' = Blue
      BY <1>c, <1>7 DEF Blue, Controller
    <2>2. Drained(Blue)
      BY <1>7 DEF Spared
    <2>3. \A s \in Streams : stream'[s].gen = Blue' =>
              /\ draining'[Blue']
              /\ ~stream'[s].counted
              /\ stream'[s].stage = "dialled" \/ stream'[s].late
      BY <1>7, <2>1, <2>2 DEF Drained
    <2>4. Drained(Blue)'
      BY <2>3 DEF Drained
    <2>5. QED
      BY <2>4 DEF Spared
  <1>8. CASE Release \/ Released \/ RecordEligible
    BY <1>7, <1>8 DEF Release, Released, RecordEligible, Retiring, At, Goto, gateways
  <1>9. CASE Stop \/ Remove \/ RecordRemoved \/ Publish \/ Obsolete \/ RetireFails
    <2>1. ctl'.pc \in {"remove", "removed", "retire", "idle"}
      BY <1>9, <1>c DEF Stop, Remove, RecordRemoved, Publish, Obsolete, RetireFails, Fail, Goto,
                        Retired, Skip, Controller
    <2>2. QED
      BY <1>1, <2>1
  <1>10. CASE Handoff
    <2>1. ctl'.pc \in {"idle", "prepare", "activate", "select", "ready", "obsolete", "drain"}
      <3>1. CASE Fails \/ Prepares
        BY <3>1 DEF Fails, Prepares
      <3>2. CASE Tick \/ Select \/ DrainOld
        BY <3>2, <1>c DEF Tick, Select, DrainOld, Controller
      <3>3. QED
        BY <1>10, <3>1, <3>2, HandoffMoves
    <2>2. QED
      BY <1>1, <2>1
  <1>11. CASE Process \/ BeginStop
    <2>1. ctl' \in {Idle, Ended}
      BY <1>11 DEF Process, BeginStop, ControllerCrash, ControllerStart, ControllerEnds
    <2>2. QED
      BY <1>1, <2>1 DEF Idle, Ended
  <1>12. QED
    BY <1>3, <1>4, <1>5, <1>6, <1>8, <1>9, <1>10, <1>11
    DEF Next, vars, gateways, files, Command, Retirement, Ownership, GatewayStep,
        GatewayRestart, Vanish, Hangup, Issue, Revoke, FollowDetach, FollowCancel, FollowLost,
        BeginPlan, Ensure, Advance, Launch, Evict, Swap, WaitEnds, CommandEnds

-----------------------------------------------------------------------------
(* The two properties. *)

Inv ==
    /\ PlanInv
    /\ CtlInv
    /\ Routing
    /\ Tables
    /\ Selection
    /\ Handed
    /\ OwnersStayAuthorized
    /\ Streaming
    /\ Spared

LEMMA InvHolds == Spec => []Inv
  <1>1. Init => Inv
    BY PlanInit, CtlInit, OwnInit, StreamInit DEF Inv
  <1>2. Inv /\ [Next]_vars => Inv'
    BY PlanStep, ControlStep, TablesStep, SelectionStep, AuthStep, StreamStep, SparedStep
    DEF Inv
  <1>3. QED
    BY <1>1, <1>2, PTL DEF Spec

(* A handoff, a retirement and the gateway's own losses never take a live    *)
(* launch's authority: the attachment on the generation that later launches  *)
(* are issued at is followed, and the grant there is active unless that      *)
(* gateway lost it (control/gateway handoff, release_drained, follow).       *)
THEOREM AuthorityHeld == Spec => []OwnersStayAuthorized
  <1>1. Inv => OwnersStayAuthorized
    BY DEF Inv
  <1>2. QED
    BY <1>1, InvHolds, PTL

(* Retirement never cuts a connection that either count can see: a gateway   *)
(* is stopped when its drain counted no permit and its routes no connection, *)
(* whatever crashed, failed or was retried before (reconcile's retiring      *)
(* loop, Issuer::release_drained, run_network).                              *)
THEOREM StreamsSpared == Spec => RetirementSparesStreams
  <1> DEFINE A == \A g \in Gens :
    Stop /\ Running(g) /\ container'[g] = "Stopped" =>
        \A s \in Serving(g) : stream[s].late /\ ~stream[s].counted
  <1>1. Inv /\ [Next]_vars => [A]_vars
    <2> SUFFICES ASSUME Inv, NEW g \in Gens, Stop, Running(g), container'[g] = "Stopped",
                        NEW s \in Serving(g)
                 PROVE  stream[s].late /\ ~stream[s].counted
      OBVIOUS
    <2>1. ctl.pc = "stop" /\ ctl.todo # {} /\ Blue \in Gens
      BY FirstIsListed DEF Inv, Stop, Retiring, At
    <2>2. g = Blue
      BY <2>1 DEF Inv, Streaming, Stop, Running, gateways
    <2>3. Drained(g)
      BY <2>1, <2>2 DEF Inv, Spared
    <2>4. QED
      BY <2>3 DEF Drained, Serving
  <1>2. RetirementSparesStreams <=> [][A]_vars
    BY DEF RetirementSparesStreams
  <1> HIDE DEF A
  <1>3. QED
    BY <1>1, <1>2, InvHolds, PTL DEF Spec
=============================================================================
