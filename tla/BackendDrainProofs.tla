-------------------------- MODULE BackendDrainProofs --------------------------
(* Proofs of the safety properties of BackendDrain. *)
EXTENDS BackendDrain, FiniteSetTheorems, TLAPS

TrackerState == [phase : TrackerPhases, requests : Work, workflows : Work,
                 background : Work, failed : BOOLEAN]
GateState == [closed : BOOLEAN, sessions : Work, pending : Work,
              broker : Work, native : Work]
CallState == [role : Roles, command : RoleCommands,
              state : {"none", "sent", "taken", "answered"},
              reply : Replies, empty : BOOLEAN]
HostState == [stage : Stages, role : Roles, failed : BOOLEAN]

(* A connection that is being joined to Dolt has its lease. *)
Leased == sql.pending <= sql.sessions

TypeInv == TypeOK /\ Leased

(* The inductive part of the types: work is counted in a Tracker, ... *)
LEMMA TrackTypes ==
  ASSUME TypeInv, NEW r \in Tracked, NEW t \in TrackerState, Track(r, t)
  PROVE  TypeInv'
  BY DEF TypeInv, TypeOK, Leased, Track, TrackerState, commands, records, container

(* ... in the gate, ... *)
LEMMA GateTypes ==
  ASSUME TypeInv, NEW s \in GateState, s.pending <= s.sessions, Gated(s)
  PROVE  TypeInv'
  BY DEF TypeInv, TypeOK, Leased, Gated, GateState, commands, records, container

(* ... and a command leaves both well typed. *)
LEMMA CommandTypes ==
  ASSUME NEW t \in TrackerState, NEW c \in RoleCommands
  PROVE  Commanded(t, c) \in TrackerState
  BY DEF Commanded, TrackerState, TrackerPhases

LEMMA GateAfterTypes ==
  ASSUME TypeInv, NEW c \in RoleCommands
  PROVE  GateAfter(c) \in BOOLEAN
  BY DEF TypeInv, TypeOK, GateAfter

LEMMA AskTypes ==
  ASSUME TypeInv, NEW stage \in Stages, NEW r \in Roles, NEW c \in RoleCommands,
         Ask(stage, r, c)
  PROVE  call' \in CallState /\ host' \in HostState
  BY DEF TypeInv, TypeOK, Ask, NoCall, CallState, HostState, RoleCommands, Roles, Replies

LEMMA AnswerTypes ==
  ASSUME TypeInv, NEW reply \in Replies, Answer(reply)
  PROVE  call' \in CallState
  BY DEF TypeInv, TypeOK, Answer, CallState

LEMMA OvertakenTypes ==
  ASSUME TypeInv, late' \in Overtaken
  PROVE  late' \in SUBSET Message
  BY DEF TypeInv, TypeOK, Overtaken, Message

LEMMA NoCallTypes == NoCall \in CallState
  BY DEF NoCall, CallState, Roles, RoleCommands, Replies

LEMMA TypeInit == Init => TypeInv
  <1> SUFFICES ASSUME Init PROVE TypeInv
    OBVIOUS
  <1>1. 0 \in Work
    BY BackendDrainAssumption DEF Work
  <1>2. tracker \in [Tracked -> TrackerState]
    BY <1>1 DEF Init, TrackerState, TrackerPhases
  <1>3. sql \in GateState /\ Leased
    BY <1>1 DEF Init, GateState, Leased
  <1>4. call \in CallState /\ late \in SUBSET Message
    BY NoCallTypes DEF Init
  <1>5. host \in HostState
    BY DEF Init, HostState, Stages, Roles
  <1>6. children \in [Roles -> {"running", "zero", "failed"}]
    BY DEF Init
  <1>7. QED
    BY <1>2, <1>3, <1>4, <1>5, <1>6
    DEF Init, TypeInv, TypeOK, TrackerState, GateState, CallState, HostState

(* Two fields change together. *)
LEMMA GuardTypes ==
  ASSUME NEW t \in TrackerState, NEW n \in Work, NEW f \in BOOLEAN
  PROVE  /\ [t EXCEPT !.requests = n, !.failed = f] \in TrackerState
         /\ [t EXCEPT !.background = n, !.failed = f] \in TrackerState
  BY DEF TrackerState

LEMMA WorkTypes == TypeInv /\ (Arrive \/ Finish) => TypeInv'
  <1> SUFFICES ASSUME TypeInv, Arrive \/ Finish PROVE TypeInv'
    OBVIOUS
  <1>t. \A r \in Tracked : tracker[r] \in TrackerState
    BY DEF TypeInv, TypeOK, TrackerState
  <1>s. sql \in GateState /\ sql.pending <= sql.sessions
    BY DEF TypeInv, TypeOK, Leased, GateState
  <1>m. MaxWork \in Nat /\ Work = 0 .. MaxWork
    BY BackendDrainAssumption DEF Work
  <1>c. "celler" \in Tracked
    BY DEF Tracked
  <1>1. ASSUME NEW r \in Tracked, Request(r) PROVE TypeInv'
    <2>1. [tracker[r] EXCEPT !.requests = @ + 1] \in TrackerState
      BY <1>1, <1>t, <1>m DEF Request, TrackerState
    <2>2. QED
      BY <1>1, <2>1, TrackTypes DEF Request
  <1>2. ASSUME NEW r \in Tracked, Detach(r) PROVE TypeInv'
    <2>1. [tracker[r] EXCEPT !.background = @ + 1] \in TrackerState
      BY <1>2, <1>t, <1>m DEF Detach, TrackerState
    <2>2. QED
      BY <1>2, <2>1, TrackTypes DEF Detach
  <1>3. CASE WorkflowRequest
    <2>1. [tracker["celler"] EXCEPT !.requests = @ + 1] \in TrackerState
      BY <1>3, <1>t, <1>m, <1>c DEF WorkflowRequest, TrackerState
    <2>2. QED
      BY <1>3, <1>c, <2>1, TrackTypes DEF WorkflowRequest
  <1>4. CASE OpenWorkflow
    <2>1. [tracker["celler"] EXCEPT !.workflows = @ + 1] \in TrackerState
      BY <1>4, <1>t, <1>m, <1>c DEF OpenWorkflow, TrackerState
    <2>2. QED
      BY <1>4, <1>c, <2>1, TrackTypes DEF OpenWorkflow
  <1>5. CASE CloseWorkflow
    <2>1. [tracker["celler"] EXCEPT !.workflows = @ - 1] \in TrackerState
      BY <1>5, <1>t, <1>m, <1>c DEF CloseWorkflow, TrackerState
    <2>2. QED
      BY <1>5, <1>c, <2>1, TrackTypes DEF CloseWorkflow
  <1>6. CASE Maintenance
    <2>1. [tracker["celler"] EXCEPT !.background = @ + 1] \in TrackerState
      BY <1>6, <1>t, <1>m, <1>c DEF Maintenance, TrackerState
    <2>2. QED
      BY <1>6, <1>c, <2>1, TrackTypes DEF Maintenance
  <1>7. ASSUME NEW r \in Tracked, EndRequest(r) PROVE TypeInv'
    <2>1. PICK uncertain \in BOOLEAN :
             Track(r, [tracker[r] EXCEPT !.requests = @ - 1, !.failed = @ \/ uncertain])
      BY <1>7 DEF EndRequest
    <2>2. [tracker[r] EXCEPT !.requests = @ - 1, !.failed = @ \/ uncertain] \in TrackerState
      <3>1. tracker[r].requests - 1 \in Work /\ (tracker[r].failed \/ uncertain) \in BOOLEAN
        BY <1>7, <1>t, <1>m DEF EndRequest, TrackerState
      <3>2. QED
        BY <1>t, <3>1, GuardTypes
    <2>3. QED
      BY <2>1, <2>2, TrackTypes
  <1>8. ASSUME NEW r \in Tracked, EndBackground(r) PROVE TypeInv'
    <2>1. PICK uncertain \in BOOLEAN :
             Track(r, [tracker[r] EXCEPT !.background = @ - 1, !.failed = @ \/ uncertain])
      BY <1>8 DEF EndBackground
    <2>2. [tracker[r] EXCEPT !.background = @ - 1, !.failed = @ \/ uncertain] \in TrackerState
      <3>1. tracker[r].background - 1 \in Work /\ (tracker[r].failed \/ uncertain) \in BOOLEAN
        BY <1>8, <1>t, <1>m DEF EndBackground, TrackerState
      <3>2. QED
        BY <1>t, <3>1, GuardTypes
    <2>3. QED
      BY <2>1, <2>2, TrackTypes
  <1>9. CASE Admit \/ Connect \/ AdmitBroker \/ ConnectFails \/ Disconnect
             \/ NativeEnds \/ EndBroker
    <2>1. ASSUME NEW s, Gated(s), s \in GateState, s.pending <= s.sessions
          PROVE  TypeInv'
      BY <2>1, GateTypes
    <2>2. CASE Admit
      <3> DEFINE s == [sql EXCEPT !.sessions = @ + 1, !.pending = @ + 1]
      <3>1. Gated(s) /\ s \in GateState /\ s.pending <= s.sessions
        <4>1. sql.sessions + 1 \in Work /\ sql.pending + 1 \in Work
              /\ sql.pending + 1 <= sql.sessions + 1
          BY <2>2, <1>s, <1>m DEF Admit, GateState
        <4>2. Gated(s)
          BY <2>2 DEF Admit
        <4>3. s \in GateState
          BY <1>s, <4>1 DEF GateState
        <4>4. s.pending <= s.sessions
          BY <1>s, <4>1 DEF GateState
        <4>5. QED
          BY <4>2, <4>3, <4>4
      <3>2. QED
        BY <3>1, <2>1
    <2>3. CASE Connect
      <3> DEFINE s == [sql EXCEPT !.pending = @ - 1, !.native = @ + 1]
      <3>1. Gated(s) /\ s \in GateState /\ s.pending <= s.sessions
        <4>1. sql.pending - 1 \in Work /\ sql.native + 1 \in Work
              /\ sql.pending - 1 <= sql.sessions
          BY <2>3, <1>s, <1>m DEF Connect, GateState
        <4>2. Gated(s)
          BY <2>3 DEF Connect
        <4>3. s \in GateState
          BY <1>s, <4>1 DEF GateState
        <4>4. s.pending <= s.sessions
          BY <1>s, <4>1 DEF GateState
        <4>5. QED
          BY <4>2, <4>3, <4>4
      <3>2. QED
        BY <3>1, <2>1
    <2>4. CASE AdmitBroker
      <3> DEFINE s == [sql EXCEPT !.broker = @ + 1]
      <3>1. Gated(s) /\ s \in GateState /\ s.pending <= s.sessions
        BY <2>4, <1>s, <1>m DEF AdmitBroker, GateState
      <3>2. QED
        BY <3>1, <2>1
    <2>5. CASE ConnectFails
      <3> DEFINE s == [sql EXCEPT !.pending = @ - 1, !.sessions = @ - 1]
      <3>1. Gated(s) /\ s \in GateState /\ s.pending <= s.sessions
        <4>1. sql.pending - 1 \in Work /\ sql.sessions - 1 \in Work
              /\ sql.pending - 1 <= sql.sessions - 1
          BY <2>5, <1>s, <1>m DEF ConnectFails, GateState
        <4>2. Gated(s)
          BY <2>5 DEF ConnectFails
        <4>3. s \in GateState
          BY <1>s, <4>1 DEF GateState
        <4>4. s.pending <= s.sessions
          BY <1>s, <4>1 DEF GateState
        <4>5. QED
          BY <4>2, <4>3, <4>4
      <3>2. QED
        BY <3>1, <2>1
    <2>6. CASE Disconnect
      <3> DEFINE s == [sql EXCEPT !.sessions = @ - 1]
      <3>1. Gated(s) /\ s \in GateState /\ s.pending <= s.sessions
        BY <2>6, <1>s, <1>m DEF Disconnect, GateState
      <3>2. QED
        BY <3>1, <2>1
    <2>7. CASE NativeEnds
      <3> DEFINE s == [sql EXCEPT !.native = @ - 1]
      <3>1. Gated(s) /\ s \in GateState /\ s.pending <= s.sessions
        BY <2>7, <1>s, <1>m DEF NativeEnds, GateState
      <3>2. QED
        BY <3>1, <2>1
    <2>8. CASE EndBroker
      <3> DEFINE s == [sql EXCEPT !.broker = @ - 1]
      <3>1. Gated(s) /\ s \in GateState /\ s.pending <= s.sessions
        BY <2>8, <1>s, <1>m DEF EndBroker, GateState
      <3>2. QED
        BY <3>1, <2>1
    <2>9. QED
      BY <1>9, <2>2, <2>3, <2>4, <2>5, <2>6, <2>7, <2>8
  <1>10. QED
    BY <1>1, <1>2, <1>3, <1>4, <1>5, <1>6, <1>7, <1>8, <1>9 DEF Arrive, Finish

LEMMA RoleTypes == TypeInv /\ (Serve \/ TakeLate \/ Release \/ Disrupted) => TypeInv'
  <1> SUFFICES ASSUME TypeInv, Serve \/ TakeLate \/ Release \/ Disrupted PROVE TypeInv'
    OBVIOUS
  <1> USE DEF native, commands, records, container
  <1>t. /\ \A r \in Tracked : tracker[r] \in TrackerState
        /\ tracker \in [Tracked -> TrackerState]
        /\ sql \in GateState /\ Leased
        /\ call \in CallState
        /\ call.command \in RoleCommands
    BY DEF TypeInv, TypeOK, TrackerState, GateState, CallState
  <1>k. /\ "celler" \in Roles /\ "compiler" \in Roles /\ "dolt" \in Roles
        /\ Tracked \subseteq Roles
        /\ "drained" \in Replies /\ "busy" \in Replies /\ "serving" \in Replies
        /\ "released" \in Replies /\ "error" \in Replies
    BY DEF Roles, Tracked, Replies
  <1>r. \A t, c : TrackerReply(t, c) \in Replies
    BY <1>k DEF TrackerReply
  <1>i. ASSUME tracker' \in [Tracked -> TrackerState], sql' \in GateState, Leased',
               call' \in CallState, late' \in SUBSET Message,
               UNCHANGED <<host, intent, route, planned, freed, children, main, certificate>>
        PROVE  TypeInv'
    BY <1>i DEF TypeInv, TypeOK, TrackerState, GateState, CallState
  <1>l. late \in SUBSET Message
    BY DEF TypeInv, TypeOK
  <1>1. ASSUME NEW r \in Tracked, TakeTracked(r) PROVE TypeInv'
    <2>1. Commanded(tracker[r], call.command) \in TrackerState
      BY <1>t, CommandTypes
    <2>2. tracker' \in [Tracked -> TrackerState]
      BY <1>1, <1>t, <2>1 DEF TakeTracked
    <2>3. call' \in CallState
      <3>1. CASE call' = [call EXCEPT !.state = "taken"]
        BY <1>t, <3>1 DEF CallState
      <3>2. CASE \E reply \in Replies : Answer(reply)
        BY <3>2, AnswerTypes
      <3>3. QED
        BY <1>1, <1>r, <3>1, <3>2 DEF TakeTracked
    <2>4. QED
      BY <1>1, <1>t, <1>i, <1>l, <2>2, <2>3 DEF TakeTracked, Leased
  <1>2. ASSUME NEW r \in Tracked, Close(r) PROVE TypeInv'
    <2>1. [tracker[r] EXCEPT !.phase = "Released"] \in TrackerState
      BY <1>t DEF TrackerState, TrackerPhases
    <2>2. tracker' \in [Tracked -> TrackerState]
      BY <1>2, <1>t, <2>1 DEF Close
    <2>3. call' \in CallState
      BY <1>2, <1>t, <1>k DEF Close, Answer, CallState
    <2>4. QED
      BY <1>2, <1>t, <1>i, <1>l, <2>2, <2>3 DEF Close, Leased
  <1>3. ASSUME NEW r \in Tracked, Ends(r) PROVE TypeInv'
    BY <1>3 DEF TypeInv, TypeOK, Ends, Leased, Tracked, Roles
  <1>4. CASE TakeSql
    <2>1. GateAfter(call.command) \in BOOLEAN
      BY <1>t, GateAfterTypes
    <2>2. sql' \in GateState /\ Leased'
      BY <1>4, <1>t, <2>1 DEF TakeSql, GateState, Leased
    <2>3. call' \in CallState
      BY <1>4, <1>t, <1>k DEF TakeSql, Answer, CallState
    <2>4. QED
      BY <1>4, <1>t, <1>i, <1>l, <2>2, <2>3 DEF TakeSql
  <1>5. CASE Census
    <2>1. call' \in CallState
      BY <1>5, <1>t, <1>k DEF Census, Answer, CallState
    <2>2. QED
      BY <1>5, <1>t, <1>i, <1>l, <2>1 DEF Census, Leased
  <1>6. CASE TakeLate
    <2>1. PICK m \in late :
            /\ late' = late \ {m}
            /\ IF m.role = "dolt"
                 THEN /\ sql' = [sql EXCEPT !.closed = GateAfter(m.command)]
                      /\ UNCHANGED tracker
                 ELSE /\ Controls(m.role)
                      /\ tracker' = [tracker EXCEPT ![m.role] = Commanded(@, m.command)]
                      /\ UNCHANGED sql
            /\ UNCHANGED <<call, host, records, container>>
      BY <1>6 DEF TakeLate
    <2>2. m.role \in Roles /\ m.command \in RoleCommands
      BY <1>l DEF Message
    <2>3. late' \in SUBSET Message
      BY <1>l, <2>1
    <2>4. CASE m.role = "dolt"
      <3>1. GateAfter(m.command) \in BOOLEAN
        BY <2>2, GateAfterTypes
      <3>2. sql' \in GateState /\ Leased'
        BY <1>t, <2>1, <2>4, <3>1 DEF GateState, Leased
      <3>3. QED
        BY <1>t, <1>i, <2>1, <2>3, <2>4, <3>2
    <2>5. CASE m.role # "dolt"
      <3>1. m.role \in Tracked
        BY <2>2, <2>5 DEF Roles
      <3>2. Commanded(tracker[m.role], m.command) \in TrackerState
        BY <1>t, <2>2, <3>1, CommandTypes
      <3>3. tracker' \in [Tracked -> TrackerState]
        BY <1>t, <2>1, <2>5, <3>1, <3>2
      <3>4. QED
        BY <1>t, <1>i, <2>1, <2>3, <2>5, <3>3 DEF Leased
    <2>6. QED
      BY <2>4, <2>5
  <1>7. CASE Release
    BY ZenonT(30), <1>7 DEF TypeInv, TypeOK, Leased, Release, AwaitCompiler, QuiesceSql, CensusSql,
                StopDolt, Supervise, Roles
  <1>8. CASE Disrupted
    BY <1>8 DEF TypeInv, TypeOK, Leased, Disrupted
  <1>9. QED
    BY <1>1, <1>2, <1>3, <1>4, <1>5, <1>6, <1>7, <1>8 DEF Serve

LEMMA HostTypes == TypeInv /\ (Host \/ GiveUp \/ HostDies) => TypeInv'
  <1> SUFFICES ASSUME TypeInv, Host \/ GiveUp \/ HostDies PROVE TypeInv'
    OBVIOUS
  <1> USE DEF native, commands, records, container
  <1>k. /\ \A stage \in {"idle", "close", "begin", "poll", "confirm", "undo", "recheck",
                         "abort", "abort again", "releasing", "plan", "freed", "compiler",
                         "celler", "exit"} : stage \in Stages
        /\ \A c \in {"begin", "quiesce", "status", "abort", "release"} : c \in RoleCommands
        /\ "celler" \in Roles /\ "compiler" \in Roles /\ "dolt" \in Roles
        /\ "error" \in Replies
    BY DEF Stages, RoleCommands, Roles, Tracked, Replies
  <1>o. host.role \in Roles /\ Next1[host.role] \in Roles
    <2>1. host.role \in Roles
      BY DEF TypeInv, TypeOK
    <2>2. QED
      BY <2>1 DEF Roles, Tracked, Next1
  <1>i. ASSUME tracker' = tracker, sql' = sql, children' = children, main' = main,
               freed' = freed, certificate' = certificate, planned' \in BOOLEAN,
               call' \in CallState, late' \in SUBSET Message, host' \in HostState,
               intent' \in {"none", "draining", "releasing", "released"}, route' \in BOOLEAN
        PROVE  TypeInv'
    BY <1>i DEF TypeInv, TypeOK, Leased, CallState, HostState
  <1>t. /\ call \in CallState /\ late \in SUBSET Message /\ host \in HostState
        /\ intent \in {"none", "draining", "releasing", "released"}
        /\ route \in BOOLEAN /\ planned \in BOOLEAN
    BY DEF TypeInv, TypeOK, CallState, HostState
  <1>a. \A stage \in Stages, r \in Roles, c \in RoleCommands :
           Ask(stage, r, c) => call' \in CallState /\ host' \in HostState
    BY AskTypes
  <1>s. \A stage \in Stages : Stage(stage) => host' \in HostState
    BY <1>k, <1>t DEF Stage, HostState
  <1>n. NoCall \in CallState /\ [stage |-> "idle", role |-> "dolt", failed |-> FALSE] \in HostState
    BY <1>k, NoCallTypes DEF HostState
  <1>1. CASE HostDrain
    BY <1>1, <1>i, <1>k, <1>t, <1>s DEF HostDrain
  <1>2. CASE HostClose
    BY <1>2, <1>i, <1>k, <1>t, <1>a DEF HostClose
  <1>3. CASE HostPolled
    BY <1>3, <1>i, <1>k, <1>o, <1>t, <1>a DEF HostPolled
  <1>4. CASE HostConfirmed
    BY <1>4, <1>i, <1>k, <1>o, <1>t, <1>a DEF HostConfirmed
  <1>5. CASE HostUndone
    BY <1>5, <1>i, <1>k, <1>o, <1>t, <1>a DEF HostUndone
  <1>6. CASE HostRechecked
    BY <1>6, <1>i, <1>k, <1>o, <1>t, <1>a, <1>s, <1>n DEF HostRechecked
  <1>7. CASE HostAborted
    BY <1>7, <1>i, <1>k, <1>o, <1>t, <1>a DEF HostAborted
  <1>8. CASE HostReopened
    <2> DEFINE failed == host.failed \/ call.reply # "serving"
    <2>1. failed \in BOOLEAN
      OBVIOUS
    <2>2. CASE LastRole
      BY <1>8, <1>i, <1>n, <1>t, <2>2 DEF HostReopened
    <2>3. CASE ~LastRole
      <3>1. host' = [host EXCEPT !.role = Next1[host.role], !.failed = failed]
        BY <1>8, <2>3 DEF HostReopened
      <3>2. host' \in HostState
        BY <1>o, <1>t, <3>1 DEF HostState
      <3>3. call' = [NoCall EXCEPT !.role = Next1[host.role], !.command = "abort",
                                   !.state = "sent"]
        BY <1>8, <2>3 DEF HostReopened
      <3>4. call' \in CallState
        BY <1>k, <1>n, <1>o, <3>3 DEF CallState
      <3>5. QED
        BY <1>8, <1>i, <1>t, <2>3, <3>2, <3>4 DEF HostReopened
    <2>4. QED
      BY <2>2, <2>3
  <1>9. CASE HostReleasing
    BY <1>9, <1>i, <1>k, <1>t, <1>s DEF HostReleasing
  <1>10. CASE HostResume
    BY <1>10, <1>i, <1>k, <1>t, <1>s DEF HostResume
  <1>11. CASE HostPlan
    BY <1>11, <1>i, <1>k, <1>t, <1>s DEF HostPlan
  <1>12. CASE HostFreed
    BY <1>12, <1>i, <1>k, <1>t, <1>a DEF HostFreed
  <1>13. CASE HostFreedCompiler
    BY <1>13, <1>i, <1>k, <1>t, <1>a, <1>s, <1>n DEF HostFreedCompiler, Fail
  <1>14. CASE HostFreedCeller
    BY <1>14, <1>i, <1>k, <1>t, <1>s, <1>n DEF HostFreedCeller
  <1>15. CASE HostExited
    BY <1>15, <1>i, <1>k, <1>t, <1>s DEF HostExited
  <1>16. CASE GiveUp
    <2>1. call' \in CallState /\ late' \in SUBSET Message
      BY <1>16, <1>k, AnswerTypes, OvertakenTypes DEF GiveUp
    <2>2. QED
      BY <1>16, <1>i, <1>t, <2>1 DEF GiveUp
  <1>17. CASE HostDies
    BY <1>17, <1>i, <1>n, <1>t, OvertakenTypes DEF HostDies
  <1>18. QED
    BY <1>1, <1>2, <1>3, <1>4, <1>5, <1>6, <1>7, <1>8, <1>9, <1>10, <1>11, <1>12, <1>13,
       <1>14, <1>15, <1>16, <1>17 DEF Host

LEMMA TypeStep == TypeInv /\ [Next]_vars => TypeInv'
  <1>1. TypeInv /\ UNCHANGED vars => TypeInv'
    BY DEF TypeInv, TypeOK, Leased, vars
  <1>2. QED
    BY <1>1, WorkTypes, RoleTypes, HostTypes DEF Next

(* Every counter stays within its bound and every record keeps its shape;   *)
(* a connection that is being joined to Dolt never outlives its lease.     *)
THEOREM DrainTypes == Spec => []TypeOK
  <1>1. TypeInv => TypeOK
    BY DEF TypeInv
  <1>2. QED
    BY TypeInit, TypeStep, <1>1, PTL DEF Spec

-----------------------------------------------------------------------------
(* What holds whatever late commands do. *)

(* A tracker is released only without work, and admits none afterwards. *)
AuthorizedQuiet ==
    \A r \in Tracked : tracker[r].phase \in {"Releasing", "Released"} => NoWork(tracker[r])

(* The first process follows the ends of its children. *)
Supervised ==
    /\ \A r \in Roles : children[r] = "zero" => planned
    /\ main \in {"waiting", "quiesce", "census", "stop", "exited"}
          => planned /\ children["celler"] = "zero"
    /\ main \in {"quiesce", "census", "stop", "exited"} => freed
    /\ freed => children["compiler"] = "zero"
    /\ children["dolt"] = "zero" => main = "exited"
    /\ main = "exited" => children["dolt"] = "zero"
    /\ certificate <=> main = "exited"

ReleaseStages == {"plan", "freed", "compiler", "celler", "exit"}

(* A stop is planned only by an update that recorded the release. *)
Authorized ==
    /\ planned => intent \in {"releasing", "released"}
    /\ host.stage \in ReleaseStages => intent = "releasing"

SafeInv == TypeInv /\ AuthorizedQuiet /\ Supervised /\ Authorized

LEMMA SafeInit == Init => SafeInv
  BY TypeInit
  DEF Init, SafeInv, AuthorizedQuiet, Supervised, Authorized, ReleaseStages, Roles, Tracked

LEMMA CommandedQuiet ==
  ASSUME NEW t \in TrackerState, NEW c \in RoleCommands,
         t.phase \in {"Releasing", "Released"} => NoWork(t)
  PROVE  Commanded(t, c).phase \in {"Releasing", "Released"} => NoWork(Commanded(t, c))
  BY DEF Commanded, TrackerState, Drained, NoWork

LEMMA WorkFrame ==
  Arrive \/ Finish => UNCHANGED <<commands, host, records, container>>
  BY DEF Arrive, Finish, Request, Detach, WorkflowRequest, OpenWorkflow, CloseWorkflow,
         Maintenance, EndRequest, EndBackground, Track, Admit, Connect, AdmitBroker,
         ConnectFails, Disconnect, NativeEnds, EndBroker, Gated

LEMMA HostFrame ==
  Host => UNCHANGED <<native, late, freed, children, main, certificate>> /\ (planned => planned')
  <1> USE DEF native, commands, records, container
  <1>1. HostPlan => UNCHANGED <<native, late, freed, children, main, certificate>> /\ planned'
    BY DEF HostPlan
  <1>2. Host => HostPlan \/ UNCHANGED <<native, late, container>>
    BY DEF Host, HostDrain, HostClose, HostPolled, HostConfirmed, HostUndone, HostRechecked,
           HostAborted, HostReopened, HostReleasing, HostResume, HostFreed,
           HostFreedCompiler, HostFreedCeller, HostExited
  <1>3. QED
    BY <1>1, <1>2

LEMMA AuthorizedQuietStep == SafeInv /\ [Next]_vars => AuthorizedQuiet'
  <1> SUFFICES ASSUME SafeInv, [Next]_vars PROVE AuthorizedQuiet'
    OBVIOUS
  <1> USE DEF native, commands, records, container
  <1>t. /\ \A r \in Tracked : tracker[r] \in TrackerState
        /\ tracker \in [Tracked -> TrackerState]
        /\ AuthorizedQuiet
        /\ call.command \in RoleCommands /\ late \in SUBSET Message
    BY DEF SafeInv, TypeInv, TypeOK, TrackerState
  <1>u. ASSUME UNCHANGED tracker PROVE AuthorizedQuiet'
    BY <1>t, <1>u DEF AuthorizedQuiet, NoWork
  <1>c. ASSUME NEW r \in Tracked, NEW t,
               t.phase \in {"Releasing", "Released"} => NoWork(t),
               tracker' = [tracker EXCEPT ![r] = t]
        PROVE  AuthorizedQuiet'
    BY <1>t, <1>c DEF AuthorizedQuiet, NoWork
  <1>q. /\ "celler" \in Tracked
        /\ 0 \in Work /\ \A n \in Work : n \in Nat
    BY BackendDrainAssumption DEF Tracked, Work
  <1>1. CASE \E r \in Tracked : Request(r) \/ Detach(r) \/ EndRequest(r) \/ EndBackground(r)
    <2>1. PICK r \in Tracked : Request(r) \/ Detach(r) \/ EndRequest(r) \/ EndBackground(r)
      BY <1>1
    <2>2. tracker[r].requests > 0 \/ tracker[r].background > 0 \/ tracker[r].phase = "Serving"
      BY <2>1 DEF Request, Detach, EndRequest, EndBackground
    <2>3. tracker[r].phase \notin {"Releasing", "Released"}
      BY <1>t, <2>2 DEF AuthorizedQuiet, NoWork
    <2>4. \E t : Track(r, t) /\ t.phase = tracker[r].phase
      <3>1. CASE Request(r) \/ Detach(r)
        BY <1>t, <3>1 DEF Request, Detach, TrackerState
      <3>2. CASE EndRequest(r)
        <4>1. PICK uncertain \in BOOLEAN :
                 Track(r, [tracker[r] EXCEPT !.requests = @ - 1, !.failed = @ \/ uncertain])
          BY <3>2 DEF EndRequest
        <4>2. [tracker[r] EXCEPT !.requests = @ - 1, !.failed = @ \/ uncertain].phase
                 = tracker[r].phase
          BY <1>t DEF TrackerState
        <4>3. QED
          BY <4>1, <4>2
      <3>3. CASE EndBackground(r)
        <4>1. PICK uncertain \in BOOLEAN :
                 Track(r, [tracker[r] EXCEPT !.background = @ - 1, !.failed = @ \/ uncertain])
          BY <3>3 DEF EndBackground
        <4>2. [tracker[r] EXCEPT !.background = @ - 1, !.failed = @ \/ uncertain].phase
                 = tracker[r].phase
          BY <1>t DEF TrackerState
        <4>3. QED
          BY <4>1, <4>2
      <3>4. QED
        BY <2>1, <3>1, <3>2, <3>3
    <2>5. QED
      BY <1>c, <2>3, <2>4 DEF Track
  <1>2. CASE WorkflowRequest \/ OpenWorkflow \/ CloseWorkflow \/ Maintenance
    <2>1. tracker["celler"].phase \notin {"Releasing", "Released"}
      BY <1>2, <1>t, <1>q
      DEF AuthorizedQuiet, NoWork, WorkflowRequest, OpenWorkflow, CloseWorkflow, Maintenance
    <2>2. tracker'["celler"].phase = tracker["celler"].phase
          /\ \A x \in Tracked \ {"celler"} : tracker'[x] = tracker[x]
      BY <1>2, <1>t, <1>q
      DEF WorkflowRequest, OpenWorkflow, CloseWorkflow, Maintenance, Track, TrackerState
    <2>3. QED
      BY <1>t, <2>1, <2>2 DEF AuthorizedQuiet, NoWork
  <1>3. CASE \E r \in Tracked : TakeTracked(r)
    <2>1. PICK r \in Tracked : TakeTracked(r)
      BY <1>3
    <2> DEFINE t == Commanded(tracker[r], call.command)
    <2>2. t.phase \in {"Releasing", "Released"} => NoWork(t)
      BY <1>t, CommandedQuiet DEF AuthorizedQuiet
    <2>3. tracker' = [tracker EXCEPT ![r] = t]
      BY <2>1 DEF TakeTracked
    <2> HIDE DEF t
    <2>4. QED
      BY <1>c, <2>2, <2>3
  <1>4. CASE \E r \in Tracked : Close(r)
    <2>1. PICK r \in Tracked : Close(r)
      BY <1>4
    <2>2. NoWork(tracker[r])
      BY <1>t, <2>1 DEF Close, AuthorizedQuiet
    <2>3. NoWork(tracker'[r]) /\ \A x \in Tracked \ {r} : tracker'[x] = tracker[x]
      BY <1>t, <2>1, <2>2 DEF Close, NoWork, TrackerState
    <2>4. QED
      BY <1>t, <2>3 DEF AuthorizedQuiet, NoWork
  <1>5. CASE TakeLate
    <2>1. PICK m \in late :
            \/ UNCHANGED tracker
            \/ /\ m.role \in Tracked
               /\ tracker' = [tracker EXCEPT ![m.role] = Commanded(tracker[m.role], m.command)]
      <3>1. \A m \in late : m.role \in Roles
        BY <1>t DEF Message
      <3>2. QED
        BY <1>5, <3>1 DEF TakeLate, Roles
    <2>2. CASE UNCHANGED tracker
      BY <1>u, <2>2
    <2>3. CASE /\ m.role \in Tracked
               /\ tracker' = [tracker EXCEPT ![m.role] = Commanded(tracker[m.role], m.command)]
      <3> DEFINE t == Commanded(tracker[m.role], m.command)
      <3>1. m.command \in RoleCommands
        BY <1>t DEF Message
      <3>2. t.phase \in {"Releasing", "Released"} => NoWork(t)
        BY <1>t, <2>3, <3>1, CommandedQuiet DEF AuthorizedQuiet
      <3>3. tracker' = [tracker EXCEPT ![m.role] = t]
        BY <2>3
      <3> HIDE DEF t
      <3>4. QED
        BY <1>c, <2>3, <3>2, <3>3
    <2>4. QED
      BY <2>1, <2>2, <2>3
  <1>6. CASE \/ Admit \/ Connect \/ AdmitBroker \/ ConnectFails \/ Disconnect
             \/ NativeEnds \/ EndBroker \/ TakeSql \/ Census \/ Release \/ Host
             \/ GiveUp \/ HostDies \/ Disrupted \/ UNCHANGED vars
             \/ \E r \in Tracked : Ends(r)
    <2>1. CASE \/ Admit \/ Connect \/ AdmitBroker \/ ConnectFails \/ Disconnect
               \/ NativeEnds \/ EndBroker \/ TakeSql \/ Census
               \/ GiveUp \/ HostDies \/ Disrupted \/ UNCHANGED vars
               \/ \E r \in Tracked : Ends(r)
      BY <1>u, <2>1
      DEF Admit, Connect, AdmitBroker, ConnectFails, Disconnect, NativeEnds, EndBroker, Gated,
          TakeSql, Census, GiveUp, HostDies, Disrupted, vars, Ends
    <2>2. CASE Release
      BY <1>u, <2>2 DEF Release, AwaitCompiler, QuiesceSql, CensusSql, StopDolt
    <2>3. CASE Host
      BY <1>u, <2>3, HostFrame
    <2>4. QED
      BY <1>6, <2>1, <2>2, <2>3
  <1>7. QED
    BY <1>1, <1>2, <1>3, <1>4, <1>5, <1>6 DEF Next, Arrive, Finish, Serve

LEMMA SupervisedStep == SafeInv /\ [Next]_vars => Supervised'
  <1> SUFFICES ASSUME SafeInv, [Next]_vars PROVE Supervised'
    OBVIOUS
  <1> USE DEF native, commands, records, container
  <1>t. /\ Supervised
        /\ children \in [Roles -> {"running", "zero", "failed"}]
        /\ main \in {"serving", "waiting", "quiesce", "census", "stop", "exited", "failed"}
        /\ certificate \in BOOLEAN /\ freed \in BOOLEAN /\ planned \in BOOLEAN
    BY DEF SafeInv, TypeInv, TypeOK
  <1>k. /\ "celler" \in Roles /\ "compiler" \in Roles /\ "dolt" \in Roles
        /\ Tracked = {"celler", "compiler"}
    BY DEF Roles, Tracked
  <1>1. CASE UNCHANGED <<main, children, freed, certificate>> /\ (planned => planned')
    BY <1>1, <1>t DEF Supervised
  <1>2. ASSUME NEW r \in Tracked, Ends(r) PROVE Supervised'
    BY <1>2, <1>t, <1>k DEF Ends, Supervised, ContainerRunning, Runs
  <1>3. CASE Disrupted
    <2>1. \A r \in Roles : children[r] = "zero" <=> children'[r] = "zero"
      BY <1>3, <1>t DEF Disrupted, Runs
    <2>2. QED
      BY <1>3, <1>t, <1>k, <2>1 DEF Disrupted, Supervised, ContainerRunning
  <1>4. CASE Release
    BY <1>4, <1>t, <1>k
    DEF Release, AwaitCompiler, QuiesceSql, CensusSql, StopDolt, Supervise, Supervised
  <1>5. CASE Arrive \/ Finish
    BY <1>5, <1>1, WorkFrame
  <1>6. CASE Host
    BY <1>6, <1>1, HostFrame
  <1>7. CASE TakeLate \/ GiveUp \/ HostDies \/ TakeSql \/ Census \/ UNCHANGED vars
             \/ \E r \in Tracked : TakeTracked(r) \/ Close(r)
    BY <1>7, <1>1 DEF TakeLate, GiveUp, HostDies, TakeSql, Census, TakeTracked, Close, vars
  <1>8. QED
    BY <1>2, <1>3, <1>4, <1>5, <1>6, <1>7 DEF Next, Serve

LEMMA AuthorizedStep == SafeInv /\ [Next]_vars => Authorized'
  <1> SUFFICES ASSUME SafeInv, [Next]_vars PROVE Authorized'
    OBVIOUS
  <1> USE DEF native, commands, records, container
  <1>t. /\ Authorized
        /\ host \in HostState
    BY DEF SafeInv, TypeInv, TypeOK, HostState
  <1>u. ASSUME UNCHANGED <<planned, intent, host>> PROVE Authorized'
    BY <1>t, <1>u DEF Authorized
  <1>1. CASE Arrive \/ Finish
    BY <1>1, <1>u, WorkFrame
  <1>2. CASE Serve \/ TakeLate \/ Release \/ GiveUp \/ Disrupted \/ UNCHANGED vars
    BY <1>2, <1>u
    DEF Serve, TakeTracked, Close, Ends, TakeSql, Census, TakeLate, GiveUp, Disrupted, vars,
        Release, AwaitCompiler, QuiesceSql, CensusSql, StopDolt
  <1>3. CASE HostDies
    BY <1>3, <1>t DEF HostDies, Authorized, ReleaseStages
  <1>4. CASE Host
    <2>a. \A stage, r, c : Ask(stage, r, c) => host'.stage = stage
      BY <1>t DEF Ask, HostState
    <2>s. \A stage : Stage(stage) => host'.stage = stage
      BY <1>t DEF Stage, HostState
    <2> USE <1>t, <2>a, <2>s DEF Authorized, ReleaseStages, At, Told
    <2>1. CASE HostDrain
      BY <2>1 DEF HostDrain
    <2>2. CASE HostClose \/ HostPolled \/ HostConfirmed \/ HostUndone \/ HostAborted
      <3>1. \E stage \in {"begin", "confirm", "poll", "undo", "recheck", "abort", "abort again"} :
               \E r, c : Ask(stage, r, c)
        BY <2>2 DEF HostClose, HostPolled, HostConfirmed, HostUndone, HostAborted
      <3>2. host'.stage \notin ReleaseStages
        BY <3>1
      <3>3. planned' = planned /\ intent' = intent
        BY <2>2 DEF HostClose, HostPolled, HostConfirmed, HostUndone, HostAborted
      <3>4. QED
        BY <3>2, <3>3
    <2>3. CASE HostRechecked
      BY <2>3 DEF HostRechecked
    <2>4. CASE HostReopened
      <3>1. host'.stage = "idle" \/ host'.stage = host.stage
        <4> DEFINE failed == host.failed \/ call.reply # "serving"
        <4>1. [host EXCEPT !.role = Next1[host.role], !.failed = failed].stage = host.stage
          <5> HIDE DEF failed
          <5> QED
            BY DEF HostState
        <4>2. CASE LastRole
          <5>1. host' = [stage |-> "idle", role |-> "dolt", failed |-> FALSE]
            BY <2>4, <4>2, Zenon DEF HostReopened
          <5>2. QED
            BY <5>1
        <4>3. CASE ~LastRole
          BY <2>4, <4>1, <4>3 DEF HostReopened
        <4>4. QED
          BY <4>2, <4>3
      <3>2. QED
        BY <2>4, <3>1 DEF HostReopened, Stages
    <2>5. CASE HostReleasing
      BY <2>5 DEF HostReleasing
    <2>6. CASE HostResume
      BY <2>6 DEF HostResume
    <2>7. CASE HostPlan
      BY <2>7 DEF HostPlan
    <2>8. CASE HostFreed
      BY <2>8 DEF HostFreed
    <2>9. CASE HostFreedCompiler
      BY <2>9 DEF HostFreedCompiler, Fail
    <2>10. CASE HostFreedCeller
      BY <2>10 DEF HostFreedCeller
    <2>11. CASE HostExited
      BY <2>11 DEF HostExited
    <2>12. QED
      BY <1>4, <2>1, <2>2, <2>3, <2>4, <2>5, <2>6, <2>7, <2>8, <2>9, <2>10, <2>11 DEF Host
  <1>5. QED
    BY <1>1, <1>2, <1>3, <1>4 DEF Next

LEMMA SafeStep == SafeInv /\ [Next]_vars => SafeInv'
  BY TypeStep, AuthorizedQuietStep, SupervisedStep, AuthorizedStep DEF SafeInv

LEMMA DrainSafe == Spec => []SafeInv
  BY SafeInit, SafeStep, PTL DEF Spec

(* Whatever late commands do, the certificate is on record only when Celler, *)
(* the compiler and Dolt ended cleanly in a stop the update had authorised. *)
THEOREM CertificateIsTruthful == Spec => []CertificateTruthful
  <1>1. SafeInv => CertificateTruthful
    BY DEF SafeInv, Supervised, Authorized, CertificateTruthful, Roles, Tracked
  <1>2. QED
    BY DrainSafe, <1>1, PTL

(* Whatever late commands do, Celler and the compiler end a planned release *)
(* only with no request, workflow or background work left.                 *)
THEOREM TrackedWorkFinishes == Spec => TrackedNeverAbandons
  <1>1. SafeInv /\ [Next]_vars
           => \A r \in Tracked : children[r] = "running" /\ children'[r] = "zero" => Idle(r)
    <2> SUFFICES ASSUME SafeInv, [Next]_vars, NEW r \in Tracked,
                        children[r] = "running", children'[r] = "zero"
                 PROVE  Idle(r)
      OBVIOUS
    <2>1. children \in [Roles -> {"running", "zero", "failed"}] /\ Tracked \subseteq Roles
          /\ "dolt" \in Roles /\ "dolt" \notin Tracked
      BY DEF SafeInv, TypeInv, TypeOK, Roles, Tracked
    <2>2. Ends(r)
      <3>1. CASE Disrupted \/ Release
        BY <2>1, <3>1
        DEF Disrupted, Release, AwaitCompiler, QuiesceSql, CensusSql, StopDolt, Runs
      <3>2. CASE \E x \in Tracked : Ends(x)
        BY <2>1, <3>2 DEF Ends
      <3>3. CASE TakeLate \/ GiveUp \/ HostDies \/ TakeSql \/ Census
                 \/ UNCHANGED vars \/ \E x \in Tracked : TakeTracked(x) \/ Close(x)
        BY <3>3
        DEF TakeLate, GiveUp, HostDies, TakeSql, Census, TakeTracked, Close, vars, container
      <3>4. CASE Arrive \/ Finish \/ Host
        BY <3>4, WorkFrame, HostFrame DEF container
      <3>5. QED
        BY <3>1, <3>2, <3>3, <3>4 DEF Next, Serve
    <2>3. QED
      BY <2>1, <2>2 DEF Ends, SafeInv, AuthorizedQuiet, Idle
  <1>2. SafeInv /\ [Next]_vars
           => [\A r \in Tracked : children[r] = "running" /\ children'[r] = "zero" => Idle(r)]_vars
    BY <1>1
  <1>3. QED
    BY DrainSafe, <1>2, PTL DEF Spec, TrackedNeverAbandons

-----------------------------------------------------------------------------
(* What holds as long as no command is executed late. *)

Quiet(r) == Shut(r) /\ Idle(r)
QuietStages == {"idle", "close", "releasing", "plan", "freed", "exit"}
PreStages == Stages \ (ReleaseStages \cup {"idle"})
CommandOf == [begin |-> "begin", poll |-> "status", confirm |-> "quiesce",
              undo |-> "abort", recheck |-> "quiesce", abort |-> "abort",
              compiler |-> "release", celler |-> "release"]
CommandAt(stage) == IF stage = "abort again" THEN "abort" ELSE CommandOf[stage]
Before == [dolt |-> {}, celler |-> {"dolt"}, compiler |-> {"dolt", "celler"}]

(* The command under way is the one of the host's stage, and its answer is  *)
(* still true.                                                             *)
CallInv ==
    /\ late = {}
    /\ host.stage \in QuietStages <=> call.state = "none"
    /\ call.state # "none" => call.role = host.role
                              /\ call.command = CommandAt(host.stage)
    /\ call.state = "taken" /\ call.role = "dolt"
          => sql.closed /\ (call.empty => sql.sessions = 0 /\ sql.broker = 0)
    /\ call.state = "answered" /\ call.reply = "drained" => Quiet(call.role)
    /\ call.state = "answered" /\ call.reply = "serving" => ~Shut(call.role)

(* The roles the host has found quiet stay quiet. *)
QuietInv ==
    /\ host.stage \in PreStages => intent = "draining"
    /\ host.stage = "recheck" => \A r \in Before[host.role] : Quiet(r)
    /\ host.stage = "releasing" => \A r \in Roles : Quiet(r)
    /\ intent \in {"releasing", "released"} => \A r \in Roles : Quiet(r)

(* The roles that confirmed an abort serve until the next drain. *)
RouteInv ==
    /\ host.stage = "abort again" /\ ~host.failed
          => \A r \in Before[host.role] : ~Shut(r)
    /\ route => /\ host.stage \in {"idle", "close"}
                /\ intent \in {"none", "draining"}
                /\ \A r \in Roles : ~Shut(r)

HandoverInv == SafeInv /\ CallInv /\ QuietInv /\ RouteInv

LEMMA SafeTypes ==
  ASSUME TypeInv
  PROVE  /\ \A r \in Tracked : tracker[r] \in TrackerState
         /\ tracker \in [Tracked -> TrackerState]
         /\ sql \in GateState
         /\ sql.sessions \in Nat /\ sql.pending \in Nat /\ sql.broker \in Nat
         /\ sql.native \in Nat /\ sql.pending <= sql.sessions
         /\ \A r \in Tracked : tracker[r].requests \in Nat /\ tracker[r].workflows \in Nat
                               /\ tracker[r].background \in Nat
         /\ call \in CallState /\ host \in HostState
  <1>1. \A n \in Work : n \in Nat
    BY BackendDrainAssumption DEF Work
  <1>2. QED
    BY <1>1 DEF TypeInv, TypeOK, Leased, TrackerState, GateState, CallState, HostState

LEMMA RoleKinds ==
  /\ Tracked = {"celler", "compiler"} /\ Roles = {"celler", "compiler", "dolt"}
  /\ "dolt" \notin Tracked /\ Tracked \subseteq Roles /\ "dolt" \in Roles
  /\ \A r \in Roles : r \in Tracked \/ r = "dolt"
  /\ \A r \in Tracked : r # "dolt"
  BY DEF Roles, Tracked

(* Work comes and goes behind the phase of a tracker ... *)
LEMMA TrackedWork ==
  ASSUME TypeInv, Arrive \/ Finish
  PROVE  \/ UNCHANGED tracker
         \/ \E r \in Tracked : \E t : /\ Track(r, t)
                                      /\ t.phase = tracker[r].phase
                                      /\ \/ t.phase = "Serving"
                                         \/ tracker[r].requests > 0
                                         \/ tracker[r].workflows > 0
                                         \/ tracker[r].background > 0
  <1>t. \A r \in Tracked : tracker[r] \in TrackerState
    BY SafeTypes
  <1>c. "celler" \in Tracked
    BY RoleKinds
  <1>1. ASSUME NEW r \in Tracked, Request(r) \/ Detach(r)
        PROVE  \E t : /\ Track(r, t) /\ t.phase = tracker[r].phase
                      /\ t.phase = "Serving" \/ tracker[r].requests > 0
    BY <1>1, <1>t DEF Request, Detach, TrackerState
  <1>2. CASE WorkflowRequest \/ OpenWorkflow \/ CloseWorkflow \/ Maintenance
    <2>1. \E t : /\ Track("celler", t) /\ t.phase = tracker["celler"].phase
                 /\ \/ t.phase = "Serving" \/ tracker["celler"].requests > 0
                    \/ tracker["celler"].workflows > 0
      BY <1>2, <1>t, <1>c
      DEF WorkflowRequest, OpenWorkflow, CloseWorkflow, Maintenance, TrackerState
    <2>2. QED
      BY <1>c, <2>1
  <1>3. ASSUME NEW r \in Tracked, EndRequest(r)
        PROVE  \E t : Track(r, t) /\ t.phase = tracker[r].phase /\ tracker[r].requests > 0
    <2>1. PICK uncertain \in BOOLEAN :
             Track(r, [tracker[r] EXCEPT !.requests = @ - 1, !.failed = @ \/ uncertain])
      BY <1>3 DEF EndRequest
    <2>2. [tracker[r] EXCEPT !.requests = @ - 1, !.failed = @ \/ uncertain].phase
             = tracker[r].phase
      BY <1>t DEF TrackerState
    <2>3. QED
      BY <1>3, <2>1, <2>2 DEF EndRequest
  <1>4. ASSUME NEW r \in Tracked, EndBackground(r)
        PROVE  \E t : Track(r, t) /\ t.phase = tracker[r].phase /\ tracker[r].background > 0
    <2>1. PICK uncertain \in BOOLEAN :
             Track(r, [tracker[r] EXCEPT !.background = @ - 1, !.failed = @ \/ uncertain])
      BY <1>4 DEF EndBackground
    <2>2. [tracker[r] EXCEPT !.background = @ - 1, !.failed = @ \/ uncertain].phase
             = tracker[r].phase
      BY <1>t DEF TrackerState
    <2>3. QED
      BY <1>4, <2>1, <2>2 DEF EndBackground
  <1>5. CASE Admit \/ Connect \/ AdmitBroker \/ ConnectFails \/ Disconnect
             \/ NativeEnds \/ EndBroker
    BY <1>5 DEF Admit, Connect, AdmitBroker, ConnectFails, Disconnect, NativeEnds, EndBroker,
                Gated
  <1>6. QED
    BY <1>1, <1>2, <1>3, <1>4, <1>5 DEF Arrive, Finish

(* ... and behind a closed gate only while there was some. *)
LEMMA GatedWork ==
  ASSUME TypeInv, Arrive \/ Finish
  PROVE  \/ UNCHANGED sql
         \/ /\ sql' \in GateState
            /\ sql'.closed = sql.closed
            /\ sql.closed => sql.sessions > 0 \/ sql.broker > 0 \/ sql.native > 0
            /\ sql.closed /\ sql.sessions = 0 /\ sql.broker = 0
                  => sql'.sessions = 0 /\ sql'.broker = 0
  <1>t. /\ sql \in GateState /\ sql.pending <= sql.sessions
        /\ sql.sessions \in Nat /\ sql.pending \in Nat
        /\ sql.broker \in Nat /\ sql.native \in Nat
        /\ sql' \in GateState
    BY SafeTypes, WorkTypes DEF TypeInv, TypeOK, GateState
  <1>1. CASE UNCHANGED sql
    BY <1>1
  <1>2. CASE Admit
    BY <1>2, <1>t DEF Admit, Gated, GateState
  <1>3. CASE Connect
    BY <1>3, <1>t DEF Connect, Gated, GateState
  <1>4. CASE AdmitBroker
    BY <1>4, <1>t DEF AdmitBroker, Gated, GateState
  <1>5. CASE ConnectFails
    BY <1>5, <1>t DEF ConnectFails, Gated, GateState
  <1>6. CASE Disconnect
    BY <1>6, <1>t DEF Disconnect, Gated, GateState
  <1>7. CASE NativeEnds
    BY <1>7, <1>t DEF NativeEnds, Gated, GateState
  <1>8. CASE EndBroker
    BY <1>8, <1>t DEF EndBroker, Gated, GateState
  <1>9. CASE \/ \E r \in Tracked : Request(r) \/ Detach(r) \/ EndRequest(r) \/ EndBackground(r)
             \/ WorkflowRequest \/ OpenWorkflow \/ CloseWorkflow \/ Maintenance
    BY <1>9 DEF Request, Detach, EndRequest, EndBackground, WorkflowRequest, OpenWorkflow,
                CloseWorkflow, Maintenance, Track
  <1>10. QED
    BY <1>2, <1>3, <1>4, <1>5, <1>6, <1>7, <1>8, <1>9 DEF Arrive, Finish

LEMMA WorkKeepsShut ==
  ASSUME TypeInv, Arrive \/ Finish, NEW r \in Roles
  PROVE  Shut(r)' <=> Shut(r)
  <1>t. tracker \in [Tracked -> TrackerState]
    BY SafeTypes
  <1>1. CASE r = "dolt"
    BY <1>1, GatedWork DEF Shut
  <1>2. CASE r \in Tracked
    <2>1. tracker'[r].phase = tracker[r].phase
      BY <1>2, <1>t, TrackedWork DEF Track
    <2>2. QED
      BY <1>2, <2>1, RoleKinds DEF Shut
  <1>3. QED
    BY <1>1, <1>2, RoleKinds

LEMMA WorkKeepsQuiet ==
  ASSUME TypeInv, Arrive \/ Finish, NEW r \in Roles, Quiet(r)
  PROVE  Quiet(r)'
  <1>t. tracker \in [Tracked -> TrackerState]
    BY SafeTypes
  <1>1. CASE r = "dolt"
    <2>1. UNCHANGED sql
      BY <1>1, GatedWork DEF Quiet, Shut, Idle
    <2>2. QED
      BY <1>1, <2>1 DEF Quiet, Shut, Idle
  <1>2. CASE r \in Tracked
    <2>1. tracker[r].phase # "Serving" /\ NoWork(tracker[r])
      BY <1>2, RoleKinds DEF Quiet, Shut, Idle
    <2>2. tracker'[r] = tracker[r]
      BY <1>2, <1>t, <2>1, TrackedWork DEF Track, NoWork
    <2>3. QED
      BY <1>2, <2>1, <2>2, RoleKinds DEF Quiet, Shut, Idle
  <1>3. QED
    BY <1>1, <1>2, RoleKinds

(* Nothing else changes the roles but a command that was sent, or a close. *)
LEMMA RoleSteps ==
  ASSUME [Next]_vars, late = {}
  PROVE  \/ Arrive \/ Finish \/ TakeSql
         \/ \E r \in Tracked : TakeTracked(r) \/ Close(r)
         \/ UNCHANGED native
  <1>1. ~TakeLate
    BY DEF TakeLate
  <1>2. Serve => \/ TakeSql \/ UNCHANGED native
                 \/ \E r \in Tracked : TakeTracked(r) \/ Close(r)
    BY DEF Serve, Census, Ends
  <1>3. Release \/ GiveUp \/ HostDies \/ Disrupted \/ UNCHANGED vars => UNCHANGED native
    BY DEF Release, AwaitCompiler, QuiesceSql, CensusSql, StopDolt, GiveUp, HostDies,
           Disrupted, vars, native
  <1>4. QED
    BY <1>1, <1>2, <1>3, HostFrame DEF Next

(* A quiet role stays quiet until an abort reaches it ... *)
LEMMA QuietStays ==
  ASSUME SafeInv, [Next]_vars, late = {}, NEW r \in Roles, Quiet(r),
         ~(call.state = "sent" /\ call.role = r /\ call.command = "abort")
  PROVE  Quiet(r)'
  <1>t. /\ TypeInv /\ tracker \in [Tracked -> TrackerState] /\ sql \in GateState
        /\ \A x \in Tracked : tracker[x] \in TrackerState
    BY SafeTypes DEF SafeInv
  <1>1. CASE Arrive \/ Finish
    BY <1>1, <1>t, WorkKeepsQuiet
  <1>2. CASE TakeSql
    <2>1. CASE r = "dolt"
      BY <1>2, <1>t, <2>1 DEF TakeSql, Asked, GateAfter, Quiet, Shut, Idle, GateState
    <2>2. CASE r # "dolt"
      BY <1>2, <2>2 DEF TakeSql, Quiet, Shut, Idle, NoWork
    <2>3. QED
      BY <2>1, <2>2
  <1>3. ASSUME NEW x \in Tracked, TakeTracked(x) PROVE Quiet(r)'
    <2>1. CASE r = x
      <3>1. call.command # "abort"
        BY <1>3, <2>1 DEF TakeTracked, Asked
      <3>2. tracker'[r] = Commanded(tracker[r], call.command) /\ r # "dolt"
        BY <1>3, <1>t, <2>1, RoleKinds DEF TakeTracked
      <3>3. tracker[r].phase # "Serving" /\ NoWork(tracker[r])
        BY <3>2 DEF Quiet, Shut, Idle
      <3>4. tracker'[r].phase # "Serving" /\ NoWork(tracker'[r])
        BY <1>t, <2>1, <3>1, <3>2, <3>3 DEF Commanded, NoWork, TrackerState
      <3>5. QED
        BY <3>2, <3>4 DEF Quiet, Shut, Idle
    <2>2. CASE r # x /\ r # "dolt"
      <3>1. tracker'[r] = tracker[r]
        BY <1>3, <1>t, <2>2, RoleKinds DEF TakeTracked
      <3>2. QED
        BY <2>2, <3>1 DEF Quiet, Shut, Idle, NoWork
    <2>3. CASE r = "dolt"
      BY <1>3, <2>3 DEF TakeTracked, Quiet, Shut, Idle
    <2>4. QED
      BY <2>1, <2>2, <2>3
  <1>4. ASSUME NEW x \in Tracked, Close(x) PROVE Quiet(r)'
    <2>1. CASE r = x
      <3>1. r # "dolt"
        BY <2>1, RoleKinds
      <3>2. tracker'[r].phase # "Serving" /\ NoWork(tracker'[r])
        BY <1>4, <1>t, <2>1, <3>1 DEF Close, Quiet, Shut, Idle, NoWork, TrackerState
      <3>3. QED
        BY <3>1, <3>2 DEF Quiet, Shut, Idle
    <2>2. CASE r # x /\ r # "dolt"
      <3>1. tracker'[r] = tracker[r]
        BY <1>4, <1>t, <2>2, RoleKinds DEF Close
      <3>2. QED
        BY <2>2, <3>1 DEF Quiet, Shut, Idle, NoWork
    <2>3. CASE r = "dolt"
      BY <1>4, <2>3 DEF Close, Quiet, Shut, Idle
    <2>4. QED
      BY <2>1, <2>2, <2>3
  <1>5. CASE UNCHANGED native
    BY <1>5 DEF native, Quiet, Shut, Idle, NoWork
  <1>6. QED
    BY <1>1, <1>2, <1>3, <1>4, <1>5, RoleSteps

(* ... and a serving role serves until a begin does. *)
LEMMA ServingStays ==
  ASSUME SafeInv, [Next]_vars, late = {}, NEW r \in Roles, ~Shut(r),
         ~(call.state = "sent" /\ call.role = r /\ call.command = "begin")
  PROVE  ~Shut(r)'
  <1>t. /\ TypeInv /\ tracker \in [Tracked -> TrackerState] /\ sql \in GateState
        /\ \A x \in Tracked : tracker[x] \in TrackerState
    BY SafeTypes DEF SafeInv
  <1>1. CASE Arrive \/ Finish
    BY <1>1, <1>t, WorkKeepsShut
  <1>2. CASE TakeSql
    <2>1. CASE r = "dolt"
      BY <1>2, <1>t, <2>1 DEF TakeSql, Asked, GateAfter, Shut, GateState
    <2>2. CASE r # "dolt"
      BY <1>2, <2>2 DEF TakeSql, Shut
    <2>3. QED
      BY <2>1, <2>2
  <1>3. ASSUME NEW x \in Tracked, TakeTracked(x) PROVE ~Shut(r)'
    <2>1. CASE r = x
      <3>1. call.command # "begin"
        BY <1>3, <2>1 DEF TakeTracked, Asked
      <3>2. tracker'[r] = Commanded(tracker[r], call.command) /\ r # "dolt"
        BY <1>3, <1>t, <2>1, RoleKinds DEF TakeTracked
      <3>3. tracker[r].phase = "Serving"
        BY <3>2 DEF Shut
      <3>4. tracker'[r].phase = "Serving"
        BY <1>t, <2>1, <3>1, <3>2, <3>3 DEF Commanded, Drained, TrackerState
      <3>5. QED
        BY <3>2, <3>4 DEF Shut
    <2>2. CASE r # x /\ r # "dolt"
      <3>1. tracker'[r] = tracker[r]
        BY <1>3, <1>t, <2>2, RoleKinds DEF TakeTracked
      <3>2. QED
        BY <2>2, <3>1 DEF Shut
    <2>3. CASE r = "dolt"
      BY <1>3, <2>3 DEF TakeTracked, Shut
    <2>4. QED
      BY <2>1, <2>2, <2>3
  <1>4. ASSUME NEW x \in Tracked, Close(x) PROVE ~Shut(r)'
    <2>1. CASE r # "dolt"
      <3>1. tracker[r].phase = "Serving" /\ r \in Tracked /\ r # x
        BY <1>4, <2>1, RoleKinds DEF Close, Shut
      <3>2. tracker'[r] = tracker[r]
        BY <1>4, <1>t, <3>1 DEF Close
      <3>3. QED
        BY <2>1, <3>1, <3>2 DEF Shut
    <2>2. CASE r = "dolt"
      BY <1>4, <2>2 DEF Close, Shut
    <2>3. QED
      BY <2>1, <2>2
  <1>5. CASE UNCHANGED native
    BY <1>5 DEF native, Shut
  <1>6. QED
    BY <1>1, <1>2, <1>3, <1>4, <1>5, RoleSteps

LEMMA HandoverInit == Init => HandoverInv
  <1> SUFFICES ASSUME Init PROVE HandoverInv
    OBVIOUS
  <1>1. call = NoCall /\ call.state = "none" /\ late = {} /\ host.stage = "idle"
        /\ intent = "none"
    BY DEF Init, NoCall
  <1>2. CallInv
    BY <1>1 DEF CallInv, QuietStages
  <1>3. QuietInv
    BY <1>1 DEF QuietInv, PreStages, ReleaseStages
  <1>4. RouteInv
    BY <1>1, RoleKinds DEF RouteInv, Shut, Init
  <1>5. QED
    BY <1>2, <1>3, <1>4, SafeInit DEF HandoverInv

LEMMA NotLate ==
  ASSUME MaxLate = 0, late = {}
  PROVE  Overtaken = {{}}
  <1>1. Cardinality(late) = 0
    BY FS_EmptySet
  <1>2. QED
    BY <1>1 DEF Overtaken

(* Asking for what the stage asks for, and not asking, keep the call in step. *)
LEMMA AskKeepsCall ==
  ASSUME TypeInv, late' = {}, NEW stage \in Stages \ QuietStages, NEW r \in Roles,
         Ask(stage, r, CommandAt(stage))
  PROVE  CallInv'
  <1>1. /\ host' = [host EXCEPT !.stage = stage, !.role = r]
        /\ call' = [NoCall EXCEPT !.role = r, !.command = CommandAt(stage), !.state = "sent"]
    BY DEF Ask
  <1>2. host'.stage = stage /\ host'.role = r
    BY <1>1, SafeTypes DEF HostState
  <1>3. call'.role = r /\ call'.command = CommandAt(stage) /\ call'.state = "sent"
    BY <1>1 DEF NoCall
  <1>4. QED
    BY <1>2, <1>3 DEF CallInv

LEMMA StageKeepsCall ==
  ASSUME TypeInv, late' = {}, host'.stage \in QuietStages, call'.state = "none"
  PROVE  CallInv'
  BY DEF CallInv

LEMMA CallHost ==
  ASSUME MaxLate = 0, HandoverInv, Host \/ HostDies
  PROVE  CallInv'
  <1>t. TypeInv /\ CallInv /\ late = {} /\ host.role \in Roles /\ Next1[host.role] \in Roles
    <2>1. host.role \in Roles
      BY SafeTypes DEF HandoverInv, SafeInv, HostState
    <2>2. QED
      BY <2>1 DEF HandoverInv, SafeInv, CallInv, Next1, Roles, Tracked
  <1>l. late' = {}
    <2>1. CASE Host
      BY <1>t, <2>1, HostFrame
    <2>2. CASE HostDies
      BY <1>t, <2>2, NotLate DEF HostDies
    <2>3. QED
      BY <2>1, <2>2
  <1>r. "dolt" \in Roles /\ "celler" \in Roles /\ "compiler" \in Roles
    BY RoleKinds
  <1>a. \A stage \in Stages \ QuietStages, r \in Roles :
           Ask(stage, r, CommandAt(stage)) => CallInv'
    BY <1>t, <1>l, AskKeepsCall
  <1>c. /\ CommandAt("begin") = "begin" /\ CommandAt("poll") = "status"
        /\ CommandAt("confirm") = "quiesce" /\ CommandAt("recheck") = "quiesce"
        /\ CommandAt("undo") = "abort" /\ CommandAt("abort") = "abort"
        /\ CommandAt("abort again") = "abort" /\ CommandAt("compiler") = "release"
        /\ CommandAt("celler") = "release"
    BY DEF CommandAt, CommandOf
  <1>d. \A stage \in {"begin", "poll", "confirm", "recheck", "undo", "abort", "abort again",
                      "compiler", "celler"} : stage \in Stages \ QuietStages
    BY DEF Stages, QuietStages
  <1>s. \A stage \in QuietStages : Stage(stage) => host'.stage \in QuietStages
    BY SafeTypes, <1>t DEF Stage, HostState
  <1>q. \A stage \in {"idle", "close", "releasing", "plan", "freed", "exit"} :
           stage \in QuietStages
    BY DEF QuietStages
  <1>n. NoCall.state = "none"
    BY DEF NoCall
  <1>x. host.stage \in QuietStages => call.state = "none"
    BY <1>t DEF CallInv
  <1>z. host'.stage \in QuietStages /\ call'.state = "none" => CallInv'
    BY <1>t, <1>l, StageKeepsCall
  <1>1. CASE HostDrain
    BY <1>1, <1>s, <1>q, <1>x, <1>z DEF HostDrain, At, commands
  <1>2. CASE HostClose
    BY <1>2, <1>a, <1>c, <1>d, <1>r DEF HostClose
  <1>3. CASE HostPolled
    BY <1>3, <1>a, <1>c, <1>d, <1>t DEF HostPolled
  <1>4. CASE HostConfirmed
    BY <1>4, <1>a, <1>c, <1>d, <1>r, <1>t DEF HostConfirmed
  <1>5. CASE HostUndone
    BY <1>5, <1>a, <1>c, <1>d, <1>r DEF HostUndone
  <1>6. CASE HostRechecked
    BY <1>6, <1>a, <1>c, <1>d, <1>r, <1>t, <1>s, <1>q, <1>n, <1>z DEF HostRechecked
  <1>7. CASE HostAborted
    BY <1>7, <1>a, <1>c, <1>d, <1>r, <1>t DEF HostAborted
  <1>8. CASE HostReopened
    <2>1. CASE LastRole
      <3>1. host' = [stage |-> "idle", role |-> "dolt", failed |-> FALSE] /\ call' = NoCall
        BY <1>8, <2>1, Zenon DEF HostReopened
      <3>2. QED
        BY <3>1, <1>q, <1>n, <1>z
    <2>2. CASE ~LastRole
      <3> DEFINE failed == host.failed \/ call.reply # "serving"
      <3>1. /\ host.stage = "abort again"
            /\ host' = [host EXCEPT !.role = Next1[host.role], !.failed = failed]
            /\ call' = [NoCall EXCEPT !.role = Next1[host.role], !.command = "abort",
                                      !.state = "sent"]
        BY <1>8, <2>2, Zenon DEF HostReopened, Told, At
      <3> HIDE DEF failed
      <3>2. host'.stage = "abort again" /\ host'.role = Next1[host.role]
        BY <3>1, <1>t, SafeTypes DEF HostState
      <3>3. /\ call'.role = Next1[host.role] /\ call'.command = "abort"
            /\ call'.state = "sent"
        BY <3>1 DEF NoCall
      <3>4. QED
        BY <1>c, <1>d, <1>l, <3>2, <3>3 DEF CallInv
    <2>3. QED
      BY <2>1, <2>2
  <1>9. CASE HostReleasing
    BY <1>9, <1>s, <1>q, <1>x, <1>z DEF HostReleasing, At, commands
  <1>10. CASE HostResume
    BY <1>10, <1>s, <1>q, <1>x, <1>z DEF HostResume, At, commands
  <1>11. CASE HostPlan
    BY <1>11, <1>s, <1>q, <1>x, <1>z DEF HostPlan, At, commands
  <1>12. CASE HostFreed
    BY <1>12, <1>a, <1>c, <1>d, <1>r DEF HostFreed
  <1>13. CASE HostFreedCompiler
    BY <1>13, <1>a, <1>c, <1>d, <1>r, <1>s, <1>q, <1>n, <1>z DEF HostFreedCompiler, Fail
  <1>14. CASE HostFreedCeller
    BY <1>14, <1>s, <1>q, <1>n, <1>z DEF HostFreedCeller
  <1>15. CASE HostExited
    BY <1>15, <1>s, <1>q, <1>x, <1>z DEF HostExited, At, commands
  <1>16. CASE HostDies
    BY <1>16, <1>q, <1>n, <1>z DEF HostDies
  <1>17. QED
    BY <1>1, <1>2, <1>3, <1>4, <1>5, <1>6, <1>7, <1>8, <1>9, <1>10, <1>11, <1>12, <1>13,
       <1>14, <1>15, <1>16 DEF Host

LEMMA CallOther ==
  ASSUME MaxLate = 0, HandoverInv, [Next]_vars, ~Host, ~HostDies
  PROVE  CallInv'
  <1> USE DEF native, commands, records, container
  <1>t. /\ TypeInv /\ SafeInv /\ CallInv /\ late = {}
        /\ tracker \in [Tracked -> TrackerState] /\ sql \in GateState /\ call \in CallState
        /\ \A r \in Tracked : tracker[r] \in TrackerState
        /\ call.role \in Roles
    BY SafeTypes DEF HandoverInv, SafeInv, CallInv, CallState
  <1>q. \A r \in Roles : Quiet(r) /\ call.state # "sent" => Quiet(r)'
    BY <1>t, QuietStays
  <1>s. \A r \in Roles : ~Shut(r) /\ call.state # "sent" => ~Shut(r)'
    BY <1>t, ServingStays
  <1>1. CASE Arrive \/ Finish
    <2>1. UNCHANGED <<call, late, host>>
      BY <1>1, WorkFrame
    <2>2. sql.closed /\ (call.empty => sql.sessions = 0 /\ sql.broker = 0)
             => sql'.closed /\ (call.empty => sql'.sessions = 0 /\ sql'.broker = 0)
      BY <1>1, <1>t, GatedWork
    <2>3. QED
      BY <1>t, <1>q, <1>s, <2>1, <2>2 DEF CallInv
  <1>2. ASSUME NEW r \in Tracked, TakeTracked(r) PROVE CallInv'
    <2> DEFINE t == Commanded(tracker[r], call.command)
    <2>1. /\ call.state = "sent" /\ call.role = r /\ r # "dolt"
          /\ UNCHANGED <<late, host>> /\ tracker' = [tracker EXCEPT ![r] = t]
          /\ \/ call' = [call EXCEPT !.state = "taken"]
             \/ call' = [call EXCEPT !.state = "answered",
                                     !.reply = TrackerReply(t, call.command)]
      BY <1>2, RoleKinds DEF TakeTracked, Asked, Answer
    <2>2. tracker'[r] = t
      BY <1>t, <2>1
    <2>3. TrackerReply(t, call.command) = "drained" => Quiet(r)'
      BY <2>1, <2>2 DEF TrackerReply, Drained, Quiet, Shut, Idle, NoWork
    <2>4. TrackerReply(t, call.command) = "serving" => ~Shut(r)'
      BY <2>1, <2>2 DEF TrackerReply, Shut
    <2> HIDE DEF t
    <2>5. CASE call' = [call EXCEPT !.state = "taken"]
      <3>1. call'.state = "taken" /\ call'.role = call.role /\ call'.command = call.command
        BY <1>t, <2>5 DEF CallState
      <3>2. QED
        BY <1>t, <2>1, <3>1 DEF CallInv
    <2>6. CASE call' = [call EXCEPT !.state = "answered",
                                    !.reply = TrackerReply(t, call.command)]
      <3>1. /\ call'.state = "answered" /\ call'.role = call.role
            /\ call'.command = call.command
            /\ call'.reply = TrackerReply(t, call.command)
        BY <1>t, <2>6 DEF CallState
      <3>2. call'.role = r /\ r # "dolt" /\ late' = {}
        BY <1>t, <2>1, <3>1
      <3>3. call'.reply = "drained" => Quiet(r)'
        BY <2>3, <3>1
      <3>4. call'.reply = "serving" => ~Shut(r)'
        BY <2>4, <3>1
      <3>5. QED
        BY <3>1, <3>2, <3>3, <3>4, <1>t, <2>1 DEF CallInv, Quiet, Shut, Idle, NoWork
    <2>7. QED
      BY <2>1, <2>5, <2>6
  <1>3. ASSUME NEW r \in Tracked, Close(r) PROVE CallInv'
    <2>1. UNCHANGED <<sql, late, host>>
      BY <1>3 DEF Close
    <2>2. CASE UNCHANGED call
      BY <1>t, <1>q, <1>s, <2>1, <2>2 DEF CallInv
    <2>3. CASE call.state = "taken" /\ Answer("released")
      <3>1. /\ call'.state = "answered" /\ call'.role = call.role
            /\ call'.command = call.command /\ call'.reply = "released"
        BY <1>t, <2>3 DEF Answer, CallState
      <3>2. QED
        BY <1>t, <2>1, <2>3, <3>1 DEF CallInv
    <2>4. QED
      BY <1>3, <2>2, <2>3 DEF Close
  <1>4. CASE TakeSql
    <2> DEFINE closed == GateAfter(call.command)
    <2>1. /\ call.state = "sent" /\ call.role = "dolt" /\ UNCHANGED <<late, host>>
          /\ sql' = [sql EXCEPT !.closed = closed]
      BY <1>4 DEF TakeSql, Asked
    <2>2. sql'.closed = closed /\ sql'.sessions = sql.sessions /\ sql'.broker = sql.broker
      BY <1>t, <2>1 DEF GateState
    <2>3. CASE closed
      <3>1. call' = [call EXCEPT !.state = "taken",
                                 !.empty = (sql.sessions = 0 /\ sql.broker = 0)]
        BY <1>4, <2>3 DEF TakeSql
      <3>2. /\ call'.state = "taken" /\ call'.role = call.role
            /\ call'.command = call.command
            /\ call'.empty => sql.sessions = 0 /\ sql.broker = 0
        BY <1>t, <3>1 DEF CallState
      <3>3. QED
        BY <1>t, <2>1, <2>2, <2>3, <3>2 DEF CallInv
    <2>4. CASE ~closed
      <3>1. call' = [call EXCEPT !.state = "answered", !.reply = "serving"]
        BY <1>4, <2>4 DEF TakeSql, Answer
      <3>2. /\ call'.state = "answered" /\ call'.role = call.role
            /\ call'.command = call.command /\ call'.reply = "serving"
        BY <1>t, <3>1 DEF CallState
      <3>3. ~Shut("dolt")'
        BY <2>2, <2>4 DEF Shut
      <3>4. QED
        BY <1>t, <2>1, <3>2, <3>3 DEF CallInv
    <2>5. QED
      BY <2>3, <2>4
  <1>5. CASE Census
    <2>1. call.state = "taken" /\ call.role = "dolt" /\ UNCHANGED <<sql, late, host>>
      BY <1>5 DEF Census
    <2>2. \/ Answer("busy")
          \/ Answer("drained") /\ call.empty /\ sql.native = 0
      BY <1>5 DEF Census, NoneNative
    <2>3. CASE Answer("busy")
      <3>1. /\ call'.state = "answered" /\ call'.role = call.role
            /\ call'.command = call.command /\ call'.reply = "busy"
        BY <1>t, <2>3 DEF Answer, CallState
      <3>2. QED
        BY <1>t, <2>1, <3>1 DEF CallInv
    <2>4. CASE Answer("drained") /\ call.empty /\ sql.native = 0
      <3>1. /\ call'.state = "answered" /\ call'.role = call.role
            /\ call'.command = call.command /\ call'.reply = "drained"
        BY <1>t, <2>4 DEF Answer, CallState
      <3>2. Quiet("dolt")'
        BY <1>t, <2>1, <2>4 DEF CallInv, Quiet, Shut, Idle
      <3>3. QED
        BY <1>t, <2>1, <3>1, <3>2 DEF CallInv
    <2>5. QED
      BY <2>2, <2>3, <2>4
  <1>6. CASE GiveUp
    <2>1. late' = {} /\ UNCHANGED <<sql, host>> /\ call.state # "none" /\ Answer("error")
      BY <1>6, <1>t, NotLate DEF GiveUp
    <2>2. /\ call'.state = "answered" /\ call'.role = call.role
          /\ call'.command = call.command /\ call'.reply = "error"
      BY <1>t, <2>1 DEF Answer, CallState
    <2>3. QED
      BY <1>t, <2>1, <2>2 DEF CallInv
  <1>7. CASE Release \/ Disrupted \/ UNCHANGED vars \/ \E r \in Tracked : Ends(r)
    <2>1. UNCHANGED <<native, call, late, host>>
      BY <1>7 DEF Release, AwaitCompiler, QuiesceSql, CensusSql, StopDolt, Disrupted, vars, Ends
    <2>2. QED
      BY <1>t, <1>q, <1>s, <2>1 DEF CallInv
  <1>8. ~TakeLate
    BY <1>t DEF TakeLate
  <1>9. QED
    BY <1>1, <1>2, <1>3, <1>4, <1>5, <1>6, <1>7, <1>8 DEF Next, Serve

(* Outside the host the intent, the route and its stage do not change. *)
LEMMA HostAlone ==
  ASSUME [Next]_vars, ~Host, ~HostDies
  PROVE  UNCHANGED <<host, intent, route>>
  BY WorkFrame
  DEF Next, Serve, TakeTracked, Close, Ends, TakeSql, Census, TakeLate, GiveUp, Disrupted, vars,
      Release, AwaitCompiler, QuiesceSql, CensusSql, StopDolt, records, commands, container

LEMMA QuietStep ==
  ASSUME MaxLate = 0, HandoverInv, [Next]_vars
  PROVE  QuietInv'
  <1>t. /\ TypeInv /\ SafeInv /\ CallInv /\ QuietInv /\ late = {} /\ Authorized
        /\ host \in HostState /\ host.role \in Roles /\ host.stage \in Stages
    BY SafeTypes DEF HandoverInv, SafeInv, CallInv, HostState
  <1>b. \A r \in Roles : Before[r] \subseteq Roles
    BY RoleKinds DEF Before
  <1>r. Roles = {"celler", "compiler", "dolt"}
    BY RoleKinds
  <1>1. CASE ~Host /\ ~HostDies
    <2>1. UNCHANGED <<host, intent, route>>
      BY <1>1, HostAlone
    <2>2. ASSUME NEW r \in Roles, Quiet(r),
                 \/ host.stage = "recheck" \/ host.stage = "releasing"
                 \/ intent \in {"releasing", "released"}
          PROVE  Quiet(r)'
      <3>1. call.state = "sent" => call.command = CommandAt(host.stage)
                                   /\ host.stage \notin QuietStages
        BY <1>t DEF CallInv
      <3>2. host.stage \in PreStages => intent = "draining"
        BY <1>t DEF QuietInv
      <3>3. host.stage \in {"recheck", "compiler", "celler"} \cup QuietStages
        BY <1>t, <2>2, <3>2 DEF QuietStages, PreStages, ReleaseStages, Stages
      <3>r. /\ CommandAt("recheck") = "quiesce" /\ CommandAt("compiler") = "release"
            /\ CommandAt("celler") = "release"
        BY DEF CommandAt, CommandOf
      <3>4. call.state = "sent" => call.command # "abort"
        BY <3>1, <3>3, <3>r
      <3>5. QED
        BY <1>t, <2>2, <3>4, QuietStays
    <2>3. QED
      BY <1>t, <1>b, <2>1, <2>2 DEF QuietInv
  <1>2. CASE HostDies
    <2>1. UNCHANGED <<tracker, sql, intent>> /\ host'.stage = "idle"
      BY <1>2 DEF HostDies, native, records
    <2>2. \A r \in Roles : Quiet(r) => Quiet(r)'
      BY <2>1 DEF Quiet, Shut, Idle, NoWork
    <2>3. QED
      BY <1>t, <2>1, <2>2 DEF QuietInv, PreStages, ReleaseStages
  <1>3. CASE Host
    <2>n. UNCHANGED <<tracker, sql>>
      BY <1>3, HostFrame DEF native
    <2>q. \A r \in Roles : Quiet(r) => Quiet(r)'
      BY <2>n DEF Quiet, Shut, Idle, NoWork
    <2>a. \A stage, r, c : Ask(stage, r, c) => host'.stage = stage /\ host'.role = r
      BY <1>t DEF Ask, HostState
    <2>s. \A stage : Stage(stage) => host'.stage = stage /\ host'.role = "dolt"
      BY <1>t DEF Stage, HostState
    <2>d. Answered => call.state = "answered" /\ call.role = host.role
      BY <1>t DEF CallInv, Answered
    <2>p. \A stage \in {"close", "begin", "poll", "confirm", "undo", "recheck", "abort",
                        "abort again", "releasing"} : stage \in PreStages
      BY DEF PreStages, Stages, ReleaseStages
    <2>o. \A stage \in ReleaseStages \cup {"idle"} : stage \notin PreStages
      BY DEF PreStages
    <2>k. ASSUME host'.stage \in ReleaseStages \cup {"idle"}, intent' = intent
          PROVE  QuietInv'
      BY <1>t, <2>q, <2>k, <2>o DEF QuietInv, ReleaseStages
    <2>m. ASSUME host'.stage \in PreStages, intent' = intent, intent = "draining",
                 host'.stage # "recheck", host'.stage # "releasing"
          PROVE  QuietInv'
      BY <2>m DEF QuietInv
    <2> USE DEF Told, At
    <2>1. CASE HostDrain
      <3>1. host'.stage = "close" /\ intent' = "draining"
        BY <2>1, <2>s DEF HostDrain
      <3>2. QED
        BY <3>1 DEF QuietInv
    <2>2. CASE HostClose \/ HostPolled \/ HostUndone \/ HostAborted
      <3>1. intent' = intent /\ host.stage \in {"close", "begin", "poll", "undo", "abort"}
        BY <2>2 DEF HostClose, HostPolled, HostUndone, HostAborted, records
      <3>2. \E stage \in {"begin", "confirm", "poll", "undo", "abort", "abort again"} :
              \E r, c : Ask(stage, r, c)
        BY <2>2 DEF HostClose, HostPolled, HostUndone, HostAborted
      <3>3. QED
        BY <1>t, <2>a, <2>m, <2>p, <3>1, <3>2 DEF QuietInv
    <2>3. CASE HostConfirmed
      <3>1. intent' = intent /\ intent = "draining"
        BY <1>t, <2>3, <2>p DEF HostConfirmed, QuietInv, records
      <3>2. \/ Ask("recheck", "dolt", "quiesce")
            \/ \E stage \in {"undo", "begin"} : \E r, c : Ask(stage, r, c)
        BY <2>3 DEF HostConfirmed
      <3>3. CASE Ask("recheck", "dolt", "quiesce")
        BY <2>a, <3>1, <3>3 DEF QuietInv, Before
      <3>4. CASE \E stage \in {"undo", "begin"} : \E r, c : Ask(stage, r, c)
        BY <2>a, <2>m, <2>p, <3>1, <3>4
      <3>5. QED
        BY <3>2, <3>3, <3>4
    <2>4. CASE HostRechecked
      <3>1. intent' = intent /\ intent = "draining" /\ host.stage = "recheck" /\ Answered
        BY <1>t, <2>4, <2>p DEF HostRechecked, QuietInv, records
      <3>2. /\ \A r \in Before[host.role] : Quiet(r)
            /\ call.reply = "drained" => Quiet(host.role)
        BY <1>t, <2>d, <3>1 DEF QuietInv, CallInv
      <3>3. CASE call.reply # "drained"
        <4>1. Ask("abort", "dolt", "abort")
          BY <2>4, <3>3 DEF HostRechecked
        <4>2. QED
          BY <2>a, <2>m, <2>p, <3>1, <4>1
      <3>4. CASE call.reply = "drained" /\ LastRole
        <4>1. Stage("releasing")
          BY <2>4, <3>4 DEF HostRechecked
        <4>2. \A r \in Roles : Quiet(r)'
          BY <1>r, <2>q, <3>2, <3>4 DEF LastRole, Before
        <4>3. QED
          BY <2>s, <3>1, <4>1, <4>2 DEF QuietInv
      <3>5. CASE call.reply = "drained" /\ ~LastRole
        <4>1. Ask("recheck", Next1[host.role], "quiesce")
          BY <2>4, <3>5 DEF HostRechecked
        <4>2. Before[Next1[host.role]] \subseteq Before[host.role] \cup {host.role}
          BY <1>r, <1>t, <3>5 DEF Before, Next1, LastRole
        <4>3. \A r \in Before[Next1[host.role]] : Quiet(r)'
          BY <1>b, <1>t, <2>q, <3>2, <3>5, <4>2
        <4>4. QED
          BY <2>a, <3>1, <4>1, <4>3 DEF QuietInv
      <3>6. QED
        BY <3>3, <3>4, <3>5
    <2>5. CASE HostReopened
      <3>1. intent' = intent /\ host.stage = "abort again" /\ intent = "draining"
        BY <1>t, <2>5, <2>p DEF HostReopened, QuietInv
      <3>2. CASE LastRole
        <4>1. host' = [stage |-> "idle", role |-> "dolt", failed |-> FALSE]
          BY <2>5, <3>2, Zenon DEF HostReopened
        <4>2. QED
          BY <2>k, <3>1, <4>1
      <3>3. CASE ~LastRole
        <4> DEFINE failed == host.failed \/ call.reply # "serving"
        <4>1. host' = [host EXCEPT !.role = Next1[host.role], !.failed = failed]
          BY <2>5, <3>3, Zenon DEF HostReopened
        <4> HIDE DEF failed
        <4>2. host'.stage = "abort again"
          BY <1>t, <3>1, <4>1 DEF HostState
        <4>3. QED
          BY <2>m, <2>p, <3>1, <4>2
      <3>4. QED
        BY <3>2, <3>3
    <2>6. CASE HostReleasing
      <3>1. host.stage = "releasing" /\ intent' = "releasing" /\ host'.stage = "plan"
        BY <2>6, <2>s DEF HostReleasing
      <3>2. QED
        BY <1>t, <2>o, <2>q, <3>1 DEF QuietInv, ReleaseStages
    <2>7. CASE HostResume \/ HostPlan
      BY <2>7, <2>k, <2>s DEF HostResume, HostPlan, records, ReleaseStages
    <2>8. CASE HostFreed
      BY <2>8, <2>a, <2>k DEF HostFreed, records, ReleaseStages
    <2>9. CASE HostFreedCompiler
      BY <2>9, <2>a, <2>s, <2>k DEF HostFreedCompiler, Fail, records, ReleaseStages
    <2>10. CASE HostFreedCeller
      BY <2>10, <2>s, <2>k DEF HostFreedCeller, records, ReleaseStages
    <2>11. CASE HostExited
      <3>1. host.stage = "exit" /\ intent' = "released" /\ host'.stage = "idle"
        BY <2>11, <2>s DEF HostExited
      <3>2. intent = "releasing"
        BY <1>t, <3>1 DEF Authorized, ReleaseStages
      <3>3. QED
        BY <1>t, <2>o, <2>q, <3>1, <3>2 DEF QuietInv
    <2>12. QED
      BY <1>3, <2>1, <2>2, <2>3, <2>4, <2>5, <2>6, <2>7, <2>8, <2>9, <2>10, <2>11 DEF Host
  <1>4. QED
    BY <1>1, <1>2, <1>3

LEMMA RouteStep ==
  ASSUME MaxLate = 0, HandoverInv, [Next]_vars
  PROVE  RouteInv'
  <1>t. /\ TypeInv /\ SafeInv /\ CallInv /\ QuietInv /\ RouteInv /\ late = {}
        /\ host \in HostState /\ host.role \in Roles /\ host.stage \in Stages
    BY SafeTypes DEF HandoverInv, SafeInv, CallInv, HostState
  <1>b. \A r \in Roles : Before[r] \subseteq Roles
    BY RoleKinds DEF Before
  <1>r. Roles = {"celler", "compiler", "dolt"}
    BY RoleKinds
  <1>1. CASE ~Host /\ ~HostDies
    <2>1. UNCHANGED <<host, intent, route>>
      BY <1>1, HostAlone
    <2>2. ASSUME NEW r \in Roles, ~Shut(r), host.stage = "abort again" \/ route
          PROVE  ~Shut(r)'
      <3>1. /\ host.stage \in QuietStages => call.state = "none"
            /\ call.state # "none" => call.command = CommandAt(host.stage)
        BY <1>t DEF CallInv
      <3>2. CommandAt("abort again") = "abort"
        BY DEF CommandAt
      <3>3. route => host.stage \in QuietStages
        BY <1>t DEF RouteInv, QuietStages
      <3>4. call.state = "sent" => call.command # "begin"
        BY <2>2, <3>1, <3>2, <3>3
      <3>5. QED
        BY <1>t, <2>2, <3>4, ServingStays
    <2>3. QED
      BY <1>t, <1>b, <2>1, <2>2 DEF RouteInv
  <1>2. CASE HostDies
    <2>1. UNCHANGED <<tracker, sql, intent, route>> /\ host'.stage = "idle"
      BY <1>2 DEF HostDies, native, records
    <2>2. \A r \in Roles : ~Shut(r) => ~Shut(r)'
      BY <2>1 DEF Shut
    <2>3. QED
      BY <1>t, <2>1, <2>2 DEF RouteInv
  <1>3. CASE Host
    <2>n. UNCHANGED <<tracker, sql>>
      BY <1>3, HostFrame DEF native
    <2>q. \A r \in Roles : ~Shut(r) => ~Shut(r)'
      BY <2>n DEF Shut
    <2>a. \A stage, r, c : Ask(stage, r, c) => host'.stage = stage /\ host'.role = r
      BY <1>t DEF Ask, HostState
    <2>s. \A stage : Stage(stage) => host'.stage = stage /\ host'.role = "dolt"
      BY <1>t DEF Stage, HostState
    <2>o. host.stage \notin {"idle", "close"} => ~route
      BY <1>t DEF RouteInv
    <2>k. ASSUME ~route', host'.stage # "abort again"
          PROVE  RouteInv'
      BY <2>k DEF RouteInv
    <2> USE DEF Told, At, records
    <2>1. CASE HostDrain
      <3>1. host'.stage = "close" /\ intent' = "draining" /\ route' = route
        BY <2>1, <2>s DEF HostDrain
      <3>2. QED
        BY <1>t, <2>q, <3>1 DEF RouteInv
    <2>2. CASE HostClose
      BY <2>2, <2>a, <2>k DEF HostClose
    <2>3. CASE HostResume
      <3>1. /\ route' = route /\ intent = "releasing"
            /\ host'.stage = "plan" \/ host'.stage = "exit"
        BY <2>3, <2>s DEF HostResume
      <3>2. ~route
        BY <1>t, <3>1 DEF RouteInv
      <3>3. QED
        BY <2>k, <3>1, <3>2
    <2>4. CASE HostPolled \/ HostConfirmed \/ HostUndone \/ HostFreed
      <3>1. /\ route' = route
            /\ host.stage \in {"begin", "poll", "confirm", "undo", "freed"}
        BY <2>4 DEF HostPolled, HostConfirmed, HostUndone, HostFreed
      <3>2. \E stage \in {"confirm", "poll", "undo", "recheck", "begin", "abort", "celler",
                          "compiler"} : \E r, c : Ask(stage, r, c)
        BY <2>4 DEF HostPolled, HostConfirmed, HostUndone, HostFreed
      <3>3. QED
        BY <2>a, <2>k, <2>o, <3>1, <3>2
    <2>5. CASE HostRechecked
      <3>1. route' = route /\ host.stage = "recheck"
        BY <2>5 DEF HostRechecked
      <3>2. \/ Stage("releasing")
            \/ \E stage \in {"abort", "recheck"} : \E r, c : Ask(stage, r, c)
        BY <2>5 DEF HostRechecked
      <3>3. host'.stage \in {"releasing", "abort", "recheck"}
        BY <2>a, <2>s, <3>2
      <3>4. QED
        BY <2>k, <2>o, <3>1, <3>3
    <2>6. CASE HostAborted
      <3>1. route' = route /\ host.stage = "abort"
        BY <2>6 DEF HostAborted
      <3>2. Ask("abort again", "dolt", "abort") \/ \E r, c : Ask("abort", r, c)
        BY <2>6 DEF HostAborted
      <3>3. CASE Ask("abort again", "dolt", "abort")
        <4>1. host'.role = "dolt" /\ ~route'
          BY <2>a, <2>o, <3>1, <3>3
        <4>2. Before["dolt"] = {}
          BY DEF Before
        <4>3. QED
          BY <4>1, <4>2 DEF RouteInv
      <3>4. CASE \E r, c : Ask("abort", r, c)
        BY <2>a, <2>k, <2>o, <3>1, <3>4
      <3>5. QED
        BY <3>2, <3>3, <3>4
    <2>7. CASE HostReopened
      <3> DEFINE failed == host.failed \/ call.reply # "serving"
      <3>1. host.stage = "abort again" /\ intent' = intent /\ call.state = "answered"
        BY <2>7 DEF HostReopened, Answered
      <3>2. intent = "draining" /\ ~route
        BY <1>t, <2>o, <3>1 DEF QuietInv, PreStages, Stages, ReleaseStages
      <3>3. ~failed => \A r \in Before[host.role] \cup {host.role} : ~Shut(r)'
        <4>1. call.role = host.role
          BY <1>t, <3>1 DEF CallInv
        <4>2. ~failed => ~Shut(host.role) /\ \A r \in Before[host.role] : ~Shut(r)
          BY <1>t, <3>1, <4>1 DEF CallInv, RouteInv
        <4>3. QED
          BY <1>b, <1>t, <2>q, <4>2
      <3>4. CASE LastRole
        <4>1. /\ host' = [stage |-> "idle", role |-> "dolt", failed |-> FALSE]
              /\ route' = ~failed
          BY <2>7, <3>4, Zenon DEF HostReopened
        <4>2. Before[host.role] \cup {host.role} = Roles
          BY <1>r, <3>4 DEF Before, LastRole
        <4>3. route' => \A r \in Roles : ~Shut(r)'
          BY <3>3, <4>1, <4>2, Zenon
        <4>4. host'.stage = "idle" /\ intent' = "draining"
          BY <3>1, <3>2, <4>1
        <4>5. QED
          BY <4>3, <4>4 DEF RouteInv
      <3>5. CASE ~LastRole
        <4>1. /\ host' = [host EXCEPT !.role = Next1[host.role], !.failed = failed]
              /\ route' = route
          BY <2>7, <3>5, Zenon DEF HostReopened
        <4>2. Before[Next1[host.role]] \subseteq Before[host.role] \cup {host.role}
          BY <1>r, <1>t, <3>5 DEF Before, Next1, LastRole
        <4>f. failed \in BOOLEAN
          BY <1>t DEF failed, HostState
        <4> HIDE DEF failed
        <4>3. host'.role = Next1[host.role] /\ (host'.failed <=> failed)
          BY <1>t, <4>1, <4>f DEF HostState
        <4>4. ~host'.failed => \A r \in Before[Next1[host.role]] : ~Shut(r)'
          BY <3>3, <4>2, <4>3
        <4>5. QED
          BY <3>2, <4>1, <4>3, <4>4 DEF RouteInv
      <3>6. QED
        BY <3>4, <3>5
    <2>8. CASE HostReleasing \/ HostPlan \/ HostExited
      <3>1. /\ route' = route /\ host.stage \in {"releasing", "plan", "exit"}
            /\ host'.stage \in {"plan", "freed", "idle"}
        BY <2>8, <2>s DEF HostReleasing, HostPlan, HostExited
      <3>2. QED
        BY <2>k, <2>o, <3>1
    <2>9. CASE HostFreedCompiler \/ HostFreedCeller
      <3>1. /\ route' = route /\ host.stage \in {"compiler", "celler"}
            /\ host'.stage \in {"celler", "exit", "idle"}
        BY <2>9, <2>s, <2>a DEF HostFreedCompiler, HostFreedCeller, Fail
      <3>2. QED
        BY <2>k, <2>o, <3>1
    <2>10. QED
      BY <1>3, <2>1, <2>2, <2>3, <2>4, <2>5, <2>6, <2>7, <2>8, <2>9 DEF Host
  <1>4. QED
    BY <1>1, <1>2, <1>3

LEMMA HandoverStep ==
  ASSUME MaxLate = 0, HandoverInv, [Next]_vars
  PROVE  HandoverInv'
  <1>1. SafeInv'
    BY SafeStep DEF HandoverInv
  <1>2. CallInv'
    BY CallHost, CallOther
  <1>3. QED
    BY <1>1, <1>2, QuietStep, RouteStep DEF HandoverInv

LEMMA HandoverSafe ==
  ASSUME MaxLate = 0
  PROVE  Spec => []HandoverInv
  <1>1. HandoverInv /\ [Next]_vars => HandoverInv'
    BY HandoverStep
  <1>2. QED
    BY HandoverInit, <1>1, PTL DEF Spec

(* The update authorises a release only over three roles that admit nothing *)
(* and do nothing, and they stay so: nothing arrives between the last       *)
(* answer of backend::quiesce and the stop.  It takes that no command is    *)
(* executed late.                                                          *)
THEOREM ReleaseIsQuiet ==
  ASSUME MaxLate = 0
  PROVE  Spec => []ReleaseFindsQuiet
  <1>1. HandoverInv => ReleaseFindsQuiet
    BY DEF HandoverInv, QuietInv, ReleaseFindsQuiet, Quiet
  <1>2. QED
    BY HandoverSafe, <1>1, PTL

(* The gateway routes to the backend only while all three roles serve,      *)
(* whichever drain was undone and wherever the host died.                  *)
THEOREM OpenIsServing ==
  ASSUME MaxLate = 0
  PROVE  Spec => []OpenMeansServing
  <1>1. HandoverInv => OpenMeansServing
    BY DEF HandoverInv, RouteInv, OpenMeansServing
  <1>2. QED
    BY HandoverSafe, <1>1, PTL

-----------------------------------------------------------------------------
(* The drain implements the handover: the abstract state of the refinement. *)

OpenRoles == {r \in Roles : ~Shut(r)}
BusyRoles == {r \in Roles : ~Idle(r)}
GoneRoles == {r \in Roles : children[r] = "zero"}
Ended == <<children, certificate>>

(* Work concerns one role. *)
LEMMA WorkOfOneRole ==
  ASSUME TypeInv, Arrive \/ Finish
  PROVE  \E r \in Roles : \A x \in Roles \ {r} : Idle(x)' <=> Idle(x)
  <1>1. ASSUME NEW r \in Tracked, NEW t, Track(r, t)
        PROVE  \A x \in Roles \ {r} : Idle(x)' <=> Idle(x)
    <2>1. \A x \in Tracked \ {r} : tracker'[x] = tracker[x]
      BY <1>1, SafeTypes DEF Track
    <2>2. QED
      BY <1>1, <2>1, RoleKinds DEF Track, Idle, NoWork
  <1>2. CASE UNCHANGED tracker
    BY <1>2, RoleKinds DEF Idle, NoWork
  <1>3. CASE \E r \in Tracked : \E t : Track(r, t)
    BY <1>1, <1>3, RoleKinds
  <1>4. QED
    BY <1>2, <1>3, TrackedWork

LEMMA WorkImplements ==
  ASSUME HandoverInv, Arrive \/ Finish
  PROVE  [Handover!Next]_Handover!vars
  <1>i. TypeInv
    BY DEF HandoverInv, SafeInv
  <1>1. OpenRoles' = OpenRoles
    BY <1>i, WorkKeepsShut DEF OpenRoles
  <1>2. UNCHANGED Ended /\ GoneRoles' = GoneRoles
    BY WorkFrame DEF container, Ended, GoneRoles
  <1>3. PICK r \in Roles : \A x \in Roles \ {r} : Idle(x)' <=> Idle(x)
    BY <1>i, WorkOfOneRole
  <1>4. CASE Shut(r) /\ Idle(r)
    <2>1. Idle(r)'
      BY <1>i, <1>4, WorkKeepsQuiet DEF Quiet
    <2>2. BusyRoles' = BusyRoles
      BY <1>3, <1>4, <2>1 DEF BusyRoles
    <2>3. QED
      BY <1>1, <1>2, <2>2 DEF OpenRoles, BusyRoles, GoneRoles, Ended, Handover!vars
  <1>5. CASE Idle(r)'
    <2>1. BusyRoles' = BusyRoles \ {r}
      BY <1>3, <1>5 DEF BusyRoles
    <2>2. Handover!Rest(r)
      BY <1>1, <1>2, <2>1 DEF OpenRoles, BusyRoles, GoneRoles, Ended, Handover!Rest
    <2>3. QED
      BY <2>2 DEF Handover!Next
  <1>6. CASE ~Idle(r)' /\ ~Idle(r)
    <2>1. BusyRoles' = BusyRoles
      BY <1>3, <1>6 DEF BusyRoles
    <2>2. QED
      BY <1>1, <1>2, <2>1 DEF OpenRoles, BusyRoles, GoneRoles, Ended, Handover!vars
  <1>7. CASE ~Idle(r)' /\ ~Shut(r)
    <2>1. BusyRoles' = BusyRoles \cup {r}
      BY <1>3, <1>7 DEF BusyRoles
    <2>2. r \in OpenRoles
      BY <1>7 DEF OpenRoles
    <2>3. Handover!Work(r)
      BY <1>1, <1>2, <2>1, <2>2 DEF OpenRoles, BusyRoles, GoneRoles, Ended, Handover!Work
    <2>4. QED
      BY <2>3 DEF Handover!Next
  <1>8. QED
    BY <1>4, <1>5, <1>6, <1>7

(* A command and a close concern the admission of one role. *)
LEMMA CommandOfOneRole ==
  ASSUME HandoverInv,
         TakeSql \/ \E r \in Tracked : TakeTracked(r) \/ Close(r)
  PROVE  /\ \A x \in Roles : Idle(x)' <=> Idle(x)
         /\ \E r \in Roles : \A x \in Roles \ {r} : Shut(x)' <=> Shut(x)
         /\ UNCHANGED Ended
  <1>t. /\ TypeInv /\ tracker \in [Tracked -> TrackerState] /\ sql \in GateState
        /\ \A x \in Tracked : tracker[x] \in TrackerState
    BY SafeTypes DEF HandoverInv, SafeInv
  <1>1. CASE TakeSql
    <2>1. /\ UNCHANGED tracker /\ sql'.sessions = sql.sessions
          /\ sql'.broker = sql.broker /\ sql'.native = sql.native /\ UNCHANGED Ended
      BY <1>t, <1>1 DEF TakeSql, GateState, container, Ended
    <2>2. \A x \in Roles : Idle(x)' <=> Idle(x)
      BY <2>1 DEF Idle, NoWork
    <2>3. \A x \in Roles \ {"dolt"} : Shut(x)' <=> Shut(x)
      BY <2>1 DEF Shut
    <2>4. QED
      BY <2>1, <2>2, <2>3, RoleKinds
  <1>2. ASSUME NEW r \in Tracked, TakeTracked(r) \/ Close(r)
        PROVE  /\ \A x \in Roles : Idle(x)' <=> Idle(x)
               /\ \A x \in Roles \ {r} : Shut(x)' <=> Shut(x)
               /\ UNCHANGED Ended
    <2>1. UNCHANGED sql /\ UNCHANGED Ended
      BY <1>2 DEF TakeTracked, Close, container, Ended
    <2>2. \A x \in Tracked \ {r} : tracker'[x] = tracker[x]
      BY <1>t, <1>2 DEF TakeTracked, Close
    <2>3. /\ tracker'[r].requests = tracker[r].requests
          /\ tracker'[r].workflows = tracker[r].workflows
          /\ tracker'[r].background = tracker[r].background
      <3>1. CASE TakeTracked(r)
        <4>1. tracker'[r] = Commanded(tracker[r], call.command)
          BY <1>t, <3>1 DEF TakeTracked
        <4>2. QED
          BY <1>t, <4>1 DEF Commanded, TrackerState
      <3>2. CASE Close(r)
        BY <1>t, <3>2 DEF Close, TrackerState
      <3>3. QED
        BY <1>2, <3>1, <3>2
    <2>4. \A x \in Tracked : NoWork(tracker'[x]) <=> NoWork(tracker[x])
      BY <2>2, <2>3 DEF NoWork
    <2>5. \A x \in Roles : Idle(x)' <=> Idle(x)
      BY <2>1, <2>4, RoleKinds DEF Idle
    <2>6. \A x \in Roles \ {r} : Shut(x)' <=> Shut(x)
      BY <2>1, <2>2, RoleKinds DEF Shut
    <2>7. QED
      BY <2>1, <2>5, <2>6
  <1>3. QED
    BY <1>1, <1>2, RoleKinds

(* Admission is reopened by an abort, which no planned stop knows. *)
LEMMA ReopenedBeforeEnd ==
  ASSUME HandoverInv, TakeSql \/ \E r \in Tracked : TakeTracked(r) \/ Close(r),
         NEW r \in Roles, Shut(r), ~Shut(r)'
  PROVE  GoneRoles = {}
  <1>t. /\ tracker \in [Tracked -> TrackerState] /\ sql \in GateState
        /\ \A x \in Tracked : tracker[x] \in TrackerState
        /\ host \in HostState
    BY SafeTypes DEF HandoverInv, SafeInv
  <1>1. call.state = "sent" /\ call.command = "abort"
    <2>1. CASE TakeSql
      BY <1>t, <2>1 DEF TakeSql, Asked, GateAfter, Shut, GateState
    <2>2. ASSUME NEW x \in Tracked, TakeTracked(x) PROVE call.state = "sent" /\ call.command = "abort"
      <3>1. call.state = "sent" /\ UNCHANGED sql
            /\ tracker' = [tracker EXCEPT ![x] = Commanded(tracker[x], call.command)]
        BY <2>2 DEF TakeTracked, Asked
      <3>2. r = x
        BY <1>t, <3>1, RoleKinds DEF Shut
      <3>3. tracker[x].phase # "Serving" /\ tracker'[x].phase = "Serving"
        BY <3>2, RoleKinds DEF Shut
      <3>4. tracker'[x] = Commanded(tracker[x], call.command)
        BY <1>t, <3>1
      <3>5. QED
        BY <1>t, <3>1, <3>3, <3>4 DEF Commanded, TrackerState
    <2>3. ASSUME NEW x \in Tracked, Close(x) PROVE FALSE
      <3>1. UNCHANGED sql /\ tracker' = [tracker EXCEPT ![x].phase = "Released"]
        BY <2>3 DEF Close
      <3>2. r = x
        BY <1>t, <3>1, RoleKinds DEF Shut
      <3>3. tracker'[x].phase = "Released"
        BY <1>t, <3>1 DEF TrackerState
      <3>4. QED
        BY <3>2, <3>3, RoleKinds DEF Shut
    <2>4. QED
      BY <2>1, <2>2, <2>3
  <1>2. host.stage \in PreStages
    <2>1. host.stage \notin QuietStages /\ CommandAt(host.stage) = "abort"
      BY <1>1 DEF HandoverInv, CallInv
    <2>2. CommandAt("compiler") = "release" /\ CommandAt("celler") = "release"
      BY DEF CommandAt, CommandOf
    <2>3. host.stage \notin {"compiler", "celler"}
      BY <2>1, <2>2
    <2>4. QED
      BY <1>t, <2>1, <2>3 DEF HostState, PreStages, QuietStages, ReleaseStages
  <1>3. ~planned
    BY <1>2 DEF HandoverInv, QuietInv, SafeInv, Authorized
  <1>4. QED
    BY <1>3 DEF HandoverInv, SafeInv, Supervised, GoneRoles

LEMMA CommandImplements ==
  ASSUME HandoverInv, TakeSql \/ \E r \in Tracked : TakeTracked(r) \/ Close(r)
  PROVE  [Handover!Next]_Handover!vars
  <1>1. BusyRoles' = BusyRoles /\ GoneRoles' = GoneRoles /\ certificate' = certificate
    BY CommandOfOneRole DEF BusyRoles, GoneRoles, Ended
  <1>2. PICK r \in Roles : \A x \in Roles \ {r} : Shut(x)' <=> Shut(x)
    BY CommandOfOneRole
  <1>3. CASE Shut(r)'
    <2>1. OpenRoles' = OpenRoles \ {r}
      BY <1>2, <1>3 DEF OpenRoles
    <2>2. Handover!Shut(r)
      BY <1>1, <2>1 DEF OpenRoles, BusyRoles, GoneRoles, Handover!Shut
    <2>3. QED
      BY <2>2 DEF Handover!Next
  <1>4. CASE ~Shut(r)' /\ ~Shut(r)
    <2>1. OpenRoles' = OpenRoles
      BY <1>2, <1>4 DEF OpenRoles
    <2>2. QED
      BY <1>1, <2>1 DEF OpenRoles, BusyRoles, GoneRoles, Handover!vars
  <1>5. CASE ~Shut(r)' /\ Shut(r)
    <2>1. OpenRoles' = OpenRoles \cup {r}
      BY <1>2, <1>5 DEF OpenRoles
    <2>2. GoneRoles = {}
      BY <1>5, ReopenedBeforeEnd
    <2>3. Handover!Reopen(r)
      BY <1>1, <2>1, <2>2 DEF OpenRoles, BusyRoles, GoneRoles, Handover!Reopen
    <2>4. QED
      BY <2>3 DEF Handover!Next
  <1>6. QED
    BY <1>3, <1>4, <1>5

(* A stop is planned over roles that are quiet, and stay so. *)
LEMMA PlannedQuiet ==
  ASSUME HandoverInv, planned
  PROVE  OpenRoles = {} /\ BusyRoles = {}
  BY DEF HandoverInv, SafeInv, Authorized, QuietInv, Quiet, OpenRoles, BusyRoles

LEMMA EndImplements ==
  ASSUME HandoverInv, NEW r \in Tracked, Ends(r)
  PROVE  Handover!Leave(r)
  <1>t. children \in [Roles -> {"running", "zero", "failed"}] /\ r \in Roles /\ r # "dolt"
    BY RoleKinds DEF HandoverInv, SafeInv, TypeInv, TypeOK
  <1>1. OpenRoles = {} /\ BusyRoles = {}
    BY PlannedQuiet DEF Ends
  <1>2. OpenRoles' = OpenRoles /\ BusyRoles' = BusyRoles
    BY DEF Ends, native, OpenRoles, BusyRoles, Shut, Idle, NoWork
  <1>3. GoneRoles' = GoneRoles \cup {r}
    BY <1>t DEF Ends, GoneRoles
  <1>4. children["dolt"] # "zero" /\ ~certificate
    BY DEF Ends, ContainerRunning, HandoverInv, SafeInv, Supervised
  <1>5. GoneRoles' # Roles
    BY <1>t, <1>3, <1>4, RoleKinds DEF GoneRoles
  <1>6. ~certificate'
    BY <1>4 DEF Ends
  <1>7. certificate' = (GoneRoles' = Roles)
    BY <1>5, <1>6 DEF Ends, HandoverInv, SafeInv, TypeInv, TypeOK
  <1>8. QED
    BY <1>1, <1>2, <1>3, <1>7 DEF OpenRoles, BusyRoles, GoneRoles, Handover!Leave

LEMMA StopImplements ==
  ASSUME HandoverInv, StopDolt
  PROVE  Handover!Leave("dolt")
  <1>t. children \in [Roles -> {"running", "zero", "failed"}]
    BY DEF HandoverInv, SafeInv, TypeInv, TypeOK
  <1>1. planned /\ children["celler"] = "zero" /\ children["compiler"] = "zero"
    BY DEF StopDolt, Supervise, HandoverInv, SafeInv, Supervised
  <1>2. OpenRoles = {} /\ BusyRoles = {}
    BY <1>1, PlannedQuiet
  <1>3. OpenRoles' = OpenRoles /\ BusyRoles' = BusyRoles
    BY DEF StopDolt, native, OpenRoles, BusyRoles, Shut, Idle, NoWork
  <1>4. GoneRoles' = GoneRoles \cup {"dolt"} /\ GoneRoles' = Roles
    BY <1>t, <1>1, RoleKinds DEF StopDolt, GoneRoles
  <1>5. certificate' = (GoneRoles' = Roles)
    BY <1>4 DEF StopDolt
  <1>6. QED
    BY <1>2, <1>3, <1>4, <1>5 DEF OpenRoles, BusyRoles, GoneRoles, Handover!Leave

(* Everything else is invisible. *)
LEMMA OtherImplements ==
  ASSUME HandoverInv, [Next]_vars, UNCHANGED native,
         ~StopDolt, \A r \in Tracked : ~Ends(r)
  PROVE  UNCHANGED Handover!vars
  <1>1. GoneRoles' = GoneRoles /\ certificate' = certificate
    <2>1. CASE Disrupted
      <3>1. children \in [Roles -> {"running", "zero", "failed"}]
        BY DEF HandoverInv, SafeInv, TypeInv, TypeOK
      <3>2. QED
        BY <2>1, <3>1 DEF Disrupted, Runs, GoneRoles
    <2>2. CASE \/ AwaitCompiler \/ QuiesceSql \/ CensusSql \/ TakeSql \/ Census \/ TakeLate
               \/ GiveUp \/ HostDies \/ UNCHANGED vars
               \/ \E r \in Tracked : TakeTracked(r) \/ Close(r)
      BY <2>2 DEF AwaitCompiler, QuiesceSql, CensusSql, TakeSql, Census, TakeLate, GiveUp,
                  HostDies, vars, TakeTracked, Close, container, GoneRoles
    <2>3. CASE Arrive \/ Finish \/ Host
      BY <2>3, WorkFrame, HostFrame DEF container, GoneRoles
    <2>4. QED
      BY <2>1, <2>2, <2>3 DEF Next, Serve, Release
  <1>2. OpenRoles' = OpenRoles /\ BusyRoles' = BusyRoles
    BY DEF native, OpenRoles, BusyRoles, Shut, Idle, NoWork
  <1>3. QED
    BY <1>1, <1>2 DEF OpenRoles, BusyRoles, GoneRoles, Handover!vars

LEMMA HandoverImplements ==
  ASSUME HandoverInv, [Next]_vars
  PROVE  [Handover!Next]_Handover!vars
  <1>1. late = {}
    BY DEF HandoverInv, CallInv
  <1>2. CASE Arrive \/ Finish
    BY <1>2, WorkImplements
  <1>3. CASE TakeSql \/ \E r \in Tracked : TakeTracked(r) \/ Close(r)
    BY <1>3, CommandImplements
  <1>4. ASSUME NEW r \in Tracked, Ends(r) PROVE Handover!Next
    <2>1. Handover!Leave(r) /\ r \in Roles
      BY <1>4, EndImplements, RoleKinds
    <2>2. QED
      BY <2>1 DEF Handover!Next
  <1>5. CASE StopDolt
    <2>1. Handover!Leave("dolt") /\ "dolt" \in Roles
      BY <1>5, StopImplements, RoleKinds
    <2>2. QED
      BY <2>1 DEF Handover!Next
  <1>6. CASE UNCHANGED native /\ ~StopDolt /\ \A r \in Tracked : ~Ends(r)
    BY <1>6, OtherImplements
  <1>7. QED
    BY <1>1, <1>2, <1>3, <1>4, <1>5, <1>6, RoleSteps

LEMMA HandoverInitially == Init => Handover!Init
  <1> SUFFICES ASSUME Init PROVE Handover!Init
    OBVIOUS
  <1>1. OpenRoles = Roles /\ BusyRoles = {} /\ GoneRoles = {} /\ certificate = FALSE
    BY RoleKinds DEF Init, OpenRoles, BusyRoles, GoneRoles, Shut, Idle, NoWork
  <1>2. QED
    BY <1>1 DEF OpenRoles, BusyRoles, GoneRoles, Handover!Init

(* The drain, whatever the host does and wherever it dies, ends the native  *)
(* roles only together, when none admits work and none has any left, and    *)
(* the certificate says exactly that.  It takes that no command is executed *)
(* late.                                                                   *)
THEOREM HandoverRefined ==
  ASSUME MaxLate = 0
  PROVE  Spec => ImplementsHandover
  <1>1. HandoverInv /\ [Next]_vars => [Handover!Next]_Handover!vars
    BY HandoverImplements
  <1>2. QED
    BY HandoverInitially, HandoverSafe, <1>1, PTL
    DEF Spec, ImplementsHandover, Handover!Spec
=============================================================================
