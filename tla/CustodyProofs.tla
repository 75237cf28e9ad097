---------------------------- MODULE CustodyProofs ----------------------------
(* Proofs of the safety properties of the components of a workspace: those  *)
(* that keep what was entrusted to them, and say who may act on it.         *)
EXTENDS MCWorkspace, FiniteSetTheorems, Sequences, TLAPS

-----------------------------------------------------------------------------
(* NixApproval. *)

Contexts == [key : Checkouts, age : Nat]

AskedFor == [context : Contexts, common : Nat, ticket : Tickets \cup {None}]

ActorStates ==
    [pc : {"idle", "checked", "claim", "accepted"}, context : Contexts \cup {None},
     ticket : Tickets \cup {None}, id : RequestIds \cup {None}]

ApprovalTypes ==
    /\ current \in [Checkouts -> Nat] /\ common \in Nat
    /\ accepted \in [RequestIds -> Nat]
    /\ requests \in [RequestIds -> AskedFor \cup {None}]
    /\ actor \in [Starters \cup Controllers -> ActorStates]
    /\ \A p \in Starters \cup Controllers : actor[p].pc \in {"checked", "claim"} =>
         actor[p].context \in Contexts
    /\ \A p \in Starters \cup Controllers : actor[p].pc = "claim" => actor[p].id \in RequestIds

(* An identity is drawn once, for one request, which is accepted once.      *)
Drawn ==
    \A i \in RequestIds :
        /\ requests[i] # None => i \in issued /\ accepted[i] = 0
        /\ accepted[i] # 0 => i \in issued

(* Who is about to accept a request that is still there read that one.      *)
Claimed ==
    \A p \in Starters \cup Controllers : actor[p].pc = "claim" =>
        /\ actor[p].id \in issued
        /\ requests[actor[p].id] # None =>
             /\ actor[p].context = requests[actor[p].id].context
             /\ actor[p].ticket = requests[actor[p].id].ticket

ApprovalInv == ApprovalTypes /\ Drawn /\ Claimed

(* Only a claim accepts a request, and what it has read of it is the same.  *)
AcceptsOnce ==
    \A i \in RequestIds : accepted'[i] # accepted[i] =>
        /\ accepted[i] = 0 /\ requests[i] # None /\ requests'[i] = None
        /\ Approvals!Approved(requests[i].context.key)
        /\ Approvals!ForTicket(requests[i].ticket, requests[i].context.key)

(* The initial states. *)
LEMMA ApprovalInit == Approvals!Init => ApprovalInv
  <1> SUFFICES ASSUME Approvals!Init PROVE ApprovalInv
    OBVIOUS
  <1>1. ApprovalTypes
    BY DEF Approvals!Init, ApprovalTypes, ActorStates, Approvals!NoProc, Approvals!Procs
  <1>2. Drawn /\ Claimed
    BY DEF Approvals!Init, Drawn, Claimed, Approvals!NoProc, Approvals!Procs
  <1>3. QED
    BY <1>1, <1>2 DEF ApprovalInv

(* One step. *)
LEMMA ApprovalStep == ApprovalInv /\ Approvals!Next => ApprovalInv'
  <1> SUFFICES ASSUME ApprovalInv, Approvals!Next PROVE ApprovalInv'
    OBVIOUS
  <1>1. ASSUME Approvals!ReplaceRepository
        PROVE  ApprovalInv'
    <2>1. ApprovalTypes'
      BY <1>1 DEF ApprovalInv, ApprovalTypes, ActorStates, Contexts, AskedFor, Approvals!Procs,
         Approvals!ReplaceRepository, Approvals!At, Approvals!world, Approvals!Changes
    <2>2. Drawn'
      BY <1>1, <2>1 DEF ApprovalInv, ApprovalTypes, Drawn, Claimed, Approvals!Procs,
         Approvals!ReplaceRepository, Approvals!At, Approvals!world, Approvals!Changes
    <2>3. Claimed'
      BY <1>1, <2>1 DEF ApprovalInv, ApprovalTypes, Drawn, Claimed, Approvals!Procs,
         Approvals!ReplaceRepository, Approvals!At, Approvals!world, Approvals!Changes
    <2>4. QED
      BY <2>1, <2>2, <2>3 DEF ApprovalInv
  <1>2. ASSUME NEW k \in Checkouts, Approvals!Outdate(k)
        PROVE  ApprovalInv'
    <2>1. ApprovalTypes'
      BY <1>2 DEF ApprovalInv, ApprovalTypes, ActorStates, Contexts, AskedFor, Approvals!Procs,
         Approvals!Outdate, Approvals!At, Approvals!world, Approvals!Changes
    <2>2. Drawn'
      BY <1>2, <2>1 DEF ApprovalInv, ApprovalTypes, Drawn, Claimed, Approvals!Procs,
         Approvals!Outdate, Approvals!At, Approvals!world, Approvals!Changes
    <2>3. Claimed'
      BY <1>2, <2>1 DEF ApprovalInv, ApprovalTypes, Drawn, Claimed, Approvals!Procs,
         Approvals!Outdate, Approvals!At, Approvals!world, Approvals!Changes
    <2>4. QED
      BY <2>1, <2>2, <2>3 DEF ApprovalInv
  <1>3. ASSUME NEW p \in Approvals!Procs, Approvals!Ends(p)
        PROVE  ApprovalInv'
    <2>1. ApprovalTypes'
      BY <1>3 DEF ApprovalInv, ApprovalTypes, ActorStates, Contexts, AskedFor, Approvals!Procs,
         Approvals!Ends, Approvals!At, Approvals!world, Approvals!NoProc
    <2>2. Drawn'
      BY <1>3, <2>1 DEF ApprovalInv, ApprovalTypes, Drawn, Claimed, Approvals!Procs,
         Approvals!Ends, Approvals!At, Approvals!world, Approvals!NoProc
    <2>3. Claimed'
      BY <1>3, <2>1 DEF ApprovalInv, ApprovalTypes, Drawn, Claimed, Approvals!Procs,
         Approvals!Ends, Approvals!At, Approvals!world, Approvals!NoProc
    <2>4. QED
      BY <2>1, <2>2, <2>3 DEF ApprovalInv
  <1>4. ASSUME NEW p \in Starters, Approvals!Cancel(p)
        PROVE  ApprovalInv'
    <2>1. ApprovalTypes'
      BY <1>4 DEF ApprovalInv, ApprovalTypes, ActorStates, Contexts, AskedFor, Approvals!Procs,
         Approvals!Cancel, Approvals!At, Approvals!world, Approvals!NoProc
    <2>2. Drawn'
      BY <1>4, <2>1 DEF ApprovalInv, ApprovalTypes, Drawn, Claimed, Approvals!Procs,
         Approvals!Cancel, Approvals!At, Approvals!world, Approvals!NoProc
    <2>3. Claimed'
      BY <1>4, <2>1 DEF ApprovalInv, ApprovalTypes, Drawn, Claimed, Approvals!Procs,
         Approvals!Cancel, Approvals!At, Approvals!world, Approvals!NoProc
    <2>4. QED
      BY <2>1, <2>2, <2>3 DEF ApprovalInv
  <1>5. ASSUME NEW p \in Starters, Approvals!Handoff(p)
        PROVE  ApprovalInv'
    <2>1. ApprovalTypes'
      BY <1>5 DEF ApprovalInv, ApprovalTypes, ActorStates, Contexts, AskedFor, Approvals!Procs,
         Approvals!Handoff, Approvals!At, Approvals!world, Approvals!NoProc
    <2>2. Drawn'
      BY <1>5, <2>1 DEF ApprovalInv, ApprovalTypes, Drawn, Claimed, Approvals!Procs,
         Approvals!Handoff, Approvals!At, Approvals!world, Approvals!NoProc
    <2>3. Claimed'
      BY <1>5, <2>1 DEF ApprovalInv, ApprovalTypes, Drawn, Claimed, Approvals!Procs,
         Approvals!Handoff, Approvals!At, Approvals!world, Approvals!NoProc
    <2>4. QED
      BY <2>1, <2>2, <2>3 DEF ApprovalInv
  <1>6. ASSUME NEW p \in Starters, NEW k \in Checkouts, Approvals!Inspect(p, k)
        PROVE  ApprovalInv'
    <2>1. ApprovalTypes'
      BY <1>6 DEF ApprovalInv, ApprovalTypes, ActorStates, Contexts, AskedFor, Approvals!Procs,
         Approvals!Inspect, Approvals!At, Approvals!world, Approvals!NoProc
    <2>2. Drawn'
      BY <1>6, <2>1 DEF ApprovalInv, ApprovalTypes, Drawn, Claimed, Approvals!Procs,
         Approvals!Inspect, Approvals!At, Approvals!world, Approvals!NoProc
    <2>3. Claimed'
      BY <1>6, <2>1 DEF ApprovalInv, ApprovalTypes, Drawn, Claimed, Approvals!Procs,
         Approvals!Inspect, Approvals!At, Approvals!world, Approvals!NoProc
    <2>4. QED
      BY <2>1, <2>2, <2>3 DEF ApprovalInv
  <1>7. ASSUME NEW p \in Starters, NEW word \in BOOLEAN, Approvals!Set(p, word)
        PROVE  ApprovalInv'
    <2>1. ApprovalTypes'
      BY <1>7 DEF ApprovalInv, ApprovalTypes, ActorStates, Contexts, AskedFor, Approvals!Procs,
         Approvals!Set, Approvals!At, Approvals!world, Approvals!NoProc
    <2>2. Drawn'
      BY <1>7, <2>1 DEF ApprovalInv, ApprovalTypes, Drawn, Claimed, Approvals!Procs,
         Approvals!Set, Approvals!At, Approvals!world, Approvals!NoProc
    <2>3. Claimed'
      BY <1>7, <2>1 DEF ApprovalInv, ApprovalTypes, Drawn, Claimed, Approvals!Procs,
         Approvals!Set, Approvals!At, Approvals!world, Approvals!NoProc
    <2>4. QED
      BY <2>1, <2>2, <2>3 DEF ApprovalInv
  <1>8. ASSUME NEW p \in Starters, NEW t \in Tickets, Approvals!Reserve(p, t)
        PROVE  ApprovalInv'
    <2>1. ApprovalTypes'
      BY <1>8 DEF ApprovalInv, ApprovalTypes, ActorStates, Contexts, AskedFor, Approvals!Procs,
         Approvals!Reserve, Approvals!At, Approvals!world
    <2>2. Drawn'
      BY <1>8, <2>1 DEF ApprovalInv, ApprovalTypes, Drawn, Claimed, Approvals!Procs,
         Approvals!Reserve, Approvals!At, Approvals!world
    <2>3. Claimed'
      BY <1>8, <2>1 DEF ApprovalInv, ApprovalTypes, Drawn, Claimed, Approvals!Procs,
         Approvals!Reserve, Approvals!At, Approvals!world
    <2>4. QED
      BY <2>1, <2>2, <2>3 DEF ApprovalInv
  <1>9. ASSUME NEW p \in Starters, NEW i \in RequestIds, Approvals!Issue(p, i)
        PROVE  ApprovalInv'
    <2>1. ApprovalTypes'
      BY <1>9 DEF ApprovalInv, ApprovalTypes, ActorStates, Contexts, AskedFor, Approvals!Procs,
         Approvals!Issue, Approvals!At, Approvals!world, Approvals!Guarded
    <2>2. Drawn'
      BY <1>9, <2>1 DEF ApprovalInv, ApprovalTypes, Drawn, Claimed, Approvals!Procs,
         Approvals!Issue, Approvals!At, Approvals!world, Approvals!Guarded
    <2>3. Claimed'
      BY <1>9, <2>1 DEF ApprovalInv, ApprovalTypes, Drawn, Claimed, Approvals!Procs,
         Approvals!Issue, Approvals!At, Approvals!world, Approvals!Guarded
    <2>4. QED
      BY <2>1, <2>2, <2>3 DEF ApprovalInv
  <1>10. ASSUME NEW p \in Controllers, Approvals!ClaimCommit(p)
        PROVE  ApprovalInv'
    <2>1. ApprovalTypes'
      BY <1>10 DEF ApprovalInv, ApprovalTypes, ActorStates, Contexts, AskedFor, Approvals!Procs,
         Approvals!ClaimCommit, Approvals!At, Approvals!world
    <2>2. Drawn'
      BY <1>10, <2>1 DEF ApprovalInv, ApprovalTypes, Drawn, Claimed, Approvals!Procs,
         Approvals!ClaimCommit, Approvals!At, Approvals!world
    <2>3. Claimed'
      BY <1>10, <2>1 DEF ApprovalInv, ApprovalTypes, Drawn, Claimed, Approvals!Procs,
         Approvals!ClaimCommit, Approvals!At, Approvals!world
    <2>4. QED
      BY <2>1, <2>2, <2>3 DEF ApprovalInv
  <1>11. ASSUME NEW p \in Controllers, Approvals!Use(p)
        PROVE  ApprovalInv'
    <2>1. ApprovalTypes'
      BY <1>11 DEF ApprovalInv, ApprovalTypes, ActorStates, Contexts, AskedFor, Approvals!Procs,
         Approvals!Use, Approvals!At, Approvals!world, Approvals!NoProc
    <2>2. Drawn'
      BY <1>11, <2>1 DEF ApprovalInv, ApprovalTypes, Drawn, Claimed, Approvals!Procs,
         Approvals!Use, Approvals!At, Approvals!world, Approvals!NoProc
    <2>3. Claimed'
      BY <1>11, <2>1 DEF ApprovalInv, ApprovalTypes, Drawn, Claimed, Approvals!Procs,
         Approvals!Use, Approvals!At, Approvals!world, Approvals!NoProc
    <2>4. QED
      BY <2>1, <2>2, <2>3 DEF ApprovalInv
  <1>12. ASSUME NEW p \in Controllers, NEW i \in RequestIds, Approvals!ClaimBegin(p, i)
        PROVE  ApprovalInv'
    <2>1. ApprovalTypes'
      BY <1>12 DEF ApprovalInv, ApprovalTypes, ActorStates, Contexts, AskedFor, Approvals!Procs,
         Approvals!ClaimBegin, Approvals!At, Approvals!world, Approvals!NoProc
    <2>2. Drawn'
      BY <1>12, <2>1 DEF ApprovalInv, ApprovalTypes, Drawn, Claimed, Approvals!Procs,
         Approvals!ClaimBegin, Approvals!At, Approvals!world, Approvals!NoProc
    <2>3. Claimed'
      BY <1>12, <2>1 DEF ApprovalInv, ApprovalTypes, Drawn, Claimed, Approvals!Procs,
         Approvals!ClaimBegin, Approvals!At, Approvals!world, Approvals!NoProc
    <2>4. QED
      BY <2>1, <2>2, <2>3 DEF ApprovalInv
  <1>13. QED
    BY <1>1, <1>2, <1>3, <1>4, <1>5, <1>6, <1>7, <1>8, <1>9, <1>10, <1>11, <1>12 DEF
       Approvals!Next

(* What a step may accept. *)
LEMMA ApprovalAccepts == ApprovalInv /\ Approvals!Next => AcceptsOnce
  <1> SUFFICES ASSUME ApprovalInv, Approvals!Next PROVE AcceptsOnce
    OBVIOUS
  <1>1. CASE accepted' = accepted
    BY <1>1 DEF AcceptsOnce
  <1>2. ASSUME NEW p \in Controllers, Approvals!ClaimCommit(p) PROVE AcceptsOnce
    <2> DEFINE i == actor[p].id
    <2>1. /\ actor[p].pc = "claim" /\ i \in RequestIds /\ requests[i] # None /\ accepted[i] = 0
          /\ actor[p].context = requests[i].context /\ actor[p].ticket = requests[i].ticket
      BY <1>2 DEF ApprovalInv, ApprovalTypes, Drawn, Claimed, Approvals!ClaimCommit, Approvals!At
    <2>2. requests'[i] = None /\ \A j \in RequestIds \ {i} : accepted'[j] = accepted[j]
      BY <1>2, <2>1 DEF ApprovalInv, ApprovalTypes, Approvals!ClaimCommit
    <2>3. /\ Approvals!Approved(requests[i].context.key)
          /\ Approvals!ForTicket(requests[i].ticket, requests[i].context.key)
      BY <1>2, <2>1 DEF Approvals!ClaimCommit, Approvals!InForce
    <2>4. QED
      BY <2>1, <2>2, <2>3 DEF AcceptsOnce
  <1>3. QED
    BY <1>1, <1>2 DEF Approvals!Next, Approvals!ReplaceRepository, Approvals!Outdate,
       Approvals!Ends,
       Approvals!Cancel, Approvals!Handoff, Approvals!Inspect, Approvals!Set, Approvals!Reserve,
       Approvals!Issue, Approvals!ClaimBegin, Approvals!Use

(* A request is accepted at most once, and only as its ticket waits for it  *)
(* under an approval that is in force, whoever is sent its identity, and    *)
(* wherever a controller dies.                                              *)
THEOREM AcceptedAtMostOnce == WorkspaceSpec => AcceptedOnce
  <1>1. WorkspaceInit => ApprovalInv
    BY ApprovalInit DEF WorkspaceInit
  <1>2. ApprovalInv /\ [WorkspaceNext]_all => ApprovalInv'
    <2> SUFFICES ASSUME ApprovalInv, [WorkspaceNext]_all PROVE ApprovalInv'
      OBVIOUS
    <2>1. CASE pick = "approvals" /\ Approvals!Next
      BY <2>1, ApprovalStep
    <2>2. CASE UNCHANGED approvals
      BY <2>2 DEF approvals, ApprovalInv, ApprovalTypes, Drawn, Claimed
    <2>3. QED
      BY <2>1, <2>2 DEF WorkspaceNext, all
  <1>3. ApprovalInv /\ [WorkspaceNext]_all => [AcceptsOnce]_Approvals!vars
    <2> SUFFICES ASSUME ApprovalInv, [WorkspaceNext]_all PROVE [AcceptsOnce]_Approvals!vars
      OBVIOUS
    <2>1. CASE pick = "approvals" /\ Approvals!Next
      BY <2>1, ApprovalAccepts
    <2>2. CASE UNCHANGED approvals
      BY <2>2 DEF approvals, Approvals!vars, Approvals!world
    <2>3. QED
      BY <2>1, <2>2 DEF WorkspaceNext, all
  <1>4. QED
    BY <1>1, <1>2, <1>3, PTL DEF WorkspaceSpec, AcceptedOnce, Approvals!AcceptedOnce, AcceptsOnce

-----------------------------------------------------------------------------
(* CacheAuthority. *)

Publishing == Admins \cup Publishers

Points ==
    {"idle", "get", "create", "repair", "confirm", "keep", "bind", "activate", "intent",
     "compare", "delete", "replace", "clear", "retire", "load", "upload"}

Words == {None, Authority!Bad} \cup Authority!Keys

Ops == {None, "register", "rotate", "retire"}

Orders == [op : Ops, key : Words]

AuthorityTypes ==
    /\ view \in Words /\ fresh \in Nat
    /\ keyfile \in {None} \cup Authority!Keys
    /\ journal \in {None} \cup [prior : Words]
    /\ disowned \in BOOLEAN
    /\ pc \in [Publishing -> Points]
    /\ command \in [Admins -> Orders]
    /\ \A c \in Admins : pc[c] = "keep" => command[c].key \in Authority!Keys
    /\ \A c \in Admins : pc[c] = "replace" => command[c].key \in Authority!Keys

(* Whoever does anything holds the lock. *)
Exclusive == \A p \in Publishing : pc[p] # "idle" => lock = p

(* A rotation does nothing before its intent is on record. *)
Intended ==
    \A c \in Admins :
        /\ pc[c] \in {"intent", "compare", "delete"} => command[c].op = "rotate"
        /\ pc[c] \in {"compare", "delete"} => journal # None
        /\ pc[c] = "delete" => journal = [prior |-> view] \/ disowned
        /\ command[c].op = "rotate"
              /\ pc[c] \in {"get", "create", "repair", "confirm", "keep", "replace", "bind",
                    "clear"} =>
             journal # None

(* What is going to be recorded, or was by a rotation, is the key of the    *)
(* view, unless a request that outlived its client changed it since.        *)
Confirmed ==
    \A c \in Admins :
        /\ pc[c] = "keep" => command[c].key = view \/ disowned
        /\ pc[c] \in {"bind", "clear"} /\ command[c].op = "rotate" => keyfile = view \/ disowned
        /\ pc[c] = "clear" => command[c].op = "rotate"

(* KeyFollowsView, for a view that is not usable too. *)
Followed == keyfile # None /\ view # keyfile => journal # None \/ disowned

AuthorityInv == AuthorityTypes /\ Exclusive /\ Intended /\ Confirmed /\ Followed

(* What no step may do. *)
Spares ==
    /\ Authority!KeyFollowsView'
    /\ view # None /\ view' = None => disowned' \/ journal = [prior |-> view]

(* An intent is something. *)
LEMMA NoneIsNoIntent == None \notin [prior : Words]
  BY NoneIsNoRecord DEF Words, Authority!Bad, Authority!Keys

(* What may be recorded. *)
LEMMA AuthorityWords ==
    /\ None \in Words /\ Authority!Bad \in Words /\ Authority!Bad \notin Authority!Keys
    /\ \A k \in Authority!Keys : k \in Words /\ k \in Nat /\ k # None
    /\ \A k \in Words \ Authority!Keys : k = None \/ k = Authority!Bad
    /\ "idle" \in Points /\ "get" \in Points /\ "create" \in Points
    /\ "repair" \in Points /\ "confirm" \in Points /\ "keep" \in Points
    /\ "bind" \in Points /\ "activate" \in Points /\ "intent" \in Points
    /\ "compare" \in Points /\ "delete" \in Points /\ "replace" \in Points
    /\ "clear" \in Points /\ "retire" \in Points /\ "load" \in Points
    /\ "upload" \in Points
    /\ None \in Ops /\ "register" \in Ops /\ "rotate" \in Ops /\ "retire" \in Ops
    /\ Authority!NoCommand \in Orders
    /\ \A r \in Orders, o \in Ops, k \in Words :
         [r EXCEPT !.op = o] \in Orders /\ [r EXCEPT !.key = k] \in Orders
  <1>1. /\ None \in Words /\ Authority!Bad \in Words /\ Authority!Bad \notin Authority!Keys
        /\ \A k \in Authority!Keys : k \in Words /\ k \in Nat /\ k # None
        /\ \A k \in Words \ Authority!Keys : k = None \/ k = Authority!Bad
    BY NoneIsNoKey, KeysExist DEF Words, Authority!Keys, Authority!Bad
  <1>2. None \in Ops /\ "register" \in Ops /\ "rotate" \in Ops /\ "retire" \in Ops
    BY DEF Ops
  <1>3. Authority!NoCommand \in Orders
    BY <1>1, <1>2 DEF Orders, Authority!NoCommand
  <1>4. \A r \in Orders, o \in Ops, k \in Words :
         [r EXCEPT !.op = o] \in Orders /\ [r EXCEPT !.key = k] \in Orders
    BY DEF Orders
  <1>5. QED
    BY <1>1, <1>2, <1>3, <1>4 DEF Points

(* The initial states. *)
LEMMA AuthorityInit == Authority!Init => AuthorityInv
  <1> SUFFICES ASSUME Authority!Init PROVE AuthorityInv
    OBVIOUS
  <1>1. AuthorityTypes
    <2>1. 1 \in Authority!Keys
      BY KeysExist DEF Authority!Keys
    <2>2. QED
      BY <2>1, AuthorityWords DEF Authority!Init, AuthorityTypes, Publishing, Authority!Procs
  <1>2. Exclusive /\ Intended /\ Confirmed
    BY DEF Authority!Init, Exclusive, Intended, Confirmed, Authority!Procs, Publishing
  <1>3. Followed
    BY DEF Authority!Init, Followed, Authority!Bad
  <1>4. QED
    BY <1>1, <1>2, <1>3 DEF AuthorityInv

(* One step. *)
LEMMA AuthorityStep == AuthorityInv /\ Authority!Next => AuthorityInv'
  <1> SUFFICES ASSUME AuthorityInv, Authority!Next PROVE AuthorityInv'
    OBVIOUS
  <1> USE NoneIsNobody, NoneIsNoIntent
  <1>1. ASSUME NEW c \in Admins, Authority!Register(c)
        PROVE  AuthorityInv'
    <2>1. AuthorityTypes'
      BY <1>1, AuthorityWords DEF AuthorityInv, AuthorityTypes, Orders, Authority!Register,
         Authority!At, Authority!Goto, Authority!authority, Authority!backend, Authority!Procs,
         Authority!Take, Publishing
    <2>2. Exclusive'
      BY <1>1 DEF AuthorityInv, Exclusive, AuthorityTypes, Authority!Register, Authority!At,
         Authority!Goto, Authority!authority, Authority!backend, Authority!Procs, Authority!Take,
         Publishing
    <2>3. Intended'
      BY <1>1, <2>1, <2>2 DEF AuthorityInv, AuthorityTypes, Exclusive, Intended, Confirmed,
         Followed, Authority!Register, Authority!At, Authority!Goto, Authority!authority,
         Authority!backend, Authority!Procs, Authority!Take, Publishing
    <2>4. Confirmed'
      BY <1>1, <2>1, <2>2 DEF AuthorityInv, AuthorityTypes, Exclusive, Intended, Confirmed,
         Followed, Authority!Register, Authority!At, Authority!Goto, Authority!authority,
         Authority!backend, Authority!Procs, Authority!Take, Publishing
    <2>5. Followed'
      BY <1>1, <2>1, <2>2 DEF AuthorityInv, AuthorityTypes, Exclusive, Intended, Confirmed,
         Followed, Authority!Register, Authority!At, Authority!Goto, Authority!authority,
         Authority!backend, Authority!Procs, Authority!Take, Publishing
    <2>6. QED
      BY <2>1, <2>2, <2>3, <2>4, <2>5 DEF AuthorityInv
  <1>2. ASSUME NEW c \in Admins, Authority!Get(c)
        PROVE  AuthorityInv'
    <2>1. AuthorityTypes'
      BY <1>2, AuthorityWords DEF AuthorityInv, AuthorityTypes, Orders, Authority!Get,
         Authority!At, Authority!Goto, Authority!authority, Authority!backend, Authority!Procs,
         Publishing
    <2>2. Exclusive'
      BY <1>2 DEF AuthorityInv, Exclusive, AuthorityTypes, Authority!Get, Authority!At,
         Authority!Goto, Authority!authority, Authority!backend, Authority!Procs, Publishing
    <2>3. Intended'
      BY <1>2, <2>1, <2>2 DEF AuthorityInv, AuthorityTypes, Exclusive, Intended, Confirmed,
         Followed, Authority!Get, Authority!At, Authority!Goto, Authority!authority,
         Authority!backend, Authority!Procs, Publishing
    <2>4. Confirmed'
      BY <1>2, <2>1, <2>2 DEF AuthorityInv, AuthorityTypes, Exclusive, Intended, Confirmed,
         Followed, Authority!Get, Authority!At, Authority!Goto, Authority!authority,
         Authority!backend, Authority!Procs, Publishing
    <2>5. Followed'
      BY <1>2, <2>1, <2>2 DEF AuthorityInv, AuthorityTypes, Exclusive, Intended, Confirmed,
         Followed, Authority!Get, Authority!At, Authority!Goto, Authority!authority,
         Authority!backend, Authority!Procs, Publishing
    <2>6. QED
      BY <2>1, <2>2, <2>3, <2>4, <2>5 DEF AuthorityInv
  <1>3. ASSUME NEW c \in Admins, Authority!Create(c)
        PROVE  AuthorityInv'
    <2>1. AuthorityTypes'
      BY <1>3, AuthorityWords DEF AuthorityInv, AuthorityTypes, Orders, Authority!Create,
         Authority!At, Authority!Goto, Authority!authority, Authority!backend, Authority!Procs,
         Authority!Generates, Publishing
    <2>2. Exclusive'
      BY <1>3 DEF AuthorityInv, Exclusive, AuthorityTypes, Authority!Create, Authority!At,
         Authority!Goto, Authority!authority, Authority!backend, Authority!Procs,
         Authority!Generates, Publishing
    <2>3. Intended'
      BY <1>3, <2>1, <2>2 DEF AuthorityInv, AuthorityTypes, Exclusive, Intended, Confirmed,
         Followed, Authority!Create, Authority!At, Authority!Goto, Authority!authority,
         Authority!backend, Authority!Procs, Authority!Generates, Publishing
    <2>4. Confirmed'
      BY <1>3, <2>1, <2>2 DEF AuthorityInv, AuthorityTypes, Exclusive, Intended, Confirmed,
         Followed, Authority!Create, Authority!At, Authority!Goto, Authority!authority,
         Authority!backend, Authority!Procs, Authority!Generates, Publishing
    <2>5. Followed'
      BY <1>3, <2>1, AuthorityWords DEF AuthorityInv, AuthorityTypes, Followed,
         Authority!Create, Authority!At, Authority!Goto, Authority!authority, Authority!backend,
         Authority!Procs, Authority!Generates, Publishing
    <2>6. QED
      BY <2>1, <2>2, <2>3, <2>4, <2>5 DEF AuthorityInv
  <1>4. ASSUME NEW c \in Admins, Authority!Repair(c)
        PROVE  AuthorityInv'
    <2>1. AuthorityTypes'
      BY <1>4, AuthorityWords DEF AuthorityInv, AuthorityTypes, Orders, Authority!Repair,
         Authority!At, Authority!Goto, Authority!authority, Authority!backend, Authority!Procs,
         Authority!Generates, Publishing
    <2>2. Exclusive'
      BY <1>4 DEF AuthorityInv, Exclusive, AuthorityTypes, Authority!Repair, Authority!At,
         Authority!Goto, Authority!authority, Authority!backend, Authority!Procs,
         Authority!Generates, Publishing
    <2>3. Intended'
      BY <1>4, <2>1, <2>2 DEF AuthorityInv, AuthorityTypes, Exclusive, Intended, Confirmed,
         Followed, Authority!Repair, Authority!At, Authority!Goto, Authority!authority,
         Authority!backend, Authority!Procs, Authority!Generates, Publishing
    <2>4. Confirmed'
      BY <1>4, <2>1, <2>2 DEF AuthorityInv, AuthorityTypes, Exclusive, Intended, Confirmed,
         Followed, Authority!Repair, Authority!At, Authority!Goto, Authority!authority,
         Authority!backend, Authority!Procs, Authority!Generates, Publishing
    <2>5. Followed'
      BY <1>4, <2>1, AuthorityWords DEF AuthorityInv, AuthorityTypes, Followed,
         Authority!Repair, Authority!At, Authority!Goto, Authority!authority, Authority!backend,
         Authority!Procs, Authority!Generates, Publishing
    <2>6. QED
      BY <2>1, <2>2, <2>3, <2>4, <2>5 DEF AuthorityInv
  <1>5. ASSUME NEW c \in Admins, Authority!Confirm(c)
        PROVE  AuthorityInv'
    <2>1. AuthorityTypes'
      BY <1>5, AuthorityWords DEF AuthorityInv, AuthorityTypes, Orders, Authority!Confirm,
         Authority!At, Authority!Goto, Authority!authority, Authority!backend, Authority!Procs,
         Publishing
    <2>2. Exclusive'
      BY <1>5 DEF AuthorityInv, Exclusive, AuthorityTypes, Authority!Confirm, Authority!At,
         Authority!Goto, Authority!authority, Authority!backend, Authority!Procs, Publishing
    <2>3. Intended'
      BY <1>5, <2>1, <2>2 DEF AuthorityInv, AuthorityTypes, Exclusive, Intended, Confirmed,
         Followed, Authority!Confirm, Authority!At, Authority!Goto, Authority!authority,
         Authority!backend, Authority!Procs, Publishing
    <2>4. Confirmed'
      BY <1>5, <2>1, <2>2 DEF AuthorityInv, AuthorityTypes, Exclusive, Intended, Confirmed,
         Followed, Authority!Confirm, Authority!At, Authority!Goto, Authority!authority,
         Authority!backend, Authority!Procs, Publishing
    <2>5. Followed'
      BY <1>5, <2>1, <2>2 DEF AuthorityInv, AuthorityTypes, Exclusive, Intended, Confirmed,
         Followed, Authority!Confirm, Authority!At, Authority!Goto, Authority!authority,
         Authority!backend, Authority!Procs, Publishing
    <2>6. QED
      BY <2>1, <2>2, <2>3, <2>4, <2>5 DEF AuthorityInv
  <1>6. ASSUME NEW c \in Admins, Authority!Keep(c)
        PROVE  AuthorityInv'
    <2>1. AuthorityTypes'
      BY <1>6, AuthorityWords DEF AuthorityInv, AuthorityTypes, Orders, Authority!Keep,
         Authority!At, Authority!Goto, Authority!authority, Authority!backend, Authority!Procs,
         Publishing
    <2>2. Exclusive'
      BY <1>6 DEF AuthorityInv, Exclusive, AuthorityTypes, Authority!Keep, Authority!At,
         Authority!Goto, Authority!authority, Authority!backend, Authority!Procs, Publishing
    <2>3. Intended'
      BY <1>6, <2>1, <2>2 DEF AuthorityInv, AuthorityTypes, Exclusive, Intended, Confirmed,
         Followed, Authority!Keep, Authority!At, Authority!Goto, Authority!authority,
         Authority!backend, Authority!Procs, Publishing
    <2>4. Confirmed'
      BY <1>6, <2>1, <2>2 DEF AuthorityInv, AuthorityTypes, Exclusive, Intended, Confirmed,
         Followed, Authority!Keep, Authority!At, Authority!Goto, Authority!authority,
         Authority!backend, Authority!Procs, Publishing
    <2>5. Followed'
      BY <1>6, <2>1, <2>2 DEF AuthorityInv, AuthorityTypes, Exclusive, Intended, Confirmed,
         Followed, Authority!Keep, Authority!At, Authority!Goto, Authority!authority,
         Authority!backend, Authority!Procs, Publishing
    <2>6. QED
      BY <2>1, <2>2, <2>3, <2>4, <2>5 DEF AuthorityInv
  <1>7. ASSUME NEW c \in Admins, Authority!Bind(c)
        PROVE  AuthorityInv'
    <2>1. AuthorityTypes'
      BY <1>7, AuthorityWords DEF AuthorityInv, AuthorityTypes, Orders, Authority!Bind,
         Authority!At, Authority!Goto, Authority!authority, Authority!backend, Authority!Procs,
         Publishing
    <2>2. Exclusive'
      BY <1>7 DEF AuthorityInv, Exclusive, AuthorityTypes, Authority!Bind, Authority!At,
         Authority!Goto, Authority!authority, Authority!backend, Authority!Procs, Publishing
    <2>3. Intended'
      BY <1>7, <2>1, <2>2 DEF AuthorityInv, AuthorityTypes, Exclusive, Intended, Confirmed,
         Followed, Authority!Bind, Authority!At, Authority!Goto, Authority!authority,
         Authority!backend, Authority!Procs, Publishing
    <2>4. Confirmed'
      BY <1>7, <2>1, <2>2 DEF AuthorityInv, AuthorityTypes, Exclusive, Intended, Confirmed,
         Followed, Authority!Bind, Authority!At, Authority!Goto, Authority!authority,
         Authority!backend, Authority!Procs, Publishing
    <2>5. Followed'
      BY <1>7, <2>1, <2>2 DEF AuthorityInv, AuthorityTypes, Exclusive, Intended, Confirmed,
         Followed, Authority!Bind, Authority!At, Authority!Goto, Authority!authority,
         Authority!backend, Authority!Procs, Publishing
    <2>6. QED
      BY <2>1, <2>2, <2>3, <2>4, <2>5 DEF AuthorityInv
  <1>8. ASSUME NEW c \in Admins, Authority!Activate(c)
        PROVE  AuthorityInv'
    <2>1. AuthorityTypes'
      BY <1>8, AuthorityWords DEF AuthorityInv, AuthorityTypes, Orders, Authority!Activate,
         Authority!At, Authority!Goto, Authority!authority, Authority!backend, Authority!Procs,
         Authority!Leave, Authority!NoCommand, Publishing
    <2>2. Exclusive'
      BY <1>8 DEF AuthorityInv, Exclusive, AuthorityTypes, Authority!Activate, Authority!At,
         Authority!Goto, Authority!authority, Authority!backend, Authority!Procs, Authority!Leave,
         Authority!NoCommand, Publishing
    <2>3. Intended'
      BY <1>8, <2>1, <2>2 DEF AuthorityInv, AuthorityTypes, Exclusive, Intended, Confirmed,
         Followed, Authority!Activate, Authority!At, Authority!Goto, Authority!authority,
         Authority!backend, Authority!Procs, Authority!Leave, Authority!NoCommand, Publishing
    <2>4. Confirmed'
      BY <1>8, <2>1, <2>2 DEF AuthorityInv, AuthorityTypes, Exclusive, Intended, Confirmed,
         Followed, Authority!Activate, Authority!At, Authority!Goto, Authority!authority,
         Authority!backend, Authority!Procs, Authority!Leave, Authority!NoCommand, Publishing
    <2>5. Followed'
      BY <1>8, <2>1, <2>2 DEF AuthorityInv, AuthorityTypes, Exclusive, Intended, Confirmed,
         Followed, Authority!Activate, Authority!At, Authority!Goto, Authority!authority,
         Authority!backend, Authority!Procs, Authority!Leave, Authority!NoCommand, Publishing
    <2>6. QED
      BY <2>1, <2>2, <2>3, <2>4, <2>5 DEF AuthorityInv
  <1>9. ASSUME NEW c \in Admins, Authority!Rotate(c)
        PROVE  AuthorityInv'
    <2>1. AuthorityTypes'
      BY <1>9, AuthorityWords DEF AuthorityInv, AuthorityTypes, Orders, Authority!Rotate,
         Authority!At, Authority!Goto, Authority!authority, Authority!backend, Authority!Procs,
         Authority!Take, Publishing
    <2>2. Exclusive'
      BY <1>9 DEF AuthorityInv, Exclusive, AuthorityTypes, Authority!Rotate, Authority!At,
         Authority!Goto, Authority!authority, Authority!backend, Authority!Procs, Authority!Take,
         Publishing
    <2>3. Intended'
      BY <1>9, <2>1, <2>2 DEF AuthorityInv, AuthorityTypes, Exclusive, Intended, Confirmed,
         Followed, Authority!Rotate, Authority!At, Authority!Goto, Authority!authority,
         Authority!backend, Authority!Procs, Authority!Take, Publishing
    <2>4. Confirmed'
      BY <1>9, <2>1, <2>2 DEF AuthorityInv, AuthorityTypes, Exclusive, Intended, Confirmed,
         Followed, Authority!Rotate, Authority!At, Authority!Goto, Authority!authority,
         Authority!backend, Authority!Procs, Authority!Take, Publishing
    <2>5. Followed'
      BY <1>9, <2>1, <2>2 DEF AuthorityInv, AuthorityTypes, Exclusive, Intended, Confirmed,
         Followed, Authority!Rotate, Authority!At, Authority!Goto, Authority!authority,
         Authority!backend, Authority!Procs, Authority!Take, Publishing
    <2>6. QED
      BY <2>1, <2>2, <2>3, <2>4, <2>5 DEF AuthorityInv
  <1>10. ASSUME NEW c \in Admins, Authority!Intent(c)
        PROVE  AuthorityInv'
    <2>1. AuthorityTypes'
      BY <1>10, AuthorityWords DEF AuthorityInv, AuthorityTypes, Orders, Authority!Intent,
         Authority!At, Authority!Goto, Authority!authority, Authority!backend, Authority!Procs,
         Publishing
    <2>2. Exclusive'
      BY <1>10 DEF AuthorityInv, Exclusive, AuthorityTypes, Authority!Intent, Authority!At,
         Authority!Goto, Authority!authority, Authority!backend, Authority!Procs, Publishing
    <2>3. Intended'
      <3>1. view \in Words /\ [prior |-> view] \in [prior : Words]
        BY DEF AuthorityInv, AuthorityTypes
      <3>2. journal' # None
        BY <1>10, <3>1, NoneIsNoIntent DEF Authority!Intent
      <3>3. QED
        BY <1>10, <2>1, <2>2, <3>2 DEF AuthorityInv, AuthorityTypes, Exclusive, Intended,
           Authority!Intent, Authority!At, Authority!Goto, Authority!Procs, Publishing
    <2>4. Confirmed'
      BY <1>10, <2>1, <2>2 DEF AuthorityInv, AuthorityTypes, Exclusive, Intended, Confirmed,
         Followed, Authority!Intent, Authority!At, Authority!Goto, Authority!authority,
         Authority!backend, Authority!Procs, Publishing
    <2>5. Followed'
      BY <1>10, <2>1, <2>2 DEF AuthorityInv, AuthorityTypes, Exclusive, Intended, Confirmed,
         Followed, Authority!Intent, Authority!At, Authority!Goto, Authority!authority,
         Authority!backend, Authority!Procs, Publishing
    <2>6. QED
      BY <2>1, <2>2, <2>3, <2>4, <2>5 DEF AuthorityInv
  <1>11. ASSUME NEW c \in Admins, Authority!Compare(c)
        PROVE  AuthorityInv'
    <2>1. AuthorityTypes'
      BY <1>11, AuthorityWords DEF AuthorityInv, AuthorityTypes, Orders, Authority!Compare,
         Authority!At, Authority!Goto, Authority!authority, Authority!backend, Authority!Procs,
         Publishing
    <2>2. Exclusive'
      BY <1>11 DEF AuthorityInv, Exclusive, AuthorityTypes, Authority!Compare, Authority!At,
         Authority!Goto, Authority!authority, Authority!backend, Authority!Procs, Publishing
    <2>3. Intended'
      BY <1>11, <2>1, <2>2 DEF AuthorityInv, AuthorityTypes, Exclusive, Intended, Confirmed,
         Followed, Authority!Compare, Authority!At, Authority!Goto, Authority!authority,
         Authority!backend, Authority!Procs, Publishing
    <2>4. Confirmed'
      BY <1>11, <2>1, <2>2 DEF AuthorityInv, AuthorityTypes, Exclusive, Intended, Confirmed,
         Followed, Authority!Compare, Authority!At, Authority!Goto, Authority!authority,
         Authority!backend, Authority!Procs, Publishing
    <2>5. Followed'
      BY <1>11, <2>1, <2>2 DEF AuthorityInv, AuthorityTypes, Exclusive, Intended, Confirmed,
         Followed, Authority!Compare, Authority!At, Authority!Goto, Authority!authority,
         Authority!backend, Authority!Procs, Publishing
    <2>6. QED
      BY <2>1, <2>2, <2>3, <2>4, <2>5 DEF AuthorityInv
  <1>12. ASSUME NEW c \in Admins, Authority!Delete(c)
        PROVE  AuthorityInv'
    <2>1. AuthorityTypes'
      BY <1>12, AuthorityWords DEF AuthorityInv, AuthorityTypes, Orders, Authority!Delete,
         Authority!At, Authority!Goto, Authority!authority, Authority!backend, Authority!Procs,
         Publishing
    <2>2. Exclusive'
      BY <1>12 DEF AuthorityInv, Exclusive, AuthorityTypes, Authority!Delete, Authority!At,
         Authority!Goto, Authority!authority, Authority!backend, Authority!Procs, Publishing
    <2>3. Intended'
      BY <1>12, <2>1, <2>2 DEF AuthorityInv, AuthorityTypes, Exclusive, Intended, Confirmed,
         Followed, Authority!Delete, Authority!At, Authority!Goto, Authority!authority,
         Authority!backend, Authority!Procs, Publishing
    <2>4. Confirmed'
      BY <1>12, <2>1, <2>2 DEF AuthorityInv, AuthorityTypes, Exclusive, Intended, Confirmed,
         Followed, Authority!Delete, Authority!At, Authority!Goto, Authority!authority,
         Authority!backend, Authority!Procs, Publishing
    <2>5. Followed'
      BY <1>12, <2>1, <2>2 DEF AuthorityInv, AuthorityTypes, Exclusive, Intended, Confirmed,
         Followed, Authority!Delete, Authority!At, Authority!Goto, Authority!authority,
         Authority!backend, Authority!Procs, Publishing
    <2>6. QED
      BY <2>1, <2>2, <2>3, <2>4, <2>5 DEF AuthorityInv
  <1>13. ASSUME NEW c \in Admins, Authority!Replace(c)
        PROVE  AuthorityInv'
    <2>1. AuthorityTypes'
      BY <1>13, AuthorityWords DEF AuthorityInv, AuthorityTypes, Orders, Authority!Replace,
         Authority!At, Authority!Goto, Authority!authority, Authority!backend, Authority!Procs,
         Publishing
    <2>2. Exclusive'
      BY <1>13 DEF AuthorityInv, Exclusive, AuthorityTypes, Authority!Replace, Authority!At,
         Authority!Goto, Authority!authority, Authority!backend, Authority!Procs, Publishing
    <2>3. Intended'
      BY <1>13, <2>1, <2>2 DEF AuthorityInv, AuthorityTypes, Exclusive, Intended, Confirmed,
         Followed, Authority!Replace, Authority!At, Authority!Goto, Authority!authority,
         Authority!backend, Authority!Procs, Publishing
    <2>4. Confirmed'
      BY <1>13, <2>1, <2>2 DEF AuthorityInv, AuthorityTypes, Exclusive, Intended, Confirmed,
         Followed, Authority!Replace, Authority!At, Authority!Goto, Authority!authority,
         Authority!backend, Authority!Procs, Publishing
    <2>5. Followed'
      BY <1>13, <2>1, <2>2 DEF AuthorityInv, AuthorityTypes, Exclusive, Intended, Confirmed,
         Followed, Authority!Replace, Authority!At, Authority!Goto, Authority!authority,
         Authority!backend, Authority!Procs, Publishing
    <2>6. QED
      BY <2>1, <2>2, <2>3, <2>4, <2>5 DEF AuthorityInv
  <1>14. ASSUME NEW c \in Admins, Authority!Clear(c)
        PROVE  AuthorityInv'
    <2>1. AuthorityTypes'
      BY <1>14, AuthorityWords DEF AuthorityInv, AuthorityTypes, Orders, Authority!Clear,
         Authority!At, Authority!Goto, Authority!authority, Authority!backend, Authority!Procs,
         Authority!Leave, Authority!NoCommand, Publishing
    <2>2. Exclusive'
      BY <1>14 DEF AuthorityInv, Exclusive, AuthorityTypes, Authority!Clear, Authority!At,
         Authority!Goto, Authority!authority, Authority!backend, Authority!Procs, Authority!Leave,
         Authority!NoCommand, Publishing
    <2>3. Intended'
      BY <1>14, <2>1, <2>2 DEF AuthorityInv, AuthorityTypes, Exclusive, Intended, Confirmed,
         Followed, Authority!Clear, Authority!At, Authority!Goto, Authority!authority,
         Authority!backend, Authority!Procs, Authority!Leave, Authority!NoCommand, Publishing
    <2>4. Confirmed'
      BY <1>14, <2>1, <2>2 DEF AuthorityInv, AuthorityTypes, Exclusive, Intended, Confirmed,
         Followed, Authority!Clear, Authority!At, Authority!Goto, Authority!authority,
         Authority!backend, Authority!Procs, Authority!Leave, Authority!NoCommand, Publishing
    <2>5. Followed'
      BY <1>14, <2>1, <2>2 DEF AuthorityInv, AuthorityTypes, Exclusive, Intended, Confirmed,
         Followed, Authority!Clear, Authority!At, Authority!Goto, Authority!authority,
         Authority!backend, Authority!Procs, Authority!Leave, Authority!NoCommand, Publishing
    <2>6. QED
      BY <2>1, <2>2, <2>3, <2>4, <2>5 DEF AuthorityInv
  <1>15. ASSUME NEW c \in Admins, Authority!StartRetire(c)
        PROVE  AuthorityInv'
    <2>1. AuthorityTypes'
      BY <1>15, AuthorityWords DEF AuthorityInv, AuthorityTypes, Orders, Authority!StartRetire,
         Authority!At, Authority!Goto, Authority!authority, Authority!backend, Authority!Procs,
         Authority!Take, Publishing
    <2>2. Exclusive'
      BY <1>15 DEF AuthorityInv, Exclusive, AuthorityTypes, Authority!StartRetire, Authority!At,
         Authority!Goto, Authority!authority, Authority!backend, Authority!Procs, Authority!Take,
         Publishing
    <2>3. Intended'
      BY <1>15, <2>1, <2>2 DEF AuthorityInv, AuthorityTypes, Exclusive, Intended, Confirmed,
         Followed, Authority!StartRetire, Authority!At, Authority!Goto, Authority!authority,
         Authority!backend, Authority!Procs, Authority!Take, Publishing
    <2>4. Confirmed'
      BY <1>15, <2>1, <2>2 DEF AuthorityInv, AuthorityTypes, Exclusive, Intended, Confirmed,
         Followed, Authority!StartRetire, Authority!At, Authority!Goto, Authority!authority,
         Authority!backend, Authority!Procs, Authority!Take, Publishing
    <2>5. Followed'
      BY <1>15, <2>1, <2>2 DEF AuthorityInv, AuthorityTypes, Exclusive, Intended, Confirmed,
         Followed, Authority!StartRetire, Authority!At, Authority!Goto, Authority!authority,
         Authority!backend, Authority!Procs, Authority!Take, Publishing
    <2>6. QED
      BY <2>1, <2>2, <2>3, <2>4, <2>5 DEF AuthorityInv
  <1>16. ASSUME NEW c \in Admins, Authority!Retire(c)
        PROVE  AuthorityInv'
    <2>1. AuthorityTypes'
      BY <1>16, AuthorityWords DEF AuthorityInv, AuthorityTypes, Orders, Authority!Retire,
         Authority!At, Authority!Goto, Authority!authority, Authority!backend, Authority!Procs,
         Authority!Leave, Authority!NoCommand, Publishing
    <2>2. Exclusive'
      BY <1>16 DEF AuthorityInv, Exclusive, AuthorityTypes, Authority!Retire, Authority!At,
         Authority!Goto, Authority!authority, Authority!backend, Authority!Procs, Authority!Leave,
         Authority!NoCommand, Publishing
    <2>3. Intended'
      BY <1>16, <2>1, <2>2 DEF AuthorityInv, AuthorityTypes, Exclusive, Intended, Confirmed,
         Followed, Authority!Retire, Authority!At, Authority!Goto, Authority!authority,
         Authority!backend, Authority!Procs, Authority!Leave, Authority!NoCommand, Publishing
    <2>4. Confirmed'
      BY <1>16, <2>1, <2>2 DEF AuthorityInv, AuthorityTypes, Exclusive, Intended, Confirmed,
         Followed, Authority!Retire, Authority!At, Authority!Goto, Authority!authority,
         Authority!backend, Authority!Procs, Authority!Leave, Authority!NoCommand, Publishing
    <2>5. Followed'
      BY <1>16, <2>1, <2>2 DEF AuthorityInv, AuthorityTypes, Exclusive, Intended, Confirmed,
         Followed, Authority!Retire, Authority!At, Authority!Goto, Authority!authority,
         Authority!backend, Authority!Procs, Authority!Leave, Authority!NoCommand, Publishing
    <2>6. QED
      BY <2>1, <2>2, <2>3, <2>4, <2>5 DEF AuthorityInv
  <1>17. ASSUME NEW p \in Publishing, Authority!Lock(p)
        PROVE  AuthorityInv'
    <2>1. AuthorityTypes'
      BY <1>17, AuthorityWords DEF AuthorityInv, AuthorityTypes, Orders, Authority!Lock,
         Authority!At, Authority!Goto, Authority!authority, Authority!backend, Authority!Procs,
         Authority!Take, Publishing
    <2>2. Exclusive'
      BY <1>17 DEF AuthorityInv, Exclusive, AuthorityTypes, Authority!Lock, Authority!At,
         Authority!Goto, Authority!authority, Authority!backend, Authority!Procs, Authority!Take,
         Publishing
    <2>3. Intended'
      BY <1>17, <2>1, <2>2 DEF AuthorityInv, AuthorityTypes, Exclusive, Intended, Confirmed,
         Followed, Authority!Lock, Authority!At, Authority!Goto, Authority!authority,
         Authority!backend, Authority!Procs, Authority!Take, Publishing
    <2>4. Confirmed'
      BY <1>17, <2>1, <2>2 DEF AuthorityInv, AuthorityTypes, Exclusive, Intended, Confirmed,
         Followed, Authority!Lock, Authority!At, Authority!Goto, Authority!authority,
         Authority!backend, Authority!Procs, Authority!Take, Publishing
    <2>5. Followed'
      BY <1>17, <2>1, <2>2 DEF AuthorityInv, AuthorityTypes, Exclusive, Intended, Confirmed,
         Followed, Authority!Lock, Authority!At, Authority!Goto, Authority!authority,
         Authority!backend, Authority!Procs, Authority!Take, Publishing
    <2>6. QED
      BY <2>1, <2>2, <2>3, <2>4, <2>5 DEF AuthorityInv
  <1>18. ASSUME NEW p \in Publishing, Authority!Load(p)
        PROVE  AuthorityInv'
    <2>1. AuthorityTypes'
      BY <1>18, AuthorityWords DEF AuthorityInv, AuthorityTypes, Orders, Authority!Load,
         Authority!At, Authority!Goto, Authority!authority, Authority!backend, Authority!Procs,
         Publishing
    <2>2. Exclusive'
      BY <1>18 DEF AuthorityInv, Exclusive, AuthorityTypes, Authority!Load, Authority!At,
         Authority!Goto, Authority!authority, Authority!backend, Authority!Procs, Publishing
    <2>3. Intended'
      BY <1>18, <2>1, <2>2 DEF AuthorityInv, AuthorityTypes, Exclusive, Intended, Confirmed,
         Followed, Authority!Load, Authority!At, Authority!Goto, Authority!authority,
         Authority!backend, Authority!Procs, Publishing
    <2>4. Confirmed'
      BY <1>18, <2>1, <2>2 DEF AuthorityInv, AuthorityTypes, Exclusive, Intended, Confirmed,
         Followed, Authority!Load, Authority!At, Authority!Goto, Authority!authority,
         Authority!backend, Authority!Procs, Publishing
    <2>5. Followed'
      BY <1>18, <2>1, <2>2 DEF AuthorityInv, AuthorityTypes, Exclusive, Intended, Confirmed,
         Followed, Authority!Load, Authority!At, Authority!Goto, Authority!authority,
         Authority!backend, Authority!Procs, Publishing
    <2>6. QED
      BY <2>1, <2>2, <2>3, <2>4, <2>5 DEF AuthorityInv
  <1>19. ASSUME NEW p \in Publishing, Authority!Upload(p)
        PROVE  AuthorityInv'
    <2>1. AuthorityTypes'
      BY <1>19, AuthorityWords DEF AuthorityInv, AuthorityTypes, Orders, Authority!Upload,
         Authority!At, Authority!Goto, Authority!authority, Authority!backend, Authority!Procs,
         Authority!Leave, Authority!NoCommand, Publishing
    <2>2. Exclusive'
      BY <1>19 DEF AuthorityInv, Exclusive, AuthorityTypes, Authority!Upload, Authority!At,
         Authority!Goto, Authority!authority, Authority!backend, Authority!Procs, Authority!Leave,
         Authority!NoCommand, Publishing
    <2>3. Intended'
      BY <1>19, <2>1, <2>2 DEF AuthorityInv, AuthorityTypes, Exclusive, Intended, Confirmed,
         Followed, Authority!Upload, Authority!At, Authority!Goto, Authority!authority,
         Authority!backend, Authority!Procs, Authority!Leave, Authority!NoCommand, Publishing
    <2>4. Confirmed'
      BY <1>19, <2>1, <2>2 DEF AuthorityInv, AuthorityTypes, Exclusive, Intended, Confirmed,
         Followed, Authority!Upload, Authority!At, Authority!Goto, Authority!authority,
         Authority!backend, Authority!Procs, Authority!Leave, Authority!NoCommand, Publishing
    <2>5. Followed'
      BY <1>19, <2>1, <2>2 DEF AuthorityInv, AuthorityTypes, Exclusive, Intended, Confirmed,
         Followed, Authority!Upload, Authority!At, Authority!Goto, Authority!authority,
         Authority!backend, Authority!Procs, Authority!Leave, Authority!NoCommand, Publishing
    <2>6. QED
      BY <2>1, <2>2, <2>3, <2>4, <2>5 DEF AuthorityInv
  <1>20. ASSUME NEW p \in Publishing, Authority!Fail(p)
        PROVE  AuthorityInv'
    <2>1. AuthorityTypes'
      BY <1>20, AuthorityWords DEF AuthorityInv, AuthorityTypes, Orders, Authority!Fail,
         Authority!At, Authority!Goto, Authority!authority, Authority!backend, Authority!Procs,
         Authority!Leave, Authority!NoCommand, Publishing
    <2>2. Exclusive'
      BY <1>20 DEF AuthorityInv, Exclusive, AuthorityTypes, Authority!Fail, Authority!At,
         Authority!Goto, Authority!authority, Authority!backend, Authority!Procs, Authority!Leave,
         Authority!NoCommand, Publishing
    <2>3. Intended'
      BY <1>20, <2>1, <2>2 DEF AuthorityInv, AuthorityTypes, Exclusive, Intended, Confirmed,
         Followed, Authority!Fail, Authority!At, Authority!Goto, Authority!authority,
         Authority!backend, Authority!Procs, Authority!Leave, Authority!NoCommand, Publishing
    <2>4. Confirmed'
      BY <1>20, <2>1, <2>2 DEF AuthorityInv, AuthorityTypes, Exclusive, Intended, Confirmed,
         Followed, Authority!Fail, Authority!At, Authority!Goto, Authority!authority,
         Authority!backend, Authority!Procs, Authority!Leave, Authority!NoCommand, Publishing
    <2>5. Followed'
      BY <1>20, <2>1, <2>2 DEF AuthorityInv, AuthorityTypes, Exclusive, Intended, Confirmed,
         Followed, Authority!Fail, Authority!At, Authority!Goto, Authority!authority,
         Authority!backend, Authority!Procs, Authority!Leave, Authority!NoCommand, Publishing
    <2>6. QED
      BY <2>1, <2>2, <2>3, <2>4, <2>5 DEF AuthorityInv
  <1>21. ASSUME Authority!LateDelete
        PROVE  AuthorityInv'
    <2>1. AuthorityTypes'
      BY <1>21, AuthorityWords DEF AuthorityInv, AuthorityTypes, Orders, Authority!LateDelete,
         Authority!At, Authority!Goto, Authority!authority, Authority!backend, Authority!Procs
    <2>2. Exclusive'
      BY <1>21 DEF AuthorityInv, Exclusive, AuthorityTypes, Authority!LateDelete, Authority!At,
         Authority!Goto, Authority!authority, Authority!backend, Authority!Procs
    <2>3. Intended'
      BY <1>21, <2>1, <2>2 DEF AuthorityInv, AuthorityTypes, Exclusive, Intended, Confirmed,
         Followed, Authority!LateDelete, Authority!At, Authority!Goto, Authority!authority,
         Authority!backend, Authority!Procs
    <2>4. Confirmed'
      BY <1>21, <2>1, <2>2 DEF AuthorityInv, AuthorityTypes, Exclusive, Intended, Confirmed,
         Followed, Authority!LateDelete, Authority!At, Authority!Goto, Authority!authority,
         Authority!backend, Authority!Procs
    <2>5. Followed'
      BY <1>21, <2>1, <2>2 DEF AuthorityInv, AuthorityTypes, Exclusive, Intended, Confirmed,
         Followed, Authority!LateDelete, Authority!At, Authority!Goto, Authority!authority,
         Authority!backend, Authority!Procs
    <2>6. QED
      BY <2>1, <2>2, <2>3, <2>4, <2>5 DEF AuthorityInv
  <1>22. ASSUME Authority!LateCreate
        PROVE  AuthorityInv'
    <2>1. AuthorityTypes'
      BY <1>22, AuthorityWords DEF AuthorityInv, AuthorityTypes, Orders, Authority!LateCreate,
         Authority!At, Authority!Goto, Authority!authority, Authority!backend, Authority!Procs,
         Authority!Generates
    <2>2. Exclusive'
      BY <1>22 DEF AuthorityInv, Exclusive, AuthorityTypes, Authority!LateCreate, Authority!At,
         Authority!Goto, Authority!authority, Authority!backend, Authority!Procs,
         Authority!Generates
    <2>3. Intended'
      BY <1>22, <2>1, <2>2 DEF AuthorityInv, AuthorityTypes, Exclusive, Intended, Confirmed,
         Followed, Authority!LateCreate, Authority!At, Authority!Goto, Authority!authority,
         Authority!backend, Authority!Procs, Authority!Generates
    <2>4. Confirmed'
      BY <1>22, <2>1, <2>2 DEF AuthorityInv, AuthorityTypes, Exclusive, Intended, Confirmed,
         Followed, Authority!LateCreate, Authority!At, Authority!Goto, Authority!authority,
         Authority!backend, Authority!Procs, Authority!Generates
    <2>5. Followed'
      BY <1>22, <2>1, <2>2 DEF AuthorityInv, AuthorityTypes, Exclusive, Intended, Confirmed,
         Followed, Authority!LateCreate, Authority!At, Authority!Goto, Authority!authority,
         Authority!backend, Authority!Procs, Authority!Generates
    <2>6. QED
      BY <2>1, <2>2, <2>3, <2>4, <2>5 DEF AuthorityInv
  <1>23. QED
    BY <1>1, <1>2, <1>3, <1>4, <1>5, <1>6, <1>7, <1>8, <1>9, <1>10, <1>11, <1>12, <1>13, <1>14,
       <1>15, <1>16, <1>17, <1>18, <1>19, <1>20, <1>21, <1>22 DEF Authority!Next,
       Authority!CommandStep, Authority!PublisherStep, Authority!Procs, Publishing

(* Only a deletion takes a view away. *)
LEMMA AuthoritySpares == AuthorityInv /\ Authority!Next /\ AuthorityInv' => Spares
  <1> SUFFICES ASSUME AuthorityInv, Authority!Next, AuthorityInv' PROVE Spares
    OBVIOUS
  <1>1. Authority!KeyFollowsView'
    BY DEF AuthorityInv, Followed, Authority!KeyFollowsView
  <1>2. CASE view' # None \/ view = None
    BY <1>1, <1>2 DEF Spares
  <1>3. ASSUME NEW c \in Admins, Authority!Delete(c) PROVE Spares
    BY <1>1, <1>3 DEF Spares, AuthorityInv, Intended, Authority!Delete, Authority!At
  <1>4. CASE Authority!LateDelete
    BY <1>1, <1>4 DEF Spares, Authority!LateDelete
  <1>5. ASSUME NEW c \in Admins, Authority!CommandStep(c), ~Authority!Delete(c)
        PROVE  view' = view \/ view' # None
    <2>1. \A k \in Authority!Keys : k # None
      BY AuthorityWords
    <2>2. QED
      BY <1>5, <2>1 DEF Authority!CommandStep, Authority!Register, Authority!Get,
         Authority!Create, Authority!Repair,
         Authority!Confirm, Authority!Keep, Authority!Bind, Authority!Activate, Authority!Rotate,
         Authority!Intent, Authority!Compare, Authority!Replace, Authority!Clear,
         Authority!StartRetire, Authority!Retire, Authority!Generates, Authority!backend
  <1>6. ASSUME NEW p \in Publishing, Authority!PublisherStep(p) \/ Authority!Fail(p)
        PROVE  view' = view
    BY <1>6 DEF Authority!PublisherStep, Authority!Lock, Authority!Load, Authority!Upload,
       Authority!Fail, Authority!backend
  <1>7. CASE Authority!LateCreate
    BY <1>1, <1>7, AuthorityWords DEF Spares, Authority!LateCreate, Authority!Generates
  <1>8. QED
    BY <1>2, <1>3, <1>4, <1>5, <1>6, <1>7
       DEF Authority!Next, Publishing, Authority!Procs

(* No retry of a rotation throws away the view that an earlier attempt      *)
(* created, and the recorded key follows the view, unless a request that    *)
(* outlived its client had a hand in it.                                    *)
THEOREM ReplacementKept == WorkspaceSpec => ReplacementSpared
  <1>1. WorkspaceInit => AuthorityInv
    BY AuthorityInit DEF WorkspaceInit
  <1>2. AuthorityInv /\ [WorkspaceNext]_all => AuthorityInv'
    <2> SUFFICES ASSUME AuthorityInv, [WorkspaceNext]_all PROVE AuthorityInv'
      OBVIOUS
    <2>1. CASE pick = "authority" /\ Authority!Next
      BY <2>1, AuthorityStep
    <2>2. CASE UNCHANGED authority
      BY <2>2 DEF authority, AuthorityInv, AuthorityTypes, Exclusive, Intended, Confirmed, Followed
    <2>3. QED
      BY <2>1, <2>2 DEF WorkspaceNext, all
  <1>3. AuthorityInv /\ [WorkspaceNext]_all /\ AuthorityInv' => [Spares]_Authority!vars
    <2> SUFFICES ASSUME AuthorityInv, [WorkspaceNext]_all, AuthorityInv'
                 PROVE  [Spares]_Authority!vars
      OBVIOUS
    <2>1. CASE pick = "authority" /\ Authority!Next
      BY <2>1, AuthoritySpares
    <2>2. CASE UNCHANGED authority
      BY <2>2 DEF authority, Authority!vars, Authority!authority, Authority!backend
    <2>3. QED
      BY <2>1, <2>2 DEF WorkspaceNext, all
  <1>4. QED
    BY <1>1, <1>2, <1>3, PTL DEF WorkspaceSpec, ReplacementSpared, Authority!ReplacementSpared,
       Spares

-----------------------------------------------------------------------------
(* DoltAdoption. *)

Copies == [items : SUBSET (Commits \cup Edits), whole : BOOLEAN]

Before == {"lock", "moving", "move", "checkpointed", "copy", "copied", "export", "exported"}

Migrating == {"clone", "cloned", "index", "fresh", "checkout", "checked out", "administration"}

Enabling == {"register", "restore", "imported", "provision", "enable"}

Complete(copy) == copy # None /\ copy.whole

Untouched == \A e \in Edits : files[e] = "none"

AdoptionTypes ==
    /\ original \in [at : {"source", "checkpoint"}, items : SUBSET Commits]
    /\ snapshot \in Copies \cup {None} /\ backup \in Copies \cup {None}
    /\ shared \in Copies \cup {None} /\ import \in Copies \cup {None}
    /\ private \in {None} \cup SUBSET (Commits \cup Edits)
    /\ files \in [Edits -> {"none", "changed", "staged", "committed"}]
    /\ registration \in {None, "restoring", "imported", "ready"}
    /\ place \in {None, "source", "partial", "destination"}

(* Nobody writes to the database once it was moved, and every complete copy *)
(* of it, or of a copy, was made since.                                     *)
Copied ==
    /\ open # {} => original.at = "source" /\ ~Adoption!Guarded
    /\ adopter \in {"checkpointed", "copy", "copied", "export", "exported"} =>
         original.at = "checkpoint"
    /\ \A copy \in {snapshot, backup} : Complete(copy) =>
         original.at = "checkpoint" /\ original.items \subseteq copy.items
    /\ adopter \in {"export", "exported"} => Complete(snapshot)

(* What is registered has an export and a worktree, and is not exported     *)
(* anew.                                                                    *)
Exported ==
    /\ adopter \in {"worktree"} \cup Migrating \cup Enabling => Complete(backup)
    /\ registration # None => Complete(backup) /\ private # None /\ adopter \notin Before
    /\ adopter \in Enabling => private # None
    /\ adopter \in {"restore", "imported", "provision", "enable"} => registration # None

(* The shared database is restored once, and whole from then on. *)
Restored ==
    /\ shared # None => registration # None
    /\ adopter = "restore" => shared = None /\ registration = "restoring"
    /\ adopter = "imported" => shared # None /\ registration = "restoring"
    /\ shared # None /\ ~shared.whole => shared.items = {} /\ registration = "restoring"
    /\ shared # None /\ shared.whole => original.items \subseteq shared.items
    /\ registration \in {"imported", "ready"} => Complete(shared)
    /\ adopter \in {"provision", "enable"} => registration \in {"imported", "ready"}
    /\ enabled \/ adopter = "enable" => registration = "ready"

(* Nobody edits the worktree once it was moved; what is checked out anew    *)
(* has no edits; and the private administration gets all there is.          *)
Moved ==
    /\ adopter \in Migrating => place # "source"
    /\ Complete(import) => place # "source" /\ Adoption!Is("committed") \subseteq import.items
    /\ adopter \in {"index", "fresh", "checkout", "checked out", "administration"} =>
         Complete(import)
    /\ adopter = "cloned" => import # None
    /\ anew \/ place \in {None, "partial"} => Untouched /\ place # "source"
    /\ adopter \in {"fresh", "checkout", "checked out"} => Untouched
    /\ adopter = "administration" => Adoption!Is("staged") \subseteq import.items
    /\ private # None =>
         place # "source" /\ Adoption!Is("committed") \cup Adoption!Is("staged") \subseteq private

AdoptionInv == AdoptionTypes /\ Copied /\ Exported /\ Restored /\ Moved

(* What no step may do. *)
Adopts ==
    /\ enabled' => Adoption!Whole'
    /\ shared # None => shared' # None /\ shared.items \subseteq shared'.items

(* A copy, complete or not, is something, and so is an administration.      *)
LEMMA CopyIsSomething ==
    /\ None \notin Copies /\ None \notin SUBSET (Commits \cup Edits)
    /\ [items |-> {}, whole |-> FALSE] \in Copies
    /\ None # "source" /\ None # "destination" /\ None # "partial"
    /\ None # "restoring" /\ None # "imported" /\ None # "ready"
  BY NoneIsNoCopy, NoneIsNoWord DEF Copies

(* The initial states. *)
LEMMA AdoptionInit == Adoption!Init => AdoptionInv
  <1> SUFFICES ASSUME Adoption!Init PROVE AdoptionInv
    OBVIOUS
  <1> USE CopyIsSomething
  <1>1. AdoptionTypes
    <2>1. original \in [at : {"source", "checkpoint"}, items : SUBSET Commits]
      BY DEF Adoption!Init
    <2>2. files \in [Edits -> {"none", "changed", "staged", "committed"}]
      BY DEF Adoption!Init
    <2>3. /\ snapshot = None /\ backup = None /\ shared = None /\ import = None /\ private = None
          /\ registration = None /\ place \in {"source", None}
      BY DEF Adoption!Init
    <2>4. /\ snapshot \in Copies \cup {None} /\ backup \in Copies \cup {None}
          /\ shared \in Copies \cup {None} /\ import \in Copies \cup {None}
      BY <2>3
    <2>5. private \in {None} \cup SUBSET (Commits \cup Edits)
      BY <2>3
    <2>6. place \in {None, "source", "partial", "destination"}
      BY <2>3
    <2>7. registration \in {None, "restoring", "imported", "ready"}
      BY <2>3
    <2>8. QED
      BY <2>1, <2>2, <2>4, <2>5, <2>6, <2>7 DEF AdoptionTypes
  <1>2. Copied /\ Exported /\ Restored
    BY DEF Adoption!Init, Copied, Exported, Restored, Complete, Migrating, Enabling, Before,
       Adoption!Guarded
  <1>3. Moved
    BY NoneIsNoWord DEF Adoption!Init, Moved, Complete, Migrating, Untouched
  <1>4. QED
    BY <1>1, <1>2, <1>3 DEF AdoptionInv

(* One step. *)
LEMMA AdoptionStep == AdoptionInv /\ Adoption!Next => AdoptionInv'
  <1> SUFFICES ASSUME AdoptionInv, Adoption!Next PROVE AdoptionInv'
    OBVIOUS
  <1>1. ASSUME Adoption!Begin
        PROVE  AdoptionInv'
    <2>1. AdoptionTypes'
      BY <1>1, CopyIsSomething DEF AdoptionInv, AdoptionTypes, Adoption!Begin, Adoption!Goto,
         Adoption!database, Adoption!service, Adoption!worktree
    <2>2. Copied'
      BY <1>1, <2>1, CopyIsSomething DEF AdoptionInv, AdoptionTypes, Copied, Copies,
         Adoption!Guarded, Exported, Complete, Before, Migrating, Enabling, Adoption!Begin,
         Adoption!Goto, Adoption!database, Adoption!service, Adoption!worktree
    <2>3. Exported'
      BY <1>1, <2>1, CopyIsSomething DEF AdoptionInv, AdoptionTypes, Exported, Copies, Moved,
         Copied, Complete, Before, Migrating, Enabling, Restored, Adoption!Begin, Adoption!Goto,
         Adoption!database, Adoption!service, Adoption!worktree
    <2>4. Restored'
      BY <1>1, <2>1, CopyIsSomething DEF AdoptionInv, AdoptionTypes, Restored, Copies, Copied,
         Exported, Complete, Migrating, Enabling, Before, Adoption!Begin, Adoption!Goto,
         Adoption!database, Adoption!service, Adoption!worktree
    <2>5. Moved'
      BY <1>1, <2>1, CopyIsSomething DEF AdoptionInv, AdoptionTypes, Moved, Copies, Exported,
         Complete, Migrating, Enabling, Untouched, Adoption!Is, Adoption!Begin, Adoption!Goto,
         Adoption!database, Adoption!service, Adoption!worktree
    <2>6. QED
      BY <2>1, <2>2, <2>3, <2>4, <2>5 DEF AdoptionInv
  <1>2. ASSUME Adoption!SourceBusy
        PROVE  AdoptionInv'
    <2>1. AdoptionTypes'
      BY <1>2, CopyIsSomething DEF AdoptionInv, AdoptionTypes, Adoption!SourceBusy,
         Adoption!Goto, Adoption!database, Adoption!service, Adoption!worktree
    <2>2. Copied'
      BY <1>2, <2>1, CopyIsSomething DEF AdoptionInv, AdoptionTypes, Copied, Copies,
         Adoption!Guarded, Exported, Complete, Before, Migrating, Enabling, Adoption!SourceBusy,
         Adoption!Goto, Adoption!database, Adoption!service, Adoption!worktree
    <2>3. Exported'
      BY <1>2, <2>1, CopyIsSomething DEF AdoptionInv, AdoptionTypes, Exported, Copies, Moved,
         Copied, Complete, Before, Migrating, Enabling, Restored, Adoption!SourceBusy,
         Adoption!Goto, Adoption!database, Adoption!service, Adoption!worktree
    <2>4. Restored'
      BY <1>2, <2>1, CopyIsSomething DEF AdoptionInv, AdoptionTypes, Restored, Copies, Copied,
         Exported, Complete, Migrating, Enabling, Before, Adoption!SourceBusy, Adoption!Goto,
         Adoption!database, Adoption!service, Adoption!worktree
    <2>5. Moved'
      BY <1>2, <2>1, CopyIsSomething DEF AdoptionInv, AdoptionTypes, Moved, Copies, Exported,
         Complete, Migrating, Enabling, Untouched, Adoption!Is, Adoption!SourceBusy, Adoption!Goto,
         Adoption!database, Adoption!service, Adoption!worktree
    <2>6. QED
      BY <2>1, <2>2, <2>3, <2>4, <2>5 DEF AdoptionInv
  <1>3. ASSUME Adoption!Lock
        PROVE  AdoptionInv'
    <2>1. AdoptionTypes'
      BY <1>3, CopyIsSomething DEF AdoptionInv, AdoptionTypes, Adoption!Lock, Adoption!Goto,
         Adoption!database, Adoption!service, Adoption!worktree
    <2>2. Copied'
      BY <1>3, <2>1, CopyIsSomething DEF AdoptionInv, AdoptionTypes, Copied, Copies,
         Adoption!Guarded, Exported, Complete, Before, Migrating, Enabling, Adoption!Lock,
         Adoption!Goto, Adoption!database, Adoption!service, Adoption!worktree
    <2>3. Exported'
      BY <1>3, <2>1, CopyIsSomething DEF AdoptionInv, AdoptionTypes, Exported, Copies, Moved,
         Copied, Complete, Before, Migrating, Enabling, Restored, Adoption!Lock, Adoption!Goto,
         Adoption!database, Adoption!service, Adoption!worktree
    <2>4. Restored'
      BY <1>3, <2>1, CopyIsSomething DEF AdoptionInv, AdoptionTypes, Restored, Copies, Copied,
         Exported, Complete, Migrating, Enabling, Before, Adoption!Lock, Adoption!Goto,
         Adoption!database, Adoption!service, Adoption!worktree
    <2>5. Moved'
      BY <1>3, <2>1, CopyIsSomething DEF AdoptionInv, AdoptionTypes, Moved, Copies, Exported,
         Complete, Migrating, Enabling, Untouched, Adoption!Is, Adoption!Lock, Adoption!Goto,
         Adoption!database, Adoption!service, Adoption!worktree
    <2>6. QED
      BY <2>1, <2>2, <2>3, <2>4, <2>5 DEF AdoptionInv
  <1>4. ASSUME Adoption!Moving
        PROVE  AdoptionInv'
    <2>1. AdoptionTypes'
      BY <1>4, CopyIsSomething DEF AdoptionInv, AdoptionTypes, Adoption!Moving, Adoption!Goto,
         Adoption!database, Adoption!service, Adoption!worktree
    <2>2. Copied'
      BY <1>4, <2>1, CopyIsSomething DEF AdoptionInv, AdoptionTypes, Copied, Copies,
         Adoption!Guarded, Exported, Complete, Before, Migrating, Enabling, Adoption!Moving,
         Adoption!Goto, Adoption!database, Adoption!service, Adoption!worktree
    <2>3. Exported'
      BY <1>4, <2>1, CopyIsSomething DEF AdoptionInv, AdoptionTypes, Exported, Copies, Moved,
         Copied, Complete, Before, Migrating, Enabling, Restored, Adoption!Moving, Adoption!Goto,
         Adoption!database, Adoption!service, Adoption!worktree
    <2>4. Restored'
      BY <1>4, <2>1, CopyIsSomething DEF AdoptionInv, AdoptionTypes, Restored, Copies, Copied,
         Exported, Complete, Migrating, Enabling, Before, Adoption!Moving, Adoption!Goto,
         Adoption!database, Adoption!service, Adoption!worktree
    <2>5. Moved'
      BY <1>4, <2>1, CopyIsSomething DEF AdoptionInv, AdoptionTypes, Moved, Copies, Exported,
         Complete, Migrating, Enabling, Untouched, Adoption!Is, Adoption!Moving, Adoption!Goto,
         Adoption!database, Adoption!service, Adoption!worktree
    <2>6. QED
      BY <2>1, <2>2, <2>3, <2>4, <2>5 DEF AdoptionInv
  <1>5. ASSUME Adoption!Move
        PROVE  AdoptionInv'
    <2>1. AdoptionTypes'
      BY <1>5, CopyIsSomething DEF AdoptionInv, AdoptionTypes, Adoption!Move, Adoption!Goto,
         Adoption!database, Adoption!service, Adoption!worktree
    <2>2. Copied'
      BY <1>5, <2>1, CopyIsSomething DEF AdoptionInv, AdoptionTypes, Copied, Copies,
         Adoption!Guarded, Exported, Complete, Before, Migrating, Enabling, Adoption!Move,
         Adoption!Goto, Adoption!database, Adoption!service, Adoption!worktree
    <2>3. Exported'
      BY <1>5, <2>1, CopyIsSomething DEF AdoptionInv, AdoptionTypes, Exported, Copies, Moved,
         Copied, Complete, Before, Migrating, Enabling, Restored, Adoption!Move, Adoption!Goto,
         Adoption!database, Adoption!service, Adoption!worktree
    <2>4. Restored'
      BY <1>5, <2>1, CopyIsSomething DEF AdoptionInv, AdoptionTypes, Restored, Copies, Copied,
         Exported, Complete, Migrating, Enabling, Before, Adoption!Move, Adoption!Goto,
         Adoption!database, Adoption!service, Adoption!worktree
    <2>5. Moved'
      BY <1>5, <2>1, CopyIsSomething DEF AdoptionInv, AdoptionTypes, Moved, Copies, Exported,
         Complete, Migrating, Enabling, Untouched, Adoption!Is, Adoption!Move, Adoption!Goto,
         Adoption!database, Adoption!service, Adoption!worktree
    <2>6. QED
      BY <2>1, <2>2, <2>3, <2>4, <2>5 DEF AdoptionInv
  <1>6. ASSUME Adoption!Checkpointed
        PROVE  AdoptionInv'
    <2>1. AdoptionTypes'
      BY <1>6, CopyIsSomething DEF AdoptionInv, AdoptionTypes, Adoption!Checkpointed,
         Adoption!Goto, Adoption!database, Adoption!service, Adoption!worktree
    <2>2. Copied'
      BY <1>6, <2>1, CopyIsSomething DEF AdoptionInv, AdoptionTypes, Copied, Copies,
         Adoption!Guarded, Exported, Complete, Before, Migrating, Enabling, Adoption!Checkpointed,
         Adoption!Goto, Adoption!database, Adoption!service, Adoption!worktree
    <2>3. Exported'
      BY <1>6, <2>1, CopyIsSomething DEF AdoptionInv, AdoptionTypes, Exported, Copies, Moved,
         Copied, Complete, Before, Migrating, Enabling, Restored, Adoption!Checkpointed,
         Adoption!Goto, Adoption!database, Adoption!service, Adoption!worktree
    <2>4. Restored'
      BY <1>6, <2>1, CopyIsSomething DEF AdoptionInv, AdoptionTypes, Restored, Copies, Copied,
         Exported, Complete, Migrating, Enabling, Before, Adoption!Checkpointed, Adoption!Goto,
         Adoption!database, Adoption!service, Adoption!worktree
    <2>5. Moved'
      BY <1>6, <2>1, CopyIsSomething DEF AdoptionInv, AdoptionTypes, Moved, Copies, Exported,
         Complete, Migrating, Enabling, Untouched, Adoption!Is, Adoption!Checkpointed,
         Adoption!Goto, Adoption!database, Adoption!service, Adoption!worktree
    <2>6. QED
      BY <2>1, <2>2, <2>3, <2>4, <2>5 DEF AdoptionInv
  <1>7. ASSUME Adoption!Copy
        PROVE  AdoptionInv'
    <2>1. AdoptionTypes'
      BY <1>7, CopyIsSomething DEF AdoptionInv, AdoptionTypes, Adoption!Copy, Adoption!Goto,
         Adoption!database, Adoption!service, Adoption!worktree, Adoption!Nothing
    <2>2. Copied'
      BY <1>7, <2>1, CopyIsSomething DEF AdoptionInv, AdoptionTypes, Copied, Copies,
         Adoption!Guarded, Exported, Complete, Before, Migrating, Enabling, Adoption!Copy,
         Adoption!Goto, Adoption!database, Adoption!service, Adoption!worktree, Adoption!Nothing
    <2>3. Exported'
      BY <1>7, <2>1, CopyIsSomething DEF AdoptionInv, AdoptionTypes, Exported, Copies, Moved,
         Copied, Complete, Before, Migrating, Enabling, Restored, Adoption!Copy, Adoption!Goto,
         Adoption!database, Adoption!service, Adoption!worktree, Adoption!Nothing
    <2>4. Restored'
      BY <1>7, <2>1, CopyIsSomething DEF AdoptionInv, AdoptionTypes, Restored, Copies, Copied,
         Exported, Complete, Migrating, Enabling, Before, Adoption!Copy, Adoption!Goto,
         Adoption!database, Adoption!service, Adoption!worktree, Adoption!Nothing
    <2>5. Moved'
      BY <1>7, <2>1, CopyIsSomething DEF AdoptionInv, AdoptionTypes, Moved, Copies, Exported,
         Complete, Migrating, Enabling, Untouched, Adoption!Is, Adoption!Copy, Adoption!Goto,
         Adoption!database, Adoption!service, Adoption!worktree, Adoption!Nothing
    <2>6. QED
      BY <2>1, <2>2, <2>3, <2>4, <2>5 DEF AdoptionInv
  <1>8. ASSUME Adoption!Copied
        PROVE  AdoptionInv'
    <2>1. AdoptionTypes'
      BY <1>8, CopyIsSomething DEF AdoptionInv, AdoptionTypes, Moved, Copies, Complete,
         Adoption!Copied, Adoption!Goto, Adoption!database, Adoption!service, Adoption!worktree
    <2>2. Copied'
      <3> DEFINE copy == [items |-> original.items, whole |-> TRUE]
      <3>1. copy \in Copies /\ copy.whole /\ copy.items = original.items
        BY DEF AdoptionInv, AdoptionTypes, Copies
      <3>2. snapshot' = copy /\ adopter' = "export" /\ original' = original /\ backup' = backup
              /\ open' = open /\ original.at = "checkpoint"
        BY <1>8 DEF AdoptionInv, Copied, Adoption!Copied, Adoption!Goto, Adoption!database
      <3> HIDE DEF copy
      <3>3. QED
        BY <3>1, <3>2, CopyIsSomething DEF AdoptionInv, Copied, Complete, Adoption!Guarded
    <2>3. Exported'
      BY <1>8, <2>1, CopyIsSomething DEF AdoptionInv, AdoptionTypes, Exported, Copies, Moved,
         Copied, Complete, Before, Migrating, Enabling, Restored, Adoption!Copied, Adoption!Goto,
         Adoption!database, Adoption!service, Adoption!worktree
    <2>4. Restored'
      BY <1>8, <2>1, CopyIsSomething DEF AdoptionInv, AdoptionTypes, Restored, Copies, Copied,
         Exported, Complete, Migrating, Enabling, Before, Adoption!Copied, Adoption!Goto,
         Adoption!database, Adoption!service, Adoption!worktree
    <2>5. Moved'
      BY <1>8, <2>1, CopyIsSomething DEF AdoptionInv, AdoptionTypes, Moved, Copies, Exported,
         Complete, Migrating, Enabling, Untouched, Adoption!Is, Adoption!Copied, Adoption!Goto,
         Adoption!database, Adoption!service, Adoption!worktree
    <2>6. QED
      BY <2>1, <2>2, <2>3, <2>4, <2>5 DEF AdoptionInv
  <1>9. ASSUME Adoption!Export
        PROVE  AdoptionInv'
    <2>1. AdoptionTypes'
      BY <1>9, CopyIsSomething DEF AdoptionInv, AdoptionTypes, Adoption!Export, Adoption!Goto,
         Adoption!database, Adoption!service, Adoption!worktree
    <2>2. Copied'
      BY <1>9, <2>1, CopyIsSomething DEF AdoptionInv, AdoptionTypes, Copied, Copies,
         Adoption!Guarded, Exported, Complete, Before, Migrating, Enabling, Adoption!Export,
         Adoption!Goto, Adoption!database, Adoption!service, Adoption!worktree
    <2>3. Exported'
      BY <1>9, <2>1, CopyIsSomething DEF AdoptionInv, AdoptionTypes, Exported, Copies, Moved,
         Copied, Complete, Before, Migrating, Enabling, Restored, Adoption!Export, Adoption!Goto,
         Adoption!database, Adoption!service, Adoption!worktree
    <2>4. Restored'
      BY <1>9, <2>1, CopyIsSomething DEF AdoptionInv, AdoptionTypes, Restored, Copies, Copied,
         Exported, Complete, Migrating, Enabling, Before, Adoption!Export, Adoption!Goto,
         Adoption!database, Adoption!service, Adoption!worktree
    <2>5. Moved'
      BY <1>9, <2>1, CopyIsSomething DEF AdoptionInv, AdoptionTypes, Moved, Copies, Exported,
         Complete, Migrating, Enabling, Untouched, Adoption!Is, Adoption!Export, Adoption!Goto,
         Adoption!database, Adoption!service, Adoption!worktree
    <2>6. QED
      BY <2>1, <2>2, <2>3, <2>4, <2>5 DEF AdoptionInv
  <1>10. ASSUME Adoption!Exported
        PROVE  AdoptionInv'
    <2>1. AdoptionTypes'
      BY <1>10, CopyIsSomething DEF AdoptionInv, AdoptionTypes, Moved, Copies, Complete,
         Adoption!Exported, Adoption!Goto, Adoption!database, Adoption!service, Adoption!worktree
    <2>2. Copied'
      BY <1>10, <2>1, CopyIsSomething DEF AdoptionInv, AdoptionTypes, Copied, Copies,
         Adoption!Guarded, Exported, Complete, Before, Migrating, Enabling, Adoption!Exported,
         Adoption!Goto, Adoption!database, Adoption!service, Adoption!worktree
    <2>3. Exported'
      BY <1>10, <2>1, CopyIsSomething DEF AdoptionInv, AdoptionTypes, Exported, Copies, Moved,
         Copied, Complete, Before, Migrating, Enabling, Restored, Adoption!Exported, Adoption!Goto,
         Adoption!database, Adoption!service, Adoption!worktree
    <2>4. Restored'
      BY <1>10, <2>1, CopyIsSomething DEF AdoptionInv, AdoptionTypes, Restored, Copies, Copied,
         Exported, Complete, Migrating, Enabling, Before, Adoption!Exported, Adoption!Goto,
         Adoption!database, Adoption!service, Adoption!worktree
    <2>5. Moved'
      BY <1>10, <2>1, CopyIsSomething DEF AdoptionInv, AdoptionTypes, Moved, Copies, Exported,
         Complete, Migrating, Enabling, Untouched, Adoption!Is, Adoption!Exported, Adoption!Goto,
         Adoption!database, Adoption!service, Adoption!worktree
    <2>6. QED
      BY <2>1, <2>2, <2>3, <2>4, <2>5 DEF AdoptionInv
  <1>11. ASSUME Adoption!AdministrationDone
        PROVE  AdoptionInv'
    <2>1. AdoptionTypes'
      BY <1>11, CopyIsSomething DEF AdoptionInv, AdoptionTypes, Adoption!AdministrationDone,
         Adoption!Goto, Adoption!database, Adoption!service, Adoption!worktree
    <2>2. Copied'
      BY <1>11, <2>1, CopyIsSomething DEF AdoptionInv, AdoptionTypes, Copied, Copies,
         Adoption!Guarded, Exported, Complete, Before, Migrating, Enabling,
         Adoption!AdministrationDone, Adoption!Goto, Adoption!database, Adoption!service,
         Adoption!worktree
    <2>3. Exported'
      BY <1>11, <2>1, CopyIsSomething DEF AdoptionInv, AdoptionTypes, Exported, Copies, Moved,
         Copied, Complete, Before, Migrating, Enabling, Restored, Adoption!AdministrationDone,
         Adoption!Goto, Adoption!database, Adoption!service, Adoption!worktree
    <2>4. Restored'
      BY <1>11, <2>1, CopyIsSomething DEF AdoptionInv, AdoptionTypes, Restored, Copies, Copied,
         Exported, Complete, Migrating, Enabling, Before, Adoption!AdministrationDone,
         Adoption!Goto, Adoption!database, Adoption!service, Adoption!worktree
    <2>5. Moved'
      BY <1>11, <2>1, CopyIsSomething DEF AdoptionInv, AdoptionTypes, Moved, Copies, Exported,
         Complete, Migrating, Enabling, Untouched, Adoption!Is, Adoption!AdministrationDone,
         Adoption!Goto, Adoption!database, Adoption!service, Adoption!worktree
    <2>6. QED
      BY <2>1, <2>2, <2>3, <2>4, <2>5 DEF AdoptionInv
  <1>12. ASSUME Adoption!MoveWorktree
        PROVE  AdoptionInv'
    <2>1. AdoptionTypes'
      BY <1>12, CopyIsSomething DEF AdoptionInv, AdoptionTypes, Adoption!MoveWorktree,
         Adoption!Goto, Adoption!database, Adoption!service, Adoption!worktree
    <2>2. Copied'
      BY <1>12, <2>1, CopyIsSomething DEF AdoptionInv, AdoptionTypes, Copied, Copies,
         Adoption!Guarded, Exported, Complete, Before, Migrating, Enabling, Adoption!MoveWorktree,
         Adoption!Goto, Adoption!database, Adoption!service, Adoption!worktree
    <2>3. Exported'
      BY <1>12, <2>1, CopyIsSomething DEF AdoptionInv, AdoptionTypes, Exported, Copies, Moved,
         Copied, Complete, Before, Migrating, Enabling, Restored, Adoption!MoveWorktree,
         Adoption!Goto, Adoption!database, Adoption!service, Adoption!worktree
    <2>4. Restored'
      BY <1>12, <2>1, CopyIsSomething DEF AdoptionInv, AdoptionTypes, Restored, Copies, Copied,
         Exported, Complete, Migrating, Enabling, Before, Adoption!MoveWorktree, Adoption!Goto,
         Adoption!database, Adoption!service, Adoption!worktree
    <2>5. Moved'
      BY <1>12, <2>1, CopyIsSomething DEF AdoptionInv, AdoptionTypes, Moved, Copies, Exported,
         Complete, Migrating, Enabling, Untouched, Adoption!Is, Adoption!MoveWorktree,
         Adoption!Goto, Adoption!database, Adoption!service, Adoption!worktree
    <2>6. QED
      BY <2>1, <2>2, <2>3, <2>4, <2>5 DEF AdoptionInv
  <1>13. ASSUME Adoption!Clone
        PROVE  AdoptionInv'
    <2>1. AdoptionTypes'
      BY <1>13, CopyIsSomething DEF AdoptionInv, AdoptionTypes, Adoption!Clone, Adoption!Goto,
         Adoption!database, Adoption!service, Adoption!worktree
    <2>2. Copied'
      BY <1>13, <2>1, CopyIsSomething DEF AdoptionInv, AdoptionTypes, Copied, Copies,
         Adoption!Guarded, Exported, Complete, Before, Migrating, Enabling, Adoption!Clone,
         Adoption!Goto, Adoption!database, Adoption!service, Adoption!worktree
    <2>3. Exported'
      BY <1>13, <2>1, CopyIsSomething DEF AdoptionInv, AdoptionTypes, Exported, Copies, Moved,
         Copied, Complete, Before, Migrating, Enabling, Restored, Adoption!Clone, Adoption!Goto,
         Adoption!database, Adoption!service, Adoption!worktree
    <2>4. Restored'
      BY <1>13, <2>1, CopyIsSomething DEF AdoptionInv, AdoptionTypes, Restored, Copies, Copied,
         Exported, Complete, Migrating, Enabling, Before, Adoption!Clone, Adoption!Goto,
         Adoption!database, Adoption!service, Adoption!worktree
    <2>5. Moved'
      BY <1>13, <2>1, CopyIsSomething DEF AdoptionInv, AdoptionTypes, Moved, Copies, Exported,
         Complete, Migrating, Enabling, Untouched, Adoption!Is, Adoption!Clone, Adoption!Goto,
         Adoption!database, Adoption!service, Adoption!worktree
    <2>6. QED
      BY <2>1, <2>2, <2>3, <2>4, <2>5 DEF AdoptionInv
  <1>14. ASSUME Adoption!Cloned
        PROVE  AdoptionInv'
    <2>1. AdoptionTypes'
      BY <1>14, CopyIsSomething DEF AdoptionInv, AdoptionTypes, Moved, Copies, Complete,
         Adoption!Cloned, Adoption!Goto, Adoption!database, Adoption!service, Adoption!worktree,
         Adoption!Is
    <2>2. Copied'
      BY <1>14, <2>1, CopyIsSomething DEF AdoptionInv, AdoptionTypes, Copied, Copies,
         Adoption!Guarded, Exported, Complete, Before, Migrating, Enabling, Adoption!Cloned,
         Adoption!Goto, Adoption!database, Adoption!service, Adoption!worktree, Adoption!Is
    <2>3. Exported'
      BY <1>14, <2>1, CopyIsSomething DEF AdoptionInv, AdoptionTypes, Exported, Copies, Moved,
         Copied, Complete, Before, Migrating, Enabling, Restored, Adoption!Cloned, Adoption!Goto,
         Adoption!database, Adoption!service, Adoption!worktree, Adoption!Is
    <2>4. Restored'
      BY <1>14, <2>1, CopyIsSomething DEF AdoptionInv, AdoptionTypes, Restored, Copies, Copied,
         Exported, Complete, Migrating, Enabling, Before, Adoption!Cloned, Adoption!Goto,
         Adoption!database, Adoption!service, Adoption!worktree, Adoption!Is
    <2>5. Moved'
      <3>1. import # None /\ place # "source" /\ files' = files /\ place' = place /\ anew' = anew
              /\ private' = private
        BY <1>14 DEF AdoptionInv, Moved, Migrating, Adoption!Cloned, Adoption!database,
           Adoption!service
      <3>2. import' # None /\ import'.whole /\ Adoption!Is("committed") \subseteq import'.items
        <4>1. CASE import.whole
          BY <1>14, <3>1, <4>1 DEF AdoptionInv, Moved, Complete, Adoption!Cloned
        <4>2. CASE ~import.whole
          <5>1. [items |-> Adoption!Is("committed"), whole |-> TRUE] \in Copies
            BY DEF Copies, Adoption!Is
          <5>2. QED
            BY <1>14, <4>2, <5>1, CopyIsSomething DEF Adoption!Cloned
        <4>3. QED
          BY <4>1, <4>2
      <3>3. adopter' = "index" \/ (adopter' = "fresh" /\ (place # "destination" \/ anew))
        BY <1>14 DEF Adoption!Cloned, Adoption!Goto
      <3>4. place # "destination" => place \in {None, "partial"}
        BY <3>1 DEF AdoptionInv, AdoptionTypes
      <3>5. adopter' = "fresh" => Untouched
        BY <3>3, <3>4 DEF AdoptionInv, Moved
      <3>6. Adoption!Is("committed")' = Adoption!Is("committed")
              /\ Adoption!Is("staged")' = Adoption!Is("staged") /\ (Untouched <=> Untouched')
        BY <3>1 DEF Adoption!Is, Untouched
      <3>7. QED
        BY <3>1, <3>2, <3>3, <3>5, <3>6 DEF AdoptionInv, Moved, Complete, Migrating
    <2>6. QED
      BY <2>1, <2>2, <2>3, <2>4, <2>5 DEF AdoptionInv
  <1>15. ASSUME Adoption!Index
        PROVE  AdoptionInv'
    <2>1. AdoptionTypes'
      BY <1>15, CopyIsSomething DEF AdoptionInv, AdoptionTypes, Moved, Copies, Complete,
         Adoption!Index, Adoption!Goto, Adoption!database, Adoption!service, Adoption!worktree,
         Adoption!IndexEntries, Adoption!Is
    <2>2. Copied'
      BY <1>15, <2>1, CopyIsSomething DEF AdoptionInv, AdoptionTypes, Copied, Copies,
         Adoption!Guarded, Exported, Complete, Before, Migrating, Enabling, Adoption!Index,
         Adoption!Goto, Adoption!database, Adoption!service, Adoption!worktree,
         Adoption!IndexEntries, Adoption!Is
    <2>3. Exported'
      BY <1>15, <2>1, CopyIsSomething DEF AdoptionInv, AdoptionTypes, Exported, Copies, Moved,
         Copied, Complete, Before, Migrating, Enabling, Restored, Adoption!Index, Adoption!Goto,
         Adoption!database, Adoption!service, Adoption!worktree, Adoption!IndexEntries, Adoption!Is
    <2>4. Restored'
      BY <1>15, <2>1, CopyIsSomething DEF AdoptionInv, AdoptionTypes, Restored, Copies, Copied,
         Exported, Complete, Migrating, Enabling, Before, Adoption!Index, Adoption!Goto,
         Adoption!database, Adoption!service, Adoption!worktree, Adoption!IndexEntries, Adoption!Is
    <2>5. Moved'
      BY <1>15, <2>1, CopyIsSomething DEF AdoptionInv, AdoptionTypes, Moved, Copies, Exported,
         Complete, Migrating, Enabling, Untouched, Adoption!Is, Adoption!Index, Adoption!Goto,
         Adoption!database, Adoption!service, Adoption!worktree, Adoption!IndexEntries
    <2>6. QED
      BY <2>1, <2>2, <2>3, <2>4, <2>5 DEF AdoptionInv
  <1>16. ASSUME Adoption!Fresh
        PROVE  AdoptionInv'
    <2>1. AdoptionTypes'
      BY <1>16, CopyIsSomething DEF AdoptionInv, AdoptionTypes, Adoption!Fresh, Adoption!Goto,
         Adoption!database, Adoption!service, Adoption!worktree
    <2>2. Copied'
      BY <1>16, <2>1, CopyIsSomething DEF AdoptionInv, AdoptionTypes, Copied, Copies,
         Adoption!Guarded, Exported, Complete, Before, Migrating, Enabling, Adoption!Fresh,
         Adoption!Goto, Adoption!database, Adoption!service, Adoption!worktree
    <2>3. Exported'
      BY <1>16, <2>1, CopyIsSomething DEF AdoptionInv, AdoptionTypes, Exported, Copies, Moved,
         Copied, Complete, Before, Migrating, Enabling, Restored, Adoption!Fresh, Adoption!Goto,
         Adoption!database, Adoption!service, Adoption!worktree
    <2>4. Restored'
      BY <1>16, <2>1, CopyIsSomething DEF AdoptionInv, AdoptionTypes, Restored, Copies, Copied,
         Exported, Complete, Migrating, Enabling, Before, Adoption!Fresh, Adoption!Goto,
         Adoption!database, Adoption!service, Adoption!worktree
    <2>5. Moved'
      BY <1>16, <2>1, CopyIsSomething DEF AdoptionInv, AdoptionTypes, Moved, Copies, Exported,
         Complete, Migrating, Enabling, Untouched, Adoption!Is, Adoption!Fresh, Adoption!Goto,
         Adoption!database, Adoption!service, Adoption!worktree
    <2>6. QED
      BY <2>1, <2>2, <2>3, <2>4, <2>5 DEF AdoptionInv
  <1>17. ASSUME Adoption!Collides
        PROVE  AdoptionInv'
    <2>1. AdoptionTypes'
      BY <1>17, CopyIsSomething DEF AdoptionInv, AdoptionTypes, Adoption!Collides,
         Adoption!Goto, Adoption!database, Adoption!service, Adoption!worktree
    <2>2. Copied'
      BY <1>17, <2>1, CopyIsSomething DEF AdoptionInv, AdoptionTypes, Copied, Copies,
         Adoption!Guarded, Exported, Complete, Before, Migrating, Enabling, Adoption!Collides,
         Adoption!Goto, Adoption!database, Adoption!service, Adoption!worktree
    <2>3. Exported'
      BY <1>17, <2>1, CopyIsSomething DEF AdoptionInv, AdoptionTypes, Exported, Copies, Moved,
         Copied, Complete, Before, Migrating, Enabling, Restored, Adoption!Collides, Adoption!Goto,
         Adoption!database, Adoption!service, Adoption!worktree
    <2>4. Restored'
      BY <1>17, <2>1, CopyIsSomething DEF AdoptionInv, AdoptionTypes, Restored, Copies, Copied,
         Exported, Complete, Migrating, Enabling, Before, Adoption!Collides, Adoption!Goto,
         Adoption!database, Adoption!service, Adoption!worktree
    <2>5. Moved'
      BY <1>17, <2>1, CopyIsSomething DEF AdoptionInv, AdoptionTypes, Moved, Copies, Exported,
         Complete, Migrating, Enabling, Untouched, Adoption!Is, Adoption!Collides, Adoption!Goto,
         Adoption!database, Adoption!service, Adoption!worktree
    <2>6. QED
      BY <2>1, <2>2, <2>3, <2>4, <2>5 DEF AdoptionInv
  <1>18. ASSUME Adoption!Checkout
        PROVE  AdoptionInv'
    <2>1. AdoptionTypes'
      BY <1>18, CopyIsSomething DEF AdoptionInv, AdoptionTypes, Adoption!Checkout,
         Adoption!Goto, Adoption!database, Adoption!service, Adoption!worktree
    <2>2. Copied'
      BY <1>18, <2>1, CopyIsSomething DEF AdoptionInv, AdoptionTypes, Copied, Copies,
         Adoption!Guarded, Exported, Complete, Before, Migrating, Enabling, Adoption!Checkout,
         Adoption!Goto, Adoption!database, Adoption!service, Adoption!worktree
    <2>3. Exported'
      BY <1>18, <2>1, CopyIsSomething DEF AdoptionInv, AdoptionTypes, Exported, Copies, Moved,
         Copied, Complete, Before, Migrating, Enabling, Restored, Adoption!Checkout, Adoption!Goto,
         Adoption!database, Adoption!service, Adoption!worktree
    <2>4. Restored'
      BY <1>18, <2>1, CopyIsSomething DEF AdoptionInv, AdoptionTypes, Restored, Copies, Copied,
         Exported, Complete, Migrating, Enabling, Before, Adoption!Checkout, Adoption!Goto,
         Adoption!database, Adoption!service, Adoption!worktree
    <2>5. Moved'
      BY <1>18, <2>1, CopyIsSomething DEF AdoptionInv, AdoptionTypes, Moved, Copies, Exported,
         Complete, Migrating, Enabling, Untouched, Adoption!Is, Adoption!Checkout, Adoption!Goto,
         Adoption!database, Adoption!service, Adoption!worktree
    <2>6. QED
      BY <2>1, <2>2, <2>3, <2>4, <2>5 DEF AdoptionInv
  <1>19. ASSUME Adoption!CheckedOut
        PROVE  AdoptionInv'
    <2>1. AdoptionTypes'
      BY <1>19, CopyIsSomething DEF AdoptionInv, AdoptionTypes, Adoption!CheckedOut,
         Adoption!Goto, Adoption!database, Adoption!service, Adoption!worktree
    <2>2. Copied'
      BY <1>19, <2>1, CopyIsSomething DEF AdoptionInv, AdoptionTypes, Copied, Copies,
         Adoption!Guarded, Exported, Complete, Before, Migrating, Enabling, Adoption!CheckedOut,
         Adoption!Goto, Adoption!database, Adoption!service, Adoption!worktree
    <2>3. Exported'
      BY <1>19, <2>1, CopyIsSomething DEF AdoptionInv, AdoptionTypes, Exported, Copies, Moved,
         Copied, Complete, Before, Migrating, Enabling, Restored, Adoption!CheckedOut,
         Adoption!Goto, Adoption!database, Adoption!service, Adoption!worktree
    <2>4. Restored'
      BY <1>19, <2>1, CopyIsSomething DEF AdoptionInv, AdoptionTypes, Restored, Copies, Copied,
         Exported, Complete, Migrating, Enabling, Before, Adoption!CheckedOut, Adoption!Goto,
         Adoption!database, Adoption!service, Adoption!worktree
    <2>5. Moved'
      BY <1>19, <2>1, CopyIsSomething DEF AdoptionInv, AdoptionTypes, Moved, Copies, Exported,
         Complete, Migrating, Enabling, Untouched, Adoption!Is, Adoption!CheckedOut, Adoption!Goto,
         Adoption!database, Adoption!service, Adoption!worktree
    <2>6. QED
      BY <2>1, <2>2, <2>3, <2>4, <2>5 DEF AdoptionInv
  <1>20. ASSUME Adoption!Administration
        PROVE  AdoptionInv'
    <2>1. AdoptionTypes'
      BY <1>20, CopyIsSomething DEF AdoptionInv, AdoptionTypes, Moved, Copies, Complete,
         Adoption!Administration, Adoption!Goto, Adoption!database, Adoption!service,
         Adoption!worktree
    <2>2. Copied'
      BY <1>20, <2>1, CopyIsSomething DEF AdoptionInv, AdoptionTypes, Copied, Copies,
         Adoption!Guarded, Exported, Complete, Before, Migrating, Enabling,
         Adoption!Administration, Adoption!Goto, Adoption!database, Adoption!service,
         Adoption!worktree
    <2>3. Exported'
      BY <1>20, <2>1, CopyIsSomething DEF AdoptionInv, AdoptionTypes, Exported, Copies, Moved,
         Copied, Complete, Before, Migrating, Enabling, Restored, Adoption!Administration,
         Adoption!Goto, Adoption!database, Adoption!service, Adoption!worktree
    <2>4. Restored'
      BY <1>20, <2>1, CopyIsSomething DEF AdoptionInv, AdoptionTypes, Restored, Copies, Copied,
         Exported, Complete, Migrating, Enabling, Before, Adoption!Administration, Adoption!Goto,
         Adoption!database, Adoption!service, Adoption!worktree
    <2>5. Moved'
      BY <1>20, <2>1, CopyIsSomething DEF AdoptionInv, AdoptionTypes, Moved, Copies, Exported,
         Complete, Migrating, Enabling, Untouched, Adoption!Is, Adoption!Administration,
         Adoption!Goto, Adoption!database, Adoption!service, Adoption!worktree
    <2>6. QED
      BY <2>1, <2>2, <2>3, <2>4, <2>5 DEF AdoptionInv
  <1>21. ASSUME Adoption!Incomplete
        PROVE  AdoptionInv'
    <2>1. AdoptionTypes'
      BY <1>21, CopyIsSomething DEF AdoptionInv, AdoptionTypes, Adoption!Incomplete,
         Adoption!Goto, Adoption!database, Adoption!service, Adoption!worktree
    <2>2. Copied'
      BY <1>21, <2>1, CopyIsSomething DEF AdoptionInv, AdoptionTypes, Copied, Copies,
         Adoption!Guarded, Exported, Complete, Before, Migrating, Enabling, Adoption!Incomplete,
         Adoption!Goto, Adoption!database, Adoption!service, Adoption!worktree
    <2>3. Exported'
      BY <1>21, <2>1, CopyIsSomething DEF AdoptionInv, AdoptionTypes, Exported, Copies, Moved,
         Copied, Complete, Before, Migrating, Enabling, Restored, Adoption!Incomplete,
         Adoption!Goto, Adoption!database, Adoption!service, Adoption!worktree
    <2>4. Restored'
      BY <1>21, <2>1, CopyIsSomething DEF AdoptionInv, AdoptionTypes, Restored, Copies, Copied,
         Exported, Complete, Migrating, Enabling, Before, Adoption!Incomplete, Adoption!Goto,
         Adoption!database, Adoption!service, Adoption!worktree
    <2>5. Moved'
      BY <1>21, <2>1, CopyIsSomething DEF AdoptionInv, AdoptionTypes, Moved, Copies, Exported,
         Complete, Migrating, Enabling, Untouched, Adoption!Is, Adoption!Incomplete, Adoption!Goto,
         Adoption!database, Adoption!service, Adoption!worktree
    <2>6. QED
      BY <2>1, <2>2, <2>3, <2>4, <2>5 DEF AdoptionInv
  <1>22. ASSUME Adoption!Register
        PROVE  AdoptionInv'
    <2>1. AdoptionTypes'
      BY <1>22, CopyIsSomething DEF AdoptionInv, AdoptionTypes, Adoption!Register,
         Adoption!Goto, Adoption!database, Adoption!service, Adoption!worktree
    <2>2. Copied'
      BY <1>22, <2>1, CopyIsSomething DEF AdoptionInv, AdoptionTypes, Copied, Copies,
         Adoption!Guarded, Exported, Complete, Before, Migrating, Enabling, Adoption!Register,
         Adoption!Goto, Adoption!database, Adoption!service, Adoption!worktree
    <2>3. Exported'
      BY <1>22, <2>1, CopyIsSomething DEF AdoptionInv, AdoptionTypes, Exported, Copies, Moved,
         Copied, Complete, Before, Migrating, Enabling, Restored, Adoption!Register, Adoption!Goto,
         Adoption!database, Adoption!service, Adoption!worktree
    <2>4. Restored'
      BY <1>22, <2>1, CopyIsSomething DEF AdoptionInv, AdoptionTypes, Restored, Copies, Copied,
         Exported, Complete, Migrating, Enabling, Before, Adoption!Register, Adoption!Goto,
         Adoption!database, Adoption!service, Adoption!worktree
    <2>5. Moved'
      BY <1>22, <2>1, CopyIsSomething DEF AdoptionInv, AdoptionTypes, Moved, Copies, Exported,
         Complete, Migrating, Enabling, Untouched, Adoption!Is, Adoption!Register, Adoption!Goto,
         Adoption!database, Adoption!service, Adoption!worktree
    <2>6. QED
      BY <2>1, <2>2, <2>3, <2>4, <2>5 DEF AdoptionInv
  <1>23. ASSUME Adoption!Restore
        PROVE  AdoptionInv'
    <2>1. AdoptionTypes'
      BY <1>23, CopyIsSomething DEF AdoptionInv, AdoptionTypes, Adoption!Restore, Adoption!Goto,
         Adoption!database, Adoption!service, Adoption!worktree
    <2>2. Copied'
      BY <1>23, <2>1, CopyIsSomething DEF AdoptionInv, AdoptionTypes, Copied, Copies,
         Adoption!Guarded, Exported, Complete, Before, Migrating, Enabling, Adoption!Restore,
         Adoption!Goto, Adoption!database, Adoption!service, Adoption!worktree
    <2>3. Exported'
      BY <1>23, <2>1, CopyIsSomething DEF AdoptionInv, AdoptionTypes, Exported, Copies, Moved,
         Copied, Complete, Before, Migrating, Enabling, Restored, Adoption!Restore, Adoption!Goto,
         Adoption!database, Adoption!service, Adoption!worktree
    <2>4. Restored'
      BY <1>23, <2>1, CopyIsSomething DEF AdoptionInv, AdoptionTypes, Restored, Copies, Copied,
         Exported, Complete, Migrating, Enabling, Before, Adoption!Restore, Adoption!Goto,
         Adoption!database, Adoption!service, Adoption!worktree
    <2>5. Moved'
      BY <1>23, <2>1, CopyIsSomething DEF AdoptionInv, AdoptionTypes, Moved, Copies, Exported,
         Complete, Migrating, Enabling, Untouched, Adoption!Is, Adoption!Restore, Adoption!Goto,
         Adoption!database, Adoption!service, Adoption!worktree
    <2>6. QED
      BY <2>1, <2>2, <2>3, <2>4, <2>5 DEF AdoptionInv
  <1>24. ASSUME Adoption!Restores
        PROVE  AdoptionInv'
    <2>1. AdoptionTypes'
      BY <1>24, CopyIsSomething DEF AdoptionInv, AdoptionTypes, Moved, Copies, Complete,
         Adoption!Restores, Adoption!Goto, Adoption!database, Adoption!service, Adoption!worktree
    <2>2. Copied'
      BY <1>24, <2>1, CopyIsSomething DEF AdoptionInv, AdoptionTypes, Copied, Copies,
         Adoption!Guarded, Exported, Complete, Before, Migrating, Enabling, Adoption!Restores,
         Adoption!Goto, Adoption!database, Adoption!service, Adoption!worktree
    <2>3. Exported'
      BY <1>24, <2>1, CopyIsSomething DEF AdoptionInv, AdoptionTypes, Exported, Copies, Moved,
         Copied, Complete, Before, Migrating, Enabling, Restored, Adoption!Restores, Adoption!Goto,
         Adoption!database, Adoption!service, Adoption!worktree
    <2>4. Restored'
      BY <1>24, <2>1, CopyIsSomething DEF AdoptionInv, AdoptionTypes, Restored, Copies, Copied,
         Exported, Complete, Migrating, Enabling, Before, Adoption!Restores, Adoption!Goto,
         Adoption!database, Adoption!service, Adoption!worktree
    <2>5. Moved'
      BY <1>24, <2>1, CopyIsSomething DEF AdoptionInv, AdoptionTypes, Moved, Copies, Exported,
         Complete, Migrating, Enabling, Untouched, Adoption!Is, Adoption!Restores, Adoption!Goto,
         Adoption!database, Adoption!service, Adoption!worktree
    <2>6. QED
      BY <2>1, <2>2, <2>3, <2>4, <2>5 DEF AdoptionInv
  <1>25. ASSUME Adoption!Imported
        PROVE  AdoptionInv'
    <2>1. AdoptionTypes'
      BY <1>25, CopyIsSomething DEF AdoptionInv, AdoptionTypes, Adoption!Imported,
         Adoption!Goto, Adoption!database, Adoption!service, Adoption!worktree
    <2>2. Copied'
      BY <1>25, <2>1, CopyIsSomething DEF AdoptionInv, AdoptionTypes, Copied, Copies,
         Adoption!Guarded, Exported, Complete, Before, Migrating, Enabling, Adoption!Imported,
         Adoption!Goto, Adoption!database, Adoption!service, Adoption!worktree
    <2>3. Exported'
      BY <1>25, <2>1, CopyIsSomething DEF AdoptionInv, AdoptionTypes, Exported, Copies, Moved,
         Copied, Complete, Before, Migrating, Enabling, Restored, Adoption!Imported, Adoption!Goto,
         Adoption!database, Adoption!service, Adoption!worktree
    <2>4. Restored'
      <3>1. shared # None /\ shared.whole /\ original.items \subseteq shared.items
        BY <1>25 DEF AdoptionInv, Restored, Adoption!Imported
      <3>2. /\ registration' = "imported" /\ adopter' = "provision" /\ ~enabled'
            /\ shared' = shared /\ original' = original
        BY <1>25 DEF AdoptionInv, Restored, Exported, Adoption!Imported, Adoption!Goto,
           Adoption!database, Adoption!worktree
      <3>3. QED
        BY <3>1, <3>2, CopyIsSomething DEF Restored, Complete
    <2>5. Moved'
      BY <1>25, <2>1, CopyIsSomething DEF AdoptionInv, AdoptionTypes, Moved, Copies, Exported,
         Complete, Migrating, Enabling, Untouched, Adoption!Is, Adoption!Imported, Adoption!Goto,
         Adoption!database, Adoption!service, Adoption!worktree
    <2>6. QED
      BY <2>1, <2>2, <2>3, <2>4, <2>5 DEF AdoptionInv
  <1>26. ASSUME Adoption!Registered
        PROVE  AdoptionInv'
    <2>1. AdoptionTypes'
      BY <1>26, CopyIsSomething DEF AdoptionInv, AdoptionTypes, Adoption!Registered,
         Adoption!Goto, Adoption!database, Adoption!service, Adoption!worktree
    <2>2. Copied'
      BY <1>26, <2>1, CopyIsSomething DEF AdoptionInv, AdoptionTypes, Copied, Copies,
         Adoption!Guarded, Exported, Complete, Before, Migrating, Enabling, Adoption!Registered,
         Adoption!Goto, Adoption!database, Adoption!service, Adoption!worktree
    <2>3. Exported'
      BY <1>26, <2>1, CopyIsSomething DEF AdoptionInv, AdoptionTypes, Exported, Copies, Moved,
         Copied, Complete, Before, Migrating, Enabling, Restored, Adoption!Registered,
         Adoption!Goto, Adoption!database, Adoption!service, Adoption!worktree
    <2>4. Restored'
      BY <1>26, <2>1, CopyIsSomething DEF AdoptionInv, AdoptionTypes, Restored, Copies, Copied,
         Exported, Complete, Migrating, Enabling, Before, Adoption!Registered, Adoption!Goto,
         Adoption!database, Adoption!service, Adoption!worktree
    <2>5. Moved'
      BY <1>26, <2>1, CopyIsSomething DEF AdoptionInv, AdoptionTypes, Moved, Copies, Exported,
         Complete, Migrating, Enabling, Untouched, Adoption!Is, Adoption!Registered, Adoption!Goto,
         Adoption!database, Adoption!service, Adoption!worktree
    <2>6. QED
      BY <2>1, <2>2, <2>3, <2>4, <2>5 DEF AdoptionInv
  <1>27. ASSUME Adoption!Provision
        PROVE  AdoptionInv'
    <2>1. AdoptionTypes'
      BY <1>27, CopyIsSomething DEF AdoptionInv, AdoptionTypes, Adoption!Provision,
         Adoption!Goto, Adoption!database, Adoption!service, Adoption!worktree
    <2>2. Copied'
      BY <1>27, <2>1, CopyIsSomething DEF AdoptionInv, AdoptionTypes, Copied, Copies,
         Adoption!Guarded, Exported, Complete, Before, Migrating, Enabling, Adoption!Provision,
         Adoption!Goto, Adoption!database, Adoption!service, Adoption!worktree
    <2>3. Exported'
      BY <1>27, <2>1, CopyIsSomething DEF AdoptionInv, AdoptionTypes, Exported, Copies, Moved,
         Copied, Complete, Before, Migrating, Enabling, Restored, Adoption!Provision,
         Adoption!Goto, Adoption!database, Adoption!service, Adoption!worktree
    <2>4. Restored'
      BY <1>27, <2>1, CopyIsSomething DEF AdoptionInv, AdoptionTypes, Restored, Copies, Copied,
         Exported, Complete, Migrating, Enabling, Before, Adoption!Provision, Adoption!Goto,
         Adoption!database, Adoption!service, Adoption!worktree
    <2>5. Moved'
      BY <1>27, <2>1, CopyIsSomething DEF AdoptionInv, AdoptionTypes, Moved, Copies, Exported,
         Complete, Migrating, Enabling, Untouched, Adoption!Is, Adoption!Provision, Adoption!Goto,
         Adoption!database, Adoption!service, Adoption!worktree
    <2>6. QED
      BY <2>1, <2>2, <2>3, <2>4, <2>5 DEF AdoptionInv
  <1>28. ASSUME Adoption!Enable
        PROVE  AdoptionInv'
    <2>1. AdoptionTypes'
      BY <1>28, CopyIsSomething DEF AdoptionInv, AdoptionTypes, Adoption!Enable, Adoption!Goto,
         Adoption!database, Adoption!service, Adoption!worktree
    <2>2. Copied'
      BY <1>28, <2>1, CopyIsSomething DEF AdoptionInv, AdoptionTypes, Copied, Copies,
         Adoption!Guarded, Exported, Complete, Before, Migrating, Enabling, Adoption!Enable,
         Adoption!Goto, Adoption!database, Adoption!service, Adoption!worktree
    <2>3. Exported'
      BY <1>28, <2>1, CopyIsSomething DEF AdoptionInv, AdoptionTypes, Exported, Copies, Moved,
         Copied, Complete, Before, Migrating, Enabling, Restored, Adoption!Enable, Adoption!Goto,
         Adoption!database, Adoption!service, Adoption!worktree
    <2>4. Restored'
      BY <1>28, <2>1, CopyIsSomething DEF AdoptionInv, AdoptionTypes, Restored, Copies, Copied,
         Exported, Complete, Migrating, Enabling, Before, Adoption!Enable, Adoption!Goto,
         Adoption!database, Adoption!service, Adoption!worktree
    <2>5. Moved'
      BY <1>28, <2>1, CopyIsSomething DEF AdoptionInv, AdoptionTypes, Moved, Copies, Exported,
         Complete, Migrating, Enabling, Untouched, Adoption!Is, Adoption!Enable, Adoption!Goto,
         Adoption!database, Adoption!service, Adoption!worktree
    <2>6. QED
      BY <2>1, <2>2, <2>3, <2>4, <2>5 DEF AdoptionInv
  <1>29. ASSUME Adoption!RetireAccess
        PROVE  AdoptionInv'
    <2>1. AdoptionTypes'
      BY <1>29, CopyIsSomething DEF AdoptionInv, AdoptionTypes, Adoption!RetireAccess,
         Adoption!Goto, Adoption!database, Adoption!service, Adoption!worktree
    <2>2. Copied'
      BY <1>29, <2>1, CopyIsSomething DEF AdoptionInv, AdoptionTypes, Copied, Copies,
         Adoption!Guarded, Exported, Complete, Before, Migrating, Enabling, Adoption!RetireAccess,
         Adoption!Goto, Adoption!database, Adoption!service, Adoption!worktree
    <2>3. Exported'
      BY <1>29, <2>1, CopyIsSomething DEF AdoptionInv, AdoptionTypes, Exported, Copies, Moved,
         Copied, Complete, Before, Migrating, Enabling, Restored, Adoption!RetireAccess,
         Adoption!Goto, Adoption!database, Adoption!service, Adoption!worktree
    <2>4. Restored'
      BY <1>29, <2>1, CopyIsSomething DEF AdoptionInv, AdoptionTypes, Restored, Copies, Copied,
         Exported, Complete, Migrating, Enabling, Before, Adoption!RetireAccess, Adoption!Goto,
         Adoption!database, Adoption!service, Adoption!worktree
    <2>5. Moved'
      BY <1>29, <2>1, CopyIsSomething DEF AdoptionInv, AdoptionTypes, Moved, Copies, Exported,
         Complete, Migrating, Enabling, Untouched, Adoption!Is, Adoption!RetireAccess,
         Adoption!Goto, Adoption!database, Adoption!service, Adoption!worktree
    <2>6. QED
      BY <2>1, <2>2, <2>3, <2>4, <2>5 DEF AdoptionInv
  <1>30. ASSUME Adoption!Crash
        PROVE  AdoptionInv'
    <2>1. AdoptionTypes'
      BY <1>30, CopyIsSomething DEF AdoptionInv, AdoptionTypes, Adoption!Crash, Adoption!Goto,
         Adoption!database, Adoption!service, Adoption!worktree
    <2>2. Copied'
      BY <1>30, <2>1, CopyIsSomething DEF AdoptionInv, AdoptionTypes, Copied, Copies,
         Adoption!Guarded, Exported, Complete, Before, Migrating, Enabling, Adoption!Crash,
         Adoption!Goto, Adoption!database, Adoption!service, Adoption!worktree
    <2>3. Exported'
      BY <1>30, <2>1, CopyIsSomething DEF AdoptionInv, AdoptionTypes, Exported, Copies, Moved,
         Copied, Complete, Before, Migrating, Enabling, Restored, Adoption!Crash, Adoption!Goto,
         Adoption!database, Adoption!service, Adoption!worktree
    <2>4. Restored'
      BY <1>30, <2>1, CopyIsSomething DEF AdoptionInv, AdoptionTypes, Restored, Copies, Copied,
         Exported, Complete, Migrating, Enabling, Before, Adoption!Crash, Adoption!Goto,
         Adoption!database, Adoption!service, Adoption!worktree
    <2>5. Moved'
      BY <1>30, <2>1, CopyIsSomething DEF AdoptionInv, AdoptionTypes, Moved, Copies, Exported,
         Complete, Migrating, Enabling, Untouched, Adoption!Is, Adoption!Crash, Adoption!Goto,
         Adoption!database, Adoption!service, Adoption!worktree
    <2>6. QED
      BY <2>1, <2>2, <2>3, <2>4, <2>5 DEF AdoptionInv
  <1>31. ASSUME Adoption!Stray
        PROVE  AdoptionInv'
    <2>1. AdoptionTypes'
      BY <1>31, CopyIsSomething DEF AdoptionInv, AdoptionTypes, Adoption!Stray, Adoption!Goto,
         Adoption!database, Adoption!service, Adoption!worktree
    <2>2. Copied'
      BY <1>31, <2>1, CopyIsSomething DEF AdoptionInv, AdoptionTypes, Copied, Copies,
         Adoption!Guarded, Exported, Complete, Before, Migrating, Enabling, Adoption!Stray,
         Adoption!Goto, Adoption!database, Adoption!service, Adoption!worktree
    <2>3. Exported'
      BY <1>31, <2>1, CopyIsSomething DEF AdoptionInv, AdoptionTypes, Exported, Copies, Moved,
         Copied, Complete, Before, Migrating, Enabling, Restored, Adoption!Stray, Adoption!Goto,
         Adoption!database, Adoption!service, Adoption!worktree
    <2>4. Restored'
      BY <1>31, <2>1, CopyIsSomething DEF AdoptionInv, AdoptionTypes, Restored, Copies, Copied,
         Exported, Complete, Migrating, Enabling, Before, Adoption!Stray, Adoption!Goto,
         Adoption!database, Adoption!service, Adoption!worktree
    <2>5. Moved'
      BY <1>31, <2>1, CopyIsSomething DEF AdoptionInv, AdoptionTypes, Moved, Copies, Exported,
         Complete, Migrating, Enabling, Untouched, Adoption!Is, Adoption!Stray, Adoption!Goto,
         Adoption!database, Adoption!service, Adoption!worktree
    <2>6. QED
      BY <2>1, <2>2, <2>3, <2>4, <2>5 DEF AdoptionInv
  <1>32. ASSUME NEW w \in Writers, Adoption!Open(w)
        PROVE  AdoptionInv'
    <2>1. AdoptionTypes'
      BY <1>32, CopyIsSomething DEF AdoptionInv, AdoptionTypes, Adoption!Open, Adoption!Goto,
         Adoption!database, Adoption!service, Adoption!worktree
    <2>2. Copied'
      BY <1>32, <2>1, CopyIsSomething DEF AdoptionInv, AdoptionTypes, Copied, Copies,
         Adoption!Guarded, Exported, Complete, Before, Migrating, Enabling, Adoption!Open,
         Adoption!Goto, Adoption!database, Adoption!service, Adoption!worktree
    <2>3. Exported'
      BY <1>32, <2>1, CopyIsSomething DEF AdoptionInv, AdoptionTypes, Exported, Copies, Moved,
         Copied, Complete, Before, Migrating, Enabling, Restored, Adoption!Open, Adoption!Goto,
         Adoption!database, Adoption!service, Adoption!worktree
    <2>4. Restored'
      BY <1>32, <2>1, CopyIsSomething DEF AdoptionInv, AdoptionTypes, Restored, Copies, Copied,
         Exported, Complete, Migrating, Enabling, Before, Adoption!Open, Adoption!Goto,
         Adoption!database, Adoption!service, Adoption!worktree
    <2>5. Moved'
      BY <1>32, <2>1, CopyIsSomething DEF AdoptionInv, AdoptionTypes, Moved, Copies, Exported,
         Complete, Migrating, Enabling, Untouched, Adoption!Is, Adoption!Open, Adoption!Goto,
         Adoption!database, Adoption!service, Adoption!worktree
    <2>6. QED
      BY <2>1, <2>2, <2>3, <2>4, <2>5 DEF AdoptionInv
  <1>33. ASSUME NEW w \in Writers, Adoption!Close(w)
        PROVE  AdoptionInv'
    <2>1. AdoptionTypes'
      BY <1>33, CopyIsSomething DEF AdoptionInv, AdoptionTypes, Adoption!Close, Adoption!Goto,
         Adoption!database, Adoption!service, Adoption!worktree
    <2>2. Copied'
      BY <1>33, <2>1, CopyIsSomething DEF AdoptionInv, AdoptionTypes, Copied, Copies,
         Adoption!Guarded, Exported, Complete, Before, Migrating, Enabling, Adoption!Close,
         Adoption!Goto, Adoption!database, Adoption!service, Adoption!worktree
    <2>3. Exported'
      BY <1>33, <2>1, CopyIsSomething DEF AdoptionInv, AdoptionTypes, Exported, Copies, Moved,
         Copied, Complete, Before, Migrating, Enabling, Restored, Adoption!Close, Adoption!Goto,
         Adoption!database, Adoption!service, Adoption!worktree
    <2>4. Restored'
      BY <1>33, <2>1, CopyIsSomething DEF AdoptionInv, AdoptionTypes, Restored, Copies, Copied,
         Exported, Complete, Migrating, Enabling, Before, Adoption!Close, Adoption!Goto,
         Adoption!database, Adoption!service, Adoption!worktree
    <2>5. Moved'
      BY <1>33, <2>1, CopyIsSomething DEF AdoptionInv, AdoptionTypes, Moved, Copies, Exported,
         Complete, Migrating, Enabling, Untouched, Adoption!Is, Adoption!Close, Adoption!Goto,
         Adoption!database, Adoption!service, Adoption!worktree
    <2>6. QED
      BY <2>1, <2>2, <2>3, <2>4, <2>5 DEF AdoptionInv
  <1>34. ASSUME NEW w \in Writers, NEW i \in Commits, Adoption!Write(w, i)
        PROVE  AdoptionInv'
    <2>1. AdoptionTypes'
      BY <1>34, CopyIsSomething DEF AdoptionInv, AdoptionTypes, Adoption!Write, Adoption!Goto,
         Adoption!database, Adoption!service, Adoption!worktree
    <2>2. Copied'
      BY <1>34, <2>1, CopyIsSomething DEF AdoptionInv, AdoptionTypes, Copied, Copies,
         Adoption!Guarded, Exported, Complete, Before, Migrating, Enabling, Adoption!Write,
         Adoption!Goto, Adoption!database, Adoption!service, Adoption!worktree
    <2>3. Exported'
      BY <1>34, <2>1, CopyIsSomething DEF AdoptionInv, AdoptionTypes, Exported, Copies, Moved,
         Copied, Complete, Before, Migrating, Enabling, Restored, Adoption!Write, Adoption!Goto,
         Adoption!database, Adoption!service, Adoption!worktree
    <2>4. Restored'
      BY <1>34, <2>1, CopyIsSomething DEF AdoptionInv, AdoptionTypes, Restored, Copies, Copied,
         Exported, Complete, Migrating, Enabling, Before, Adoption!Write, Adoption!Goto,
         Adoption!database, Adoption!service, Adoption!worktree
    <2>5. Moved'
      BY <1>34, <2>1, CopyIsSomething DEF AdoptionInv, AdoptionTypes, Moved, Copies, Exported,
         Complete, Migrating, Enabling, Untouched, Adoption!Is, Adoption!Write, Adoption!Goto,
         Adoption!database, Adoption!service, Adoption!worktree
    <2>6. QED
      BY <2>1, <2>2, <2>3, <2>4, <2>5 DEF AdoptionInv
  <1>35. ASSUME NEW e \in Edits, Adoption!Edit(e)
        PROVE  AdoptionInv'
    <2>1. AdoptionTypes'
      BY <1>35, CopyIsSomething DEF AdoptionInv, AdoptionTypes, Moved, Copies, Complete,
         Adoption!Edit, Adoption!Goto, Adoption!database, Adoption!service, Adoption!worktree
    <2>2. Copied'
      BY <1>35, <2>1, CopyIsSomething DEF AdoptionInv, AdoptionTypes, Copied, Copies,
         Adoption!Guarded, Exported, Complete, Before, Migrating, Enabling, Adoption!Edit,
         Adoption!Goto, Adoption!database, Adoption!service, Adoption!worktree
    <2>3. Exported'
      BY <1>35, <2>1, CopyIsSomething DEF AdoptionInv, AdoptionTypes, Exported, Copies, Moved,
         Copied, Complete, Before, Migrating, Enabling, Restored, Adoption!Edit, Adoption!Goto,
         Adoption!database, Adoption!service, Adoption!worktree
    <2>4. Restored'
      BY <1>35, <2>1, CopyIsSomething DEF AdoptionInv, AdoptionTypes, Restored, Copies, Copied,
         Exported, Complete, Migrating, Enabling, Before, Adoption!Edit, Adoption!Goto,
         Adoption!database, Adoption!service, Adoption!worktree
    <2>5. Moved'
      BY <1>35, <2>1, CopyIsSomething DEF AdoptionInv, AdoptionTypes, Moved, Copies, Exported,
         Complete, Migrating, Enabling, Untouched, Adoption!Is, Adoption!Edit, Adoption!Goto,
         Adoption!database, Adoption!service, Adoption!worktree
    <2>6. QED
      BY <2>1, <2>2, <2>3, <2>4, <2>5 DEF AdoptionInv
  <1>36. ASSUME NEW i \in Commits, Adoption!Client(i)
        PROVE  AdoptionInv'
    <2>1. AdoptionTypes'
      BY <1>36, CopyIsSomething DEF AdoptionInv, AdoptionTypes, Moved, Copies, Complete,
         Restored, Adoption!Client, Adoption!Goto, Adoption!database, Adoption!service,
         Adoption!worktree
    <2>2. Copied'
      BY <1>36, <2>1, CopyIsSomething DEF AdoptionInv, AdoptionTypes, Copied, Copies,
         Adoption!Guarded, Exported, Complete, Before, Migrating, Enabling, Adoption!Client,
         Adoption!Goto, Adoption!database, Adoption!service, Adoption!worktree
    <2>3. Exported'
      BY <1>36, <2>1, CopyIsSomething DEF AdoptionInv, AdoptionTypes, Exported, Copies, Moved,
         Copied, Complete, Before, Migrating, Enabling, Restored, Adoption!Client, Adoption!Goto,
         Adoption!database, Adoption!service, Adoption!worktree
    <2>4. Restored'
      <3>1. shared \in Copies /\ shared.whole /\ registration = "ready"
        BY <1>36 DEF AdoptionInv, AdoptionTypes, Restored, Complete, Adoption!Client
      <3>2. shared' = [shared EXCEPT !.items = shared.items \cup {i}]
        BY <1>36, <3>1 DEF Adoption!Client, Copies
      <3>3. shared' \in Copies /\ shared'.whole /\ shared.items \subseteq shared'.items
        BY <3>1, <3>2, CopyIsSomething DEF Copies
      <3>4. adopter' = adopter /\ registration' = registration /\ original' = original
              /\ enabled' = enabled
        BY <1>36 DEF Adoption!Client, Adoption!database, Adoption!worktree
      <3>5. shared # None /\ shared' # None
        BY <3>1, <3>3, CopyIsSomething
      <3>6. QED
        BY <3>1, <3>3, <3>4, <3>5 DEF AdoptionInv, Restored, Complete
    <2>5. Moved'
      BY <1>36, <2>1, CopyIsSomething DEF AdoptionInv, AdoptionTypes, Moved, Copies, Exported,
         Complete, Migrating, Enabling, Untouched, Adoption!Is, Adoption!Client, Adoption!Goto,
         Adoption!database, Adoption!service, Adoption!worktree
    <2>6. QED
      BY <2>1, <2>2, <2>3, <2>4, <2>5 DEF AdoptionInv
  <1>37. QED
    BY <1>1, <1>2, <1>3, <1>4, <1>5, <1>6, <1>7, <1>8, <1>9, <1>10, <1>11, <1>12, <1>13, <1>14,
       <1>15, <1>16, <1>17, <1>18, <1>19, <1>20, <1>21, <1>22, <1>23, <1>24, <1>25, <1>26, <1>27,
       <1>28, <1>29, <1>30, <1>31, <1>32, <1>33, <1>34, <1>35, <1>36 DEF Adoption!Next,
       Adoption!Prepare, Adoption!Migrate, Adoption!Registration

(* Clients may use a database only when it is whole. *)
LEMMA AdoptionAdopts == AdoptionInv /\ Adoption!Next /\ AdoptionInv' => Adopts
  <1> SUFFICES ASSUME AdoptionInv, Adoption!Next, AdoptionInv' PROVE Adopts
    OBVIOUS
  <1> USE CopyIsSomething
  <1>1. enabled' => registration' = "ready"
    BY DEF AdoptionInv, Restored
  <1>2. registration' = "ready" => Adoption!Whole'
    BY DEF AdoptionInv, Copied, Exported, Restored, Moved, Complete, Adoption!Whole
  <1>3. shared # None => shared' # None /\ shared.items \subseteq shared'.items
    <2>1. CASE shared' = shared
      BY <2>1
    <2>2. CASE Adoption!Restore
      BY <2>2 DEF AdoptionInv, Restored, Adoption!Restore
    <2>3. CASE Adoption!Restores
      BY <2>3 DEF AdoptionInv, Exported, Restored, Complete, Adoption!Restores
    <2>4. ASSUME NEW i \in Commits, Adoption!Client(i)
          PROVE  shared # None => shared' # None /\ shared.items \subseteq shared'.items
      <3>1. shared \in Copies
        BY <2>4 DEF AdoptionInv, AdoptionTypes, Restored, Complete, Adoption!Client
      <3>2. shared' = [shared EXCEPT !.items = shared.items \cup {i}]
        BY <2>4, <3>1 DEF Adoption!Client, Copies
      <3>3. shared' \in Copies /\ shared.items \subseteq shared'.items
        BY <3>1, <3>2 DEF Copies
      <3>4. QED
        BY <3>3
    <2>5. QED
      BY <2>1, <2>2, <2>3, <2>4
         DEF Adoption!Next, Adoption!Prepare, Adoption!Migrate, Adoption!Registration,
            Adoption!Begin, Adoption!Goto, Adoption!database, Adoption!service, Adoption!worktree,
            Adoption!SourceBusy, Adoption!Lock, Adoption!Moving, Adoption!Move,
            Adoption!Checkpointed, Adoption!Copy, Adoption!Nothing, Adoption!Copied,
            Adoption!Export, Adoption!Exported, Adoption!AdministrationDone, Adoption!MoveWorktree,
            Adoption!Clone, Adoption!Cloned, Adoption!Is, Adoption!Index, Adoption!IndexEntries,
            Adoption!Fresh, Adoption!Collides, Adoption!Checkout, Adoption!CheckedOut,
            Adoption!Administration, Adoption!Incomplete, Adoption!Register, Adoption!Imported,
            Adoption!Registered, Adoption!Provision, Adoption!Enable, Adoption!RetireAccess,
            Adoption!Crash, Adoption!Stray, Adoption!Open, Adoption!Close, Adoption!Write,
            Adoption!Edit
  <1>4. QED
    BY <1>1, <1>2, <1>3 DEF Adopts

(* Clients may use the shared database only when nothing of the workspace   *)
(* was left behind, and no later attempt, restore or crash takes a commit   *)
(* from it.                                                                 *)
THEOREM AdoptionComplete == WorkspaceSpec => AdoptedWhole
  <1>1. WorkspaceInit => AdoptionInv
    BY AdoptionInit DEF WorkspaceInit
  <1>2. AdoptionInv /\ [WorkspaceNext]_all => AdoptionInv'
    <2> SUFFICES ASSUME AdoptionInv, [WorkspaceNext]_all PROVE AdoptionInv'
      OBVIOUS
    <2>1. CASE pick = "adoption" /\ Adoption!Next
      BY <2>1, AdoptionStep
    <2>2. CASE UNCHANGED adoption
      <3>1. AdoptionTypes' /\ Copied'
        BY <2>2 DEF adoption, AdoptionInv, AdoptionTypes, Copied, Complete, Adoption!Guarded
      <3>2. Exported' /\ Restored'
        BY <2>2 DEF adoption, AdoptionInv, Exported, Restored, Complete
      <3>3. Moved'
        BY <2>2 DEF adoption, AdoptionInv, Moved, Complete, Untouched, Adoption!Is
      <3>4. QED
        BY <3>1, <3>2, <3>3 DEF AdoptionInv
    <2>3. QED
      BY <2>1, <2>2 DEF WorkspaceNext, all
  <1>3. AdoptionInv /\ [WorkspaceNext]_all /\ AdoptionInv' => [Adopts]_Adoption!vars
    <2> SUFFICES ASSUME AdoptionInv, [WorkspaceNext]_all, AdoptionInv' PROVE [Adopts]_Adoption!vars
      OBVIOUS
    <2>1. CASE pick = "adoption" /\ Adoption!Next
      BY <2>1, AdoptionAdopts
    <2>2. CASE UNCHANGED adoption
      BY <2>2 DEF adoption, Adoption!vars, Adoption!database, Adoption!service, Adoption!worktree
    <2>3. QED
      BY <2>1, <2>2 DEF WorkspaceNext, all
  <1>4. QED
    BY <1>1, <1>2, <1>3, PTL DEF WorkspaceSpec, AdoptedWhole, Adoption!AdoptedWhole, Adopts

-----------------------------------------------------------------------------
(* PendingPublication. *)

PendingPoints ==
    {"idle", "capture", "record", "lock", "load", "upload", "unlock", "unlink", "rmdir", "drop",
     "scope", "existing", "hold", "realize", "approve", "cleanup"}

Links == {"none", "whole", "partial"}

Directories == [out : Outs \cup {None}, links : Links]

Jobs ==
    [ids : SUBSET Ids, todo : SUBSET (Outs \cup {None}), hold : SUBSET (Outs \cup {None}),
     out : Outs \cup {None}, kind : Pending!Kinds]

PendingTypes ==
    /\ outputs \subseteq Outs
    /\ dirs \in [Ids -> Directories]
    /\ records \subseteq [kind : Pending!Kinds, id : Ids]
    /\ at \in [Pending!Programs -> PendingPoints]
    /\ job \in [Pending!Programs -> Jobs]

(* A root directory with its link, and the builder of the hook, keep their  *)
(* output in the store.                                                     *)
Rooting ==
    /\ \A i \in Ids : dirs[i].links = "whole" => dirs[i].out \in outputs
    /\ at["hook"] = "capture" => job["hook"].out \in outputs

(* Nobody else has the directory that a program is about to record. *)
Unshared(p) ==
    \A i \in job[p].ids :
        /\ dirs[i].links = "whole" /\ i \notin recorded
        /\ \A r \in records : r.id # i
        /\ \A q \in Pending!Programs \ {p} : i \notin job[q].ids

Acquiring ==
    /\ at["hook"] = "record" => Unshared("hook")
    /\ at["warm"] = "hold" => Unshared("warm")
    /\ at["hook"] = "record" => \A i \in job["hook"].ids : dirs[i].out = job["hook"].out
    /\ at["hook"] = "lock" => \A i \in job["hook"].ids \cap (recorded \ delivered) :
         dirs[i].out = job["hook"].out

(* What a program has taken and is not delivered yet, it still has to       *)
(* deliver; it completes only what is.                                      *)
Carried ==
    \A p \in Pending!Programs : at[p] \in {"load", "upload"} =>
        \A i \in job[p].ids \cap (recorded \ delivered) : dirs[i].out \in job[p].todo

Completing ==
    \A p \in Pending!Programs : at[p] \in {"unlock", "unlink", "rmdir", "drop"} =>
        job[p].ids \cap (recorded \ delivered) = {}

PendingInv ==
    PendingTypes /\ Rooting /\ Acquiring /\ Carried /\ Completing /\ Pending!PendingKept

(* The initial states. *)
LEMMA PendingInit == Pending!Init => PendingInv
  <1> SUFFICES ASSUME Pending!Init PROVE PendingInv
    OBVIOUS
  <1>1. PendingTypes
    BY DEF Pending!Init, PendingTypes, PendingPoints, Directories, Links, Jobs, Pending!Kinds,
       Pending!Idle, Pending!NoDir
  <1>2. Rooting /\ Acquiring /\ Carried /\ Completing /\ Pending!PendingKept
    BY DEF Pending!Init, Rooting, Acquiring, Carried, Completing, Pending!PendingKept,
       Pending!NoDir, Pending!Programs
  <1>3. QED
    BY <1>1, <1>2 DEF PendingInv

(* What was held for a warm that is over is still pending. *)
LEMMA OutlivedLive ==
    ASSUME PendingTypes, Pending!Outlived, NEW i \in Ids, Pending!Live(i)
    PROVE  Pending!Live(i)'
  <1>1. PICK r \in records : r.id = i
    BY DEF Pending!Live
  <1>2. r \in [kind : Pending!Kinds, id : Ids]
    BY DEF PendingTypes
  <1>3. [r EXCEPT !.kind = IF @ = "held" THEN "stale" ELSE @].id = i
    BY <1>1, <1>2
  <1>4. [r EXCEPT !.kind = IF @ = "held" THEN "stale" ELSE @] \in records'
    BY DEF Pending!Outlived
  <1>5. QED
    BY <1>3, <1>4 DEF Pending!Live

(* A record that is written is pending, and so is what was. *)
LEMMA WrittenLive ==
    ASSUME NEW k, NEW D, records' = records \cup [kind : {k}, id : D], NEW i,
           i \in D \/ Pending!Live(i)
    PROVE  Pending!Live(i)'
  <1>1. CASE i \in D
    <2>1. [kind |-> k, id |-> i] \in records' /\ [kind |-> k, id |-> i].id = i
      BY <1>1
    <2>2. QED
      BY <2>1 DEF Pending!Live
  <1>2. CASE Pending!Live(i)
    BY <1>2 DEF Pending!Live
  <1>3. QED
    BY <1>1, <1>2

(* One step. *)
LEMMA PendingStep == PendingInv /\ Pending!Next => PendingInv'
  <1> SUFFICES ASSUME PendingInv, Pending!Next PROVE PendingInv'
    OBVIOUS
  <1>1. ASSUME NEW o \in Outs, Pending!Build(o)
        PROVE  PendingInv'
    <2>1. PendingTypes'
      BY <1>1 DEF PendingInv, PendingTypes, PendingPoints, Directories, Links, Jobs,
         Pending!Build, Pending!Scoped, Pending!Idle, Pending!Goto, Pending!Programs,
         Pending!publishing, Pending!Kinds
    <2>2. Rooting'
      BY <1>1 DEF PendingInv, Rooting, PendingTypes, Jobs, Directories, Pending!Build,
         Pending!Scoped, Pending!Idle, Pending!Goto, Pending!Programs, Pending!publishing,
         Pending!Kinds
    <2>3. Acquiring'
      BY <1>1 DEF PendingInv, Acquiring, PendingTypes, Jobs, Directories, Unshared, Completing,
         Pending!Build, Pending!Scoped, Pending!Idle, Pending!Goto, Pending!Programs,
         Pending!publishing, Pending!Kinds
    <2>4. Carried'
      BY <1>1 DEF PendingInv, Carried, PendingTypes, Jobs, Directories, Completing, Acquiring,
         Unshared, Pending!Build, Pending!Scoped, Pending!Idle, Pending!Goto, Pending!Programs,
         Pending!publishing, Pending!Kinds
    <2>5. Completing'
      BY <1>1 DEF PendingInv, Completing, PendingTypes, Jobs, Directories, Acquiring, Unshared,
         Carried, Pending!Build, Pending!Scoped, Pending!Idle, Pending!Goto, Pending!Programs,
         Pending!publishing, Pending!Kinds
    <2>6. Pending!PendingKept'
      BY <1>1 DEF PendingInv, Pending!PendingKept, PendingTypes, Jobs, Directories, Acquiring,
         Unshared, Completing, Rooting, Pending!Live, Pending!Build, Pending!Scoped, Pending!Idle,
         Pending!Goto, Pending!Programs, Pending!publishing, Pending!Kinds
    <2>7. QED
      BY <2>1, <2>2, <2>3, <2>4, <2>5, <2>6 DEF PendingInv
  <1>2. ASSUME NEW i \in Ids, Pending!Capture(i)
        PROVE  PendingInv'
    <2>1. PendingTypes'
      BY <1>2 DEF PendingInv, PendingTypes, PendingPoints, Directories, Links, Jobs,
         Pending!Capture, Pending!Acquired, Pending!Used, Pending!Live, Pending!Goto,
         Pending!Programs, Pending!publishing, Pending!Kinds
    <2>2. Rooting'
      BY <1>2 DEF PendingInv, Rooting, PendingTypes, Jobs, Directories, Pending!Capture,
         Pending!Acquired, Pending!Used, Pending!Live, Pending!Goto, Pending!Programs,
         Pending!publishing, Pending!Kinds
    <2>3. Acquiring'
      BY <1>2 DEF PendingInv, Acquiring, PendingTypes, Jobs, Directories, Unshared, Completing,
         Pending!Capture, Pending!Acquired, Pending!Used, Pending!Live, Pending!Goto,
         Pending!Programs, Pending!publishing, Pending!Kinds
    <2>4. Carried'
      BY <1>2 DEF PendingInv, Carried, PendingTypes, Jobs, Directories, Completing, Acquiring,
         Unshared, Pending!Capture, Pending!Acquired, Pending!Used, Pending!Live, Pending!Goto,
         Pending!Programs, Pending!publishing, Pending!Kinds
    <2>5. Completing'
      BY <1>2 DEF PendingInv, Completing, PendingTypes, Jobs, Directories, Acquiring, Unshared,
         Carried, Pending!Capture, Pending!Acquired, Pending!Used, Pending!Live, Pending!Goto,
         Pending!Programs, Pending!publishing, Pending!Kinds
    <2>6. Pending!PendingKept'
      BY <1>2 DEF PendingInv, Pending!PendingKept, PendingTypes, Jobs, Directories, Acquiring,
         Unshared, Completing, Rooting, Pending!Live, Pending!Capture, Pending!Acquired,
         Pending!Used, Pending!Goto, Pending!Programs, Pending!publishing, Pending!Kinds
    <2>7. QED
      BY <2>1, <2>2, <2>3, <2>4, <2>5, <2>6 DEF PendingInv
  <1>3. ASSUME Pending!Record
        PROVE  PendingInv'
    <2>1. PendingTypes'
      BY <1>3 DEF PendingInv, PendingTypes, PendingPoints, Directories, Links, Jobs,
         Pending!Record, Pending!Idle, Pending!Goto, Pending!Programs, Pending!publishing,
         Pending!Kinds
    <2>2. Rooting'
      BY <1>3 DEF PendingInv, Rooting, PendingTypes, Jobs, Directories, Pending!Record,
         Pending!Idle, Pending!Goto, Pending!Programs, Pending!publishing, Pending!Kinds
    <2>3. Acquiring'
      BY <1>3 DEF PendingInv, Acquiring, PendingTypes, Jobs, Directories, Unshared, Completing,
         Pending!Record, Pending!Idle, Pending!Goto, Pending!Programs, Pending!publishing,
         Pending!Kinds
    <2>4. Carried'
      BY <1>3 DEF PendingInv, Carried, PendingTypes, Jobs, Directories, Completing, Acquiring,
         Unshared, Pending!Record, Pending!Idle, Pending!Goto, Pending!Programs,
         Pending!publishing, Pending!Kinds
    <2>5. Completing'
      BY <1>3 DEF PendingInv, Completing, PendingTypes, Jobs, Directories, Acquiring, Unshared,
         Carried, Pending!Record, Pending!Idle, Pending!Goto, Pending!Programs, Pending!publishing,
         Pending!Kinds
    <2>6. Pending!PendingKept'
      <3>1. /\ records' = records \cup [kind : {job["hook"].kind}, id : job["hook"].ids]
            /\ recorded' = recorded \cup job["hook"].ids
            /\ UNCHANGED <<outputs, dirs, delivered>>
            /\ \A i \in job["hook"].ids : dirs[i].links = "whole"
        BY <1>3 DEF PendingInv, Acquiring, Unshared, Pending!Record
      <3> SUFFICES ASSUME NEW i \in recorded' \ delivered'
                   PROVE  Pending!Live(i)' /\ dirs'[i].links = "whole" /\ dirs'[i].out \in outputs'
        BY DEF Pending!PendingKept
      <3>2. job["hook"].ids \subseteq Ids
        BY DEF PendingInv, PendingTypes, Jobs, Pending!Programs
      <3>3. CASE i \in job["hook"].ids
        BY <3>1, <3>2, <3>3, WrittenLive DEF PendingInv, Rooting
      <3>4. CASE i \notin job["hook"].ids
        BY <3>1, <3>4, WrittenLive DEF PendingInv, Pending!PendingKept
      <3>5. QED
        BY <3>3, <3>4
    <2>7. QED
      BY <2>1, <2>2, <2>3, <2>4, <2>5, <2>6 DEF PendingInv
  <1>4. ASSUME Pending!HookTimesOut
        PROVE  PendingInv'
    <2>1. PendingTypes'
      BY <1>4 DEF PendingInv, PendingTypes, PendingPoints, Directories, Links, Jobs,
         Pending!HookTimesOut, Pending!Idle, Pending!Goto, Pending!Programs, Pending!publishing,
         Pending!Kinds
    <2>2. Rooting'
      BY <1>4 DEF PendingInv, Rooting, PendingTypes, Jobs, Directories, Pending!HookTimesOut,
         Pending!Idle, Pending!Goto, Pending!Programs, Pending!publishing, Pending!Kinds
    <2>3. Acquiring'
      BY <1>4 DEF PendingInv, Acquiring, PendingTypes, Jobs, Directories, Unshared, Completing,
         Pending!HookTimesOut, Pending!Idle, Pending!Goto, Pending!Programs, Pending!publishing,
         Pending!Kinds
    <2>4. Carried'
      BY <1>4 DEF PendingInv, Carried, PendingTypes, Jobs, Directories, Completing, Acquiring,
         Unshared, Pending!HookTimesOut, Pending!Idle, Pending!Goto, Pending!Programs,
         Pending!publishing, Pending!Kinds
    <2>5. Completing'
      BY <1>4 DEF PendingInv, Completing, PendingTypes, Jobs, Directories, Acquiring, Unshared,
         Carried, Pending!HookTimesOut, Pending!Idle, Pending!Goto, Pending!Programs,
         Pending!publishing, Pending!Kinds
    <2>6. Pending!PendingKept'
      BY <1>4 DEF PendingInv, Pending!PendingKept, PendingTypes, Jobs, Directories, Acquiring,
         Unshared, Completing, Rooting, Pending!Live, Pending!HookTimesOut, Pending!Idle,
         Pending!Goto, Pending!Programs, Pending!publishing, Pending!Kinds
    <2>7. QED
      BY <2>1, <2>2, <2>3, <2>4, <2>5, <2>6 DEF PendingInv
  <1>5. ASSUME Pending!HookLocks
        PROVE  PendingInv'
    <2>1. PendingTypes'
      BY <1>5 DEF PendingInv, PendingTypes, PendingPoints, Directories, Links, Jobs,
         Pending!HookLocks, Pending!Acquire, Pending!Goto, Pending!Programs, Pending!publishing,
         Pending!Kinds
    <2>2. Rooting'
      BY <1>5 DEF PendingInv, Rooting, PendingTypes, Jobs, Directories, Pending!HookLocks,
         Pending!Acquire, Pending!Goto, Pending!Programs, Pending!publishing, Pending!Kinds
    <2>3. Acquiring'
      BY <1>5 DEF PendingInv, Acquiring, PendingTypes, Jobs, Directories, Unshared, Completing,
         Pending!HookLocks, Pending!Acquire, Pending!Goto, Pending!Programs, Pending!publishing,
         Pending!Kinds
    <2>4. Carried'
      BY <1>5 DEF PendingInv, Carried, PendingTypes, Jobs, Directories, Completing, Acquiring,
         Unshared, Pending!HookLocks, Pending!Acquire, Pending!Goto, Pending!Programs,
         Pending!publishing, Pending!Kinds
    <2>5. Completing'
      BY <1>5 DEF PendingInv, Completing, PendingTypes, Jobs, Directories, Acquiring, Unshared,
         Carried, Pending!HookLocks, Pending!Acquire, Pending!Goto, Pending!Programs,
         Pending!publishing, Pending!Kinds
    <2>6. Pending!PendingKept'
      BY <1>5 DEF PendingInv, Pending!PendingKept, PendingTypes, Jobs, Directories, Acquiring,
         Unshared, Completing, Rooting, Pending!Live, Pending!HookLocks, Pending!Acquire,
         Pending!Goto, Pending!Programs, Pending!publishing, Pending!Kinds
    <2>7. QED
      BY <2>1, <2>2, <2>3, <2>4, <2>5, <2>6 DEF PendingInv
  <1>6. ASSUME Pending!HookUnlocks
        PROVE  PendingInv'
    <2>1. PendingTypes'
      BY <1>6 DEF PendingInv, PendingTypes, PendingPoints, Directories, Links, Jobs,
         Pending!HookUnlocks, Pending!Goto, Pending!Programs, Pending!publishing, Pending!Kinds
    <2>2. Rooting'
      BY <1>6 DEF PendingInv, Rooting, PendingTypes, Jobs, Directories, Pending!HookUnlocks,
         Pending!Goto, Pending!Programs, Pending!publishing, Pending!Kinds
    <2>3. Acquiring'
      BY <1>6 DEF PendingInv, Acquiring, PendingTypes, Jobs, Directories, Unshared, Completing,
         Pending!HookUnlocks, Pending!Goto, Pending!Programs, Pending!publishing, Pending!Kinds
    <2>4. Carried'
      BY <1>6 DEF PendingInv, Carried, PendingTypes, Jobs, Directories, Completing, Acquiring,
         Unshared, Pending!HookUnlocks, Pending!Goto, Pending!Programs, Pending!publishing,
         Pending!Kinds
    <2>5. Completing'
      BY <1>6 DEF PendingInv, Completing, PendingTypes, Jobs, Directories, Acquiring, Unshared,
         Carried, Pending!HookUnlocks, Pending!Goto, Pending!Programs, Pending!publishing,
         Pending!Kinds
    <2>6. Pending!PendingKept'
      BY <1>6 DEF PendingInv, Pending!PendingKept, PendingTypes, Jobs, Directories, Acquiring,
         Unshared, Completing, Rooting, Pending!Live, Pending!HookUnlocks, Pending!Goto,
         Pending!Programs, Pending!publishing, Pending!Kinds
    <2>7. QED
      BY <2>1, <2>2, <2>3, <2>4, <2>5, <2>6 DEF PendingInv
  <1>7. ASSUME Pending!Publish
        PROVE  PendingInv'
    <2>1. PendingTypes'
      <3>1. PICK roots \in SUBSET outputs :
              LET drained == {r.id : r \in {s \in records :
                                 \/ s.kind = "ready"
                                 \/ s.kind = "protected" /\ dirs[s.id].out \in roots}}
              IN job' = [job EXCEPT !["publish"] =
                           [Pending!Idle EXCEPT !.ids = drained,
                                        !.todo = roots \cup {dirs[i].out : i \in drained}]]
        BY <1>7 DEF Pending!Publish
      <3> DEFINE drained == {r.id : r \in {s \in records :
                                \/ s.kind = "ready"
                                \/ s.kind = "protected" /\ dirs[s.id].out \in roots}}
                 todo == roots \cup {dirs[i].out : i \in drained}
      <3>2. drained \in SUBSET Ids
        BY DEF PendingInv, PendingTypes
      <3>3. todo \in SUBSET (Outs \cup {None})
        BY <3>2 DEF PendingInv, PendingTypes, Directories
      <3>4. [Pending!Idle EXCEPT !.ids = drained, !.todo = todo] \in Jobs
        BY <3>2, <3>3 DEF Jobs, Pending!Idle, Pending!Kinds
      <3>5. job' \in [Pending!Programs -> Jobs]
        BY <3>1, <3>4 DEF PendingInv, PendingTypes
      <3>6. QED
        BY <1>7, <3>5 DEF PendingInv, PendingTypes, PendingPoints, Pending!Publish, Pending!Goto
    <2>2. Rooting'
      BY <1>7 DEF PendingInv, Rooting, PendingTypes, Jobs, Directories, Pending!Publish,
         Pending!Idle, Pending!Acquire, Pending!Goto, Pending!Programs, Pending!publishing,
         Pending!Kinds
    <2>3. Acquiring'
      BY <1>7 DEF PendingInv, Acquiring, PendingTypes, Jobs, Directories, Unshared, Completing,
         Pending!Publish, Pending!Idle, Pending!Acquire, Pending!Goto, Pending!Programs,
         Pending!publishing, Pending!Kinds
    <2>4. Carried'
      BY <1>7 DEF PendingInv, Carried, PendingTypes, Jobs, Directories, Completing, Acquiring,
         Unshared, Pending!Publish, Pending!Idle, Pending!Acquire, Pending!Goto, Pending!Programs,
         Pending!publishing, Pending!Kinds
    <2>5. Completing'
      BY <1>7 DEF PendingInv, Completing, PendingTypes, Jobs, Directories, Acquiring, Unshared,
         Carried, Pending!Publish, Pending!Idle, Pending!Acquire, Pending!Goto, Pending!Programs,
         Pending!publishing, Pending!Kinds
    <2>6. Pending!PendingKept'
      BY <1>7 DEF PendingInv, Pending!PendingKept, PendingTypes, Jobs, Directories, Acquiring,
         Unshared, Completing, Rooting, Pending!Live, Pending!Publish, Pending!Idle,
         Pending!Acquire, Pending!Goto, Pending!Programs, Pending!publishing, Pending!Kinds
    <2>7. QED
      BY <2>1, <2>2, <2>3, <2>4, <2>5, <2>6 DEF PendingInv
  <1>8. ASSUME Pending!Warm
        PROVE  PendingInv'
    <2>1. PendingTypes'
      BY <1>8 DEF PendingInv, PendingTypes, PendingPoints, Directories, Links, Jobs,
         Pending!Warm, Pending!Acquire, Pending!Goto, Pending!Programs, Pending!publishing,
         Pending!Kinds
    <2>2. Rooting'
      BY <1>8 DEF PendingInv, Rooting, PendingTypes, Jobs, Directories, Pending!Warm,
         Pending!Acquire, Pending!Goto, Pending!Programs, Pending!publishing, Pending!Kinds
    <2>3. Acquiring'
      BY <1>8 DEF PendingInv, Acquiring, PendingTypes, Jobs, Directories, Unshared, Completing,
         Pending!Warm, Pending!Acquire, Pending!Goto, Pending!Programs, Pending!publishing,
         Pending!Kinds
    <2>4. Carried'
      BY <1>8 DEF PendingInv, Carried, PendingTypes, Jobs, Directories, Completing, Acquiring,
         Unshared, Pending!Warm, Pending!Acquire, Pending!Goto, Pending!Programs,
         Pending!publishing, Pending!Kinds
    <2>5. Completing'
      BY <1>8 DEF PendingInv, Completing, PendingTypes, Jobs, Directories, Acquiring, Unshared,
         Carried, Pending!Warm, Pending!Acquire, Pending!Goto, Pending!Programs,
         Pending!publishing, Pending!Kinds
    <2>6. Pending!PendingKept'
      BY <1>8 DEF PendingInv, Pending!PendingKept, PendingTypes, Jobs, Directories, Acquiring,
         Unshared, Completing, Rooting, Pending!Live, Pending!Warm, Pending!Acquire, Pending!Goto,
         Pending!Programs, Pending!publishing, Pending!Kinds
    <2>7. QED
      BY <2>1, <2>2, <2>3, <2>4, <2>5, <2>6 DEF PendingInv
  <1>9. ASSUME Pending!Scope
        PROVE  PendingInv'
    <2>1. PendingTypes'
      BY <1>9 DEF PendingInv, PendingTypes, PendingPoints, Directories, Links, Jobs,
         Pending!Scope, Pending!Goto, Pending!Programs, Pending!publishing, Pending!Kinds
    <2>2. Rooting'
      BY <1>9 DEF PendingInv, Rooting, PendingTypes, Jobs, Directories, Pending!Scope,
         Pending!Goto, Pending!Programs, Pending!publishing, Pending!Kinds
    <2>3. Acquiring'
      BY <1>9 DEF PendingInv, Acquiring, PendingTypes, Jobs, Directories, Unshared, Completing,
         Pending!Scope, Pending!Goto, Pending!Programs, Pending!publishing, Pending!Kinds
    <2>4. Carried'
      BY <1>9 DEF PendingInv, Carried, PendingTypes, Jobs, Directories, Completing, Acquiring,
         Unshared, Pending!Scope, Pending!Goto, Pending!Programs, Pending!publishing, Pending!Kinds
    <2>5. Completing'
      BY <1>9 DEF PendingInv, Completing, PendingTypes, Jobs, Directories, Acquiring, Unshared,
         Carried, Pending!Scope, Pending!Goto, Pending!Programs, Pending!publishing, Pending!Kinds
    <2>6. Pending!PendingKept'
      BY <1>9 DEF PendingInv, Pending!PendingKept, PendingTypes, Jobs, Directories, Acquiring,
         Unshared, Completing, Rooting, Pending!Live, Pending!Scope, Pending!Goto,
         Pending!Programs, Pending!publishing, Pending!Kinds
    <2>7. QED
      BY <2>1, <2>2, <2>3, <2>4, <2>5, <2>6 DEF PendingInv
  <1>10. ASSUME NEW i \in Ids, Pending!Existing(i)
        PROVE  PendingInv'
    <2>1. PendingTypes'
      BY SMTT(20), <1>10 DEF PendingInv, PendingTypes, PendingPoints, Directories, Links, Jobs,
         Pending!Existing, Pending!Acquired, Pending!Used, Pending!Live, Pending!Goto,
         Pending!Programs, Pending!publishing, Pending!Kinds
    <2>2. Rooting'
      BY <1>10 DEF PendingInv, Rooting, PendingTypes, Jobs, Directories, Pending!Existing,
         Pending!Acquired, Pending!Used, Pending!Live, Pending!Goto, Pending!Programs,
         Pending!publishing, Pending!Kinds
    <2>3. Acquiring'
      BY <1>10 DEF PendingInv, Acquiring, PendingTypes, Jobs, Directories, Unshared, Completing,
         Pending!Existing, Pending!Acquired, Pending!Used, Pending!Live, Pending!Goto,
         Pending!Programs, Pending!publishing, Pending!Kinds
    <2>4. Carried'
      BY <1>10 DEF PendingInv, Carried, PendingTypes, Jobs, Directories, Completing, Acquiring,
         Unshared, Pending!Existing, Pending!Acquired, Pending!Used, Pending!Live, Pending!Goto,
         Pending!Programs, Pending!publishing, Pending!Kinds
    <2>5. Completing'
      BY <1>10 DEF PendingInv, Completing, PendingTypes, Jobs, Directories, Acquiring, Unshared,
         Carried, Pending!Existing, Pending!Acquired, Pending!Used, Pending!Live, Pending!Goto,
         Pending!Programs, Pending!publishing, Pending!Kinds
    <2>6. Pending!PendingKept'
      BY <1>10 DEF PendingInv, Pending!PendingKept, PendingTypes, Jobs, Directories, Acquiring,
         Unshared, Completing, Rooting, Pending!Live, Pending!Existing, Pending!Acquired,
         Pending!Used, Pending!Goto, Pending!Programs, Pending!publishing, Pending!Kinds
    <2>7. QED
      BY <2>1, <2>2, <2>3, <2>4, <2>5, <2>6 DEF PendingInv
  <1>11. ASSUME Pending!Hold
        PROVE  PendingInv'
    <2>1. PendingTypes'
      BY <1>11 DEF PendingInv, PendingTypes, PendingPoints, Directories, Links, Jobs,
         Pending!Hold, Pending!Idle, Pending!Goto, Pending!Programs, Pending!publishing,
         Pending!Kinds
    <2>2. Rooting'
      BY <1>11 DEF PendingInv, Rooting, PendingTypes, Jobs, Directories, Pending!Hold,
         Pending!Idle, Pending!Goto, Pending!Programs, Pending!publishing, Pending!Kinds
    <2>3. Acquiring'
      BY <1>11 DEF PendingInv, Acquiring, PendingTypes, Jobs, Directories, Unshared, Completing,
         Pending!Hold, Pending!Idle, Pending!Goto, Pending!Programs, Pending!publishing,
         Pending!Kinds
    <2>4. Carried'
      BY <1>11 DEF PendingInv, Carried, PendingTypes, Jobs, Directories, Completing, Acquiring,
         Unshared, Pending!Hold, Pending!Idle, Pending!Goto, Pending!Programs, Pending!publishing,
         Pending!Kinds
    <2>5. Completing'
      BY <1>11 DEF PendingInv, Completing, PendingTypes, Jobs, Directories, Acquiring, Unshared,
         Carried, Pending!Hold, Pending!Idle, Pending!Goto, Pending!Programs, Pending!publishing,
         Pending!Kinds
    <2>6. Pending!PendingKept'
      <3>1. /\ records' = records \cup [kind : {"held"}, id : job["warm"].ids]
            /\ recorded' = recorded \cup job["warm"].ids
            /\ UNCHANGED <<outputs, dirs, delivered>>
            /\ \A i \in job["warm"].ids : dirs[i].links = "whole"
        BY <1>11 DEF PendingInv, Acquiring, Unshared, Pending!Hold
      <3> SUFFICES ASSUME NEW i \in recorded' \ delivered'
                   PROVE  Pending!Live(i)' /\ dirs'[i].links = "whole" /\ dirs'[i].out \in outputs'
        BY DEF Pending!PendingKept
      <3>2. job["warm"].ids \subseteq Ids
        BY DEF PendingInv, PendingTypes, Jobs, Pending!Programs
      <3>3. CASE i \in job["warm"].ids
        BY <3>1, <3>2, <3>3, WrittenLive DEF PendingInv, Rooting
      <3>4. CASE i \notin job["warm"].ids
        BY <3>1, <3>4, WrittenLive DEF PendingInv, Pending!PendingKept
      <3>5. QED
        BY <3>3, <3>4
    <2>7. QED
      BY <2>1, <2>2, <2>3, <2>4, <2>5, <2>6 DEF PendingInv
  <1>12. ASSUME Pending!Nothing
        PROVE  PendingInv'
    <2>1. PendingTypes'
      BY <1>12 DEF PendingInv, PendingTypes, PendingPoints, Directories, Links, Jobs,
         Pending!Nothing, Pending!Goto, Pending!Programs, Pending!publishing, Pending!Kinds
    <2>2. Rooting'
      BY <1>12 DEF PendingInv, Rooting, PendingTypes, Jobs, Directories, Pending!Nothing,
         Pending!Goto, Pending!Programs, Pending!publishing, Pending!Kinds
    <2>3. Acquiring'
      BY <1>12 DEF PendingInv, Acquiring, PendingTypes, Jobs, Directories, Unshared, Completing,
         Pending!Nothing, Pending!Goto, Pending!Programs, Pending!publishing, Pending!Kinds
    <2>4. Carried'
      BY <1>12 DEF PendingInv, Carried, PendingTypes, Jobs, Directories, Completing, Acquiring,
         Unshared, Pending!Nothing, Pending!Goto, Pending!Programs, Pending!publishing,
         Pending!Kinds
    <2>5. Completing'
      BY <1>12 DEF PendingInv, Completing, PendingTypes, Jobs, Directories, Acquiring, Unshared,
         Carried, Pending!Nothing, Pending!Goto, Pending!Programs, Pending!publishing,
         Pending!Kinds
    <2>6. Pending!PendingKept'
      BY <1>12 DEF PendingInv, Pending!PendingKept, PendingTypes, Jobs, Directories, Acquiring,
         Unshared, Completing, Rooting, Pending!Live, Pending!Nothing, Pending!Goto,
         Pending!Programs, Pending!publishing, Pending!Kinds
    <2>7. QED
      BY <2>1, <2>2, <2>3, <2>4, <2>5, <2>6 DEF PendingInv
  <1>13. ASSUME NEW o \in Outs, Pending!Realize(o)
        PROVE  PendingInv'
    <2>1. PendingTypes'
      BY <1>13 DEF PendingInv, PendingTypes, PendingPoints, Directories, Links, Jobs,
         Pending!Realize, Pending!Idle, Pending!Goto, Pending!Programs, Pending!publishing,
         Pending!Kinds
    <2>2. Rooting'
      BY <1>13 DEF PendingInv, Rooting, PendingTypes, Jobs, Directories, Pending!Realize,
         Pending!Idle, Pending!Goto, Pending!Programs, Pending!publishing, Pending!Kinds
    <2>3. Acquiring'
      BY <1>13 DEF PendingInv, Acquiring, PendingTypes, Jobs, Directories, Unshared, Completing,
         Pending!Realize, Pending!Idle, Pending!Goto, Pending!Programs, Pending!publishing,
         Pending!Kinds
    <2>4. Carried'
      BY <1>13 DEF PendingInv, Carried, PendingTypes, Jobs, Directories, Completing, Acquiring,
         Unshared, Pending!Realize, Pending!Idle, Pending!Goto, Pending!Programs,
         Pending!publishing, Pending!Kinds
    <2>5. Completing'
      BY <1>13 DEF PendingInv, Completing, PendingTypes, Jobs, Directories, Acquiring, Unshared,
         Carried, Pending!Realize, Pending!Idle, Pending!Goto, Pending!Programs,
         Pending!publishing, Pending!Kinds
    <2>6. Pending!PendingKept'
      BY <1>13 DEF PendingInv, Pending!PendingKept, PendingTypes, Jobs, Directories, Acquiring,
         Unshared, Completing, Rooting, Pending!Live, Pending!Realize, Pending!Idle, Pending!Goto,
         Pending!Programs, Pending!publishing, Pending!Kinds
    <2>7. QED
      BY <2>1, <2>2, <2>3, <2>4, <2>5, <2>6 DEF PendingInv
  <1>14. ASSUME NEW i \in Ids, Pending!Approve(i)
        PROVE  PendingInv'
    <2>1. PendingTypes'
      BY <1>14 DEF PendingInv, PendingTypes, PendingPoints, Directories, Links, Jobs,
         Pending!Approve, Pending!Goto, Pending!Programs, Pending!publishing, Pending!Kinds
    <2>2. Rooting'
      BY <1>14 DEF PendingInv, Rooting, PendingTypes, Jobs, Directories, Pending!Approve,
         Pending!Goto, Pending!Programs, Pending!publishing, Pending!Kinds
    <2>3. Acquiring'
      BY <1>14 DEF PendingInv, Acquiring, PendingTypes, Jobs, Directories, Unshared, Completing,
         Pending!Approve, Pending!Goto, Pending!Programs, Pending!publishing, Pending!Kinds
    <2>4. Carried'
      BY <1>14 DEF PendingInv, Carried, PendingTypes, Jobs, Directories, Completing, Acquiring,
         Unshared, Pending!Approve, Pending!Goto, Pending!Programs, Pending!publishing,
         Pending!Kinds
    <2>5. Completing'
      BY <1>14 DEF PendingInv, Completing, PendingTypes, Jobs, Directories, Acquiring, Unshared,
         Carried, Pending!Approve, Pending!Goto, Pending!Programs, Pending!publishing,
         Pending!Kinds
    <2>6. Pending!PendingKept'
      BY <1>14 DEF PendingInv, Pending!PendingKept, PendingTypes, Jobs, Directories, Acquiring,
         Unshared, Completing, Rooting, Pending!Live, Pending!Approve, Pending!Goto,
         Pending!Programs, Pending!publishing, Pending!Kinds
    <2>7. QED
      BY <2>1, <2>2, <2>3, <2>4, <2>5, <2>6 DEF PendingInv
  <1>15. ASSUME Pending!Approved
        PROVE  PendingInv'
    <2>1. PendingTypes'
      <3> DEFINE ready == {r.id : r \in {s \in records : s.kind = "ready"}}
                 todo == job["warm"].todo \cup {dirs[i].out : i \in ready}
      <3>1. job' = [job EXCEPT !["warm"].ids = ready, !["warm"].todo = todo]
        BY <1>15 DEF Pending!Approved
      <3>2. job["warm"] \in Jobs
        BY DEF PendingInv, PendingTypes, Pending!Programs
      <3>3. ready \in SUBSET Ids
        BY DEF PendingInv, PendingTypes
      <3>4. todo \in SUBSET (Outs \cup {None})
        BY <3>2, <3>3 DEF PendingInv, PendingTypes, Directories, Jobs
      <3>5. [job["warm"] EXCEPT !.ids = ready, !.todo = todo] \in Jobs
        BY <3>2, <3>3, <3>4 DEF Jobs
      <3>6. job' \in [Pending!Programs -> Jobs]
        BY <3>1, <3>5 DEF PendingInv, PendingTypes
      <3>7. QED
        BY <1>15, <3>6 DEF PendingInv, PendingTypes, PendingPoints, Pending!Approved, Pending!Goto
    <2>2. Rooting'
      BY <1>15 DEF PendingInv, Rooting, PendingTypes, Jobs, Directories, Pending!Approved,
         Pending!Goto, Pending!Programs, Pending!publishing, Pending!Kinds
    <2>3. Acquiring'
      BY <1>15 DEF PendingInv, Acquiring, PendingTypes, Jobs, Directories, Unshared, Completing,
         Pending!Approved, Pending!Goto, Pending!Programs, Pending!publishing, Pending!Kinds
    <2>4. Carried'
      BY <1>15 DEF PendingInv, Carried, PendingTypes, Jobs, Directories, Completing, Acquiring,
         Unshared, Pending!Approved, Pending!Goto, Pending!Programs, Pending!publishing,
         Pending!Kinds
    <2>5. Completing'
      BY <1>15 DEF PendingInv, Completing, PendingTypes, Jobs, Directories, Acquiring, Unshared,
         Carried, Pending!Approved, Pending!Goto, Pending!Programs, Pending!publishing,
         Pending!Kinds
    <2>6. Pending!PendingKept'
      BY <1>15 DEF PendingInv, Pending!PendingKept, PendingTypes, Jobs, Directories, Acquiring,
         Unshared, Completing, Rooting, Pending!Live, Pending!Approved, Pending!Goto,
         Pending!Programs, Pending!publishing, Pending!Kinds
    <2>7. QED
      BY <2>1, <2>2, <2>3, <2>4, <2>5, <2>6 DEF PendingInv
  <1>16. ASSUME Pending!Cleanup
        PROVE  PendingInv'
    <2>1. PendingTypes'
      BY <1>16 DEF PendingInv, PendingTypes, PendingPoints, Directories, Links, Jobs,
         Pending!Cleanup, Pending!Outlived, Pending!Idle, Pending!Goto, Pending!Programs,
         Pending!publishing, Pending!Kinds
    <2>2. Rooting'
      BY <1>16 DEF PendingInv, Rooting, PendingTypes, Jobs, Directories, Pending!Cleanup,
         Pending!Outlived, Pending!Idle, Pending!Goto, Pending!Programs, Pending!publishing,
         Pending!Kinds
    <2>3. Acquiring'
      BY <1>16 DEF PendingInv, Acquiring, PendingTypes, Jobs, Directories, Unshared, Completing,
         Pending!Cleanup, Pending!Outlived, Pending!Idle, Pending!Goto, Pending!Programs,
         Pending!publishing, Pending!Kinds
    <2>4. Carried'
      BY <1>16 DEF PendingInv, Carried, PendingTypes, Jobs, Directories, Completing, Acquiring,
         Unshared, Pending!Cleanup, Pending!Outlived, Pending!Idle, Pending!Goto, Pending!Programs,
         Pending!publishing, Pending!Kinds
    <2>5. Completing'
      BY <1>16 DEF PendingInv, Completing, PendingTypes, Jobs, Directories, Acquiring, Unshared,
         Carried, Pending!Cleanup, Pending!Outlived, Pending!Idle, Pending!Goto, Pending!Programs,
         Pending!publishing, Pending!Kinds
    <2>6. Pending!PendingKept'
      <3>1. \A i \in Ids : Pending!Live(i) => Pending!Live(i)'
        BY <1>16, OutlivedLive DEF PendingInv, Pending!Cleanup
      <3>2. recorded \ delivered \subseteq Ids
        BY DEF PendingInv, PendingTypes, Pending!PendingKept, Pending!Live
      <3>3. QED
        BY <1>16, <3>1, <3>2 DEF PendingInv, Pending!PendingKept, Pending!Cleanup
    <2>7. QED
      BY <2>1, <2>2, <2>3, <2>4, <2>5, <2>6 DEF PendingInv
  <1>17. ASSUME NEW p \in Pending!Programs, Pending!NothingToUpload(p)
        PROVE  PendingInv'
    <2>1. PendingTypes'
      BY <1>17 DEF PendingInv, PendingTypes, PendingPoints, Directories, Links, Jobs,
         Pending!NothingToUpload, Pending!Completed, Pending!Goto, Pending!Programs,
         Pending!publishing, Pending!Kinds
    <2>2. Rooting'
      BY <1>17 DEF PendingInv, Rooting, PendingTypes, Jobs, Directories,
         Pending!NothingToUpload, Pending!Completed, Pending!Goto, Pending!Programs,
         Pending!publishing, Pending!Kinds
    <2>3. Acquiring'
      BY <1>17 DEF PendingInv, Acquiring, PendingTypes, Jobs, Directories, Unshared, Completing,
         Pending!NothingToUpload, Pending!Completed, Pending!Goto, Pending!Programs,
         Pending!publishing, Pending!Kinds
    <2>4. Carried'
      BY <1>17 DEF PendingInv, Carried, PendingTypes, Jobs, Directories, Completing, Acquiring,
         Unshared, Pending!NothingToUpload, Pending!Completed, Pending!Goto, Pending!Programs,
         Pending!publishing, Pending!Kinds
    <2>5. Completing'
      BY <1>17 DEF PendingInv, Completing, PendingTypes, Jobs, Directories, Acquiring, Unshared,
         Carried, Pending!NothingToUpload, Pending!Completed, Pending!Goto, Pending!Programs,
         Pending!publishing, Pending!Kinds
    <2>6. Pending!PendingKept'
      BY <1>17 DEF PendingInv, Pending!PendingKept, PendingTypes, Jobs, Directories, Acquiring,
         Unshared, Completing, Rooting, Pending!Live, Pending!NothingToUpload, Pending!Completed,
         Pending!Goto, Pending!Programs, Pending!publishing, Pending!Kinds
    <2>7. QED
      BY <2>1, <2>2, <2>3, <2>4, <2>5, <2>6 DEF PendingInv
  <1>18. ASSUME NEW p \in Pending!Programs, Pending!Prepare(p)
        PROVE  PendingInv'
    <2>1. PendingTypes'
      BY <1>18 DEF PendingInv, PendingTypes, PendingPoints, Directories, Links, Jobs,
         Pending!Prepare, Pending!Goto, Pending!Programs, Pending!publishing, Pending!Kinds
    <2>2. Rooting'
      BY <1>18 DEF PendingInv, Rooting, PendingTypes, Jobs, Directories, Pending!Prepare,
         Pending!Goto, Pending!Programs, Pending!publishing, Pending!Kinds
    <2>3. Acquiring'
      BY <1>18 DEF PendingInv, Acquiring, PendingTypes, Jobs, Directories, Unshared, Completing,
         Pending!Prepare, Pending!Goto, Pending!Programs, Pending!publishing, Pending!Kinds
    <2>4. Carried'
      BY <1>18 DEF PendingInv, Carried, PendingTypes, Jobs, Directories, Completing, Acquiring,
         Unshared, Pending!Prepare, Pending!Goto, Pending!Programs, Pending!publishing,
         Pending!Kinds
    <2>5. Completing'
      BY <1>18 DEF PendingInv, Completing, PendingTypes, Jobs, Directories, Acquiring, Unshared,
         Carried, Pending!Prepare, Pending!Goto, Pending!Programs, Pending!publishing,
         Pending!Kinds
    <2>6. Pending!PendingKept'
      BY <1>18 DEF PendingInv, Pending!PendingKept, PendingTypes, Jobs, Directories, Acquiring,
         Unshared, Completing, Rooting, Pending!Live, Pending!Prepare, Pending!Goto,
         Pending!Programs, Pending!publishing, Pending!Kinds
    <2>7. QED
      BY <2>1, <2>2, <2>3, <2>4, <2>5, <2>6 DEF PendingInv
  <1>19. ASSUME NEW p \in Pending!Programs, NEW o \in Outs, Pending!Upstream(p, o)
        PROVE  PendingInv'
    <2>1. PendingTypes'
      BY <1>19 DEF PendingInv, PendingTypes, PendingPoints, Directories, Links, Jobs,
         Pending!Upstream, Pending!Delivers, Pending!Goto, Pending!Programs, Pending!publishing,
         Pending!Kinds
    <2>2. Rooting'
      BY <1>19 DEF PendingInv, Rooting, PendingTypes, Jobs, Directories, Pending!Upstream,
         Pending!Delivers, Pending!Goto, Pending!Programs, Pending!publishing, Pending!Kinds
    <2>3. Acquiring'
      BY <1>19 DEF PendingInv, Acquiring, PendingTypes, Jobs, Directories, Unshared, Completing,
         Pending!Upstream, Pending!Delivers, Pending!Goto, Pending!Programs, Pending!publishing,
         Pending!Kinds
    <2>4. Carried'
      BY <1>19 DEF PendingInv, Carried, PendingTypes, Jobs, Directories, Completing, Acquiring,
         Unshared, Pending!Upstream, Pending!Delivers, Pending!Goto, Pending!Programs,
         Pending!publishing, Pending!Kinds
    <2>5. Completing'
      BY <1>19 DEF PendingInv, Completing, PendingTypes, Jobs, Directories, Acquiring, Unshared,
         Carried, Pending!Upstream, Pending!Delivers, Pending!Goto, Pending!Programs,
         Pending!publishing, Pending!Kinds
    <2>6. Pending!PendingKept'
      BY <1>19 DEF PendingInv, Pending!PendingKept, PendingTypes, Jobs, Directories, Acquiring,
         Unshared, Completing, Rooting, Pending!Live, Pending!Upstream, Pending!Delivers,
         Pending!Goto, Pending!Programs, Pending!publishing, Pending!Kinds
    <2>7. QED
      BY <2>1, <2>2, <2>3, <2>4, <2>5, <2>6 DEF PendingInv
  <1>20. ASSUME NEW p \in Pending!Programs, NEW o \in Outs, Pending!Upload(p, o)
        PROVE  PendingInv'
    <2>1. PendingTypes'
      BY <1>20 DEF PendingInv, PendingTypes, PendingPoints, Directories, Links, Jobs,
         Pending!Upload, Pending!Delivers, Pending!Goto, Pending!Programs, Pending!publishing,
         Pending!Kinds
    <2>2. Rooting'
      BY <1>20 DEF PendingInv, Rooting, PendingTypes, Jobs, Directories, Pending!Upload,
         Pending!Delivers, Pending!Goto, Pending!Programs, Pending!publishing, Pending!Kinds
    <2>3. Acquiring'
      BY <1>20 DEF PendingInv, Acquiring, PendingTypes, Jobs, Directories, Unshared, Completing,
         Pending!Upload, Pending!Delivers, Pending!Goto, Pending!Programs, Pending!publishing,
         Pending!Kinds
    <2>4. Carried'
      BY <1>20 DEF PendingInv, Carried, PendingTypes, Jobs, Directories, Completing, Acquiring,
         Unshared, Pending!Upload, Pending!Delivers, Pending!Goto, Pending!Programs,
         Pending!publishing, Pending!Kinds
    <2>5. Completing'
      BY <1>20 DEF PendingInv, Completing, PendingTypes, Jobs, Directories, Acquiring, Unshared,
         Carried, Pending!Upload, Pending!Delivers, Pending!Goto, Pending!Programs,
         Pending!publishing, Pending!Kinds
    <2>6. Pending!PendingKept'
      BY <1>20 DEF PendingInv, Pending!PendingKept, PendingTypes, Jobs, Directories, Acquiring,
         Unshared, Completing, Rooting, Pending!Live, Pending!Upload, Pending!Delivers,
         Pending!Goto, Pending!Programs, Pending!publishing, Pending!Kinds
    <2>7. QED
      BY <2>1, <2>2, <2>3, <2>4, <2>5, <2>6 DEF PendingInv
  <1>21. ASSUME NEW p \in Pending!Programs, Pending!Finish(p)
        PROVE  PendingInv'
    <2>1. PendingTypes'
      BY <1>21 DEF PendingInv, PendingTypes, PendingPoints, Directories, Links, Jobs,
         Pending!Finish, Pending!Completed, Pending!Goto, Pending!Programs, Pending!publishing,
         Pending!Kinds
    <2>2. Rooting'
      BY <1>21 DEF PendingInv, Rooting, PendingTypes, Jobs, Directories, Pending!Finish,
         Pending!Completed, Pending!Goto, Pending!Programs, Pending!publishing, Pending!Kinds
    <2>3. Acquiring'
      BY <1>21 DEF PendingInv, Acquiring, PendingTypes, Jobs, Directories, Unshared, Completing,
         Pending!Finish, Pending!Completed, Pending!Goto, Pending!Programs, Pending!publishing,
         Pending!Kinds
    <2>4. Carried'
      BY <1>21 DEF PendingInv, Carried, PendingTypes, Jobs, Directories, Completing, Acquiring,
         Unshared, Pending!Finish, Pending!Completed, Pending!Goto, Pending!Programs,
         Pending!publishing, Pending!Kinds
    <2>5. Completing'
      BY <1>21 DEF PendingInv, Completing, PendingTypes, Jobs, Directories, Acquiring, Unshared,
         Carried, Pending!Finish, Pending!Completed, Pending!Goto, Pending!Programs,
         Pending!publishing, Pending!Kinds
    <2>6. Pending!PendingKept'
      BY <1>21 DEF PendingInv, Pending!PendingKept, PendingTypes, Jobs, Directories, Acquiring,
         Unshared, Completing, Rooting, Pending!Live, Pending!Finish, Pending!Completed,
         Pending!Goto, Pending!Programs, Pending!publishing, Pending!Kinds
    <2>7. QED
      BY <2>1, <2>2, <2>3, <2>4, <2>5, <2>6 DEF PendingInv
  <1>22. ASSUME NEW p \in Pending!Programs, Pending!Fail(p)
        PROVE  PendingInv'
    <2>1. PendingTypes'
      BY <1>22 DEF PendingInv, PendingTypes, PendingPoints, Directories, Links, Jobs,
         Pending!Fail, Pending!Abandoned, Pending!Idle, Pending!Goto, Pending!Programs,
         Pending!publishing, Pending!Kinds
    <2>2. Rooting'
      BY <1>22 DEF PendingInv, Rooting, PendingTypes, Jobs, Directories, Pending!Fail,
         Pending!Abandoned, Pending!Idle, Pending!Goto, Pending!Programs, Pending!publishing,
         Pending!Kinds
    <2>3. Acquiring'
      BY <1>22 DEF PendingInv, Acquiring, PendingTypes, Jobs, Directories, Unshared, Completing,
         Pending!Fail, Pending!Abandoned, Pending!Idle, Pending!Goto, Pending!Programs,
         Pending!publishing, Pending!Kinds
    <2>4. Carried'
      BY <1>22 DEF PendingInv, Carried, PendingTypes, Jobs, Directories, Completing, Acquiring,
         Unshared, Pending!Fail, Pending!Abandoned, Pending!Idle, Pending!Goto, Pending!Programs,
         Pending!publishing, Pending!Kinds
    <2>5. Completing'
      BY <1>22 DEF PendingInv, Completing, PendingTypes, Jobs, Directories, Acquiring, Unshared,
         Carried, Pending!Fail, Pending!Abandoned, Pending!Idle, Pending!Goto, Pending!Programs,
         Pending!publishing, Pending!Kinds
    <2>6. Pending!PendingKept'
      BY <1>22 DEF PendingInv, Pending!PendingKept, PendingTypes, Jobs, Directories, Acquiring,
         Unshared, Completing, Rooting, Pending!Live, Pending!Fail, Pending!Abandoned,
         Pending!Idle, Pending!Goto, Pending!Programs, Pending!publishing, Pending!Kinds
    <2>7. QED
      BY <2>1, <2>2, <2>3, <2>4, <2>5, <2>6 DEF PendingInv
  <1>23. ASSUME NEW p \in Pending!Programs, NEW i \in Ids, Pending!Unlink(p, i)
        PROVE  PendingInv'
    <2>1. PendingTypes'
      BY <1>23 DEF PendingInv, PendingTypes, PendingPoints, Directories, Links, Jobs,
         Pending!Unlink, Pending!Goto, Pending!Programs, Pending!publishing, Pending!Kinds
    <2>2. Rooting'
      BY <1>23 DEF PendingInv, Rooting, PendingTypes, Jobs, Directories, Pending!Unlink,
         Pending!Goto, Pending!Programs, Pending!publishing, Pending!Kinds
    <2>3. Acquiring'
      BY <1>23 DEF PendingInv, Acquiring, PendingTypes, Jobs, Directories, Unshared, Completing,
         Pending!Unlink, Pending!Goto, Pending!Programs, Pending!publishing, Pending!Kinds
    <2>4. Carried'
      BY <1>23 DEF PendingInv, Carried, PendingTypes, Jobs, Directories, Completing, Acquiring,
         Unshared, Pending!Unlink, Pending!Goto, Pending!Programs, Pending!publishing,
         Pending!Kinds
    <2>5. Completing'
      BY <1>23 DEF PendingInv, Completing, PendingTypes, Jobs, Directories, Acquiring, Unshared,
         Carried, Pending!Unlink, Pending!Goto, Pending!Programs, Pending!publishing, Pending!Kinds
    <2>6. Pending!PendingKept'
      BY <1>23 DEF PendingInv, Pending!PendingKept, PendingTypes, Jobs, Directories, Acquiring,
         Unshared, Completing, Rooting, Pending!Live, Pending!Unlink, Pending!Goto,
         Pending!Programs, Pending!publishing, Pending!Kinds
    <2>7. QED
      BY <2>1, <2>2, <2>3, <2>4, <2>5, <2>6 DEF PendingInv
  <1>24. ASSUME NEW p \in Pending!Programs, NEW i \in Ids, Pending!Rmdir(p, i)
        PROVE  PendingInv'
    <2>1. PendingTypes'
      BY <1>24 DEF PendingInv, PendingTypes, PendingPoints, Directories, Links, Jobs,
         Pending!Rmdir, Pending!Goto, Pending!Programs, Pending!publishing, Pending!Kinds
    <2>2. Rooting'
      BY <1>24 DEF PendingInv, Rooting, PendingTypes, Jobs, Directories, Pending!Rmdir,
         Pending!Goto, Pending!Programs, Pending!publishing, Pending!Kinds
    <2>3. Acquiring'
      BY <1>24 DEF PendingInv, Acquiring, PendingTypes, Jobs, Directories, Unshared, Completing,
         Pending!Rmdir, Pending!Goto, Pending!Programs, Pending!publishing, Pending!Kinds
    <2>4. Carried'
      BY <1>24 DEF PendingInv, Carried, PendingTypes, Jobs, Directories, Completing, Acquiring,
         Unshared, Pending!Rmdir, Pending!Goto, Pending!Programs, Pending!publishing, Pending!Kinds
    <2>5. Completing'
      BY <1>24 DEF PendingInv, Completing, PendingTypes, Jobs, Directories, Acquiring, Unshared,
         Carried, Pending!Rmdir, Pending!Goto, Pending!Programs, Pending!publishing, Pending!Kinds
    <2>6. Pending!PendingKept'
      BY <1>24 DEF PendingInv, Pending!PendingKept, PendingTypes, Jobs, Directories, Acquiring,
         Unshared, Completing, Rooting, Pending!Live, Pending!Rmdir, Pending!Goto,
         Pending!Programs, Pending!publishing, Pending!Kinds
    <2>7. QED
      BY <2>1, <2>2, <2>3, <2>4, <2>5, <2>6 DEF PendingInv
  <1>25. ASSUME NEW p \in Pending!Programs, NEW i \in Ids, Pending!Gone(p, i)
        PROVE  PendingInv'
    <2>1. PendingTypes'
      BY <1>25 DEF PendingInv, PendingTypes, PendingPoints, Directories, Links, Jobs,
         Pending!Gone, Pending!Goto, Pending!Programs, Pending!publishing, Pending!Kinds
    <2>2. Rooting'
      BY <1>25 DEF PendingInv, Rooting, PendingTypes, Jobs, Directories, Pending!Gone,
         Pending!Goto, Pending!Programs, Pending!publishing, Pending!Kinds
    <2>3. Acquiring'
      BY <1>25 DEF PendingInv, Acquiring, PendingTypes, Jobs, Directories, Unshared, Completing,
         Pending!Gone, Pending!Goto, Pending!Programs, Pending!publishing, Pending!Kinds
    <2>4. Carried'
      BY <1>25 DEF PendingInv, Carried, PendingTypes, Jobs, Directories, Completing, Acquiring,
         Unshared, Pending!Gone, Pending!Goto, Pending!Programs, Pending!publishing, Pending!Kinds
    <2>5. Completing'
      BY <1>25 DEF PendingInv, Completing, PendingTypes, Jobs, Directories, Acquiring, Unshared,
         Carried, Pending!Gone, Pending!Goto, Pending!Programs, Pending!publishing, Pending!Kinds
    <2>6. Pending!PendingKept'
      BY <1>25 DEF PendingInv, Pending!PendingKept, PendingTypes, Jobs, Directories, Acquiring,
         Unshared, Completing, Rooting, Pending!Live, Pending!Gone, Pending!Goto, Pending!Programs,
         Pending!publishing, Pending!Kinds
    <2>7. QED
      BY <2>1, <2>2, <2>3, <2>4, <2>5, <2>6 DEF PendingInv
  <1>26. ASSUME NEW p \in Pending!Programs, NEW i \in Ids, Pending!Drop(p, i)
        PROVE  PendingInv'
    <2>1. PendingTypes'
      BY <1>26 DEF PendingInv, PendingTypes, PendingPoints, Directories, Links, Jobs,
         Pending!Drop, Pending!NoDir, Pending!Goto, Pending!Programs, Pending!publishing,
         Pending!Kinds
    <2>2. Rooting'
      BY <1>26 DEF PendingInv, Rooting, PendingTypes, Jobs, Directories, Pending!Drop,
         Pending!NoDir, Pending!Goto, Pending!Programs, Pending!publishing, Pending!Kinds
    <2>3. Acquiring'
      BY <1>26 DEF PendingInv, Acquiring, PendingTypes, Jobs, Directories, Unshared, Completing,
         Pending!Drop, Pending!NoDir, Pending!Goto, Pending!Programs, Pending!publishing,
         Pending!Kinds
    <2>4. Carried'
      BY <1>26 DEF PendingInv, Carried, PendingTypes, Jobs, Directories, Completing, Acquiring,
         Unshared, Pending!Drop, Pending!NoDir, Pending!Goto, Pending!Programs, Pending!publishing,
         Pending!Kinds
    <2>5. Completing'
      BY <1>26 DEF PendingInv, Completing, PendingTypes, Jobs, Directories, Acquiring, Unshared,
         Carried, Pending!Drop, Pending!NoDir, Pending!Goto, Pending!Programs, Pending!publishing,
         Pending!Kinds
    <2>6. Pending!PendingKept'
      BY <1>26 DEF PendingInv, Pending!PendingKept, PendingTypes, Jobs, Directories, Acquiring,
         Unshared, Completing, Rooting, Pending!Live, Pending!Drop, Pending!NoDir, Pending!Goto,
         Pending!Programs, Pending!publishing, Pending!Kinds
    <2>7. QED
      BY <2>1, <2>2, <2>3, <2>4, <2>5, <2>6 DEF PendingInv
  <1>27. ASSUME NEW p \in Pending!Programs, Pending!Done(p)
        PROVE  PendingInv'
    <2>1. PendingTypes'
      BY <1>27 DEF PendingInv, PendingTypes, PendingPoints, Directories, Links, Jobs,
         Pending!Done, Pending!Idle, Pending!Goto, Pending!Programs, Pending!publishing,
         Pending!Kinds
    <2>2. Rooting'
      BY <1>27 DEF PendingInv, Rooting, PendingTypes, Jobs, Directories, Pending!Done,
         Pending!Idle, Pending!Goto, Pending!Programs, Pending!publishing, Pending!Kinds
    <2>3. Acquiring'
      BY <1>27 DEF PendingInv, Acquiring, PendingTypes, Jobs, Directories, Unshared, Completing,
         Pending!Done, Pending!Idle, Pending!Goto, Pending!Programs, Pending!publishing,
         Pending!Kinds
    <2>4. Carried'
      BY <1>27 DEF PendingInv, Carried, PendingTypes, Jobs, Directories, Completing, Acquiring,
         Unshared, Pending!Done, Pending!Idle, Pending!Goto, Pending!Programs, Pending!publishing,
         Pending!Kinds
    <2>5. Completing'
      BY <1>27 DEF PendingInv, Completing, PendingTypes, Jobs, Directories, Acquiring, Unshared,
         Carried, Pending!Done, Pending!Idle, Pending!Goto, Pending!Programs, Pending!publishing,
         Pending!Kinds
    <2>6. Pending!PendingKept'
      BY <1>27 DEF PendingInv, Pending!PendingKept, PendingTypes, Jobs, Directories, Acquiring,
         Unshared, Completing, Rooting, Pending!Live, Pending!Done, Pending!Idle, Pending!Goto,
         Pending!Programs, Pending!publishing, Pending!Kinds
    <2>7. QED
      BY <2>1, <2>2, <2>3, <2>4, <2>5, <2>6 DEF PendingInv
  <1>28. ASSUME NEW p \in Pending!Programs, Pending!Crash(p)
        PROVE  PendingInv'
    <2>1. PendingTypes'
      BY <1>28 DEF PendingInv, PendingTypes, PendingPoints, Directories, Links, Jobs,
         Pending!Crash, Pending!Outlived, Pending!Idle, Pending!Goto, Pending!Programs,
         Pending!publishing, Pending!Kinds
    <2>2. Rooting'
      BY <1>28 DEF PendingInv, Rooting, PendingTypes, Jobs, Directories, Pending!Crash,
         Pending!Outlived, Pending!Idle, Pending!Goto, Pending!Programs, Pending!publishing,
         Pending!Kinds
    <2>3. Acquiring'
      BY <1>28 DEF PendingInv, Acquiring, PendingTypes, Jobs, Directories, Unshared, Completing,
         Pending!Crash, Pending!Outlived, Pending!Idle, Pending!Goto, Pending!Programs,
         Pending!publishing, Pending!Kinds
    <2>4. Carried'
      BY <1>28 DEF PendingInv, Carried, PendingTypes, Jobs, Directories, Completing, Acquiring,
         Unshared, Pending!Crash, Pending!Outlived, Pending!Idle, Pending!Goto, Pending!Programs,
         Pending!publishing, Pending!Kinds
    <2>5. Completing'
      BY <1>28 DEF PendingInv, Completing, PendingTypes, Jobs, Directories, Acquiring, Unshared,
         Carried, Pending!Crash, Pending!Outlived, Pending!Idle, Pending!Goto, Pending!Programs,
         Pending!publishing, Pending!Kinds
    <2>6. Pending!PendingKept'
      <3>1. \A i \in Ids : Pending!Live(i) => Pending!Live(i)'
        <4>1. CASE p = "warm"
          BY <1>28, <4>1, OutlivedLive DEF PendingInv, Pending!Crash
        <4>2. CASE p # "warm"
          BY <1>28, <4>2 DEF Pending!Crash, Pending!Live
        <4>3. QED
          BY <4>1, <4>2
      <3>2. recorded \ delivered \subseteq Ids
        BY DEF PendingInv, PendingTypes, Pending!PendingKept, Pending!Live
      <3>3. QED
        BY <1>28, <3>1, <3>2 DEF PendingInv, Pending!PendingKept, Pending!Crash
    <2>7. QED
      BY <2>1, <2>2, <2>3, <2>4, <2>5, <2>6 DEF PendingInv
  <1>29. ASSUME NEW o \in Outs, Pending!Collect(o)
        PROVE  PendingInv'
    <2>1. PendingTypes'
      BY <1>29 DEF PendingInv, PendingTypes, PendingPoints, Directories, Links, Jobs,
         Pending!Collect, Pending!Rooted, Pending!Goto, Pending!Programs, Pending!publishing,
         Pending!Kinds
    <2>2. Rooting'
      <3>1. \A i \in Ids : dirs[i].links = "whole" => dirs[i].out \in Pending!Rooted
        BY DEF Pending!Rooted
      <3>2. job["hook"].out \in Pending!Rooted
        <4>1. \E q \in Pending!Programs : job["hook"].out = job[q].out
          BY DEF Pending!Programs
        <4>2. QED
          BY <4>1, Zenon DEF Pending!Rooted
      <3>3. QED
        BY <1>29, <3>1, <3>2 DEF PendingInv, Rooting, Pending!Collect
    <2>3. Acquiring'
      BY <1>29 DEF PendingInv, Acquiring, PendingTypes, Jobs, Directories, Unshared, Completing,
         Pending!Collect, Pending!Rooted, Pending!Goto, Pending!Programs, Pending!publishing,
         Pending!Kinds
    <2>4. Carried'
      BY <1>29 DEF PendingInv, Carried, PendingTypes, Jobs, Directories, Completing, Acquiring,
         Unshared, Pending!Collect, Pending!Rooted, Pending!Goto, Pending!Programs,
         Pending!publishing, Pending!Kinds
    <2>5. Completing'
      BY <1>29 DEF PendingInv, Completing, PendingTypes, Jobs, Directories, Acquiring, Unshared,
         Carried, Pending!Collect, Pending!Rooted, Pending!Goto, Pending!Programs,
         Pending!publishing, Pending!Kinds
    <2>6. Pending!PendingKept'
      BY <1>29 DEF PendingInv, Pending!PendingKept, PendingTypes, Jobs, Directories, Acquiring,
         Unshared, Completing, Rooting, Pending!Live, Pending!Collect, Pending!Rooted,
         Pending!Goto, Pending!Programs, Pending!publishing, Pending!Kinds
    <2>7. QED
      BY <2>1, <2>2, <2>3, <2>4, <2>5, <2>6 DEF PendingInv
  <1>30. QED
    BY <1>1, <1>2, <1>3, <1>4, <1>5, <1>6, <1>7, <1>8, <1>9, <1>10, <1>11, <1>12, <1>13, <1>14,
       <1>15, <1>16, <1>17, <1>18, <1>19, <1>20, <1>21, <1>22, <1>23, <1>24, <1>25, <1>26, <1>27,
       <1>28, <1>29 DEF Pending!Next, Pending!HookStep, Pending!WarmStep, Pending!PublishStep,
       Pending!Complete

(* What was recorded as pending stays recorded, and its output stays in the *)
(* store, until it was published, whoever builds, publishes, warms, fails   *)
(* or dies meanwhile.                                                       *)
THEOREM PendingStaysKept == WorkspaceSpec => []PendingKept
  <1>1. WorkspaceInit => PendingInv
    BY PendingInit DEF WorkspaceInit
  <1>2. PendingInv /\ [WorkspaceNext]_all => PendingInv'
    <2> SUFFICES ASSUME PendingInv, [WorkspaceNext]_all PROVE PendingInv'
      OBVIOUS
    <2>1. CASE pick = "pending" /\ Pending!Next
      BY <2>1, PendingStep
    <2>2. CASE UNCHANGED pending
      BY <2>2 DEF pending, PendingInv, PendingTypes, Rooting, Acquiring, Carried, Completing,
         Pending!PendingKept, Unshared, Pending!Live
    <2>3. QED
      BY <2>1, <2>2 DEF WorkspaceNext, all
  <1>3. PendingInv => PendingKept
    BY DEF PendingInv, PendingKept
  <1>4. QED
    BY <1>1, <1>2, <1>3, PTL DEF WorkspaceSpec

-----------------------------------------------------------------------------
(* IssueSync. *)

Remotes == [root : {{None}} \cup SUBSET Commits, tables : SUBSET Commits]

Administrations == [base : Nat, local : Remotes \cup {None}, stuck : BOOLEAN]

IssuePoints ==
    {"idle", "push", "pull", "again", "pushing", "pulling", "repushing", "git", "stage",
    "recreate",
     "restore", "add", "commit", "rebase", "add again", "commit again", "publish"}

IssueTypes ==
    /\ mode \in {"repository", "managed"}
    /\ db \subseteq Commits
    /\ native \in Remotes
    /\ tree \in Remotes
    /\ recovery \in Remotes \cup {None}
    /\ admin \in [Callers -> Administrations]
    /\ github \in Seq(Remotes)
    /\ \A c \in Callers : admin[c].base \in 1..Len(github)
    /\ stage \in [Callers -> IssuePoints]
    /\ listed \in [Callers -> SUBSET Commits]

(* In a repository sessions close one at a time. *)
Alone ==
    mode = "repository" =>
        /\ op = None
        /\ \A c, d \in Callers : stage[c] # "idle" /\ stage[d] # "idle" => c = d

(* What was set aside is there until it is put back, and nothing is pushed  *)
(* or committed meanwhile.                                                  *)
SetAside ==
    /\ \A c \in Callers : stage[c] \in {"recreate", "restore"} => recovery # None
    /\ mode = "repository" /\ recovery # None =>
         \A c \in Callers : stage[c] \in {"idle", "recreate", "restore"}
    /\ mode = "managed" =>
         valid /\ \A c \in Callers : stage[c] \notin {"stage", "recreate", "restore"}

(* The branch of a repository only grows, and so does what is on top of it. *)
Grown ==
    mode = "repository" =>
        /\ \A n \in 1..Len(github) : github[n].root \subseteq Commits
        /\ \A m, n \in 1..Len(github) : m <= n => github[m].root \subseteq github[n].root

Based ==
    mode = "repository" /\ admin["host"].local # None =>
        /\ admin["host"].local.root \subseteq Commits
        /\ github[admin["host"].base].root \subseteq admin["host"].local.root

Committing ==
    {"git", "stage", "recreate", "restore", "add", "commit", "rebase", "add again", "commit again",
     "publish"}

(* The remote of a repository has what was checked out, unless a rebase has *)
(* stopped over it.                                                         *)
Ahead ==
    mode = "repository" =>
        /\ Issues!Remote.root # Issues!Garbled =>
             Issues!Checkout("host").root \subseteq Issues!Remote.root
        /\ \A c \in Callers : admin[c].stuck =>
             c = "host" /\ recovery = None /\ tree.root = Issues!Garbled
        /\ \A c \in Callers : stage[c] \in Committing =>
             Issues!Remote.root # Issues!Garbled

IssueInv ==
    /\ IssueTypes /\ Issues!NativeWhole
    /\ Alone /\ SetAside /\ Grown /\ Based /\ Ahead

(* What stands for none is no remote. *)
LEMMA NoRemote == None \notin Remotes
  BY NoneIsNoRemote DEF Remotes

(* The initial states. *)
LEMMA IssueInit == Issues!Init => IssueInv
  <1> SUFFICES ASSUME Issues!Init PROVE IssueInv
    OBVIOUS
  <1> USE NoneIsNobody, NoRemote, HostPushes
  <1>1. Issues!Empty \in Remotes /\ Issues!Empty.root = {}
    BY DEF Issues!Empty, Remotes
  <1>2. IssueTypes
    BY <1>1 DEF Issues!Init, IssueTypes, IssuePoints, Administrations
  <1>3. Issues!NativeWhole
    BY DEF Issues!Init, Issues!NativeWhole, Issues!Whole, Issues!Empty, Issues!Garbled
  <1>4. Alone /\ SetAside /\ Grown /\ Based
    BY <1>1 DEF Issues!Init, Alone, SetAside, Grown, Based
  <1>5. Ahead
    BY <1>1 DEF Issues!Init, Ahead, Committing, Issues!Remote, Issues!Checkout, Issues!Admin
  <1>6. QED
    BY <1>2, <1>3, <1>4, <1>5 DEF IssueInv

(* What is checked out is a remote. *)
LEMMA CheckoutTyped ==
    ASSUME IssueTypes, NEW c \in Callers
    PROVE  /\ Issues!Admin(c) \in Callers
           /\ Issues!Checkout(c) \in Remotes
           /\ Len(github) \in Nat /\ Len(github) >= 1
           /\ github[Len(github)] \in Remotes
           /\ \A n \in 1..Len(github) : github[n] \in Remotes
  <1>1. Issues!Admin(c) \in Callers
    BY HostPushes DEF Issues!Admin
  <1>2. \A n \in 1..Len(github) : github[n] \in Remotes
    BY DEF IssueTypes
  <1>3. /\ admin[Issues!Admin(c)].local \in Remotes \cup {None}
        /\ admin[Issues!Admin(c)].base \in 1..Len(github)
    BY <1>1 DEF IssueTypes, Administrations
  <1>4. Issues!Checkout(c) \in Remotes
    BY <1>2, <1>3 DEF Issues!Checkout
  <1>5. Len(github) \in Nat /\ Len(github) >= 1
    BY <1>1 DEF IssueTypes
  <1>6. QED
    BY <1>1, <1>2, <1>4, <1>5


(* Where a session of a repository commits, rebases and publishes. *)
LEMMA Settled ==
    ASSUME IssueInv, mode = "repository", NEW c \in Callers,
           stage[c] \in Committing \ {"recreate", "restore"}
    PROVE  /\ Issues!Admin(c) = "host" /\ Issues!Checkout(c) = Issues!Checkout("host")
           /\ recovery = None /\ Issues!Remote = tree
           /\ tree.root \subseteq Commits /\ tree.root # Issues!Garbled
           /\ \A d \in Callers : ~admin[d].stuck /\ (d # c => stage[d] = "idle")
           /\ Issues!Checkout("host").root \subseteq tree.root
           /\ github[admin["host"].base].root \subseteq Issues!Checkout("host").root
           /\ admin["host"].base \in 1..Len(github)
  <1>1. Issues!Admin(c) = "host" /\ Issues!Checkout(c) = Issues!Checkout("host")
    BY DEF Issues!Admin, Issues!Checkout
  <1>2. recovery = None /\ Issues!Remote = tree
    BY DEF IssueInv, SetAside, Committing, Issues!Remote
  <1>3. Issues!Remote.root # Issues!Garbled /\ \A d \in Callers : ~admin[d].stuck
    BY <1>2 DEF IssueInv, IssueTypes, Administrations, Ahead
  <1>4. tree.root \subseteq Commits
    BY <1>2, <1>3 DEF IssueInv, IssueTypes, Remotes, Issues!Garbled
  <1>5. Issues!Checkout("host").root \subseteq tree.root
    BY <1>2, <1>3 DEF IssueInv, Ahead
  <1>6. github[admin["host"].base].root \subseteq Issues!Checkout("host").root
    BY DEF IssueInv, Based, Issues!Checkout, Issues!Admin
  <1>7. \A d \in Callers : d # c => stage[d] = "idle"
    BY DEF IssueInv, Alone, Committing
  <1>8. admin["host"].base \in 1..Len(github)
    BY HostPushes DEF IssueInv, IssueTypes
  <1>9. QED
    BY <1>1, <1>2, <1>3, <1>4, <1>5, <1>6, <1>7, <1>8

(* The branch with one more tree. *)
LEMMA Appended ==
    ASSUME IssueTypes, NEW e \in Remotes, github' = Append(github, e)
    PROVE  /\ github' \in Seq(Remotes) /\ Len(github') = Len(github) + 1
           /\ github'[Len(github) + 1] = e
           /\ \A n \in 1..Len(github) : github'[n] = github[n]
  BY DEF IssueTypes

(* A reply moves callers to points where they can be. *)
LEMMA ReplyTyped ==
    ASSUME IssueTypes, NEW reply, Issues!Replies(reply)
    PROVE  stage' \in [Callers -> IssuePoints]
  <1>1. \A p \in IssuePoints : Issues!After(p, reply) \in IssuePoints
    BY DEF Issues!After, IssuePoints
  <1>2. QED
    BY <1>1 DEF IssueTypes, Issues!Replies

(* One that has all that the latest had. *)
LEMMA GrownOn ==
    ASSUME IssueInv, NEW e \in Remotes, github' = Append(github, e), mode' = mode,
           mode = "repository" =>
             e.root \subseteq Commits /\ github[Len(github)].root \subseteq e.root
    PROVE  Grown'
  <1>1. /\ Len(github') = Len(github) + 1 /\ github'[Len(github) + 1] = e
        /\ \A n \in 1..Len(github) : github'[n] = github[n]
    BY Appended DEF IssueInv
  <1>2. Len(github) \in Nat /\ Len(github) >= 1
    BY CheckoutTyped, HostPushes DEF IssueInv
  <1> SUFFICES ASSUME mode = "repository"
               PROVE  /\ \A n \in 1..Len(github') : github'[n].root \subseteq Commits
                      /\ \A m, n \in 1..Len(github') :
                           m <= n => github'[m].root \subseteq github'[n].root
    BY DEF Grown
  <1>3. \A n \in 1..Len(github') : n \in 1..Len(github) \/ n = Len(github) + 1
    BY <1>1, <1>2
  <1>4. ASSUME NEW n \in 1..Len(github) PROVE github[n].root \subseteq e.root
    <2>1. github[n].root \subseteq github[Len(github)].root
      BY <1>2 DEF IssueInv, Grown
    <2>2. QED
      BY <2>1
  <1>5. QED
    BY <1>1, <1>2, <1>3, <1>4 DEF IssueInv, Grown

(* What a step writes of an administration. *)
LEMMA AdminSet ==
    ASSUME IssueTypes, NEW d \in Callers, NEW a \in Administrations,
           admin' = [admin EXCEPT ![d] = a], a.base \in 1..Len(github'),
           Len(github') \in Nat, Len(github') >= Len(github), Len(github) \in Nat
    PROVE  /\ admin' \in [Callers -> Administrations]
           /\ \A e \in Callers : admin'[e].base \in 1..Len(github')
           /\ admin'[d] = a
           /\ \A e \in Callers \ {d} : admin'[e] = admin[e]
  BY DEF IssueTypes

LEMMA CommitAdmin ==
    ASSUME IssueInv, NEW c \in Callers, Issues!Commit(c)
    PROVE  \E a \in Administrations :
             /\ admin' = [admin EXCEPT ![Issues!Admin(c)] = a]
             /\ a.base = admin[Issues!Admin(c)].base /\ a.stuck = admin[Issues!Admin(c)].stuck
             /\ \/ a.local = admin[Issues!Admin(c)].local
                \/ a.local \in Remotes /\ a.local.root = tree.root
  <1> DEFINE d == Issues!Admin(c)
             found == [root |-> tree.root, tables |-> listed[c]]
             l == IF found = Issues!Checkout(c) THEN admin[d].local ELSE found
             a == [base |-> admin[d].base, local |-> l, stuck |-> admin[d].stuck]
  <1>1. d \in Callers /\ admin[d] \in Administrations
    BY CheckoutTyped DEF IssueInv, IssueTypes
  <1>2. found \in Remotes
    BY DEF IssueInv, IssueTypes, Remotes
  <1>3. a \in Administrations
    BY <1>1, <1>2 DEF Administrations
  <1>4. admin' = [admin EXCEPT ![d] = a]
    <2>1. admin' = [admin EXCEPT ![d].local = l]
      BY DEF Issues!Commit
    <2>2. [admin[d] EXCEPT !.local = l] = a
      BY <1>1 DEF Administrations
    <2>3. QED
      BY <1>1, <2>1, <2>2 DEF IssueInv, IssueTypes
  <1>5. WITNESS a \in Administrations
  <1>6. QED
    BY <1>2, <1>4

LEMMA FollowAdmin ==
    ASSUME IssueInv, NEW c \in Callers, Issues!Follow(c)
    PROVE  \E a \in Administrations :
             /\ admin' = [admin EXCEPT ![Issues!Admin(c)] = a]
             /\ a.base = Len(github) /\ a.stuck = admin[Issues!Admin(c)].stuck
             /\ a.local = admin[Issues!Admin(c)].local
  <1> DEFINE d == Issues!Admin(c)
             a == [base |-> Len(github), local |-> admin[d].local, stuck |-> admin[d].stuck]
  <1>1. d \in Callers /\ admin[d] \in Administrations /\ Len(github) \in Nat
    BY CheckoutTyped DEF IssueInv, IssueTypes
  <1>2. a \in Administrations
    BY <1>1 DEF Administrations
  <1>3. admin' = [admin EXCEPT ![d] = a]
    <2>1. admin' = [admin EXCEPT ![d].base = Len(github)]
      BY DEF Issues!Follow
    <2>2. [admin[d] EXCEPT !.base = Len(github)] = a
      BY <1>1 DEF Administrations
    <2>3. QED
      BY <1>1, <2>1, <2>2 DEF IssueInv, IssueTypes
  <1>4. WITNESS a \in Administrations
  <1>5. QED
    BY <1>3

(* A rebase succeeds, or it stops over the manifest. *)
Rebased(c, a, m) ==
    /\ m \in Remotes /\ tree' = m /\ a.base = Len(github)
    /\ a.stuck = admin[Issues!Admin(c)].stuck
    /\ a.local = IF m = github[Len(github)] THEN None ELSE m
    /\ m.root = IF admin[Issues!Admin(c)].local.root = github[admin[Issues!Admin(c)].base].root
                THEN github[Len(github)].root ELSE admin[Issues!Admin(c)].local.root
    /\ \/ m.root = github[Len(github)].root
       \/ github[Len(github)].root = github[admin[Issues!Admin(c)].base].root
    /\ Issues!Goto(c, "add again") /\ UNCHANGED <<gitlock, listed>>

Stopped(c, a) ==
    /\ tree' \in Remotes /\ tree'.root = Issues!Garbled
    /\ a.base = admin[Issues!Admin(c)].base /\ a.local = admin[Issues!Admin(c)].local
    /\ Issues!Ends(c)

LEMMA RebaseAdmin ==
    ASSUME IssueInv, NEW c \in Callers, Issues!Rebase(c)
    PROVE  /\ admin[Issues!Admin(c)].local \in Remotes
           /\ \E a \in Administrations, m \in Remotes :
                /\ admin' = [admin EXCEPT ![Issues!Admin(c)] = a]
                /\ Rebased(c, a, m) \/ Stopped(c, a)
  <1> DEFINE d == Issues!Admin(c)
             base == github[admin[d].base]
             upstream == github[Len(github)]
             m == [root |-> IF admin[d].local.root = base.root THEN upstream.root
                            ELSE admin[d].local.root,
                   tables |-> admin[d].local.tables \cup upstream.tables]
  <1>1. d \in Callers /\ admin[d] \in Administrations /\ admin[d].base \in 1..Len(github)
    BY CheckoutTyped DEF IssueInv, IssueTypes
  <1>2. base \in Remotes /\ upstream \in Remotes /\ Len(github) \in Nat
    BY <1>1, CheckoutTyped DEF IssueInv
  <1>3. admin[d].local \in Remotes
    BY <1>1 DEF Issues!Rebase, Administrations
  <1>4. m \in Remotes /\ [m EXCEPT !.root = Issues!Garbled] \in Remotes
    BY <1>2, <1>3 DEF Remotes, Issues!Garbled
  <1>5. CASE m.root = upstream.root \/ upstream.root = base.root
    <2> DEFINE l == IF m = upstream THEN None ELSE m
               a == [[admin[d] EXCEPT !.base = Len(github)] EXCEPT !.local = l]
    <2>1. /\ a \in Administrations /\ a.base = Len(github) /\ a.local = l
          /\ a.stuck = admin[d].stuck
      BY <1>1, <1>2, <1>4 DEF Administrations
    <2>2. /\ admin' = [admin EXCEPT ![d].base = Len(github), ![d].local = l]
          /\ tree' = m /\ Issues!Goto(c, "add again") /\ UNCHANGED <<gitlock, listed>>
      BY <1>5 DEF Issues!Rebase, Issues!Last
    <2>3. admin' = [admin EXCEPT ![d] = a]
      BY <1>1, <2>2 DEF IssueInv, IssueTypes
    <2>4. Rebased(c, a, m)
      BY <1>4, <1>5, <2>1, <2>2 DEF Rebased
    <2>5. QED
      BY <1>3, <1>4, <2>1, <2>3, <2>4
  <1>6. CASE ~(m.root = upstream.root \/ upstream.root = base.root)
    <2> DEFINE a == [admin[d] EXCEPT !.stuck = TRUE]
    <2>1. /\ a \in Administrations /\ a.base = admin[d].base
          /\ a.local = admin[d].local
      BY <1>1 DEF Administrations
    <2>2. /\ admin' = [admin EXCEPT ![d].stuck = TRUE]
          /\ tree' = [m EXCEPT !.root = Issues!Garbled] /\ Issues!Ends(c)
      BY <1>6 DEF Issues!Rebase, Issues!Last
    <2>3. admin' = [admin EXCEPT ![d] = a]
      BY <1>1, <2>2 DEF IssueInv, IssueTypes
    <2>4. Stopped(c, a)
      BY <1>4, <2>1, <2>2 DEF Stopped, Remotes, Issues!Garbled
    <2>5. QED
      BY <1>3, <1>4, <2>1, <2>3, <2>4
  <1>7. QED
    BY <1>5, <1>6

LEMMA PublishAdmin ==
    ASSUME IssueInv, NEW c \in Callers, Issues!Publish(c), admin' # admin \/ github' # github
    PROVE  /\ admin[Issues!Admin(c)].local \in Remotes
           /\ admin[Issues!Admin(c)].base = Len(github)
           /\ github' = Append(github, admin[Issues!Admin(c)].local)
           /\ \E a \in Administrations :
                /\ admin' = [admin EXCEPT ![Issues!Admin(c)] = a]
                /\ a.base = Len(github) + 1 /\ a.local = None
                /\ a.stuck = admin[Issues!Admin(c)].stuck
  <1> DEFINE d == Issues!Admin(c)
             a == [[admin[d] EXCEPT !.base = Len(github) + 1] EXCEPT !.local = None]
  <1>1. d \in Callers /\ admin[d] \in Administrations /\ admin[d].base \in 1..Len(github)
    BY CheckoutTyped DEF IssueInv, IssueTypes
  <1>2. /\ admin[d].local # None /\ admin[d].base = Len(github)
        /\ github' = Append(github, admin[d].local)
        /\ admin' = [admin EXCEPT ![d].base = Len(github) + 1, ![d].local = None]
    BY <1>1 DEF IssueInv, IssueTypes, Issues!Publish, Issues!git
  <1> DEFINE x == admin[d]
  <1>6. Len(github) \in Nat
    BY CheckoutTyped DEF IssueInv
  <1>7. /\ x.local \in Remotes
        /\ x.stuck \in BOOLEAN
        /\ x = [base |-> x.base, local |-> x.local, stuck |-> x.stuck]
    BY <1>1, <1>2 DEF Administrations
  <1> DEFINE y == [x EXCEPT !.base = Len(github) + 1]
  <1>8. y = [base |-> Len(github) + 1, local |-> x.local, stuck |-> x.stuck]
    BY <1>7
  <1>9. a = [base |-> Len(github) + 1, local |-> None, stuck |-> x.stuck]
    <2> HIDE DEF y
    <2>1. [y EXCEPT !.local = None] = [base |-> Len(github) + 1, local |-> None, stuck |-> x.stuck]
      BY <1>8
    <2>2. QED
      BY <2>1 DEF y
  <1>3. /\ admin[d].local \in Remotes /\ a \in Administrations
        /\ a.base = Len(github) + 1 /\ a.local = None /\ a.stuck = admin[d].stuck
    BY <1>6, <1>7, <1>9 DEF Administrations
  <1>4. admin' = [admin EXCEPT ![d] = a]
    BY <1>1, <1>2 DEF IssueInv, IssueTypes
  <1>5. QED
    BY <1>2, <1>3, <1>4

(* One step. *)
LEMMA IssueStep == IssueInv /\ Issues!Next => IssueInv'
  <1> SUFFICES ASSUME IssueInv, Issues!Next PROVE IssueInv'
    OBVIOUS
  <1> USE NoneIsNobody, NoRemote, HostPushes
  <1>1. ASSUME NEW i \in Commits, Issues!Write(i)
        PROVE  IssueInv'
    <2>1. IssueTypes'
      BY <1>1 DEF IssueInv, IssueTypes, IssuePoints, Issues!Write, Issues!service,
         Issues!worktree, Issues!git, Issues!Goto, Issues!Ends
    <2>2. Issues!NativeWhole'
      BY <1>1 DEF IssueInv, Issues!NativeWhole, Issues!Whole, Issues!Garbled, IssueTypes,
         Remotes, Issues!Write, Issues!service, Issues!worktree, Issues!git, Issues!Goto,
         Issues!Ends
    <2>3. Alone'
      BY <1>1 DEF IssueInv, Alone, IssueTypes, Issues!Write, Issues!service, Issues!worktree,
         Issues!git, Issues!Goto, Issues!Ends
    <2>4. SetAside'
      BY <1>1 DEF IssueInv, SetAside, IssueTypes, Alone, Issues!Write, Issues!service,
         Issues!worktree, Issues!git, Issues!Goto, Issues!Ends
    <2>5. Grown'
      BY <1>1 DEF IssueInv, Grown, IssueTypes, Remotes, Alone, Based, Issues!Write,
         Issues!service, Issues!worktree, Issues!git, Issues!Goto, Issues!Ends
    <2>6. Based'
      BY <1>1 DEF IssueInv, Based, IssueTypes, Remotes, Administrations, Alone, Grown, Ahead,
         Issues!Write, Issues!service, Issues!worktree, Issues!git, Issues!Goto, Issues!Ends
    <2>7. Ahead'
      BY <1>1 DEF IssueInv, Ahead, Committing, Issues!Remote, Issues!Checkout, Issues!Admin,
         Issues!Garbled, IssueTypes, Administrations, Alone, SetAside, Issues!Write,
         Issues!service, Issues!worktree, Issues!git, Issues!Goto, Issues!Ends
    <2>8. QED
      BY <2>1, <2>2, <2>3, <2>4, <2>5, <2>6, <2>7 DEF IssueInv
  <1>2. ASSUME NEW i \in Commits, Issues!Elsewhere(i)
        PROVE  IssueInv'
    <2>1. IssueTypes'
      <3>1. mode' \in {"repository", "managed"} /\ db' \subseteq Commits /\ native' \in Remotes
        BY <1>2, CheckoutTyped DEF IssueInv, IssueTypes, Remotes, Issues!Elsewhere,
           Issues!Whole, Issues!Last, Issues!Garbled, Issues!service, Issues!worktree, Issues!git,
           Issues!Goto, Issues!Ends
      <3>2. tree' \in Remotes /\ recovery' \in Remotes \cup {None}
        BY <1>2, CheckoutTyped DEF IssueInv, IssueTypes, Remotes, Issues!Elsewhere,
           Issues!Whole, Issues!Last, Issues!Garbled, Issues!service, Issues!worktree, Issues!git,
           Issues!Goto, Issues!Ends
      <3>3. admin' \in [Callers -> Administrations]
        BY <1>2, CheckoutTyped DEF IssueInv, IssueTypes, Administrations, Issues!Elsewhere,
           Issues!Whole, Issues!Last, Issues!Garbled, Issues!service, Issues!worktree, Issues!git,
           Issues!Goto, Issues!Ends
      <3>4. github' \in Seq(Remotes)
        <4> DEFINE e == [root |-> github[Len(github)].root \cup {i},
                        tables |-> github[Len(github)].tables \cup {i}]
        <4>1. github' = Append(github, e) /\ github[Len(github)].root # Issues!Garbled
          BY <1>2 DEF Issues!Elsewhere, Issues!Last, Issues!Whole
        <4>2. e \in Remotes
          BY <4>1, CheckoutTyped DEF IssueInv, Remotes, Issues!Garbled
        <4>3. QED
          BY <4>1, <4>2, Appended DEF IssueInv
      <3>5. \A d \in Callers : admin'[d].base \in 1..Len(github')
        BY <1>2, CheckoutTyped DEF IssueInv, IssueTypes, Administrations, Issues!Elsewhere,
           Issues!Whole, Issues!Last, Issues!Garbled, Issues!service, Issues!worktree, Issues!git,
           Issues!Goto, Issues!Ends
      <3>6. stage' \in [Callers -> IssuePoints] /\ listed' \in [Callers -> SUBSET Commits]
        BY <1>2, CheckoutTyped DEF IssueInv, IssueTypes, IssuePoints, Remotes, Issues!Elsewhere,
           Issues!Whole, Issues!Last, Issues!Garbled, Issues!service, Issues!worktree, Issues!git,
           Issues!Goto, Issues!Ends
      <3>7. QED
        BY <3>1, <3>2, <3>3, <3>4, <3>5, <3>6 DEF IssueTypes
    <2>2. Issues!NativeWhole'
      BY <1>2 DEF IssueInv, Issues!NativeWhole, Issues!Whole, Issues!Garbled, IssueTypes,
         Remotes, Issues!Elsewhere, Issues!Last, Issues!service, Issues!worktree, Issues!git,
         Issues!Goto, Issues!Ends
    <2>3. Alone'
      BY <1>2 DEF IssueInv, Alone, IssueTypes, Issues!Elsewhere, Issues!Whole, Issues!Last,
         Issues!Garbled, Issues!service, Issues!worktree, Issues!git, Issues!Goto, Issues!Ends
    <2>4. SetAside'
      BY <1>2 DEF IssueInv, SetAside, IssueTypes, Alone, Issues!Elsewhere, Issues!Whole,
         Issues!Last, Issues!Garbled, Issues!service, Issues!worktree, Issues!git, Issues!Goto,
         Issues!Ends
    <2>5. Grown'
      <3> DEFINE e == [root |-> github[Len(github)].root \cup {i},
                      tables |-> github[Len(github)].tables \cup {i}]
      <3>1. /\ github' = Append(github, e) /\ github[Len(github)].root # Issues!Garbled
            /\ UNCHANGED <<mode, tree, recovery, admin, stage>>
        BY <1>2 DEF Issues!Elsewhere, Issues!Last, Issues!Whole, Issues!worktree, Issues!service
      <3>2. e \in Remotes
        BY <3>1, CheckoutTyped DEF IssueInv, Remotes, Issues!Garbled
      <3>3. e.root \subseteq Commits /\ github[Len(github)].root \subseteq e.root
        BY <3>1, <3>2, CheckoutTyped DEF IssueInv, Remotes, Issues!Garbled
      <3>4. QED
        BY <3>1, <3>2, <3>3, GrownOn
    <2>6. Based'
      BY <1>2 DEF IssueInv, Based, IssueTypes, Remotes, Administrations, Alone, Grown, Ahead,
         Issues!Elsewhere, Issues!Whole, Issues!Last, Issues!Garbled, Issues!service,
         Issues!worktree, Issues!git, Issues!Goto, Issues!Ends
    <2>7. Ahead'
      <3> DEFINE e == [root |-> github[Len(github)].root \cup {i},
                      tables |-> github[Len(github)].tables \cup {i}]
      <3>1. /\ github' = Append(github, e) /\ github[Len(github)].root # Issues!Garbled
            /\ UNCHANGED <<mode, tree, recovery, admin, stage>>
        BY <1>2 DEF Issues!Elsewhere, Issues!Last, Issues!Whole, Issues!worktree, Issues!service
      <3>2. e \in Remotes
        BY <3>1, CheckoutTyped DEF IssueInv, Remotes, Issues!Garbled
      <3>3. \A m \in 1..Len(github) : github'[m] = github[m]
        BY <3>1, <3>2, Appended DEF IssueInv
      <3>4. admin["host"].base \in 1..Len(github)
        BY DEF IssueInv, IssueTypes
      <3>5. (Issues!Checkout("host"))' = Issues!Checkout("host") /\ Issues!Remote' = Issues!Remote
        BY <3>1, <3>3, <3>4 DEF Issues!Checkout, Issues!Admin, Issues!Remote
      <3>6. QED
        BY <3>1, <3>5 DEF IssueInv, Ahead
    <2>8. QED
      BY <2>1, <2>2, <2>3, <2>4, <2>5, <2>6, <2>7 DEF IssueInv
  <1>3. ASSUME Issues!Invalidate
        PROVE  IssueInv'
    <2>1. IssueTypes'
      BY <1>3 DEF IssueInv, IssueTypes, IssuePoints, Issues!Invalidate, Issues!service,
         Issues!worktree, Issues!git, Issues!Goto, Issues!Ends
    <2>2. Issues!NativeWhole'
      BY <1>3 DEF IssueInv, Issues!NativeWhole, Issues!Whole, Issues!Garbled, IssueTypes,
         Remotes, Issues!Invalidate, Issues!service, Issues!worktree, Issues!git, Issues!Goto,
         Issues!Ends
    <2>3. Alone'
      BY <1>3 DEF IssueInv, Alone, IssueTypes, Issues!Invalidate, Issues!service,
         Issues!worktree, Issues!git, Issues!Goto, Issues!Ends
    <2>4. SetAside'
      BY <1>3 DEF IssueInv, SetAside, IssueTypes, Alone, Issues!Invalidate, Issues!service,
         Issues!worktree, Issues!git, Issues!Goto, Issues!Ends
    <2>5. Grown'
      BY <1>3 DEF IssueInv, Grown, IssueTypes, Remotes, Alone, Based, Issues!Invalidate,
         Issues!service, Issues!worktree, Issues!git, Issues!Goto, Issues!Ends
    <2>6. Based'
      BY <1>3 DEF IssueInv, Based, IssueTypes, Remotes, Administrations, Alone, Grown, Ahead,
         Issues!Invalidate, Issues!service, Issues!worktree, Issues!git, Issues!Goto, Issues!Ends
    <2>7. Ahead'
      BY <1>3 DEF IssueInv, Ahead, Committing, Issues!Remote, Issues!Checkout, Issues!Admin,
         Issues!Garbled, IssueTypes, Administrations, Alone, SetAside, Issues!Invalidate,
         Issues!service, Issues!worktree, Issues!git, Issues!Goto, Issues!Ends
    <2>8. QED
      BY <2>1, <2>2, <2>3, <2>4, <2>5, <2>6, <2>7 DEF IssueInv
  <1>4. ASSUME Issues!Sync
        PROVE  IssueInv'
    <2>1. IssueTypes'
      BY <1>4 DEF IssueInv, IssueTypes, IssuePoints, Issues!Sync, Issues!Requests,
         Issues!service, Issues!worktree, Issues!git, Issues!Goto, Issues!Ends
    <2>2. Issues!NativeWhole'
      BY <1>4 DEF IssueInv, Issues!NativeWhole, Issues!Whole, Issues!Garbled, IssueTypes,
         Remotes, Issues!Sync, Issues!Requests, Issues!service, Issues!worktree, Issues!git,
         Issues!Goto, Issues!Ends
    <2>3. Alone'
      BY <1>4 DEF IssueInv, Alone, IssueTypes, Issues!Sync, Issues!Requests, Issues!service,
         Issues!worktree, Issues!git, Issues!Goto, Issues!Ends
    <2>4. SetAside'
      BY <1>4 DEF IssueInv, SetAside, IssueTypes, Alone, Issues!Sync, Issues!Requests,
         Issues!service, Issues!worktree, Issues!git, Issues!Goto, Issues!Ends
    <2>5. Grown'
      BY <1>4 DEF IssueInv, Grown, IssueTypes, Remotes, Alone, Based, Issues!Sync,
         Issues!Requests, Issues!service, Issues!worktree, Issues!git, Issues!Goto, Issues!Ends
    <2>6. Based'
      BY <1>4 DEF IssueInv, Based, IssueTypes, Remotes, Administrations, Alone, Grown, Ahead,
         Issues!Sync, Issues!Requests, Issues!service, Issues!worktree, Issues!git, Issues!Goto,
         Issues!Ends
    <2>7. Ahead'
      BY <1>4 DEF IssueInv, Ahead, Committing, Issues!Remote, Issues!Checkout, Issues!Admin,
         Issues!Garbled, IssueTypes, Administrations, Alone, SetAside, Issues!Sync,
         Issues!Requests, Issues!service, Issues!worktree, Issues!git, Issues!Goto, Issues!Ends
    <2>8. QED
      BY <2>1, <2>2, <2>3, <2>4, <2>5, <2>6, <2>7 DEF IssueInv
  <1>5. ASSUME Issues!DoltPush
        PROVE  IssueInv'
    <2>1. IssueTypes'
      <3>1. mode' \in {"repository", "managed"} /\ db' \subseteq Commits /\ native' \in Remotes
        BY <1>5 DEF IssueInv, IssueTypes, Remotes, Issues!DoltPush, Issues!InHand,
           Issues!Replies, Issues!Step, Issues!After, Issues!service, Issues!worktree, Issues!git,
           Issues!Goto, Issues!Ends
      <3>2. tree' \in Remotes /\ recovery' \in Remotes \cup {None}
        BY <1>5 DEF IssueInv, IssueTypes, Remotes, Issues!DoltPush, Issues!InHand,
           Issues!Replies, Issues!Step, Issues!After, Issues!service, Issues!worktree, Issues!git,
           Issues!Goto, Issues!Ends
      <3>3. admin' \in [Callers -> Administrations]
        BY <1>5 DEF IssueInv, IssueTypes, Administrations, Issues!DoltPush, Issues!InHand,
           Issues!Replies, Issues!Step, Issues!After, Issues!service, Issues!worktree, Issues!git,
           Issues!Goto, Issues!Ends
      <3>4. github' \in Seq(Remotes)
        BY <1>5 DEF IssueInv, IssueTypes, Issues!DoltPush, Issues!InHand, Issues!Replies,
           Issues!Step, Issues!After, Issues!service, Issues!worktree, Issues!git, Issues!Goto,
           Issues!Ends
      <3>5. \A d \in Callers : admin'[d].base \in 1..Len(github')
        BY <1>5 DEF IssueInv, IssueTypes, Administrations, Issues!DoltPush, Issues!InHand,
           Issues!Replies, Issues!Step, Issues!After, Issues!service, Issues!worktree, Issues!git,
           Issues!Goto, Issues!Ends
      <3>6. stage' \in [Callers -> IssuePoints]
        BY <1>5, ReplyTyped DEF IssueInv, IssueTypes, Issues!DoltPush, Issues!InHand,
           Issues!Step, Issues!service, Issues!worktree, Issues!git, Issues!Goto
      <3>7. listed' \in [Callers -> SUBSET Commits]
        BY <1>5 DEF IssueInv, IssueTypes, Issues!DoltPush, Issues!InHand, Issues!Replies,
           Issues!Step, Issues!After, Issues!service, Issues!worktree, Issues!git, Issues!Goto,
           Issues!Ends
      <3>8. QED
        BY <3>1, <3>2, <3>3, <3>4, <3>5, <3>6, <3>7 DEF IssueTypes
    <2>2. Issues!NativeWhole'
      BY <1>5 DEF IssueInv, Issues!NativeWhole, Issues!Whole, Issues!Garbled, IssueTypes,
         Remotes, Issues!DoltPush, Issues!InHand, Issues!Replies, Issues!Step, Issues!After,
         Issues!service, Issues!worktree, Issues!git, Issues!Goto, Issues!Ends
    <2>3. Alone'
      BY <1>5 DEF IssueInv, Alone, IssueTypes, Issues!DoltPush, Issues!InHand, Issues!Replies,
         Issues!Step, Issues!After, Issues!service, Issues!worktree, Issues!git, Issues!Goto,
         Issues!Ends
    <2>4. SetAside'
      BY <1>5 DEF IssueInv, SetAside, IssueTypes, Alone, Issues!DoltPush, Issues!InHand,
         Issues!Replies, Issues!Step, Issues!After, Issues!service, Issues!worktree, Issues!git,
         Issues!Goto, Issues!Ends
    <2>5. Grown'
      BY <1>5 DEF IssueInv, Grown, IssueTypes, Remotes, Alone, Based, Issues!DoltPush,
         Issues!InHand, Issues!Replies, Issues!Step, Issues!After, Issues!service, Issues!worktree,
         Issues!git, Issues!Goto, Issues!Ends
    <2>6. Based'
      BY <1>5 DEF IssueInv, Based, IssueTypes, Remotes, Administrations, Alone, Grown, Ahead,
         Issues!DoltPush, Issues!InHand, Issues!Replies, Issues!Step, Issues!After, Issues!service,
         Issues!worktree, Issues!git, Issues!Goto, Issues!Ends
    <2>7. Ahead'
      BY <1>5 DEF IssueInv, Ahead, Committing, Issues!Remote, Issues!Checkout, Issues!Admin,
         Issues!Garbled, IssueTypes, Administrations, Alone, SetAside, Issues!DoltPush,
         Issues!InHand, Issues!Replies, Issues!Step, Issues!After, Issues!service, Issues!worktree,
         Issues!git, Issues!Goto, Issues!Ends
    <2>8. QED
      BY <2>1, <2>2, <2>3, <2>4, <2>5, <2>6, <2>7 DEF IssueInv
  <1>6. ASSUME Issues!PublishTables
        PROVE  IssueInv'
    <2>1. IssueTypes'
      <3>1. mode' \in {"repository", "managed"} /\ db' \subseteq Commits /\ native' \in Remotes
        BY <1>6 DEF IssueInv, IssueTypes, Remotes, Issues!PublishTables, Issues!InHand,
           Issues!Step, Issues!service, Issues!worktree, Issues!git, Issues!Goto, Issues!Ends
      <3>2. tree' \in Remotes /\ recovery' \in Remotes \cup {None}
        BY <1>6 DEF IssueInv, IssueTypes, Remotes, Issues!PublishTables, Issues!InHand,
           Issues!Step, Issues!service, Issues!worktree, Issues!git, Issues!Goto, Issues!Ends
      <3>3. admin' \in [Callers -> Administrations]
        BY <1>6 DEF IssueInv, IssueTypes, Administrations, Issues!PublishTables, Issues!InHand,
           Issues!Step, Issues!service, Issues!worktree, Issues!git, Issues!Goto, Issues!Ends
      <3>4. github' \in Seq(Remotes)
        BY <1>6 DEF IssueInv, IssueTypes, Issues!PublishTables, Issues!InHand, Issues!Step,
           Issues!service, Issues!worktree, Issues!git, Issues!Goto, Issues!Ends
      <3>5. \A d \in Callers : admin'[d].base \in 1..Len(github')
        BY <1>6 DEF IssueInv, IssueTypes, Administrations, Issues!PublishTables, Issues!InHand,
           Issues!Step, Issues!service, Issues!worktree, Issues!git, Issues!Goto, Issues!Ends
      <3>6. stage' \in [Callers -> IssuePoints] /\ listed' \in [Callers -> SUBSET Commits]
        BY <1>6 DEF IssueInv, IssueTypes, IssuePoints, Remotes, Issues!PublishTables,
           Issues!InHand, Issues!Step, Issues!service, Issues!worktree, Issues!git, Issues!Goto,
           Issues!Ends
      <3>7. QED
        BY <3>1, <3>2, <3>3, <3>4, <3>5, <3>6 DEF IssueTypes
    <2>2. Issues!NativeWhole'
      BY <1>6 DEF IssueInv, Issues!NativeWhole, Issues!Whole, Issues!Garbled, IssueTypes,
         Remotes, Issues!PublishTables, Issues!InHand, Issues!Step, Issues!service,
         Issues!worktree, Issues!git, Issues!Goto, Issues!Ends
    <2>3. Alone'
      BY <1>6 DEF IssueInv, Alone, IssueTypes, Issues!PublishTables, Issues!InHand, Issues!Step,
         Issues!service, Issues!worktree, Issues!git, Issues!Goto, Issues!Ends
    <2>4. SetAside'
      BY <1>6 DEF IssueInv, SetAside, IssueTypes, Alone, Issues!PublishTables, Issues!InHand,
         Issues!Step, Issues!service, Issues!worktree, Issues!git, Issues!Goto, Issues!Ends
    <2>5. Grown'
      BY <1>6 DEF IssueInv, Grown, IssueTypes, Remotes, Alone, Based, Issues!PublishTables,
         Issues!InHand, Issues!Step, Issues!service, Issues!worktree, Issues!git, Issues!Goto,
         Issues!Ends
    <2>6. Based'
      BY <1>6 DEF IssueInv, Based, IssueTypes, Remotes, Administrations, Alone, Grown, Ahead,
         Issues!PublishTables, Issues!InHand, Issues!Step, Issues!service, Issues!worktree,
         Issues!git, Issues!Goto, Issues!Ends
    <2>7. Ahead'
      BY <1>6 DEF IssueInv, Ahead, Committing, Issues!Remote, Issues!Checkout, Issues!Admin,
         Issues!Garbled, IssueTypes, Administrations, Alone, SetAside, Issues!PublishTables,
         Issues!InHand, Issues!Step, Issues!service, Issues!worktree, Issues!git, Issues!Goto,
         Issues!Ends
    <2>8. QED
      BY <2>1, <2>2, <2>3, <2>4, <2>5, <2>6, <2>7 DEF IssueInv
  <1>7. ASSUME Issues!PublishManifest
        PROVE  IssueInv'
    <2>1. IssueTypes'
      <3>1. mode' \in {"repository", "managed"} /\ db' \subseteq Commits /\ native' \in Remotes
        BY <1>7 DEF IssueInv, IssueTypes, Remotes, Issues!PublishManifest, Issues!InHand,
           Issues!Step, Issues!Replies, Issues!After, Issues!service, Issues!worktree, Issues!git,
           Issues!Goto, Issues!Ends
      <3>2. tree' \in Remotes /\ recovery' \in Remotes \cup {None}
        BY <1>7 DEF IssueInv, IssueTypes, Remotes, Issues!PublishManifest, Issues!InHand,
           Issues!Step, Issues!Replies, Issues!After, Issues!service, Issues!worktree, Issues!git,
           Issues!Goto, Issues!Ends
      <3>3. admin' \in [Callers -> Administrations]
        BY <1>7 DEF IssueInv, IssueTypes, Administrations, Issues!PublishManifest,
           Issues!InHand, Issues!Step, Issues!Replies, Issues!After, Issues!service,
           Issues!worktree, Issues!git, Issues!Goto, Issues!Ends
      <3>4. github' \in Seq(Remotes)
        BY <1>7 DEF IssueInv, IssueTypes, Issues!PublishManifest, Issues!InHand, Issues!Step,
           Issues!Replies, Issues!After, Issues!service, Issues!worktree, Issues!git, Issues!Goto,
           Issues!Ends
      <3>5. \A d \in Callers : admin'[d].base \in 1..Len(github')
        BY <1>7 DEF IssueInv, IssueTypes, Administrations, Issues!PublishManifest,
           Issues!InHand, Issues!Step, Issues!Replies, Issues!After, Issues!service,
           Issues!worktree, Issues!git, Issues!Goto, Issues!Ends
      <3>6. stage' \in [Callers -> IssuePoints]
        BY <1>7, ReplyTyped DEF IssueInv, IssueTypes, Issues!PublishManifest, Issues!InHand,
           Issues!Step, Issues!service, Issues!worktree, Issues!git, Issues!Goto
      <3>7. listed' \in [Callers -> SUBSET Commits]
        BY <1>7 DEF IssueInv, IssueTypes, Issues!PublishManifest, Issues!InHand, Issues!Step,
           Issues!Replies, Issues!After, Issues!service, Issues!worktree, Issues!git, Issues!Goto,
           Issues!Ends
      <3>8. QED
        BY <3>1, <3>2, <3>3, <3>4, <3>5, <3>6, <3>7 DEF IssueTypes
    <2>2. Issues!NativeWhole'
      BY <1>7 DEF IssueInv, Issues!NativeWhole, Issues!Whole, Issues!Garbled, IssueTypes,
         Remotes, Issues!PublishManifest, Issues!InHand, Issues!Step, Issues!Replies, Issues!After,
         Issues!service, Issues!worktree, Issues!git, Issues!Goto, Issues!Ends
    <2>3. Alone'
      BY <1>7 DEF IssueInv, Alone, IssueTypes, Issues!PublishManifest, Issues!InHand,
         Issues!Step, Issues!Replies, Issues!After, Issues!service, Issues!worktree, Issues!git,
         Issues!Goto, Issues!Ends
    <2>4. SetAside'
      BY <1>7 DEF IssueInv, SetAside, IssueTypes, Alone, Issues!PublishManifest, Issues!InHand,
         Issues!Step, Issues!Replies, Issues!After, Issues!service, Issues!worktree, Issues!git,
         Issues!Goto, Issues!Ends
    <2>5. Grown'
      BY <1>7 DEF IssueInv, Grown, IssueTypes, Remotes, Alone, Based, Issues!PublishManifest,
         Issues!InHand, Issues!Step, Issues!Replies, Issues!After, Issues!service, Issues!worktree,
         Issues!git, Issues!Goto, Issues!Ends
    <2>6. Based'
      BY <1>7 DEF IssueInv, Based, IssueTypes, Remotes, Administrations, Alone, Grown, Ahead,
         Issues!PublishManifest, Issues!InHand, Issues!Step, Issues!Replies, Issues!After,
         Issues!service, Issues!worktree, Issues!git, Issues!Goto, Issues!Ends
    <2>7. Ahead'
      BY <1>7 DEF IssueInv, Ahead, Committing, Issues!Remote, Issues!Checkout, Issues!Admin,
         Issues!Garbled, IssueTypes, Administrations, Alone, SetAside, Issues!PublishManifest,
         Issues!InHand, Issues!Step, Issues!Replies, Issues!After, Issues!service, Issues!worktree,
         Issues!git, Issues!Goto, Issues!Ends
    <2>8. QED
      BY <2>1, <2>2, <2>3, <2>4, <2>5, <2>6, <2>7 DEF IssueInv
  <1>8. ASSUME Issues!ImportTables
        PROVE  IssueInv'
    <2>1. IssueTypes'
      <3>1. mode' \in {"repository", "managed"} /\ db' \subseteq Commits /\ native' \in Remotes
        BY <1>8 DEF IssueInv, IssueTypes, Remotes, Issues!ImportTables, Issues!InHand,
           Issues!Step, Issues!service, Issues!worktree, Issues!git, Issues!Goto, Issues!Ends
      <3>2. tree' \in Remotes /\ recovery' \in Remotes \cup {None}
        BY <1>8 DEF IssueInv, IssueTypes, Remotes, Issues!ImportTables, Issues!InHand,
           Issues!Step, Issues!service, Issues!worktree, Issues!git, Issues!Goto, Issues!Ends
      <3>3. admin' \in [Callers -> Administrations]
        BY <1>8 DEF IssueInv, IssueTypes, Administrations, Issues!ImportTables, Issues!InHand,
           Issues!Step, Issues!service, Issues!worktree, Issues!git, Issues!Goto, Issues!Ends
      <3>4. github' \in Seq(Remotes)
        BY <1>8 DEF IssueInv, IssueTypes, Issues!ImportTables, Issues!InHand, Issues!Step,
           Issues!service, Issues!worktree, Issues!git, Issues!Goto, Issues!Ends
      <3>5. \A d \in Callers : admin'[d].base \in 1..Len(github')
        BY <1>8 DEF IssueInv, IssueTypes, Administrations, Issues!ImportTables, Issues!InHand,
           Issues!Step, Issues!service, Issues!worktree, Issues!git, Issues!Goto, Issues!Ends
      <3>6. stage' \in [Callers -> IssuePoints] /\ listed' \in [Callers -> SUBSET Commits]
        BY <1>8 DEF IssueInv, IssueTypes, IssuePoints, Remotes, Issues!ImportTables,
           Issues!InHand, Issues!Step, Issues!service, Issues!worktree, Issues!git, Issues!Goto,
           Issues!Ends
      <3>7. QED
        BY <3>1, <3>2, <3>3, <3>4, <3>5, <3>6 DEF IssueTypes
    <2>2. Issues!NativeWhole'
      BY <1>8 DEF IssueInv, Issues!NativeWhole, Issues!Whole, Issues!Garbled, IssueTypes,
         Remotes, Issues!ImportTables, Issues!InHand, Issues!Step, Issues!service, Issues!worktree,
         Issues!git, Issues!Goto, Issues!Ends
    <2>3. Alone'
      BY <1>8 DEF IssueInv, Alone, IssueTypes, Issues!ImportTables, Issues!InHand, Issues!Step,
         Issues!service, Issues!worktree, Issues!git, Issues!Goto, Issues!Ends
    <2>4. SetAside'
      BY <1>8 DEF IssueInv, SetAside, IssueTypes, Alone, Issues!ImportTables, Issues!InHand,
         Issues!Step, Issues!service, Issues!worktree, Issues!git, Issues!Goto, Issues!Ends
    <2>5. Grown'
      BY <1>8 DEF IssueInv, Grown, IssueTypes, Remotes, Alone, Based, Issues!ImportTables,
         Issues!InHand, Issues!Step, Issues!service, Issues!worktree, Issues!git, Issues!Goto,
         Issues!Ends
    <2>6. Based'
      BY <1>8 DEF IssueInv, Based, IssueTypes, Remotes, Administrations, Alone, Grown, Ahead,
         Issues!ImportTables, Issues!InHand, Issues!Step, Issues!service, Issues!worktree,
         Issues!git, Issues!Goto, Issues!Ends
    <2>7. Ahead'
      BY <1>8 DEF IssueInv, Ahead, Committing, Issues!Remote, Issues!Checkout, Issues!Admin,
         Issues!Garbled, IssueTypes, Administrations, Alone, SetAside, Issues!ImportTables,
         Issues!InHand, Issues!Step, Issues!service, Issues!worktree, Issues!git, Issues!Goto,
         Issues!Ends
    <2>8. QED
      BY <2>1, <2>2, <2>3, <2>4, <2>5, <2>6, <2>7 DEF IssueInv
  <1>9. ASSUME Issues!ImportManifest
        PROVE  IssueInv'
    <2>1. IssueTypes'
      <3>1. mode' \in {"repository", "managed"} /\ db' \subseteq Commits /\ native' \in Remotes
        BY <1>9 DEF IssueInv, IssueTypes, Remotes, Issues!ImportManifest, Issues!InHand,
           Issues!Step, Issues!Replies, Issues!After, Issues!Garbled, Issues!service,
           Issues!worktree, Issues!git, Issues!Goto, Issues!Ends
      <3>2. tree' \in Remotes /\ recovery' \in Remotes \cup {None}
        BY <1>9 DEF IssueInv, IssueTypes, Remotes, Issues!ImportManifest, Issues!InHand,
           Issues!Step, Issues!Replies, Issues!After, Issues!Garbled, Issues!service,
           Issues!worktree, Issues!git, Issues!Goto, Issues!Ends
      <3>3. admin' \in [Callers -> Administrations]
        BY <1>9 DEF IssueInv, IssueTypes, Administrations, Issues!ImportManifest, Issues!InHand,
           Issues!Step, Issues!Replies, Issues!After, Issues!Garbled, Issues!service,
           Issues!worktree, Issues!git, Issues!Goto, Issues!Ends
      <3>4. github' \in Seq(Remotes)
        BY <1>9 DEF IssueInv, IssueTypes, Issues!ImportManifest, Issues!InHand, Issues!Step,
           Issues!Replies, Issues!After, Issues!Garbled, Issues!service, Issues!worktree,
           Issues!git, Issues!Goto, Issues!Ends
      <3>5. \A d \in Callers : admin'[d].base \in 1..Len(github')
        BY <1>9 DEF IssueInv, IssueTypes, Administrations, Issues!ImportManifest, Issues!InHand,
           Issues!Step, Issues!Replies, Issues!After, Issues!Garbled, Issues!service,
           Issues!worktree, Issues!git, Issues!Goto, Issues!Ends
      <3>6. stage' \in [Callers -> IssuePoints]
        BY <1>9, ReplyTyped DEF IssueInv, IssueTypes, Issues!ImportManifest, Issues!InHand,
           Issues!Step, Issues!Garbled, Issues!service, Issues!worktree, Issues!git, Issues!Goto
      <3>7. listed' \in [Callers -> SUBSET Commits]
        BY <1>9 DEF IssueInv, IssueTypes, Issues!ImportManifest, Issues!InHand, Issues!Step,
           Issues!Replies, Issues!After, Issues!Garbled, Issues!service, Issues!worktree,
           Issues!git, Issues!Goto, Issues!Ends
      <3>8. QED
        BY <3>1, <3>2, <3>3, <3>4, <3>5, <3>6, <3>7 DEF IssueTypes
    <2>2. Issues!NativeWhole'
      BY <1>9 DEF IssueInv, Issues!NativeWhole, Issues!Whole, Issues!Garbled, IssueTypes,
         Remotes, Issues!ImportManifest, Issues!InHand, Issues!Step, Issues!Replies, Issues!After,
         Issues!service, Issues!worktree, Issues!git, Issues!Goto, Issues!Ends
    <2>3. Alone'
      BY <1>9 DEF IssueInv, Alone, IssueTypes, Issues!ImportManifest, Issues!InHand,
         Issues!Step, Issues!Replies, Issues!After, Issues!Garbled, Issues!service,
         Issues!worktree, Issues!git, Issues!Goto, Issues!Ends
    <2>4. SetAside'
      BY <1>9 DEF IssueInv, SetAside, IssueTypes, Alone, Issues!ImportManifest, Issues!InHand,
         Issues!Step, Issues!Replies, Issues!After, Issues!Garbled, Issues!service,
         Issues!worktree, Issues!git, Issues!Goto, Issues!Ends
    <2>5. Grown'
      BY <1>9 DEF IssueInv, Grown, IssueTypes, Remotes, Alone, Based, Issues!ImportManifest,
         Issues!InHand, Issues!Step, Issues!Replies, Issues!After, Issues!Garbled, Issues!service,
         Issues!worktree, Issues!git, Issues!Goto, Issues!Ends
    <2>6. Based'
      BY <1>9 DEF IssueInv, Based, IssueTypes, Remotes, Administrations, Alone, Grown, Ahead,
         Issues!ImportManifest, Issues!InHand, Issues!Step, Issues!Replies, Issues!After,
         Issues!Garbled, Issues!service, Issues!worktree, Issues!git, Issues!Goto, Issues!Ends
    <2>7. Ahead'
      BY <1>9 DEF IssueInv, Ahead, Committing, Issues!Remote, Issues!Checkout, Issues!Admin,
         Issues!Garbled, IssueTypes, Administrations, Alone, SetAside, Issues!ImportManifest,
         Issues!InHand, Issues!Step, Issues!Replies, Issues!After, Issues!service, Issues!worktree,
         Issues!git, Issues!Goto, Issues!Ends
    <2>8. QED
      BY <2>1, <2>2, <2>3, <2>4, <2>5, <2>6, <2>7 DEF IssueInv
  <1>10. ASSUME Issues!DoltPull
        PROVE  IssueInv'
    <2>1. IssueTypes'
      <3>1. mode' \in {"repository", "managed"} /\ db' \subseteq Commits /\ native' \in Remotes
        BY <1>10 DEF IssueInv, IssueTypes, Remotes, Issues!DoltPull, Issues!InHand,
           Issues!Replies, Issues!After, Issues!service, Issues!worktree, Issues!git, Issues!Goto,
           Issues!Ends, Issues!NativeWhole, Issues!Whole, Issues!Garbled
      <3>2. tree' \in Remotes /\ recovery' \in Remotes \cup {None}
        BY <1>10 DEF IssueInv, IssueTypes, Remotes, Issues!DoltPull, Issues!InHand,
           Issues!Replies, Issues!After, Issues!service, Issues!worktree, Issues!git, Issues!Goto,
           Issues!Ends
      <3>3. admin' \in [Callers -> Administrations]
        BY <1>10 DEF IssueInv, IssueTypes, Administrations, Issues!DoltPull, Issues!InHand,
           Issues!Replies, Issues!After, Issues!service, Issues!worktree, Issues!git, Issues!Goto,
           Issues!Ends
      <3>4. github' \in Seq(Remotes)
        BY <1>10 DEF IssueInv, IssueTypes, Issues!DoltPull, Issues!InHand, Issues!Replies,
           Issues!After, Issues!service, Issues!worktree, Issues!git, Issues!Goto, Issues!Ends
      <3>5. \A d \in Callers : admin'[d].base \in 1..Len(github')
        BY <1>10 DEF IssueInv, IssueTypes, Administrations, Issues!DoltPull, Issues!InHand,
           Issues!Replies, Issues!After, Issues!service, Issues!worktree, Issues!git, Issues!Goto,
           Issues!Ends
      <3>6. stage' \in [Callers -> IssuePoints]
        BY <1>10, ReplyTyped DEF IssueInv, IssueTypes, Issues!DoltPull, Issues!InHand,
           Issues!service, Issues!worktree, Issues!git, Issues!Goto
      <3>7. listed' \in [Callers -> SUBSET Commits]
        BY <1>10 DEF IssueInv, IssueTypes, Issues!DoltPull, Issues!InHand, Issues!Replies,
           Issues!After, Issues!service, Issues!worktree, Issues!git, Issues!Goto, Issues!Ends
      <3>8. QED
        BY <3>1, <3>2, <3>3, <3>4, <3>5, <3>6, <3>7 DEF IssueTypes
    <2>2. Issues!NativeWhole'
      BY <1>10 DEF IssueInv, Issues!NativeWhole, Issues!Whole, Issues!Garbled, IssueTypes,
         Remotes, Issues!DoltPull, Issues!InHand, Issues!Replies, Issues!After, Issues!service,
         Issues!worktree, Issues!git, Issues!Goto, Issues!Ends
    <2>3. Alone'
      BY <1>10 DEF IssueInv, Alone, IssueTypes, Issues!DoltPull, Issues!InHand, Issues!Replies,
         Issues!After, Issues!service, Issues!worktree, Issues!git, Issues!Goto, Issues!Ends
    <2>4. SetAside'
      BY <1>10 DEF IssueInv, SetAside, IssueTypes, Alone, Issues!DoltPull, Issues!InHand,
         Issues!Replies, Issues!After, Issues!service, Issues!worktree, Issues!git, Issues!Goto,
         Issues!Ends
    <2>5. Grown'
      BY <1>10 DEF IssueInv, Grown, IssueTypes, Remotes, Alone, Based, Issues!DoltPull,
         Issues!InHand, Issues!Replies, Issues!After, Issues!service, Issues!worktree, Issues!git,
         Issues!Goto, Issues!Ends
    <2>6. Based'
      BY <1>10 DEF IssueInv, Based, IssueTypes, Remotes, Administrations, Alone, Grown, Ahead,
         Issues!DoltPull, Issues!InHand, Issues!Replies, Issues!After, Issues!service,
         Issues!worktree, Issues!git, Issues!Goto, Issues!Ends
    <2>7. Ahead'
      BY <1>10 DEF IssueInv, Ahead, Committing, Issues!Remote, Issues!Checkout, Issues!Admin,
         Issues!Garbled, IssueTypes, Administrations, Alone, SetAside, Issues!DoltPull,
         Issues!InHand, Issues!Replies, Issues!After, Issues!service, Issues!worktree, Issues!git,
         Issues!Goto, Issues!Ends
    <2>8. QED
      BY <2>1, <2>2, <2>3, <2>4, <2>5, <2>6, <2>7 DEF IssueInv
  <1>11. ASSUME Issues!ServiceFails
        PROVE  IssueInv'
    <2>1. IssueTypes'
      BY <1>11 DEF IssueInv, IssueTypes, IssuePoints, Issues!ServiceFails, Issues!Replies,
         Issues!After, Issues!service, Issues!worktree, Issues!git, Issues!Goto, Issues!Ends
    <2>2. Issues!NativeWhole'
      BY <1>11 DEF IssueInv, Issues!NativeWhole, Issues!Whole, Issues!Garbled, IssueTypes,
         Remotes, Issues!ServiceFails, Issues!Replies, Issues!After, Issues!service,
         Issues!worktree, Issues!git, Issues!Goto, Issues!Ends
    <2>3. Alone'
      BY <1>11 DEF IssueInv, Alone, IssueTypes, Issues!ServiceFails, Issues!Replies,
         Issues!After, Issues!service, Issues!worktree, Issues!git, Issues!Goto, Issues!Ends
    <2>4. SetAside'
      BY <1>11 DEF IssueInv, SetAside, IssueTypes, Alone, Issues!ServiceFails, Issues!Replies,
         Issues!After, Issues!service, Issues!worktree, Issues!git, Issues!Goto, Issues!Ends
    <2>5. Grown'
      BY <1>11 DEF IssueInv, Grown, IssueTypes, Remotes, Alone, Based, Issues!ServiceFails,
         Issues!Replies, Issues!After, Issues!service, Issues!worktree, Issues!git, Issues!Goto,
         Issues!Ends
    <2>6. Based'
      BY <1>11 DEF IssueInv, Based, IssueTypes, Remotes, Administrations, Alone, Grown, Ahead,
         Issues!ServiceFails, Issues!Replies, Issues!After, Issues!service, Issues!worktree,
         Issues!git, Issues!Goto, Issues!Ends
    <2>7. Ahead'
      BY <1>11 DEF IssueInv, Ahead, Committing, Issues!Remote, Issues!Checkout, Issues!Admin,
         Issues!Garbled, IssueTypes, Administrations, Alone, SetAside, Issues!ServiceFails,
         Issues!Replies, Issues!After, Issues!service, Issues!worktree, Issues!git, Issues!Goto,
         Issues!Ends
    <2>8. QED
      BY <2>1, <2>2, <2>3, <2>4, <2>5, <2>6, <2>7 DEF IssueInv
  <1>12. ASSUME Issues!Access
        PROVE  IssueInv'
    <2>1. IssueTypes'
      BY <1>12 DEF IssueInv, IssueTypes, IssuePoints, Issues!Access, Issues!service,
         Issues!worktree, Issues!git, Issues!Goto, Issues!Ends
    <2>2. Issues!NativeWhole'
      BY <1>12 DEF IssueInv, Issues!NativeWhole, Issues!Whole, Issues!Garbled, IssueTypes,
         Remotes, Issues!Access, Issues!service, Issues!worktree, Issues!git, Issues!Goto,
         Issues!Ends
    <2>3. Alone'
      BY <1>12 DEF IssueInv, Alone, IssueTypes, Issues!Access, Issues!service, Issues!worktree,
         Issues!git, Issues!Goto, Issues!Ends
    <2>4. SetAside'
      BY <1>12 DEF IssueInv, SetAside, IssueTypes, Alone, Issues!Access, Issues!service,
         Issues!worktree, Issues!git, Issues!Goto, Issues!Ends
    <2>5. Grown'
      BY <1>12 DEF IssueInv, Grown, IssueTypes, Remotes, Alone, Based, Issues!Access,
         Issues!service, Issues!worktree, Issues!git, Issues!Goto, Issues!Ends
    <2>6. Based'
      BY <1>12 DEF IssueInv, Based, IssueTypes, Remotes, Administrations, Alone, Grown, Ahead,
         Issues!Access, Issues!service, Issues!worktree, Issues!git, Issues!Goto, Issues!Ends
    <2>7. Ahead'
      BY <1>12 DEF IssueInv, Ahead, Committing, Issues!Remote, Issues!Checkout, Issues!Admin,
         Issues!Garbled, IssueTypes, Administrations, Alone, SetAside, Issues!Access,
         Issues!service, Issues!worktree, Issues!git, Issues!Goto, Issues!Ends
    <2>8. QED
      BY <2>1, <2>2, <2>3, <2>4, <2>5, <2>6, <2>7 DEF IssueInv
  <1>13. ASSUME NEW c \in Callers, Issues!Begin(c)
        PROVE  IssueInv'
    <2>1. IssueTypes'
      BY <1>13 DEF IssueInv, IssueTypes, IssuePoints, Issues!Begin, Issues!service,
         Issues!worktree, Issues!git, Issues!Goto, Issues!Ends
    <2>2. Issues!NativeWhole'
      BY <1>13 DEF IssueInv, Issues!NativeWhole, Issues!Whole, Issues!Garbled, IssueTypes,
         Remotes, Issues!Begin, Issues!service, Issues!worktree, Issues!git, Issues!Goto,
         Issues!Ends
    <2>3. Alone'
      BY <1>13 DEF IssueInv, Alone, IssueTypes, Issues!Begin, Issues!service, Issues!worktree,
         Issues!git, Issues!Goto, Issues!Ends
    <2>4. SetAside'
      BY <1>13 DEF IssueInv, SetAside, IssueTypes, Alone, Issues!Begin, Issues!service,
         Issues!worktree, Issues!git, Issues!Goto, Issues!Ends
    <2>5. Grown'
      BY <1>13 DEF IssueInv, Grown, IssueTypes, Remotes, Alone, Based, Issues!Begin,
         Issues!service, Issues!worktree, Issues!git, Issues!Goto, Issues!Ends
    <2>6. Based'
      BY <1>13 DEF IssueInv, Based, IssueTypes, Remotes, Administrations, Alone, Grown, Ahead,
         Issues!Begin, Issues!service, Issues!worktree, Issues!git, Issues!Goto, Issues!Ends
    <2>7. Ahead'
      BY <1>13 DEF IssueInv, Ahead, Committing, Issues!Remote, Issues!Checkout, Issues!Admin,
         Issues!Garbled, IssueTypes, Administrations, Alone, SetAside, Issues!Begin,
         Issues!service, Issues!worktree, Issues!git, Issues!Goto, Issues!Ends
    <2>8. QED
      BY <2>1, <2>2, <2>3, <2>4, <2>5, <2>6, <2>7 DEF IssueInv
  <1>14. ASSUME NEW c \in Callers, Issues!Push(c)
        PROVE  IssueInv'
    <2>1. IssueTypes'
      <3>1. mode' \in {"repository", "managed"} /\ db' \subseteq Commits /\ native' \in Remotes
        BY <1>14 DEF IssueInv, IssueTypes, Remotes, Issues!Push, Issues!Whole, Issues!Garbled,
           Issues!service, Issues!worktree, Issues!git, Issues!Goto, Issues!Ends
      <3>2. tree' \in Remotes /\ recovery' \in Remotes \cup {None}
        BY <1>14 DEF IssueInv, IssueTypes, Remotes, Issues!Push, Issues!Whole, Issues!Garbled,
           Issues!service, Issues!worktree, Issues!git, Issues!Goto, Issues!Ends
      <3>3. admin' \in [Callers -> Administrations]
        BY <1>14 DEF IssueInv, IssueTypes, Administrations, Issues!Push, Issues!Whole,
           Issues!Garbled, Issues!service, Issues!worktree, Issues!git, Issues!Goto, Issues!Ends
      <3>4. github' \in Seq(Remotes)
        BY <1>14 DEF IssueInv, IssueTypes, Issues!Push, Issues!Whole, Issues!Garbled,
           Issues!service, Issues!worktree, Issues!git, Issues!Goto, Issues!Ends
      <3>5. \A d \in Callers : admin'[d].base \in 1..Len(github')
        BY <1>14 DEF IssueInv, IssueTypes, Administrations, Issues!Push, Issues!Whole,
           Issues!Garbled, Issues!service, Issues!worktree, Issues!git, Issues!Goto, Issues!Ends
      <3>6. stage' \in [Callers -> IssuePoints] /\ listed' \in [Callers -> SUBSET Commits]
        BY <1>14 DEF IssueInv, IssueTypes, IssuePoints, Remotes, Issues!Push, Issues!Whole,
           Issues!Garbled, Issues!service, Issues!worktree, Issues!git, Issues!Goto, Issues!Ends
      <3>7. QED
        BY <3>1, <3>2, <3>3, <3>4, <3>5, <3>6 DEF IssueTypes
    <2>2. Issues!NativeWhole'
      BY <1>14 DEF IssueInv, Issues!NativeWhole, Issues!Whole, Issues!Garbled, IssueTypes,
         Remotes, Issues!Push, Issues!service, Issues!worktree, Issues!git, Issues!Goto,
         Issues!Ends
    <2>3. Alone'
      BY <1>14 DEF IssueInv, Alone, IssueTypes, Issues!Push, Issues!Whole, Issues!Garbled,
         Issues!service, Issues!worktree, Issues!git, Issues!Goto, Issues!Ends
    <2>4. SetAside'
      BY <1>14 DEF IssueInv, SetAside, IssueTypes, Alone, Issues!Push, Issues!Whole,
         Issues!Garbled, Issues!service, Issues!worktree, Issues!git, Issues!Goto, Issues!Ends
    <2>5. Grown'
      BY <1>14 DEF IssueInv, Grown, IssueTypes, Remotes, Alone, Based, Issues!Push,
         Issues!Whole, Issues!Garbled, Issues!service, Issues!worktree, Issues!git, Issues!Goto,
         Issues!Ends
    <2>6. Based'
      BY <1>14 DEF IssueInv, Based, IssueTypes, Remotes, Administrations, Alone, Grown, Ahead,
         Issues!Push, Issues!Whole, Issues!Garbled, Issues!service, Issues!worktree, Issues!git,
         Issues!Goto, Issues!Ends
    <2>7. Ahead'
      BY <1>14 DEF IssueInv, Ahead, Committing, Issues!Remote, Issues!Checkout, Issues!Admin,
         Issues!Garbled, IssueTypes, Administrations, Alone, SetAside, Issues!Push, Issues!Whole,
         Issues!service, Issues!worktree, Issues!git, Issues!Goto, Issues!Ends
    <2>8. QED
      BY <2>1, <2>2, <2>3, <2>4, <2>5, <2>6, <2>7 DEF IssueInv
  <1>15. ASSUME NEW c \in Callers, Issues!NotFastForward(c)
        PROVE  IssueInv'
    <2>1. IssueTypes'
      BY <1>15 DEF IssueInv, IssueTypes, IssuePoints, Issues!NotFastForward, Issues!service,
         Issues!worktree, Issues!git, Issues!Goto, Issues!Ends
    <2>2. Issues!NativeWhole'
      BY <1>15 DEF IssueInv, Issues!NativeWhole, Issues!Whole, Issues!Garbled, IssueTypes,
         Remotes, Issues!NotFastForward, Issues!service, Issues!worktree, Issues!git, Issues!Goto,
         Issues!Ends
    <2>3. Alone'
      BY <1>15 DEF IssueInv, Alone, IssueTypes, Issues!NotFastForward, Issues!service,
         Issues!worktree, Issues!git, Issues!Goto, Issues!Ends
    <2>4. SetAside'
      BY <1>15 DEF IssueInv, SetAside, IssueTypes, Alone, Issues!NotFastForward, Issues!service,
         Issues!worktree, Issues!git, Issues!Goto, Issues!Ends
    <2>5. Grown'
      BY <1>15 DEF IssueInv, Grown, IssueTypes, Remotes, Alone, Based, Issues!NotFastForward,
         Issues!service, Issues!worktree, Issues!git, Issues!Goto, Issues!Ends
    <2>6. Based'
      BY <1>15 DEF IssueInv, Based, IssueTypes, Remotes, Administrations, Alone, Grown, Ahead,
         Issues!NotFastForward, Issues!service, Issues!worktree, Issues!git, Issues!Goto,
         Issues!Ends
    <2>7. Ahead'
      BY <1>15 DEF IssueInv, Ahead, Committing, Issues!Remote, Issues!Checkout, Issues!Admin,
         Issues!Garbled, IssueTypes, Administrations, Alone, SetAside, Issues!NotFastForward,
         Issues!service, Issues!worktree, Issues!git, Issues!Goto, Issues!Ends
    <2>8. QED
      BY <2>1, <2>2, <2>3, <2>4, <2>5, <2>6, <2>7 DEF IssueInv
  <1>16. ASSUME NEW c \in Callers, Issues!Pull(c)
        PROVE  IssueInv'
    <2>1. IssueTypes'
      <3>1. mode' \in {"repository", "managed"} /\ db' \subseteq Commits /\ native' \in Remotes
        BY <1>16 DEF IssueInv, IssueTypes, Remotes, Issues!Pull, Issues!Whole, Issues!Garbled,
           Issues!service, Issues!worktree, Issues!git, Issues!Goto, Issues!Ends
      <3>2. tree' \in Remotes /\ recovery' \in Remotes \cup {None}
        BY <1>16 DEF IssueInv, IssueTypes, Remotes, Issues!Pull, Issues!Whole, Issues!Garbled,
           Issues!service, Issues!worktree, Issues!git, Issues!Goto, Issues!Ends
      <3>3. admin' \in [Callers -> Administrations]
        BY <1>16 DEF IssueInv, IssueTypes, Administrations, Issues!Pull, Issues!Whole,
           Issues!Garbled, Issues!service, Issues!worktree, Issues!git, Issues!Goto, Issues!Ends
      <3>4. github' \in Seq(Remotes)
        BY <1>16 DEF IssueInv, IssueTypes, Issues!Pull, Issues!Whole, Issues!Garbled,
           Issues!service, Issues!worktree, Issues!git, Issues!Goto, Issues!Ends
      <3>5. \A d \in Callers : admin'[d].base \in 1..Len(github')
        BY <1>16 DEF IssueInv, IssueTypes, Administrations, Issues!Pull, Issues!Whole,
           Issues!Garbled, Issues!service, Issues!worktree, Issues!git, Issues!Goto, Issues!Ends
      <3>6. stage' \in [Callers -> IssuePoints] /\ listed' \in [Callers -> SUBSET Commits]
        BY <1>16 DEF IssueInv, IssueTypes, IssuePoints, Remotes, Issues!Pull, Issues!Whole,
           Issues!Garbled, Issues!service, Issues!worktree, Issues!git, Issues!Goto, Issues!Ends
      <3>7. QED
        BY <3>1, <3>2, <3>3, <3>4, <3>5, <3>6 DEF IssueTypes
    <2>2. Issues!NativeWhole'
      BY <1>16 DEF IssueInv, Issues!NativeWhole, Issues!Whole, Issues!Garbled, IssueTypes,
         Remotes, Issues!Pull, Issues!service, Issues!worktree, Issues!git, Issues!Goto,
         Issues!Ends
    <2>3. Alone'
      BY <1>16 DEF IssueInv, Alone, IssueTypes, Issues!Pull, Issues!Whole, Issues!Garbled,
         Issues!service, Issues!worktree, Issues!git, Issues!Goto, Issues!Ends
    <2>4. SetAside'
      BY <1>16 DEF IssueInv, SetAside, IssueTypes, Alone, Issues!Pull, Issues!Whole,
         Issues!Garbled, Issues!service, Issues!worktree, Issues!git, Issues!Goto, Issues!Ends
    <2>5. Grown'
      BY <1>16 DEF IssueInv, Grown, IssueTypes, Remotes, Alone, Based, Issues!Pull,
         Issues!Whole, Issues!Garbled, Issues!service, Issues!worktree, Issues!git, Issues!Goto,
         Issues!Ends
    <2>6. Based'
      BY <1>16 DEF IssueInv, Based, IssueTypes, Remotes, Administrations, Alone, Grown, Ahead,
         Issues!Pull, Issues!Whole, Issues!Garbled, Issues!service, Issues!worktree, Issues!git,
         Issues!Goto, Issues!Ends
    <2>7. Ahead'
      BY <1>16 DEF IssueInv, Ahead, Committing, Issues!Remote, Issues!Checkout, Issues!Admin,
         Issues!Garbled, IssueTypes, Administrations, Alone, SetAside, Issues!Pull, Issues!Whole,
         Issues!service, Issues!worktree, Issues!git, Issues!Goto, Issues!Ends
    <2>8. QED
      BY <2>1, <2>2, <2>3, <2>4, <2>5, <2>6, <2>7 DEF IssueInv
  <1>17. ASSUME NEW c \in Callers, Issues!Request(c)
        PROVE  IssueInv'
    <2>1. IssueTypes'
      BY <1>17 DEF IssueInv, IssueTypes, IssuePoints, Issues!Request, Issues!Requests,
         Issues!service, Issues!worktree, Issues!git, Issues!Goto, Issues!Ends
    <2>2. Issues!NativeWhole'
      BY <1>17 DEF IssueInv, Issues!NativeWhole, Issues!Whole, Issues!Garbled, IssueTypes,
         Remotes, Issues!Request, Issues!Requests, Issues!service, Issues!worktree, Issues!git,
         Issues!Goto, Issues!Ends
    <2>3. Alone'
      BY <1>17 DEF IssueInv, Alone, IssueTypes, Issues!Request, Issues!Requests, Issues!service,
         Issues!worktree, Issues!git, Issues!Goto, Issues!Ends
    <2>4. SetAside'
      BY <1>17 DEF IssueInv, SetAside, IssueTypes, Alone, Issues!Request, Issues!Requests,
         Issues!service, Issues!worktree, Issues!git, Issues!Goto, Issues!Ends
    <2>5. Grown'
      BY <1>17 DEF IssueInv, Grown, IssueTypes, Remotes, Alone, Based, Issues!Request,
         Issues!Requests, Issues!service, Issues!worktree, Issues!git, Issues!Goto, Issues!Ends
    <2>6. Based'
      BY <1>17 DEF IssueInv, Based, IssueTypes, Remotes, Administrations, Alone, Grown, Ahead,
         Issues!Request, Issues!Requests, Issues!service, Issues!worktree, Issues!git, Issues!Goto,
         Issues!Ends
    <2>7. Ahead'
      BY <1>17 DEF IssueInv, Ahead, Committing, Issues!Remote, Issues!Checkout, Issues!Admin,
         Issues!Garbled, IssueTypes, Administrations, Alone, SetAside, Issues!Request,
         Issues!Requests, Issues!service, Issues!worktree, Issues!git, Issues!Goto, Issues!Ends
    <2>8. QED
      BY <2>1, <2>2, <2>3, <2>4, <2>5, <2>6, <2>7 DEF IssueInv
  <1>18. ASSUME NEW c \in Callers, Issues!Lock(c)
        PROVE  IssueInv'
    <2>1. IssueTypes'
      BY <1>18 DEF IssueInv, IssueTypes, IssuePoints, Issues!Lock, Issues!service,
         Issues!worktree, Issues!git, Issues!Goto, Issues!Ends
    <2>2. Issues!NativeWhole'
      BY <1>18 DEF IssueInv, Issues!NativeWhole, Issues!Whole, Issues!Garbled, IssueTypes,
         Remotes, Issues!Lock, Issues!service, Issues!worktree, Issues!git, Issues!Goto,
         Issues!Ends
    <2>3. Alone'
      BY <1>18 DEF IssueInv, Alone, IssueTypes, Issues!Lock, Issues!service, Issues!worktree,
         Issues!git, Issues!Goto, Issues!Ends
    <2>4. SetAside'
      BY <1>18 DEF IssueInv, SetAside, IssueTypes, Alone, Issues!Lock, Issues!service,
         Issues!worktree, Issues!git, Issues!Goto, Issues!Ends
    <2>5. Grown'
      BY <1>18 DEF IssueInv, Grown, IssueTypes, Remotes, Alone, Based, Issues!Lock,
         Issues!service, Issues!worktree, Issues!git, Issues!Goto, Issues!Ends
    <2>6. Based'
      BY <1>18 DEF IssueInv, Based, IssueTypes, Remotes, Administrations, Alone, Grown, Ahead,
         Issues!Lock, Issues!service, Issues!worktree, Issues!git, Issues!Goto, Issues!Ends
    <2>7. Ahead'
      BY <1>18 DEF IssueInv, Ahead, Committing, Issues!Remote, Issues!Checkout, Issues!Admin,
         Issues!Garbled, IssueTypes, Administrations, Alone, SetAside, Issues!Lock, Issues!service,
         Issues!worktree, Issues!git, Issues!Goto, Issues!Ends
    <2>8. QED
      BY <2>1, <2>2, <2>3, <2>4, <2>5, <2>6, <2>7 DEF IssueInv
  <1>19. ASSUME NEW c \in Callers, Issues!Stage(c)
        PROVE  IssueInv'
    <2>1. IssueTypes'
      <3>1. mode' \in {"repository", "managed"} /\ db' \subseteq Commits /\ native' \in Remotes
        BY <1>19 DEF IssueInv, IssueTypes, Remotes, Issues!Stage, Issues!Empty, Issues!service,
           Issues!worktree, Issues!git, Issues!Goto, Issues!Ends
      <3>2. tree' \in Remotes /\ recovery' \in Remotes \cup {None}
        BY <1>19 DEF IssueInv, IssueTypes, Remotes, Issues!Stage, Issues!Empty, Issues!service,
           Issues!worktree, Issues!git, Issues!Goto, Issues!Ends
      <3>3. admin' \in [Callers -> Administrations]
        BY <1>19 DEF IssueInv, IssueTypes, Administrations, Issues!Stage, Issues!Empty,
           Issues!service, Issues!worktree, Issues!git, Issues!Goto, Issues!Ends
      <3>4. github' \in Seq(Remotes)
        BY <1>19 DEF IssueInv, IssueTypes, Issues!Stage, Issues!Empty, Issues!service,
           Issues!worktree, Issues!git, Issues!Goto, Issues!Ends
      <3>5. \A d \in Callers : admin'[d].base \in 1..Len(github')
        BY <1>19 DEF IssueInv, IssueTypes, Administrations, Issues!Stage, Issues!Empty,
           Issues!service, Issues!worktree, Issues!git, Issues!Goto, Issues!Ends
      <3>6. stage' \in [Callers -> IssuePoints] /\ listed' \in [Callers -> SUBSET Commits]
        BY <1>19 DEF IssueInv, IssueTypes, IssuePoints, Remotes, Issues!Stage, Issues!Empty,
           Issues!service, Issues!worktree, Issues!git, Issues!Goto, Issues!Ends
      <3>7. QED
        BY <3>1, <3>2, <3>3, <3>4, <3>5, <3>6 DEF IssueTypes
    <2>2. Issues!NativeWhole'
      BY <1>19 DEF IssueInv, Issues!NativeWhole, Issues!Whole, Issues!Garbled, IssueTypes,
         Remotes, Issues!Stage, Issues!Empty, Issues!service, Issues!worktree, Issues!git,
         Issues!Goto, Issues!Ends
    <2>3. Alone'
      BY <1>19 DEF IssueInv, Alone, IssueTypes, Issues!Stage, Issues!Empty, Issues!service,
         Issues!worktree, Issues!git, Issues!Goto, Issues!Ends
    <2>4. SetAside'
      BY <1>19 DEF IssueInv, SetAside, IssueTypes, Alone, Issues!Stage, Issues!Empty,
         Issues!service, Issues!worktree, Issues!git, Issues!Goto, Issues!Ends
    <2>5. Grown'
      BY <1>19 DEF IssueInv, Grown, IssueTypes, Remotes, Alone, Based, Issues!Stage,
         Issues!Empty, Issues!service, Issues!worktree, Issues!git, Issues!Goto, Issues!Ends
    <2>6. Based'
      BY <1>19 DEF IssueInv, Based, IssueTypes, Remotes, Administrations, Alone, Grown, Ahead,
         Issues!Stage, Issues!Empty, Issues!service, Issues!worktree, Issues!git, Issues!Goto,
         Issues!Ends
    <2>7. Ahead'
      BY <1>19 DEF IssueInv, Ahead, Committing, Issues!Remote, Issues!Checkout, Issues!Admin,
         Issues!Garbled, IssueTypes, Administrations, Alone, SetAside, Issues!Stage, Issues!Empty,
         Issues!service, Issues!worktree, Issues!git, Issues!Goto, Issues!Ends
    <2>8. QED
      BY <2>1, <2>2, <2>3, <2>4, <2>5, <2>6, <2>7 DEF IssueInv
  <1>20. ASSUME NEW c \in Callers, Issues!Recreate(c)
        PROVE  IssueInv'
    <2>1. IssueTypes'
      <3>1. mode' \in {"repository", "managed"} /\ db' \subseteq Commits /\ native' \in Remotes
        BY <1>20, CheckoutTyped DEF IssueInv, IssueTypes, Remotes, Issues!Recreate,
           Issues!service, Issues!worktree, Issues!git, Issues!Goto, Issues!Ends
      <3>2. tree' \in Remotes /\ recovery' \in Remotes \cup {None}
        BY <1>20, CheckoutTyped DEF IssueInv, IssueTypes, Remotes, Issues!Recreate,
           Issues!service, Issues!worktree, Issues!git, Issues!Goto, Issues!Ends
      <3>3. admin' \in [Callers -> Administrations]
        BY <1>20, CheckoutTyped DEF IssueInv, IssueTypes, Administrations, Issues!Recreate,
           Issues!service, Issues!worktree, Issues!git, Issues!Goto, Issues!Ends
      <3>4. github' \in Seq(Remotes)
        BY <1>20, CheckoutTyped DEF IssueInv, IssueTypes, Issues!Recreate, Issues!service,
           Issues!worktree, Issues!git, Issues!Goto, Issues!Ends
      <3>5. \A d \in Callers : admin'[d].base \in 1..Len(github')
        BY <1>20, CheckoutTyped DEF IssueInv, IssueTypes, Administrations, Issues!Recreate,
           Issues!service, Issues!worktree, Issues!git, Issues!Goto, Issues!Ends
      <3>6. stage' \in [Callers -> IssuePoints] /\ listed' \in [Callers -> SUBSET Commits]
        BY <1>20, CheckoutTyped DEF IssueInv, IssueTypes, IssuePoints, Remotes, Issues!Recreate,
           Issues!service, Issues!worktree, Issues!git, Issues!Goto, Issues!Ends
      <3>7. QED
        BY <3>1, <3>2, <3>3, <3>4, <3>5, <3>6 DEF IssueTypes
    <2>2. Issues!NativeWhole'
      BY <1>20 DEF IssueInv, Issues!NativeWhole, Issues!Whole, Issues!Garbled, IssueTypes,
         Remotes, Issues!Recreate, Issues!service, Issues!worktree, Issues!git, Issues!Goto,
         Issues!Ends
    <2>3. Alone'
      BY <1>20 DEF IssueInv, Alone, IssueTypes, Issues!Recreate, Issues!service,
         Issues!worktree, Issues!git, Issues!Goto, Issues!Ends
    <2>4. SetAside'
      BY <1>20 DEF IssueInv, SetAside, IssueTypes, Alone, Issues!Recreate, Issues!service,
         Issues!worktree, Issues!git, Issues!Goto, Issues!Ends
    <2>5. Grown'
      BY <1>20 DEF IssueInv, Grown, IssueTypes, Remotes, Alone, Based, Issues!Recreate,
         Issues!service, Issues!worktree, Issues!git, Issues!Goto, Issues!Ends
    <2>6. Based'
      BY <1>20 DEF IssueInv, Based, IssueTypes, Remotes, Administrations, Alone, Grown, Ahead,
         Issues!Recreate, Issues!service, Issues!worktree, Issues!git, Issues!Goto, Issues!Ends
    <2>7. Ahead'
      BY <1>20 DEF IssueInv, Ahead, Committing, Issues!Remote, Issues!Checkout, Issues!Admin,
         Issues!Garbled, IssueTypes, Administrations, Alone, SetAside, Issues!Recreate,
         Issues!service, Issues!worktree, Issues!git, Issues!Goto, Issues!Ends
    <2>8. QED
      BY <2>1, <2>2, <2>3, <2>4, <2>5, <2>6, <2>7 DEF IssueInv
  <1>21. ASSUME NEW c \in Callers, Issues!Restore(c)
        PROVE  IssueInv'
    <2>1. IssueTypes'
      <3>1. mode' \in {"repository", "managed"} /\ db' \subseteq Commits /\ native' \in Remotes
        BY <1>21 DEF IssueInv, IssueTypes, Remotes, Issues!Restore, Issues!service,
           Issues!worktree, Issues!git, Issues!Goto, Issues!Ends
      <3>2. tree' \in Remotes /\ recovery' \in Remotes \cup {None}
        BY <1>21 DEF IssueInv, IssueTypes, Remotes, Issues!Restore, Issues!service,
           Issues!worktree, Issues!git, Issues!Goto, Issues!Ends, SetAside
      <3>3. admin' \in [Callers -> Administrations]
        BY <1>21 DEF IssueInv, IssueTypes, Administrations, Issues!Restore, Issues!service,
           Issues!worktree, Issues!git, Issues!Goto, Issues!Ends
      <3>4. github' \in Seq(Remotes)
        BY <1>21 DEF IssueInv, IssueTypes, Issues!Restore, Issues!service, Issues!worktree,
           Issues!git, Issues!Goto, Issues!Ends
      <3>5. \A d \in Callers : admin'[d].base \in 1..Len(github')
        BY <1>21 DEF IssueInv, IssueTypes, Administrations, Issues!Restore, Issues!service,
           Issues!worktree, Issues!git, Issues!Goto, Issues!Ends
      <3>6. stage' \in [Callers -> IssuePoints] /\ listed' \in [Callers -> SUBSET Commits]
        BY <1>21 DEF IssueInv, IssueTypes, IssuePoints, Remotes, Issues!Restore, Issues!service,
           Issues!worktree, Issues!git, Issues!Goto, Issues!Ends
      <3>7. QED
        BY <3>1, <3>2, <3>3, <3>4, <3>5, <3>6 DEF IssueTypes
    <2>2. Issues!NativeWhole'
      BY <1>21 DEF IssueInv, Issues!NativeWhole, Issues!Whole, Issues!Garbled, IssueTypes,
         Remotes, Issues!Restore, Issues!service, Issues!worktree, Issues!git, Issues!Goto,
         Issues!Ends
    <2>3. Alone'
      BY <1>21 DEF IssueInv, Alone, IssueTypes, Issues!Restore, Issues!service, Issues!worktree,
         Issues!git, Issues!Goto, Issues!Ends
    <2>4. SetAside'
      BY <1>21 DEF IssueInv, SetAside, IssueTypes, Alone, Issues!Restore, Issues!service,
         Issues!worktree, Issues!git, Issues!Goto, Issues!Ends
    <2>5. Grown'
      BY <1>21 DEF IssueInv, Grown, IssueTypes, Remotes, Alone, Based, Issues!Restore,
         Issues!service, Issues!worktree, Issues!git, Issues!Goto, Issues!Ends
    <2>6. Based'
      BY <1>21 DEF IssueInv, Based, IssueTypes, Remotes, Administrations, Alone, Grown, Ahead,
         Issues!Restore, Issues!service, Issues!worktree, Issues!git, Issues!Goto, Issues!Ends
    <2>7. Ahead'
      BY <1>21 DEF IssueInv, Ahead, Committing, Issues!Remote, Issues!Checkout, Issues!Admin,
         Issues!Garbled, IssueTypes, Administrations, Alone, SetAside, Issues!Restore,
         Issues!service, Issues!worktree, Issues!git, Issues!Goto, Issues!Ends
    <2>8. QED
      BY <2>1, <2>2, <2>3, <2>4, <2>5, <2>6, <2>7 DEF IssueInv
  <1>22. ASSUME NEW c \in Callers, Issues!Add(c)
        PROVE  IssueInv'
    <2>1. IssueTypes'
      <3>1. mode' \in {"repository", "managed"} /\ db' \subseteq Commits /\ native' \in Remotes
        BY <1>22 DEF IssueInv, IssueTypes, Remotes, Issues!Add, Issues!service, Issues!worktree,
           Issues!git, Issues!Goto, Issues!Ends
      <3>2. tree' \in Remotes /\ recovery' \in Remotes \cup {None}
        BY <1>22 DEF IssueInv, IssueTypes, Remotes, Issues!Add, Issues!service, Issues!worktree,
           Issues!git, Issues!Goto, Issues!Ends
      <3>3. admin' \in [Callers -> Administrations]
        BY <1>22 DEF IssueInv, IssueTypes, Administrations, Issues!Add, Issues!service,
           Issues!worktree, Issues!git, Issues!Goto, Issues!Ends
      <3>4. github' \in Seq(Remotes)
        BY <1>22 DEF IssueInv, IssueTypes, Issues!Add, Issues!service, Issues!worktree,
           Issues!git, Issues!Goto, Issues!Ends
      <3>5. \A d \in Callers : admin'[d].base \in 1..Len(github')
        BY <1>22 DEF IssueInv, IssueTypes, Administrations, Issues!Add, Issues!service,
           Issues!worktree, Issues!git, Issues!Goto, Issues!Ends
      <3>6. stage' \in [Callers -> IssuePoints] /\ listed' \in [Callers -> SUBSET Commits]
        BY <1>22 DEF IssueInv, IssueTypes, IssuePoints, Remotes, Issues!Add, Issues!service,
           Issues!worktree, Issues!git, Issues!Goto, Issues!Ends
      <3>7. QED
        BY <3>1, <3>2, <3>3, <3>4, <3>5, <3>6 DEF IssueTypes
    <2>2. Issues!NativeWhole'
      BY <1>22 DEF IssueInv, Issues!NativeWhole, Issues!Whole, Issues!Garbled, IssueTypes,
         Remotes, Issues!Add, Issues!service, Issues!worktree, Issues!git, Issues!Goto, Issues!Ends
    <2>3. Alone'
      BY <1>22 DEF IssueInv, Alone, IssueTypes, Issues!Add, Issues!service, Issues!worktree,
         Issues!git, Issues!Goto, Issues!Ends
    <2>4. SetAside'
      BY <1>22 DEF IssueInv, SetAside, IssueTypes, Alone, Issues!Add, Issues!service,
         Issues!worktree, Issues!git, Issues!Goto, Issues!Ends
    <2>5. Grown'
      BY <1>22 DEF IssueInv, Grown, IssueTypes, Remotes, Alone, Based, Issues!Add,
         Issues!service, Issues!worktree, Issues!git, Issues!Goto, Issues!Ends
    <2>6. Based'
      BY <1>22 DEF IssueInv, Based, IssueTypes, Remotes, Administrations, Alone, Grown, Ahead,
         Issues!Add, Issues!service, Issues!worktree, Issues!git, Issues!Goto, Issues!Ends
    <2>7. Ahead'
      BY <1>22 DEF IssueInv, Ahead, Committing, Issues!Remote, Issues!Checkout, Issues!Admin,
         Issues!Garbled, IssueTypes, Administrations, Alone, SetAside, Issues!Add, Issues!service,
         Issues!worktree, Issues!git, Issues!Goto, Issues!Ends
    <2>8. QED
      BY <2>1, <2>2, <2>3, <2>4, <2>5, <2>6, <2>7 DEF IssueInv
  <1>23. ASSUME NEW c \in Callers, Issues!Commit(c)
        PROVE  IssueInv'
    <2>1. IssueTypes'
      <3>1. mode' \in {"repository", "managed"} /\ db' \subseteq Commits /\ native' \in Remotes
        BY <1>23, CheckoutTyped DEF IssueInv, IssueTypes, Remotes, Issues!Commit,
           Issues!service, Issues!worktree, Issues!git, Issues!Goto, Issues!Ends
      <3>2. tree' \in Remotes /\ recovery' \in Remotes \cup {None}
        BY <1>23, CheckoutTyped DEF IssueInv, IssueTypes, Remotes, Issues!Commit,
           Issues!service, Issues!worktree, Issues!git, Issues!Goto, Issues!Ends
      <3>3. PICK a \in Administrations :
              admin' = [admin EXCEPT ![Issues!Admin(c)] = a] /\ a.base = admin[Issues!Admin(c)].base
        BY <1>23, CommitAdmin
      <3>4. github' = github
        BY <1>23 DEF Issues!Commit, Issues!Rebases
      <3>5. /\ admin' \in [Callers -> Administrations]
            /\ \A d \in Callers : admin'[d].base \in 1..Len(github')
        BY <3>3, <3>4, AdminSet, CheckoutTyped DEF IssueInv, IssueTypes
      <3>6. stage' \in [Callers -> IssuePoints] /\ listed' \in [Callers -> SUBSET Commits]
        BY <1>23, CheckoutTyped DEF IssueInv, IssueTypes, IssuePoints, Remotes, Issues!Commit,
           Issues!service, Issues!worktree, Issues!git, Issues!Goto, Issues!Ends
      <3>7. QED
        BY <3>1, <3>2, <3>4, <3>5, <3>6
           DEF IssueInv, IssueTypes
    <2>2. Issues!NativeWhole'
      BY <1>23 DEF IssueInv, Issues!NativeWhole, Issues!Whole, Issues!Garbled, IssueTypes,
         Remotes, Issues!Commit, Issues!service, Issues!worktree, Issues!git, Issues!Goto,
         Issues!Ends
    <2>3. Alone'
      BY <1>23 DEF IssueInv, Alone, IssueTypes, Issues!Commit, Issues!service, Issues!worktree,
         Issues!git, Issues!Goto, Issues!Ends
    <2>4. SetAside'
      BY <1>23 DEF IssueInv, SetAside, IssueTypes, Alone, Issues!Commit, Issues!service,
         Issues!worktree, Issues!git, Issues!Goto, Issues!Ends
    <2>5. Grown'
      BY <1>23 DEF IssueInv, Grown, IssueTypes, Remotes, Alone, Based, Issues!Commit,
         Issues!service, Issues!worktree, Issues!git, Issues!Goto, Issues!Ends
    <2>6. Based'
      <3> SUFFICES ASSUME mode = "repository" PROVE Based'
        BY <1>23 DEF Based, Issues!Commit, Issues!service
      <3> DEFINE x == admin["host"]
      <3>1. /\ stage[c] \in {"commit", "commit again"}
            /\ UNCHANGED <<mode, github, tree, recovery>>
            /\ stage' = [stage EXCEPT ![c] = IF stage[c] = "commit" THEN "rebase" ELSE "publish"]
        BY <1>23 DEF Issues!Commit, Issues!Goto, Issues!service, Issues!worktree
      <3>2. /\ Issues!Admin(c) = "host" /\ recovery = None /\ Issues!Remote = tree
            /\ tree.root \subseteq Commits /\ tree.root # Issues!Garbled
            /\ \A d \in Callers : ~admin[d].stuck
            /\ Issues!Checkout("host").root \subseteq tree.root
            /\ github[x.base].root \subseteq Issues!Checkout("host").root
        BY <3>1, Settled DEF Committing
      <3>3. PICK a \in Administrations :
              /\ admin' = [admin EXCEPT !["host"] = a]
              /\ a.base = x.base /\ a.stuck = x.stuck
              /\ \/ a.local = x.local
                 \/ a.local \in Remotes /\ a.local.root = tree.root
        BY <1>23, <3>2, CommitAdmin
      <3>4. admin'["host"] = a /\ \A d \in Callers \ {"host"} : admin'[d] = admin[d]
        BY <3>3 DEF IssueInv, IssueTypes
      <3>5. QED
        BY <3>1, <3>2, <3>3, <3>4 DEF IssueInv, Based
    <2>7. Ahead'
      <3> SUFFICES ASSUME mode = "repository" PROVE Ahead'
        BY <1>23 DEF Ahead, Issues!Commit, Issues!service
      <3> DEFINE x == admin["host"]
      <3>1. /\ stage[c] \in {"commit", "commit again"}
            /\ UNCHANGED <<mode, github, tree, recovery>>
            /\ stage' = [stage EXCEPT ![c] = IF stage[c] = "commit" THEN "rebase" ELSE "publish"]
        BY <1>23 DEF Issues!Commit, Issues!Goto, Issues!service, Issues!worktree
      <3>2. /\ Issues!Admin(c) = "host" /\ recovery = None /\ Issues!Remote = tree
            /\ tree.root \subseteq Commits /\ tree.root # Issues!Garbled
            /\ \A d \in Callers : ~admin[d].stuck
            /\ Issues!Checkout("host").root \subseteq tree.root
            /\ github[x.base].root \subseteq Issues!Checkout("host").root
        BY <3>1, Settled DEF Committing
      <3>3. PICK a \in Administrations :
              /\ admin' = [admin EXCEPT !["host"] = a]
              /\ a.base = x.base /\ a.stuck = x.stuck
              /\ \/ a.local = x.local
                 \/ a.local \in Remotes /\ a.local.root = tree.root
        BY <1>23, <3>2, CommitAdmin
      <3>4. admin'["host"] = a /\ \A d \in Callers \ {"host"} : admin'[d] = admin[d]
        BY <3>3 DEF IssueInv, IssueTypes
      <3>5. (Issues!Checkout("host"))'.root \subseteq tree.root /\ Issues!Remote' = tree
        BY <3>1, <3>2, <3>3, <3>4 DEF Issues!Checkout, Issues!Admin, Issues!Remote
      <3>6. \A d \in Callers : ~admin'[d].stuck
        BY <3>2, <3>3, <3>4
      <3>7. QED
        BY <3>2, <3>5, <3>6 DEF Ahead
    <2>8. QED
      BY <2>1, <2>2, <2>3, <2>4, <2>5, <2>6, <2>7 DEF IssueInv
  <1>24. ASSUME NEW c \in Callers, Issues!Follow(c)
        PROVE  IssueInv'
    <2>1. IssueTypes'
      <3>1. mode' \in {"repository", "managed"} /\ db' \subseteq Commits /\ native' \in Remotes
        BY <1>24, CheckoutTyped DEF IssueInv, IssueTypes, Remotes, Issues!Follow,
           Issues!Rebases, Issues!Last, Issues!service, Issues!worktree, Issues!git, Issues!Goto,
           Issues!Ends
      <3>2. tree' \in Remotes /\ recovery' \in Remotes \cup {None}
        BY <1>24, CheckoutTyped DEF IssueInv, IssueTypes, Remotes, Issues!Follow,
           Issues!Rebases, Issues!Last, Issues!service, Issues!worktree, Issues!git, Issues!Goto,
           Issues!Ends
      <3>3. PICK a \in Administrations :
              admin' = [admin EXCEPT ![Issues!Admin(c)] = a] /\ a.base = Len(github)
        BY <1>24, FollowAdmin
      <3>4. github' = github
        BY <1>24 DEF Issues!Follow, Issues!Rebases
      <3>5. /\ admin' \in [Callers -> Administrations]
            /\ \A d \in Callers : admin'[d].base \in 1..Len(github')
        BY <3>3, <3>4, AdminSet, CheckoutTyped DEF IssueInv, IssueTypes
      <3>6. stage' \in [Callers -> IssuePoints] /\ listed' \in [Callers -> SUBSET Commits]
        BY <1>24, CheckoutTyped DEF IssueInv, IssueTypes, IssuePoints, Remotes, Issues!Follow,
           Issues!Rebases, Issues!Last, Issues!service, Issues!worktree, Issues!git, Issues!Goto,
           Issues!Ends
      <3>7. QED
        BY <3>1, <3>2, <3>4, <3>5, <3>6
           DEF IssueInv, IssueTypes
    <2>2. Issues!NativeWhole'
      BY <1>24 DEF IssueInv, Issues!NativeWhole, Issues!Whole, Issues!Garbled, IssueTypes,
         Remotes, Issues!Follow, Issues!Rebases, Issues!Last, Issues!service, Issues!worktree,
         Issues!git, Issues!Goto, Issues!Ends
    <2>3. Alone'
      BY <1>24 DEF IssueInv, Alone, IssueTypes, Issues!Follow, Issues!Rebases, Issues!Last,
         Issues!service, Issues!worktree, Issues!git, Issues!Goto, Issues!Ends
    <2>4. SetAside'
      BY <1>24 DEF IssueInv, SetAside, IssueTypes, Alone, Issues!Follow, Issues!Rebases,
         Issues!Last, Issues!service, Issues!worktree, Issues!git, Issues!Goto, Issues!Ends
    <2>5. Grown'
      BY <1>24 DEF IssueInv, Grown, IssueTypes, Remotes, Alone, Based, Issues!Follow,
         Issues!Rebases, Issues!Last, Issues!service, Issues!worktree, Issues!git, Issues!Goto,
         Issues!Ends
    <2>6. Based'
      <3> SUFFICES ASSUME mode = "repository" PROVE Based'
        BY <1>24 DEF Based, Issues!Follow, Issues!Rebases, Issues!service
      <3> DEFINE x == admin["host"]
      <3>1. /\ stage[c] = "rebase"
            /\ UNCHANGED <<mode, github, recovery>>
        BY <1>24 DEF Issues!Follow, Issues!Rebases, Issues!service
      <3>2. /\ Issues!Admin(c) = "host" /\ Issues!Checkout(c) = Issues!Checkout("host")
            /\ recovery = None /\ Issues!Remote = tree
            /\ tree.root \subseteq Commits /\ tree.root # Issues!Garbled
            /\ \A d \in Callers : ~admin[d].stuck
            /\ Issues!Checkout("host").root \subseteq tree.root
        BY <3>1, Settled DEF Committing
      <3>3. PICK a \in Administrations :
              /\ admin' = [admin EXCEPT !["host"] = a]
              /\ a.base = Len(github) /\ a.stuck = x.stuck /\ a.local = x.local
        BY <1>24, <3>2, FollowAdmin
      <3>4. admin'["host"] = a /\ \A d \in Callers \ {"host"} : admin'[d] = admin[d]
        BY <3>3 DEF IssueInv, IssueTypes
      <3>5. /\ x.base = Len(github) \/ x.local = None
            /\ tree' = IF x.local = None THEN github[Len(github)] ELSE tree
        BY <1>24, <3>2 DEF Issues!Follow, Issues!Last
      <3>6. QED
        BY <3>1, <3>3, <3>4, <3>5 DEF IssueInv, Based
    <2>7. Ahead'
      <3> SUFFICES ASSUME mode = "repository" PROVE Ahead'
        BY <1>24 DEF Ahead, Issues!Follow, Issues!Rebases, Issues!service
      <3> DEFINE x == admin["host"]
      <3>1. /\ stage[c] = "rebase"
            /\ UNCHANGED <<mode, github, recovery>>
        BY <1>24 DEF Issues!Follow, Issues!Rebases, Issues!service
      <3>2. /\ Issues!Admin(c) = "host" /\ Issues!Checkout(c) = Issues!Checkout("host")
            /\ recovery = None /\ Issues!Remote = tree
            /\ tree.root \subseteq Commits /\ tree.root # Issues!Garbled
            /\ \A d \in Callers : ~admin[d].stuck
            /\ Issues!Checkout("host").root \subseteq tree.root
        BY <3>1, Settled DEF Committing
      <3>3. PICK a \in Administrations :
              /\ admin' = [admin EXCEPT !["host"] = a]
              /\ a.base = Len(github) /\ a.stuck = x.stuck /\ a.local = x.local
        BY <1>24, <3>2, FollowAdmin
      <3>4. admin'["host"] = a /\ \A d \in Callers \ {"host"} : admin'[d] = admin[d]
        BY <3>3 DEF IssueInv, IssueTypes
      <3>5. /\ x.base = Len(github) \/ x.local = None
            /\ tree' = IF x.local = None THEN github[Len(github)] ELSE tree
        BY <1>24, <3>2 DEF Issues!Follow, Issues!Last
      <3>6. Issues!Remote' = tree'
        BY <3>1, <3>2 DEF Issues!Remote
      <3>7. \A d \in Callers : ~admin'[d].stuck
        BY <3>2, <3>3, <3>4
      <3>8. (Issues!Checkout("host"))'.root \subseteq tree'.root /\ tree'.root # Issues!Garbled
        <4>1. CASE x.local = None
          <5>1. (Issues!Checkout("host"))' = github[Len(github)]
            BY <3>1, <3>3, <3>4, <4>1 DEF Issues!Checkout, Issues!Admin
          <5>2. github[Len(github)].root \subseteq Commits
            BY CheckoutTyped DEF IssueInv, Grown
          <5>3. QED
            BY <3>5, <4>1, <5>1, <5>2 DEF Issues!Garbled
        <4>2. CASE x.local # None
          <5>1. (Issues!Checkout("host"))' = Issues!Checkout("host")
            BY <3>1, <3>3, <3>4, <4>2 DEF Issues!Checkout, Issues!Admin
          <5>2. QED
            BY <3>2, <3>5, <4>2, <5>1
        <4>3. QED
          BY <4>1, <4>2
      <3>9. QED
        BY <3>6, <3>7, <3>8 DEF Ahead
    <2>8. QED
      BY <2>1, <2>2, <2>3, <2>4, <2>5, <2>6, <2>7 DEF IssueInv
  <1>25. ASSUME NEW c \in Callers, Issues!Rebase(c)
        PROVE  IssueInv'
    <2>1. IssueTypes'
      <3>1. PICK a \in Administrations, m \in Remotes :
              /\ admin' = [admin EXCEPT ![Issues!Admin(c)] = a]
              /\ Rebased(c, a, m) \/ Stopped(c, a)
        BY <1>25, RebaseAdmin
      <3>2. UNCHANGED <<mode, db, native, recovery, github>>
        BY <1>25 DEF Issues!Rebase, Issues!Rebases, Issues!service
      <3>3. tree' \in Remotes
        BY <3>1 DEF Rebased, Stopped
      <3>4. a.base \in 1..Len(github)
        <4>1. Len(github) \in Nat /\ Len(github) >= 1 /\ Issues!Admin(c) \in Callers
          BY CheckoutTyped DEF IssueInv
        <4>2. admin[Issues!Admin(c)].base \in 1..Len(github)
          BY <4>1 DEF IssueInv, IssueTypes
        <4>3. a.base = Len(github) \/ a.base = admin[Issues!Admin(c)].base
          BY <3>1 DEF Rebased, Stopped
        <4>4. QED
          BY <4>1, <4>2, <4>3
      <3>5. /\ admin' \in [Callers -> Administrations]
            /\ \A d \in Callers : admin'[d].base \in 1..Len(github')
        <4>1. Len(github) \in Nat /\ Issues!Admin(c) \in Callers
          BY CheckoutTyped DEF IssueInv
        <4>2. Len(github') = Len(github)
          BY <3>2
        <4>3. IssueTypes /\ a.base \in 1..Len(github')
          BY <3>4, <4>2 DEF IssueInv
        <4>4. /\ admin' = [admin EXCEPT ![Issues!Admin(c)] = a] /\ a \in Administrations
              /\ Len(github') \in Nat /\ Len(github') >= Len(github)
          BY <3>1, <4>1, <4>2
        <4>5. QED
          BY <4>1, <4>3, <4>4, AdminSet
      <3>6. stage' \in [Callers -> IssuePoints] /\ listed' \in [Callers -> SUBSET Commits]
        BY <3>1 DEF IssueInv, IssueTypes, IssuePoints, Rebased, Stopped, Issues!Goto, Issues!Ends
      <3>7. QED
        BY <3>2, <3>3, <3>5, <3>6 DEF IssueInv, IssueTypes
    <2>2. Issues!NativeWhole'
      BY <1>25 DEF IssueInv, Issues!NativeWhole, Issues!Whole, Issues!Garbled, IssueTypes,
         Remotes, Issues!Rebase, Issues!Rebases, Issues!Last, Issues!service, Issues!worktree,
         Issues!git, Issues!Goto, Issues!Ends
    <2>3. Alone'
      BY <1>25 DEF IssueInv, Alone, IssueTypes, Issues!Rebase, Issues!Rebases, Issues!Last,
         Issues!Garbled, Issues!service, Issues!worktree, Issues!git, Issues!Goto, Issues!Ends
    <2>4. SetAside'
      BY ZenonT(30), <1>25 DEF IssueInv, SetAside, IssueTypes, Alone, Issues!Rebase, Issues!Rebases,
         Issues!Last, Issues!Garbled, Issues!service, Issues!worktree, Issues!git, Issues!Goto,
         Issues!Ends
    <2>5. Grown'
      BY <1>25 DEF IssueInv, Grown, IssueTypes, Remotes, Alone, Based, Issues!Rebase,
         Issues!Rebases, Issues!Last, Issues!Garbled, Issues!service, Issues!worktree, Issues!git,
         Issues!Goto, Issues!Ends
    <2>6. Based'
      <3> SUFFICES ASSUME mode = "repository" PROVE Based'
        BY <1>25 DEF Based, Issues!Rebase, Issues!Rebases, Issues!service
      <3> DEFINE x == admin["host"]
      <3>1. stage[c] = "rebase" /\ UNCHANGED <<mode, github, recovery>>
        BY <1>25 DEF Issues!Rebase, Issues!Rebases, Issues!service
      <3>2. /\ Issues!Admin(c) = "host" /\ recovery = None
            /\ \A d \in Callers : ~admin[d].stuck /\ (d # c => stage[d] = "idle")
        BY <3>1, Settled DEF Committing
      <3>3. PICK a \in Administrations, m \in Remotes :
              /\ admin' = [admin EXCEPT !["host"] = a]
              /\ Rebased(c, a, m) \/ Stopped(c, a)
        BY <1>25, <3>2, RebaseAdmin
      <3>4. admin'["host"] = a /\ \A d \in Callers \ {"host"} : admin'[d] = admin[d]
        BY <3>3 DEF IssueInv, IssueTypes
      <3>5. x.local \in Remotes /\ x.local # None
        BY <1>25, <3>2, RebaseAdmin
      <3>6. /\ x.local.root \subseteq Commits /\ github[x.base].root \subseteq x.local.root
            /\ github[Len(github)].root \subseteq Commits
        BY <3>5, CheckoutTyped DEF IssueInv, Based, Grown
      <3>7. Rebased(c, a, m) =>
              m.root \subseteq Commits /\ github[Len(github)].root \subseteq m.root
        BY <3>2, <3>6 DEF Rebased
      <3>8. CASE Rebased(c, a, m)
        BY <3>1, <3>4, <3>7, <3>8 DEF Based, Rebased
      <3>9. CASE Stopped(c, a)
        BY <3>1, <3>2, <3>4, <3>6, <3>9 DEF Based, Stopped
      <3>10. QED
        BY <3>3, <3>8, <3>9
    <2>7. Ahead'
      <3> SUFFICES ASSUME mode = "repository" PROVE Ahead'
        BY <1>25 DEF Ahead, Issues!Rebase, Issues!Rebases, Issues!service
      <3> DEFINE x == admin["host"]
      <3>1. stage[c] = "rebase" /\ UNCHANGED <<mode, github, recovery>>
        BY <1>25 DEF Issues!Rebase, Issues!Rebases, Issues!service
      <3>2. /\ Issues!Admin(c) = "host" /\ recovery = None
            /\ \A d \in Callers : ~admin[d].stuck /\ (d # c => stage[d] = "idle")
        BY <3>1, Settled DEF Committing
      <3>3. PICK a \in Administrations, m \in Remotes :
              /\ admin' = [admin EXCEPT !["host"] = a]
              /\ Rebased(c, a, m) \/ Stopped(c, a)
        BY <1>25, <3>2, RebaseAdmin
      <3>4. admin'["host"] = a /\ \A d \in Callers \ {"host"} : admin'[d] = admin[d]
        BY <3>3 DEF IssueInv, IssueTypes
      <3>5. x.local \in Remotes /\ x.local # None
        BY <1>25, <3>2, RebaseAdmin
      <3>6. /\ x.local.root \subseteq Commits /\ github[x.base].root \subseteq x.local.root
            /\ github[Len(github)].root \subseteq Commits
        BY <3>5, CheckoutTyped DEF IssueInv, Based, Grown
      <3>7. Rebased(c, a, m) =>
              m.root \subseteq Commits /\ github[Len(github)].root \subseteq m.root
        BY <3>2, <3>6 DEF Rebased
      <3>8. Issues!Remote' = tree'
        BY <3>1, <3>2 DEF Issues!Remote
      <3>9. CASE Rebased(c, a, m)
        <4>1. (Issues!Checkout("host"))' = m
          BY <3>1, <3>4, <3>9 DEF Rebased, Issues!Checkout, Issues!Admin
        <4>2. \A d \in Callers : ~admin'[d].stuck
          BY <3>2, <3>4, <3>9 DEF Rebased
        <4>3. tree' = m /\ m.root # Issues!Garbled
          BY <3>7, <3>9 DEF Rebased, Issues!Garbled
        <4>4. QED
          BY <3>8, <4>1, <4>2, <4>3 DEF Ahead
      <3>10. CASE Stopped(c, a)
        <4>1. \A d \in Callers : stage'[d] = "idle"
          BY <3>2, <3>10 DEF IssueInv, IssueTypes, Stopped, Issues!Ends, Issues!Goto
        <4>2. \A d \in Callers \ {"host"} : ~admin'[d].stuck
          BY <3>2, <3>4
        <4>3. QED
          BY <3>1, <3>2, <3>8, <3>10, <4>1, <4>2 DEF Ahead, Stopped, Committing
      <3>11. QED
        BY <3>3, <3>9, <3>10
    <2>8. QED
      BY <2>1, <2>2, <2>3, <2>4, <2>5, <2>6, <2>7 DEF IssueInv
  <1>26. ASSUME NEW c \in Callers, Issues!Publish(c)
        PROVE  IssueInv'
    <2>1. IssueTypes'
      <3>1. /\ UNCHANGED <<mode, db, native, tree, recovery>>
            /\ stage' = [stage EXCEPT ![c] = "idle"] /\ listed' = [listed EXCEPT ![c] = {}]
        BY <1>26 DEF Issues!Publish, Issues!service, Issues!worktree, Issues!Ends, Issues!Goto
      <3>2. /\ admin' \in [Callers -> Administrations] /\ github' \in Seq(Remotes)
            /\ \A d \in Callers : admin'[d].base \in 1..Len(github')
        <4>1. CASE admin' = admin /\ github' = github
          BY <4>1 DEF IssueInv, IssueTypes
        <4>2. CASE admin' # admin \/ github' # github
          <5>1. PICK a \in Administrations :
                  /\ admin' = [admin EXCEPT ![Issues!Admin(c)] = a]
                  /\ a.base = Len(github) + 1
            BY <1>26, <4>2, PublishAdmin
          <5>2. github' \in Seq(Remotes) /\ Len(github') = Len(github) + 1
            BY <1>26, <4>2, PublishAdmin, Appended DEF IssueInv
          <5>3. IssueTypes /\ Len(github) \in Nat /\ Issues!Admin(c) \in Callers
            BY CheckoutTyped DEF IssueInv
          <5>4. Len(github') \in Nat /\ Len(github') >= Len(github) /\ a.base \in 1..Len(github')
            BY <5>1, <5>2, <5>3
          <5>5. QED
            BY <5>1, <5>2, <5>3, <5>4, AdminSet
        <4>3. QED
          BY <4>1, <4>2
      <3>3. QED
        BY <3>1, <3>2 DEF IssueInv, IssueTypes, IssuePoints
    <2>2. Issues!NativeWhole'
      BY <1>26 DEF IssueInv, Issues!NativeWhole, Issues!Whole, Issues!Garbled, IssueTypes,
         Remotes, Issues!Publish, Issues!service, Issues!worktree, Issues!git, Issues!Goto,
         Issues!Ends
    <2>3. Alone'
      BY <1>26 DEF IssueInv, Alone, IssueTypes, Issues!Publish, Issues!service, Issues!worktree,
         Issues!git, Issues!Goto, Issues!Ends
    <2>4. SetAside'
      BY <1>26 DEF IssueInv, SetAside, IssueTypes, Alone, Issues!Publish, Issues!service,
         Issues!worktree, Issues!git, Issues!Goto, Issues!Ends
    <2>5. Grown'
      <3>1. CASE admin' = admin /\ github' = github
        BY <1>26, <3>1 DEF IssueInv, Grown, Issues!Publish, Issues!service
      <3>2. CASE admin' # admin \/ github' # github
        <4> DEFINE e == admin[Issues!Admin(c)].local
        <4>1. /\ e \in Remotes /\ github' = Append(github, e) /\ mode' = mode
              /\ admin[Issues!Admin(c)].base = Len(github)
          BY <1>26, <3>2, PublishAdmin DEF Issues!Publish, Issues!service
        <4>2. ASSUME mode = "repository"
              PROVE  e.root \subseteq Commits /\ github[Len(github)].root \subseteq e.root
          BY <4>1, <4>2 DEF IssueInv, Based, Issues!Admin
        <4>3. QED
          BY <4>1, <4>2, GrownOn
      <3>3. QED
        BY <3>1, <3>2
    <2>6. Based'
      <3> SUFFICES ASSUME mode = "repository", admin' # admin \/ github' # github PROVE Based'
        BY <1>26 DEF IssueInv, Based, Issues!Publish, Issues!service
      <3> DEFINE x == admin["host"]
      <3>1. /\ stage[c] = "publish" /\ UNCHANGED <<mode, tree, recovery>>
            /\ stage' = [stage EXCEPT ![c] = "idle"]
        BY <1>26 DEF Issues!Publish, Issues!service, Issues!worktree, Issues!Ends, Issues!Goto
      <3>2. /\ Issues!Admin(c) = "host" /\ recovery = None /\ Issues!Remote = tree
            /\ \A d \in Callers : ~admin[d].stuck
            /\ Issues!Checkout("host").root \subseteq tree.root /\ tree.root # Issues!Garbled
        BY <3>1, Settled DEF Committing
      <3>3. /\ x.local \in Remotes /\ x.base = Len(github) /\ github' = Append(github, x.local)
            /\ \E a \in Administrations :
                 /\ admin' = [admin EXCEPT !["host"] = a]
                 /\ a.base = Len(github) + 1 /\ a.local = None /\ a.stuck = x.stuck
        BY <1>26, <3>2, PublishAdmin
      <3>4. PICK a \in Administrations :
              /\ admin' = [admin EXCEPT !["host"] = a]
              /\ a.base = Len(github) + 1 /\ a.local = None /\ a.stuck = x.stuck
        BY <3>3
      <3>5. admin'["host"] = a /\ \A d \in Callers \ {"host"} : admin'[d] = admin[d]
        BY <3>4 DEF IssueInv, IssueTypes
      <3>6. QED
        BY <3>4, <3>5 DEF Based
    <2>7. Ahead'
      <3> SUFFICES ASSUME mode = "repository", admin' # admin \/ github' # github PROVE Ahead'
        BY <1>26 DEF IssueInv, Ahead, Alone, IssueTypes, Committing, Issues!Publish, Issues!Remote,
           Issues!Checkout, Issues!Admin, Issues!service, Issues!worktree, Issues!Ends, Issues!Goto
      <3> DEFINE x == admin["host"]
      <3>1. /\ stage[c] = "publish" /\ UNCHANGED <<mode, tree, recovery>>
            /\ stage' = [stage EXCEPT ![c] = "idle"]
        BY <1>26 DEF Issues!Publish, Issues!service, Issues!worktree, Issues!Ends, Issues!Goto
      <3>2. /\ Issues!Admin(c) = "host" /\ recovery = None /\ Issues!Remote = tree
            /\ \A d \in Callers : ~admin[d].stuck
            /\ Issues!Checkout("host").root \subseteq tree.root /\ tree.root # Issues!Garbled
        BY <3>1, Settled DEF Committing
      <3>3. /\ x.local \in Remotes /\ x.base = Len(github) /\ github' = Append(github, x.local)
            /\ \E a \in Administrations :
                 /\ admin' = [admin EXCEPT !["host"] = a]
                 /\ a.base = Len(github) + 1 /\ a.local = None /\ a.stuck = x.stuck
        BY <1>26, <3>2, PublishAdmin
      <3>4. PICK a \in Administrations :
              /\ admin' = [admin EXCEPT !["host"] = a]
              /\ a.base = Len(github) + 1 /\ a.local = None /\ a.stuck = x.stuck
        BY <3>3
      <3>5. admin'["host"] = a /\ \A d \in Callers \ {"host"} : admin'[d] = admin[d]
        BY <3>4 DEF IssueInv, IssueTypes
      <3>6. (Issues!Checkout("host"))' = x.local /\ Issues!Checkout("host") = x.local
        <4>1. github'[Len(github) + 1] = x.local
          BY <3>3, Appended DEF IssueInv
        <4>2. QED
          BY <3>3, <3>4, <3>5, <4>1 DEF Issues!Checkout, Issues!Admin
      <3>7. \A d \in Callers : ~admin'[d].stuck
        BY <3>2, <3>4, <3>5
      <3>8. Issues!Remote' = Issues!Remote
        BY <3>1 DEF Issues!Remote
      <3>9. QED
        BY <3>2, <3>6, <3>7, <3>8 DEF Ahead
    <2>8. QED
      BY <2>1, <2>2, <2>3, <2>4, <2>5, <2>6, <2>7 DEF IssueInv
  <1>27. ASSUME NEW c \in Callers, Issues!Resolve(c)
        PROVE  IssueInv'
    <2>1. IssueTypes'
      <3>1. mode' \in {"repository", "managed"} /\ db' \subseteq Commits /\ native' \in Remotes
        BY <1>27, CheckoutTyped DEF IssueInv, IssueTypes, Remotes, Issues!Resolve, Issues!Last,
           Issues!service, Issues!worktree, Issues!git, Issues!Goto, Issues!Ends
      <3>2. tree' \in Remotes /\ recovery' \in Remotes \cup {None}
        BY <1>27, CheckoutTyped DEF IssueInv, IssueTypes, Remotes, Issues!Resolve, Issues!Last,
           Issues!service, Issues!worktree, Issues!git, Issues!Goto, Issues!Ends
      <3>3. admin' \in [Callers -> Administrations]
        BY <1>27, CheckoutTyped DEF IssueInv, IssueTypes, Administrations, Issues!Resolve,
           Issues!Last, Issues!service, Issues!worktree, Issues!git, Issues!Goto, Issues!Ends
      <3>4. github' \in Seq(Remotes)
        BY <1>27, CheckoutTyped DEF IssueInv, IssueTypes, Issues!Resolve, Issues!Last,
           Issues!service, Issues!worktree, Issues!git, Issues!Goto, Issues!Ends
      <3>5. \A d \in Callers : admin'[d].base \in 1..Len(github')
        BY <1>27, CheckoutTyped DEF IssueInv, IssueTypes, Administrations, Issues!Resolve,
           Issues!Last, Issues!service, Issues!worktree, Issues!git, Issues!Goto, Issues!Ends
      <3>6. stage' \in [Callers -> IssuePoints] /\ listed' \in [Callers -> SUBSET Commits]
        BY <1>27, CheckoutTyped DEF IssueInv, IssueTypes, IssuePoints, Remotes, Issues!Resolve,
           Issues!Last, Issues!service, Issues!worktree, Issues!git, Issues!Goto, Issues!Ends
      <3>7. QED
        BY <3>1, <3>2, <3>3, <3>4, <3>5, <3>6 DEF IssueTypes
    <2>2. Issues!NativeWhole'
      BY <1>27 DEF IssueInv, Issues!NativeWhole, Issues!Whole, Issues!Garbled, IssueTypes,
         Remotes, Issues!Resolve, Issues!Last, Issues!service, Issues!worktree, Issues!git,
         Issues!Goto, Issues!Ends
    <2>3. Alone'
      BY <1>27 DEF IssueInv, Alone, IssueTypes, Issues!Resolve, Issues!Last, Issues!service,
         Issues!worktree, Issues!git, Issues!Goto, Issues!Ends
    <2>4. SetAside'
      BY <1>27 DEF IssueInv, SetAside, IssueTypes, Alone, Issues!Resolve, Issues!Last,
         Issues!service, Issues!worktree, Issues!git, Issues!Goto, Issues!Ends
    <2>5. Grown'
      BY <1>27 DEF IssueInv, Grown, IssueTypes, Remotes, Alone, Based, Issues!Resolve,
         Issues!Last, Issues!service, Issues!worktree, Issues!git, Issues!Goto, Issues!Ends
    <2>6. Based'
      BY <1>27 DEF IssueInv, Based, IssueTypes, Remotes, Administrations, Alone, Grown, Ahead,
         Issues!Resolve, Issues!Last, Issues!service, Issues!worktree, Issues!git, Issues!Goto,
         Issues!Ends
    <2>7. Ahead'
      BY ZenonT(30), <1>27 DEF IssueInv, Ahead, Committing, Issues!Remote, Issues!Checkout, Issues!Admin,
         Issues!Garbled, IssueTypes, Administrations, Alone, SetAside, Issues!Resolve, Issues!Last,
         Issues!service, Issues!worktree, Issues!git, Issues!Goto, Issues!Ends
    <2>8. QED
      BY <2>1, <2>2, <2>3, <2>4, <2>5, <2>6, <2>7 DEF IssueInv
  <1>28. ASSUME NEW c \in Callers, Issues!Fail(c)
        PROVE  IssueInv'
    <2>1. IssueTypes'
      BY <1>28 DEF IssueInv, IssueTypes, IssuePoints, Issues!Fail, Issues!service,
         Issues!worktree, Issues!git, Issues!Goto, Issues!Ends
    <2>2. Issues!NativeWhole'
      BY <1>28 DEF IssueInv, Issues!NativeWhole, Issues!Whole, Issues!Garbled, IssueTypes,
         Remotes, Issues!Fail, Issues!service, Issues!worktree, Issues!git, Issues!Goto,
         Issues!Ends
    <2>3. Alone'
      BY <1>28 DEF IssueInv, Alone, IssueTypes, Issues!Fail, Issues!service, Issues!worktree,
         Issues!git, Issues!Goto, Issues!Ends
    <2>4. SetAside'
      BY <1>28 DEF IssueInv, SetAside, IssueTypes, Alone, Issues!Fail, Issues!service,
         Issues!worktree, Issues!git, Issues!Goto, Issues!Ends
    <2>5. Grown'
      BY <1>28 DEF IssueInv, Grown, IssueTypes, Remotes, Alone, Based, Issues!Fail,
         Issues!service, Issues!worktree, Issues!git, Issues!Goto, Issues!Ends
    <2>6. Based'
      BY <1>28 DEF IssueInv, Based, IssueTypes, Remotes, Administrations, Alone, Grown, Ahead,
         Issues!Fail, Issues!service, Issues!worktree, Issues!git, Issues!Goto, Issues!Ends
    <2>7. Ahead'
      BY <1>28 DEF IssueInv, Ahead, Committing, Issues!Remote, Issues!Checkout, Issues!Admin,
         Issues!Garbled, IssueTypes, Administrations, Alone, SetAside, Issues!Fail, Issues!service,
         Issues!worktree, Issues!git, Issues!Goto, Issues!Ends
    <2>8. QED
      BY <2>1, <2>2, <2>3, <2>4, <2>5, <2>6, <2>7 DEF IssueInv
  <1>29. QED
    BY <1>1, <1>2, <1>3, <1>4, <1>5, <1>6, <1>7, <1>8, <1>9, <1>10, <1>11, <1>12, <1>13, <1>14,
       <1>15, <1>16, <1>17, <1>18, <1>19, <1>20, <1>21, <1>22, <1>23, <1>24, <1>25, <1>26, <1>27,
       <1>28 DEF Issues!Next, Issues!ServiceStep, Issues!CallerStep

(* What a step keeps of the remotes and of the published branch. *)
LosesNothing ==
    /\ Issues!NativeWhole'
    /\ mode = "repository" => /\ Issues!Kept(Issues!Remote.root, Issues!Remote'.root)
                              /\ Issues!Kept(Issues!Last(github).root, Issues!Last(github').root)

(* A remote that is as it was, or that has more, and a branch that is as it *)
(* was, or that one more tree is on, lose nothing.                          *)
LEMMA Keeps ==
    ASSUME IssueInv, IssueInv', mode' = mode,
           mode = "repository" => Issues!Kept(Issues!Remote.root, Issues!Remote'.root),
           github' = github \/ \E e \in Remotes : github' = Append(github, e)
    PROVE  LosesNothing
  <1>1. Issues!NativeWhole'
    BY DEF IssueInv
  <1>2. ASSUME mode = "repository"
        PROVE  Issues!Kept(Issues!Last(github).root, Issues!Last(github').root)
    <2>1. CASE github' = github
      BY <2>1 DEF Issues!Kept, Issues!Last
    <2>2. ASSUME NEW e \in Remotes, github' = Append(github, e)
          PROVE  Issues!Kept(Issues!Last(github).root, Issues!Last(github').root)
      <3>1. Len(github) \in Nat /\ Len(github) >= 1
        BY CheckoutTyped, HostPushes DEF IssueInv
      <3>2. Len(github') = Len(github) + 1 /\ github'[Len(github)] = github[Len(github)]
        BY <2>2, <3>1, Appended DEF IssueInv
      <3>3. github'[Len(github)].root \subseteq github'[Len(github')].root
        BY <1>2, <3>1, <3>2 DEF IssueInv, Grown
      <3>4. QED
        BY <3>2, <3>3 DEF Issues!Kept, Issues!Last
    <2>3. QED
      BY <2>1, <2>2
  <1>3. QED
    BY <1>1, <1>2 DEF LosesNothing

(* What a step of the synchronisation keeps. *)
LEMMA IssueKeeps == IssueInv /\ IssueInv' /\ Issues!Next => LosesNothing
  <1> SUFFICES ASSUME IssueInv, IssueInv', Issues!Next PROVE LosesNothing
    OBVIOUS
  <1> DEFINE Same == mode' = mode /\ github' = github
             Held == mode = "repository" => Issues!Kept(Issues!Remote.root, Issues!Remote'.root)
  <1>1. Same /\ UNCHANGED <<tree, recovery>> => LosesNothing
    BY Keeps DEF Issues!Kept, Issues!Remote
  <1>2. Same /\ Held => LosesNothing
    BY Keeps
  <1>3. ASSUME NEW i \in Commits, Issues!Elsewhere(i) PROVE LosesNothing
    <2> DEFINE e == [root |-> github[Len(github)].root \cup {i},
                    tables |-> github[Len(github)].tables \cup {i}]
    <2>1. /\ github' = Append(github, e) /\ github[Len(github)].root # Issues!Garbled
          /\ UNCHANGED <<mode, tree, recovery>>
      BY <1>3 DEF Issues!Elsewhere, Issues!Last, Issues!Whole, Issues!worktree, Issues!service
    <2>2. e \in Remotes
      BY <2>1, CheckoutTyped, HostPushes DEF IssueInv, Remotes, Issues!Garbled
    <2>3. Held
      BY <2>1 DEF Issues!Kept, Issues!Remote
    <2> HIDE DEF e, Held
    <2>4. QED
      BY <2>1, <2>2, <2>3, Keeps DEF Held
  <1>4. CASE Issues!PublishTables \/ Issues!PublishManifest
    <2>1. mode # "repository" /\ Same
      BY <1>4 DEF IssueInv, Alone, Issues!PublishTables, Issues!PublishManifest, Issues!InHand,
         Issues!git
    <2>2. QED
      BY <1>2, <2>1
  <1>5. ASSUME NEW c \in Callers,
               Issues!Begin(c) \/ Issues!Stage(c) \/ Issues!Recreate(c) \/ Issues!Restore(c)
        PROVE  LosesNothing
    <2>1. Same
      BY <1>5 DEF Issues!Begin, Issues!Stage, Issues!Recreate, Issues!Restore, Issues!service,
         Issues!git
    <2>2. Issues!Remote' = Issues!Remote
      BY <1>5, NoRemote DEF IssueInv, IssueTypes, SetAside, Issues!Begin, Issues!Stage,
         Issues!Recreate, Issues!Restore, Issues!Remote
    <2>3. QED
      BY <1>2, <2>1, <2>2 DEF Issues!Kept
  <1>6. ASSUME NEW c \in Callers, Issues!Push(c) PROVE LosesNothing
    <2>1. Same /\ UNCHANGED recovery
      BY <1>6 DEF Issues!Push, Issues!service, Issues!git
    <2>2. recovery = None /\ tree.root \subseteq tree'.root
      BY <1>6 DEF IssueInv, SetAside, Issues!Push
    <2>3. QED
      BY <1>2, <2>1, <2>2 DEF Issues!Kept, Issues!Remote
  <1>7. ASSUME NEW c \in Callers, Issues!Follow(c) PROVE LosesNothing
    <2> SUFFICES ASSUME mode = "repository"
                 PROVE  Same /\ Issues!Kept(Issues!Remote.root, Issues!Remote'.root)
      <3>1. Same
        BY <1>7 DEF Issues!Follow, Issues!Rebases, Issues!service
      <3>2. QED
        BY <1>2, <3>1
    <2>1. stage[c] = "rebase" /\ tree = Issues!Checkout(c) /\ Same /\ UNCHANGED recovery
      BY <1>7 DEF Issues!Follow, Issues!Rebases, Issues!service
    <2>2. /\ Issues!Admin(c) = "host" /\ recovery = None /\ admin["host"].base \in 1..Len(github)
          /\ Len(github) \in Nat
      BY <2>1, Settled, CheckoutTyped DEF IssueInv, Committing
    <2>3. tree' = tree \/ (tree = github[admin["host"].base] /\ tree' = github[Len(github)])
      BY <1>7, <2>1, <2>2 DEF Issues!Follow, Issues!Last, Issues!Checkout
    <2>4. github[admin["host"].base].root \subseteq github[Len(github)].root
      BY <2>2 DEF IssueInv, Grown
    <2>5. QED
      BY <2>1, <2>2, <2>3, <2>4 DEF Issues!Kept, Issues!Remote
  <1>8. ASSUME NEW c \in Callers, Issues!Rebase(c) PROVE LosesNothing
    <2> SUFFICES ASSUME mode = "repository"
                 PROVE  Same /\ Issues!Kept(Issues!Remote.root, Issues!Remote'.root)
      <3>1. Same
        BY <1>8 DEF Issues!Rebase, Issues!Rebases, Issues!service
      <3>2. QED
        BY <1>2, <3>1
    <2>1. stage[c] = "rebase" /\ tree = Issues!Checkout(c) /\ Same /\ UNCHANGED recovery
      BY <1>8 DEF Issues!Rebase, Issues!Rebases, Issues!service
    <2>2. /\ Issues!Admin(c) = "host" /\ recovery = None /\ admin["host"].base \in 1..Len(github)
          /\ Len(github) \in Nat
      BY <2>1, Settled, CheckoutTyped DEF IssueInv, Committing
    <2>3. tree = admin["host"].local
      BY <1>8, <2>1, <2>2 DEF Issues!Rebase, Issues!Checkout
    <2>4. github[admin["host"].base].root \subseteq github[Len(github)].root
      BY <2>2 DEF IssueInv, Grown
    <2>5. PICK a \in Administrations, m \in Remotes : Rebased(c, a, m) \/ Stopped(c, a)
      BY <1>8, RebaseAdmin
    <2>6. CASE Rebased(c, a, m)
      BY <2>1, <2>2, <2>3, <2>4, <2>6 DEF Rebased, Issues!Kept, Issues!Remote
    <2>7. CASE Stopped(c, a)
      BY <2>1, <2>2, <2>7 DEF Stopped, Issues!Kept, Issues!Remote
    <2>8. QED
      BY <2>5, <2>6, <2>7
  <1>9. ASSUME NEW c \in Callers, Issues!Publish(c) PROVE LosesNothing
    <2>1. UNCHANGED <<mode, tree, recovery>>
      BY <1>9 DEF Issues!Publish, Issues!service, Issues!worktree
    <2>2. github' = github \/ \E e \in Remotes : github' = Append(github, e)
      BY <1>9, PublishAdmin
    <2>3. Held
      BY <2>1 DEF Issues!Kept, Issues!Remote
    <2>4. QED
      BY <2>1, <2>2, <2>3, Keeps
  <1>10. ASSUME NEW c \in Callers, Issues!Resolve(c) PROVE LosesNothing
    <2>1. Same /\ UNCHANGED recovery
      BY <1>10 DEF Issues!Resolve, Issues!service
    <2>2. mode = "repository" => Issues!Remote.root = Issues!Garbled
      BY <1>10 DEF IssueInv, Ahead, Issues!Resolve, Issues!Remote
    <2>3. QED
      BY <1>2, <2>1, <2>2 DEF Issues!Kept
  <1>11. CASE Issues!Invalidate \/ Issues!Sync \/ Issues!DoltPush
    BY <1>1, <1>11 DEF Issues!Invalidate, Issues!Sync, Issues!Requests, Issues!DoltPush,
       Issues!service, Issues!worktree, Issues!git
  <1>12. CASE Issues!ImportTables \/ Issues!ImportManifest \/ Issues!DoltPull \/ Issues!ServiceFails
              \/ Issues!Access
    BY <1>1, <1>12 DEF Issues!ImportTables, Issues!ImportManifest, Issues!DoltPull,
       Issues!ServiceFails, Issues!Access, Issues!worktree, Issues!git
  <1>13. ASSUME NEW i \in Commits, Issues!Write(i) PROVE LosesNothing
    BY <1>1, <1>13 DEF Issues!Write, Issues!worktree, Issues!git
  <1>14. ASSUME NEW c \in Callers,
                Issues!NotFastForward(c) \/ Issues!Pull(c) \/ Issues!Request(c) \/ Issues!Lock(c)
         PROVE  LosesNothing
    BY <1>1, <1>14 DEF Issues!NotFastForward, Issues!Pull, Issues!Request, Issues!Requests,
       Issues!Lock, Issues!service, Issues!worktree, Issues!git
  <1>15. ASSUME NEW c \in Callers, Issues!Add(c) \/ Issues!Commit(c) \/ Issues!Fail(c)
         PROVE  LosesNothing
    BY <1>1, <1>15 DEF Issues!Add, Issues!Commit, Issues!Fail, Issues!service, Issues!worktree,
       Issues!git
  <1>16. QED
    BY <1>3, <1>4, <1>5, <1>6, <1>7, <1>8, <1>9, <1>10, <1>11, <1>12, <1>13, <1>14, <1>15
       DEF Issues!Next, Issues!ServiceStep, Issues!CallerStep

(* Neither the remote of a repository nor its published branch ever loses a *)
(* commit, whatever fails between two steps of a push, and the private      *)
(* remote of a managed workspace always names what it has.                  *)
THEOREM RemotesKept == WorkspaceSpec => RemotesLoseNothing
  <1>1. WorkspaceInit => IssueInv
    BY IssueInit DEF WorkspaceInit
  <1>2. IssueInv /\ [WorkspaceNext]_all => IssueInv'
    <2> SUFFICES ASSUME IssueInv, [WorkspaceNext]_all PROVE IssueInv'
      OBVIOUS
    <2>1. CASE pick = "issues" /\ Issues!Next
      BY <2>1, IssueStep
    <2>2. CASE UNCHANGED issues
      <3>1. IssueTypes' /\ Issues!NativeWhole' /\ Alone' /\ SetAside'
        BY <2>2 DEF issues, IssueInv, IssueTypes, Issues!NativeWhole, Issues!Whole, Alone, SetAside
      <3>2. Grown' /\ Based'
        BY <2>2 DEF issues, IssueInv, Grown, Based
      <3>3. Ahead'
        BY <2>2 DEF issues, IssueInv, Ahead, Issues!Remote, Issues!Checkout, Issues!Admin
      <3>4. QED
        BY <3>1, <3>2, <3>3 DEF IssueInv
    <2>3. QED
      BY <2>1, <2>2 DEF WorkspaceNext, all
  <1>3. IssueInv /\ IssueInv' /\ [WorkspaceNext]_all => [LosesNothing]_Issues!vars
    <2> SUFFICES ASSUME IssueInv, IssueInv', [WorkspaceNext]_all
                 PROVE  [LosesNothing]_Issues!vars
      OBVIOUS
    <2>1. CASE pick = "issues" /\ Issues!Next
      BY <2>1, IssueKeeps
    <2>2. CASE UNCHANGED issues
      BY <2>2 DEF issues, Issues!vars, Issues!service, Issues!worktree, Issues!git
    <2>3. QED
      BY <2>1, <2>2 DEF WorkspaceNext, all
  <1>4. QED
    BY <1>1, <1>2, <1>3, PTL
       DEF WorkspaceSpec, RemotesLoseNothing, Issues!RemotesLoseNothing, LosesNothing
=============================================================================
