----------------------------- MODULE NixApproval -----------------------------
(***************************************************************************)
(* The approval of a Git repository for the shared Nix store, and the      *)
(* one-use requests and execution tickets that are issued under it.        *)
(* crates/wrix-state/src/{nix_store,execution,context/snapshot}.           *)
(*                                                                         *)
(* A transaction holds the store's lock from its first read to its commit  *)
(* and is one step; contexts are inspected, and claimed requests read,     *)
(* before the lock is taken.  What makes a context current is the subject  *)
(* of WorkspaceAdmission: here it is an age, which changes as it ends.     *)
(***************************************************************************)
EXTENDS Naturals, FiniteSets

CONSTANTS
    Keys,           \* namespaces, of one repository
    Launchers,      \* commands of a workspace
    Controllers,    \* they claim what launchers request
    Tickets, Ids,   \* execution tickets, and one-use requests
    Limit,          \* how many requests of a namespace may be outstanding
    MaxChanges,     \* how often a context ends or the repository is replaced
    None

VARIABLES
    age,            \* the contexts of a namespace that are current
    repository,     \* the Git directory that is there
    approval,       \* installed-store-approval records
    tickets, requests,
    issued,         \* identities that were drawn
    accepted,       \* history: how often a request was accepted
    proc,
    changes         \* bound: changes of the world so far

world == <<age, repository, changes>>
vars == <<world, approval, tickets, requests, issued, accepted, proc>>

Procs == Launchers \cup Controllers

NoProc == [pc |-> "idle", context |-> None, ticket |-> None, id |-> None]
NoTicket == [key |-> None, phase |-> "none"]

Init ==
    /\ age = [k \in Keys |-> 0] /\ repository = 0 /\ changes = 0
    /\ approval = [k \in Keys |-> None]
    /\ tickets = [t \in Tickets |-> NoTicket]
    /\ requests = [i \in Ids |-> None]
    /\ issued = {}
    /\ accepted = [i \in Ids |-> 0]
    /\ proc = [p \in Procs |-> NoProc]

At(p, l) == proc[p].pc = l
Current(x) == age[x.key] = x.age
Reserved(t, k) == tickets[t] = [key |-> k, phase |-> "reserved"]
ForTicket(t, k) == t # None => Reserved(t, k)
Approved(k) == approval[k] = [common |-> repository, enabled |-> TRUE]

-----------------------------------------------------------------------------
(* A command of a workspace. *)

(* Its context is inspected, and authorized.                               *)
Inspect(p, k) ==
    /\ At(p, "idle")
    /\ proc' = [proc EXCEPT ![p] = [NoProc EXCEPT
         !.pc = "checked", !.context = [key |-> k, age |-> age[k]]]]
    /\ UNCHANGED <<world, approval, tickets, requests, issued, accepted>>

(* nix_store::set: every namespace of the repository changes with it.      *)
Set(p, enabled) ==
    LET x == proc[p].context
        members == {k \in Keys : approval[k] # None /\ approval[k].common = repository}
    IN  /\ At(p, "checked") /\ proc[p].ticket = None
        /\ Current(x)
        /\ approval[x.key] # None => approval[x.key].common = repository
        /\ approval' = [k \in Keys |->
             IF k \in members \cup {x.key}
             THEN [common |-> repository, enabled |-> enabled] ELSE approval[k]]
        /\ proc' = [proc EXCEPT ![p] = NoProc]
        /\ UNCHANGED <<world, tickets, requests, issued, accepted>>

Reserve(p, t) ==
    LET x == proc[p].context IN
    /\ At(p, "checked") /\ proc[p].ticket = None
    /\ tickets[t] = NoTicket
    /\ Current(x)
    /\ tickets' = [tickets EXCEPT ![t] = [key |-> x.key, phase |-> "reserved"]]
    /\ proc' = [proc EXCEPT ![p].ticket = t]
    /\ UNCHANGED <<world, approval, requests, issued, accepted>>

(* A ticket that was never handed off is cancelled.                        *)
Cancel(p) ==
    LET x == proc[p].context IN
    /\ At(p, "checked") /\ proc[p].ticket # None
    /\ Current(x) /\ Reserved(proc[p].ticket, x.key)
    /\ tickets' = [tickets EXCEPT ![proc[p].ticket].phase = "cancelled"]
    /\ proc' = [proc EXCEPT ![p] = NoProc]
    /\ UNCHANGED <<world, approval, requests, issued, accepted>>

(* Guard: the writer is held from the check to the issuance.               *)
Guarded(p) ==
    /\ At(p, "checked")
    /\ Current(proc[p].context) /\ Approved(proc[p].context.key)

Issue(p, i) ==
    LET x == proc[p].context IN
    /\ Guarded(p)
    /\ ForTicket(proc[p].ticket, x.key)
    /\ Cardinality({j \in Ids : requests[j] # None /\ requests[j].context.key = x.key}) < Limit
    /\ i \notin issued
    /\ issued' = issued \cup {i}
    /\ requests' = [requests EXCEPT ![i] =
         [context |-> x, common |-> repository, ticket |-> proc[p].ticket]]
    /\ UNCHANGED <<world, approval, tickets, accepted, proc>>

(* The ticket is launched in the transaction that checked the approval.    *)
Handoff(p) ==
    LET t == proc[p].ticket IN
    /\ Guarded(p)
    /\ t # None /\ Reserved(t, proc[p].context.key)
    /\ tickets' = [tickets EXCEPT ![t].phase = "launching"]
    /\ proc' = [proc EXCEPT ![p] = NoProc]
    /\ UNCHANGED <<world, approval, requests, issued, accepted>>

-----------------------------------------------------------------------------
(* A controller is sent the identity of a request, maybe more than once.    *)

(* claim: the request is read, and its original caller observed again.     *)
ClaimBegin(p, i) ==
    LET r == requests[i] IN
    /\ At(p, "idle")
    /\ r # None
    /\ Current(r.context) /\ repository = r.common
    /\ proc' = [proc EXCEPT ![p] = [NoProc EXCEPT
         !.pc = "claim", !.id = i, !.context = r.context, !.ticket = r.ticket]]
    /\ UNCHANGED <<world, approval, tickets, requests, issued, accepted>>

InForce(p) ==
    /\ Current(proc[p].context) /\ Approved(proc[p].context.key)
    /\ ForTicket(proc[p].ticket, proc[p].context.key)

(* Mutant: the request is not read again under the lock. *)
MutClaimCommit(p) ==
    /\ At(p, "claim")
    /\ InForce(p)
    /\ requests' = [requests EXCEPT ![proc[p].id] = None]
    /\ accepted' = [accepted EXCEPT ![proc[p].id] = @ + 1]
    /\ proc' = [proc EXCEPT ![p].pc = "accepted"]
    /\ UNCHANGED <<world, approval, tickets, issued>>

ClaimCommit(p) ==
    LET i == proc[p].id IN
    /\ At(p, "claim")
    /\ requests[i] # None /\ requests[i].common = repository
    /\ InForce(p)
    /\ requests' = [requests EXCEPT ![i] = None]
    /\ accepted' = [accepted EXCEPT ![i] = @ + 1]
    /\ proc' = [proc EXCEPT ![p].pc = "accepted"]
    /\ UNCHANGED <<world, approval, tickets, issued>>

(* Accepted::recheck, before the effects.                                  *)
Use(p) ==
    /\ At(p, "accepted")
    /\ InForce(p)
    /\ proc' = [proc EXCEPT ![p] = NoProc]
    /\ UNCHANGED <<world, approval, tickets, requests, issued, accepted>>

(* An error, the end of the command, or its death.                         *)
Ends(p) ==
    /\ ~At(p, "idle")
    /\ proc' = [proc EXCEPT ![p] = NoProc]
    /\ UNCHANGED <<world, approval, tickets, requests, issued, accepted>>

(* The world: a checkout moves, or the namespace is assigned anew.         *)
Changes == changes < MaxChanges /\ changes' = changes + 1

Outdate(k) ==
    /\ Changes
    /\ age' = [age EXCEPT ![k] = @ + 1]
    /\ UNCHANGED <<repository, approval, tickets, requests, issued, accepted, proc>>

ReplaceRepository ==
    /\ Changes
    /\ repository' = repository + 1
    /\ age' = [k \in Keys |-> age[k] + 1]
    /\ UNCHANGED <<approval, tickets, requests, issued, accepted, proc>>

Next ==
    \/ ReplaceRepository
    \/ \E k \in Keys : Outdate(k)
    \/ \E p \in Procs : Ends(p)
    \/ \E p \in Launchers :
         \/ Cancel(p) \/ Handoff(p)
         \/ \E k \in Keys : Inspect(p, k)
         \/ \E enabled \in BOOLEAN : Set(p, enabled)
         \/ \E t \in Tickets : Reserve(p, t)
         \/ \E i \in Ids : Issue(p, i)
    \/ \E p \in Controllers :
         \/ ClaimCommit(p) \/ Use(p)
         \/ \E i \in Ids : ClaimBegin(p, i)

Spec == Init /\ [][Next]_vars

-----------------------------------------------------------------------------
(* Properties. *)

(* A request is accepted at most once, whoever is sent its identity and    *)
(* wherever a controller dies, and only as its ticket waits for it under   *)
(* an approval of the repository that is there.                            *)
AcceptedOnce ==
    [][\A i \in Ids : accepted'[i] # accepted[i] =>
        /\ accepted[i] = 0 /\ requests[i] # None /\ requests'[i] = None
        /\ Approved(requests[i].context.key)
        /\ ForTicket(requests[i].ticket, requests[i].context.key)]_vars
=============================================================================
