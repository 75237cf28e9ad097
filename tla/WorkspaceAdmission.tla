------------------------- MODULE WorkspaceAdmission -------------------------
(***************************************************************************)
(* The host's control store, and who may act in which native namespace:    *)
(* external admission, host association and standalone scope.              *)
(* crates/wrix-state/src/{store,context,namespace,resolver}.               *)
(*                                                                         *)
(* Whoever writes the store holds its lock from the first read of the      *)
(* transaction to the commit, so a transaction is one step.  The host is   *)
(* observed, and the resolver asked, before the lock is taken; checkouts,  *)
(* attestations and other transactions may change what was seen.  A native *)
(* key is derived from the path of a checkout, and is written as it.       *)
(***************************************************************************)
EXTENDS Naturals, FiniteSets

CONSTANTS
    Checkouts,      \* worktrees of one Git repository, and the keys of their paths
    Members,        \* memberships that the resolver attests
    Slots,          \* integrations that can be selected
    Host,           \* the slot of host associations
    Administrators, \* commands of `wrix workspace`
    Launchers,      \* commands of a workspace
    MaxChanges,     \* how often a worktree, the repository or an attestation changes
    None

VARIABLES
    attest,         \* the resolver's answer: the membership and the primary of a checkout
    age, repository,        \* which worktree is at a path, and which Git directory they share
    dirs,           \* keys whose state directory exists
    initialized, acknowledged,      \* authority
    integration,    \* the selected slot
    registered,     \* keys with a namespace/registered record
    binding, participant, former,
    proc,           \* what a process does, and what it saw before it took the lock
    worked,         \* history: the namespaces that a checkout's commands changed
    apart,          \* history: participants that were let into a namespace of their own
    changes         \* bound: changes of the world so far

world == <<attest, age, repository, dirs, changes>>
policy == <<initialized, acknowledged, integration>>
namespaces == <<registered, binding, participant, former>>
history == <<worked, apart>>
vars == <<world, policy, namespaces, proc, history>>

(* What identifies a checkout: its directory and the Git directory.        *)
Evidence(c) == <<age[c], repository>>

Procs == Administrators \cup Launchers

NoProc == [pc |-> "idle", context |-> None, seen |-> None]

Init ==
    /\ attest = [c \in Checkouts |->
         [member |-> CHOOSE m \in Members : TRUE, primary |-> CHOOSE d \in Checkouts : TRUE]]
    /\ age = [c \in Checkouts |-> 0] /\ repository = 0 /\ changes = 0
    /\ dirs \in SUBSET Checkouts
    /\ initialized = FALSE /\ acknowledged = FALSE /\ integration = None
    /\ registered = {}
    /\ binding = [k \in Checkouts |-> None]
    /\ participant = [c \in Checkouts |-> None]
    /\ former = [k \in Checkouts |-> None]
    /\ proc = [p \in Procs |-> NoProc]
    /\ worked = [c \in Checkouts |-> {}] /\ apart = {}

-----------------------------------------------------------------------------
(* What the store says of a checkout. *)

Associated(c) == participant[c] # None /\ binding[participant[c].key].slot = Host

AssociationHolds(c) ==
    LET k == participant[c].key IN
    /\ initialized
    /\ participant[c].evidence = Evidence(c)
    /\ binding[k].evidence = Evidence(k)
    /\ participant[k] = [key |-> k, evidence |-> Evidence(k)]
    /\ c # k => former[c] = [destination |-> k, evidence |-> Evidence(c)]

Claimed(k) == binding[k] # None \/ k \in registered \/ former[k] # None

(* No checkout of the namespace has state or reservations of its own.      *)
CandidatesEmpty(k, roots) ==
    \A c \in roots \cup {d \in Checkouts : participant[d] # None /\ participant[d].key = k} :
        c # k => ~Claimed(c) /\ c \notin dirs

Resolution(c) ==
    [member |-> attest[c].member, checkout |-> c, primary |-> attest[c].primary,
     evidence |-> Evidence(c), base |-> Evidence(attest[c].primary)]

(* The checkouts of a resolution are still those that were observed.       *)
Unchanged(r) == r.evidence = Evidence(r.checkout) /\ r.base = Evidence(r.primary)

(* The resolution of the slot is admitted to the namespace.                *)
Admitted(slot, r, k) ==
    /\ binding[k] = [slot |-> slot, member |-> r.member, primary |-> r.primary,
                     evidence |-> r.base]
    /\ participant[r.checkout] = [key |-> k, evidence |-> r.evidence]
    /\ participant[r.primary] = [key |-> k, evidence |-> r.base]
    /\ Unchanged(r)
    /\ CandidatesEmpty(k, {r.checkout, r.primary})

Standalone(k) == binding[k] = None /\ former[k] = None

(* The first transaction that may create it does. *)
Database == initialized \/ acknowledged

(* The contexts in which the caller may be inspected: at most one.         *)
Contexts(c) ==
    LET context(kind, k, r) ==
            [caller |-> c, kind |-> kind, key |-> k, scope |-> r,
             selection |-> integration, database |-> Database]
        itself(k) == [member |-> None, checkout |-> c, primary |-> k,
                      evidence |-> Evidence(c), base |-> Evidence(k)]
    IN  {context("associated", participant[d].key, itself(participant[d].key)) :
            d \in {e \in {c} : Associated(e) /\ AssociationHolds(e)}}
        \cup {context("integrated", k, Resolution(c)) :
            k \in {j \in Checkouts : /\ ~Associated(c) /\ integration # None /\ initialized
                                      /\ Admitted(integration, Resolution(c), j)}}
        \cup {context("standalone", k, itself(k)) :
            k \in {j \in {c} : ~Associated(c) /\ integration = None /\ Standalone(j)}}

(* check_store: the context against the store, without the resolver.       *)
Current(x) ==
    /\ Database = x.database /\ integration = x.selection
    /\ Unchanged(x.scope)
    /\ Associated(x.caller) <=> x.kind = "associated"
    /\ x.kind = "associated" =>
         participant[x.caller].key = x.key /\ AssociationHolds(x.caller)
    /\ x.kind = "integrated" => Admitted(x.selection, x.scope, x.key)
    /\ x.kind = "standalone" => Standalone(x.key)

(* recheck: the resolver is asked again as well.                           *)
Rechecked(x) ==
    /\ Current(x)
    /\ x.kind = "integrated" => x.scope = Resolution(x.caller)

At(p, l) == proc[p].pc = l

Become(p, l) == proc' = [proc EXCEPT ![p].pc = l]

-----------------------------------------------------------------------------
(* The host's policy: transactions of their own; one that repeats what is   *)
(* set changes nothing.                                                    *)

Initialize ==
    /\ ~initialized
    /\ initialized' = TRUE
    /\ UNCHANGED <<world, acknowledged, integration, namespaces, proc, history>>

Acknowledge ==
    /\ ~acknowledged
    /\ acknowledged' = TRUE
    /\ UNCHANGED <<world, initialized, integration, namespaces, proc, history>>

SelectIntegration(slot) ==
    /\ initialized /\ integration # slot
    /\ integration' = slot
    /\ UNCHANGED <<world, initialized, acknowledged, namespaces, proc, history>>

Disable ==
    /\ initialized /\ integration # None
    /\ integration' = None
    /\ UNCHANGED <<world, initialized, acknowledged, namespaces, proc, history>>

ImportNative(k) ==
    /\ Database
    /\ k \in dirs \ registered
    /\ registered' = registered \cup {k}
    /\ UNCHANGED <<world, policy, binding, participant, former, proc, history>>

-----------------------------------------------------------------------------
(* wrix workspace admit. *)

AdmitBegin(p, c, k) ==
    /\ At(p, "idle")
    /\ initialized /\ integration # None
    /\ proc' = [proc EXCEPT ![p] = [NoProc EXCEPT
         !.pc = "admit", !.seen = [selection |-> integration, scope |-> Resolution(c), retain |-> k]]]
    /\ UNCHANGED <<world, policy, namespaces, history>>

(* The key of an admission: that of the binding, else the primary's when   *)
(* it is to be allocated and nothing is there, else the imported one.      *)
AdmittedKey(slot, r, retain, k) ==
    LET bound == {j \in Checkouts : binding[j] # None /\ binding[j].slot = slot
                                       /\ binding[j].member = r.member}
    IN  IF bound # {}
        THEN k \in bound /\ k \in registered /\ retain \in {None, k}
        ELSE IF retain = None
        THEN k = r.primary /\ ~Claimed(k) /\ k \notin dirs
        ELSE k = retain /\ k \in registered /\ k \in dirs

Evidences(r) == [c \in {r.checkout, r.primary} |-> IF c = r.checkout THEN r.evidence ELSE r.base]

(* Mutant: only a new binding is written, not that of a moved primary. *)
MutAdmitCommit(p) ==
    /\ At(p, "admit")
    /\ LET slot == proc[p].seen.selection
           r == proc[p].seen.scope
           roots == {r.checkout, r.primary}
       IN  /\ integration = slot /\ initialized /\ Unchanged(r)
           /\ \E k \in Checkouts :
                /\ AdmittedKey(slot, r, proc[p].seen.retain, k)
                /\ binding[k] # None => binding[k].slot = slot /\ binding[k].member = r.member
                /\ \A c \in roots : participant[c] # None => participant[c].key = k
                /\ CandidatesEmpty(k, roots)
                /\ registered' = registered \cup {k}
                /\ binding' = [binding EXCEPT ![k] =
                     IF @ # None THEN @
                     ELSE [slot |-> slot, member |-> r.member, primary |-> r.primary,
                           evidence |-> r.base]]
                /\ participant' = [c \in Checkouts |->
                     IF c \in roots THEN [key |-> k, evidence |-> Evidences(r)[c]]
                     ELSE participant[c]]
    /\ proc' = [proc EXCEPT ![p] = NoProc]
    /\ UNCHANGED <<world, policy, former, history>>

AdmitCommit(p) ==
    /\ At(p, "admit")
    /\ LET slot == proc[p].seen.selection
           r == proc[p].seen.scope
           roots == {r.checkout, r.primary}
       IN  /\ integration = slot /\ initialized /\ Unchanged(r)
           /\ \E k \in Checkouts :
                /\ AdmittedKey(slot, r, proc[p].seen.retain, k)
                /\ binding[k] # None => binding[k].slot = slot /\ binding[k].member = r.member
                /\ \A c \in roots : participant[c] # None => participant[c].key = k
                /\ CandidatesEmpty(k, roots)
                /\ registered' = registered \cup {k}
                /\ binding' = [binding EXCEPT ![k] =
                     [slot |-> slot, member |-> r.member, primary |-> r.primary,
                      evidence |-> r.base]]
                /\ participant' = [c \in Checkouts |->
                     IF c \in roots THEN [key |-> k, evidence |-> Evidences(r)[c]]
                     ELSE participant[c]]
    /\ proc' = [proc EXCEPT ![p] = NoProc]
    /\ UNCHANGED <<world, policy, former, history>>

-----------------------------------------------------------------------------
(* wrix workspace associate: the primary's own namespace is retained. *)

AssociateBegin(p, primary, c) ==
    /\ At(p, "idle")
    /\ initialized
    /\ primary \in registered \cap dirs
    /\ proc' = [proc EXCEPT ![p] = [NoProc EXCEPT
         !.pc = "associate",
         !.seen = [checkout |-> c, primary |-> primary, evidence |-> Evidence(c),
                   base |-> Evidence(primary)]]]
    /\ UNCHANGED <<world, policy, namespaces, history>>

AssociateCommit(p) ==
    /\ At(p, "associate")
    /\ LET r == proc[p].seen
           k == r.primary
           host == [slot |-> Host, member |-> k, primary |-> k, evidence |-> r.base]
           reserve == [destination |-> k, evidence |-> r.evidence]
           row(c) == [key |-> k, evidence |-> Evidences(r)[c]]
       IN  /\ initialized /\ integration = None
           /\ Unchanged(r)
           /\ k \in registered
           /\ \A c \in {r.checkout, k} : participant[c] \in {None, row(c)}
           /\ binding[k] \in {None, host}
           /\ r.checkout # k =>
                binding[r.checkout] = None /\ former[r.checkout] \in {None, reserve}
           /\ binding' = [binding EXCEPT ![k] = host]
           /\ participant' = [c \in Checkouts |->
                IF c \in {r.checkout, k} THEN row(c) ELSE participant[c]]
           /\ former' = [c \in Checkouts |->
                IF c = r.checkout /\ c # k THEN reserve ELSE former[c]]
    /\ proc' = [proc EXCEPT ![p] = NoProc]
    /\ UNCHANGED <<world, policy, registered, history>>

-----------------------------------------------------------------------------
(* A command of a workspace: its context is inspected, checked again with   *)
(* the resolver, and authorized under the lock.                             *)

Inspect(p, c) ==
    /\ At(p, "idle")
    /\ \E x \in Contexts(c) :
         proc' = [proc EXCEPT ![p] = [NoProc EXCEPT !.pc = "inspected", !.context = x]]
    /\ UNCHANGED <<world, policy, namespaces, history>>

Recheck(p) ==
    /\ At(p, "inspected")
    /\ Rechecked(proc[p].context)
    /\ Become(p, "rechecked")
    /\ UNCHANGED <<world, policy, namespaces, history>>

(* Mutant: a namespace is registered only when its directory is there. *)
MutAuthorize(p) ==
    LET x == proc[p].context IN
    /\ At(p, "rechecked")
    /\ Database
    /\ Current(x)
    /\ x.kind = "standalone" /\ x.key \notin dirs => acknowledged
    /\ x.key \notin registered => x.kind = "standalone" /\ x.key \notin dirs
    /\ registered' = registered \cup ({x.key} \cap dirs)
    /\ Become(p, "authorized")
    /\ apart' = IF x.kind = "standalone" /\ participant[x.caller] # None
               THEN apart \cup {x.caller} ELSE apart
    /\ UNCHANGED <<world, policy, binding, participant, former, worked>>

Authorize(p) ==
    LET x == proc[p].context IN
    /\ At(p, "rechecked")
    /\ Database
    /\ Current(x)
    /\ x.kind = "standalone" /\ x.key \notin dirs => acknowledged
    /\ x.key \notin registered => x.kind = "standalone" /\ x.key \notin dirs
    /\ registered' = registered \cup {x.key}
    /\ Become(p, "authorized")
    /\ apart' = IF x.kind = "standalone" /\ participant[x.caller] # None
               THEN apart \cup {x.caller} ELSE apart
    /\ UNCHANGED <<world, policy, binding, participant, former, worked>>

(* What the command does creates the state directory of its namespace.     *)
Work(p) ==
    /\ At(p, "authorized")
    /\ dirs' = dirs \cup {proc[p].context.key}
    /\ worked' = [worked EXCEPT ![proc[p].context.caller] = @ \cup {proc[p].context.key}]
    /\ UNCHANGED <<attest, age, repository, changes, policy, namespaces, proc, apart>>

-----------------------------------------------------------------------------
(* An error, the end of the command, or its death.                         *)
Ends(p) ==
    /\ ~At(p, "idle")
    /\ proc' = [proc EXCEPT ![p] = NoProc]
    /\ UNCHANGED <<world, policy, namespaces, history>>

-----------------------------------------------------------------------------
(* The world. *)

Changes == changes < MaxChanges /\ changes' = changes + 1

Replace(c) ==
    /\ Changes
    /\ age' = [age EXCEPT ![c] = @ + 1]
    /\ UNCHANGED <<attest, repository, dirs, policy, namespaces, proc, history>>

ReplaceRepository ==
    /\ Changes
    /\ repository' = repository + 1
    /\ UNCHANGED <<attest, age, dirs, policy, namespaces, proc, history>>

Reattest(c, m, primary) ==
    /\ Changes
    /\ attest[c] # [member |-> m, primary |-> primary]
    /\ attest' = [attest EXCEPT ![c] = [member |-> m, primary |-> primary]]
    /\ UNCHANGED <<age, repository, dirs, policy, namespaces, proc, history>>

Next ==
    \/ Initialize \/ Acknowledge \/ Disable \/ ReplaceRepository
    \/ \E slot \in Slots : SelectIntegration(slot)
    \/ \E c \in Checkouts : ImportNative(c) \/ Replace(c)
    \/ \E c, primary \in Checkouts, m \in Members : Reattest(c, m, primary)
    \/ \E p \in Procs : Ends(p)
    \/ \E p \in Administrators :
         \/ AdmitCommit(p) \/ AssociateCommit(p)
         \/ \E c \in Checkouts, k \in Checkouts \cup {None} : AdmitBegin(p, c, k)
         \/ \E c, k \in Checkouts : AssociateBegin(p, k, c)
    \/ \E p \in Launchers :
         \/ \E c \in Checkouts : Inspect(p, c)
         \/ Recheck(p) \/ Authorize(p) \/ Work(p)

Spec == Init /\ [][Next]_vars

-----------------------------------------------------------------------------
(* Properties. *)

(* No legal sequence of commands writes a store that every later open      *)
(* refuses as unsupported (record::check, association::check_former and    *)
(* Catalog::load): bindings are registered, no two are of one member of a  *)
(* slot, and their primary is a participant with the same evidence, and    *)
(* receipts of former namespaces name a participant of the host's slot.    *)
StoreReadable ==
    /\ ~initialized => integration = None /\ \A k \in Checkouts : binding[k] = None
    /\ \A k \in Checkouts : binding[k] # None =>
         /\ k \in registered
         /\ participant[binding[k].primary] = [key |-> k, evidence |-> binding[k].evidence]
         /\ binding[k].slot = Host => binding[k].member = k /\ binding[k].primary = k
    /\ \A c \in Checkouts : participant[c] # None => binding[participant[c].key] # None
    /\ \A j, k \in Checkouts : j # k /\ binding[j] # None /\ binding[k] # None =>
         <<binding[j].slot, binding[j].member>> # <<binding[k].slot, binding[k].member>>
    /\ \A k \in Checkouts : former[k] # None =>
         /\ former[k].destination # k
         /\ participant[k] = [key |-> former[k].destination, evidence |-> former[k].evidence]
         /\ binding[former[k].destination].slot = Host

(* The namespace of a checkout is not taken from its commands: what they   *)
(* worked in, however long ago they were inspected and authorized, is the  *)
(* namespace that the store gives the checkout whatever was admitted,      *)
(* associated, selected or replaced since, unless an association left a    *)
(* receipt for the former one.  `apart` is the exception that the code     *)
(* makes: with the integration disabled a participant is let into a        *)
(* namespace of its own (store::standalone).                               *)
HomeKept ==
    \A c \in Checkouts \ apart : \A k \in worked[c] :
        \/ k = IF participant[c] # None THEN participant[c].key ELSE c
        \/ k = c /\ former[c] # None
=============================================================================
