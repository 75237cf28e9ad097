---------------------------- MODULE CacheAuthority ----------------------------
(***************************************************************************)
(* The authority to publish to a workspace's private view of the cache.    *)
(*                                                                         *)
(* A service command registers the view and records its key, rotates the   *)
(* key by invalidating the view, or retires the workspace's publication;   *)
(* publishers read the recorded authority and upload (what they upload is  *)
(* the subject of PendingPublication).  All of them hold cache.lock.  The  *)
(* rotation is journalled: an interrupted one stops registrations and      *)
(* publications until a retry finishes it.                                 *)
(*                                                                         *)
(* Every request to the backend may fail, a command may be cancelled at    *)
(* its deadline or die between two steps, and the backend goes on with a   *)
(* request whose client is gone: it may be executed at any later moment.   *)
(***************************************************************************)
EXTENDS Integers, FiniteSets

CONSTANTS
    Commands,   \* processes that run service commands
    Publishers, \* processes that publish
    MaxKeys,    \* bound on the signing keys the backend may generate
    None

Procs == Commands \cup Publishers

VARIABLES
    lock,       \* holder of cache.lock
    retired,    \* celler-retired exists
    binding,    \* celler-publisher.json exists
    journal,    \* celler-rotation.json: the key to invalidate, or None
    keyfile,    \* keys/cache.pub
    view,       \* the backend's view: its signing key, or None
    fresh,      \* the next key the backend generates
    late,       \* requests that outlived their client
    disowned,   \* the view changed other than by a rotation, as history
    pc,
    command     \* Commands -> the command and the key it confirmed

authority == <<retired, binding, journal, keyfile>>
backend == <<view, fresh, late, disowned>>
vars == <<authority, backend, lock, pc, command>>

Keys == 1..MaxKeys

(* The key of a view whose stored key pair cannot be used. *)
Bad == 0

NoCommand == [op |-> None, key |-> None]

(* A workspace that was never registered, one that publishes, or one whose *)
(* stored key pair was damaged since.                                      *)
Init ==
    /\ \E known \in {None, Bad, 1} :
         /\ view = known
         /\ binding = (known # None)
         /\ keyfile = IF known = None THEN None ELSE 1
         /\ fresh = IF known = None THEN 1 ELSE 2
         /\ disowned = (known = Bad)
    /\ lock = None
    /\ retired = FALSE /\ journal = None
    /\ late = {}
    /\ pc = [p \in Procs |-> "idle"]
    /\ command = [c \in Commands |-> NoCommand]

Goto(p, l) == pc' = [pc EXCEPT ![p] = l]

At(c, l) == c \in Commands /\ pc[c] = l

Take(p) == pc[p] = "idle" /\ lock = None /\ lock' = p

(* The lock is released, or dropped with the process. *)
Leave(p) ==
    /\ lock' = None
    /\ Goto(p, "idle")
    /\ command' = [c \in Commands |-> IF c = p THEN NoCommand ELSE command[c]]

-----------------------------------------------------------------------------
(* Registration.                                                           *)

Register(c) ==
    /\ Take(c)
    /\ journal = None
    /\ command' = [command EXCEPT ![c].op = "register"]
    /\ Goto(c, "get")
    /\ UNCHANGED <<authority, backend>>

(* A usable key is kept, a damaged one replaced, a missing view created.   *)
Get(c) ==
    /\ At(c, "get")
    /\ command' = [command EXCEPT ![c].key = IF view = Bad THEN None ELSE view]
    /\ Goto(c, CASE view = None -> "create" [] view = Bad -> "repair" [] OTHER -> "confirm")
    /\ UNCHANGED <<authority, backend, lock>>

Generates == fresh \in Keys /\ view' = fresh /\ fresh' = fresh + 1

Create(c) ==
    /\ At(c, "create")
    /\ view = None /\ Generates
    /\ Goto(c, "confirm")
    /\ UNCHANGED <<authority, late, disowned, lock, command>>

Repair(c) ==
    /\ At(c, "repair")
    /\ view = Bad /\ Generates
    /\ Goto(c, "confirm")
    /\ UNCHANGED <<authority, late, disowned, lock, command>>

(* The policy is set and the view read back with the key it had.           *)
Confirm(c) ==
    /\ At(c, "confirm")
    /\ view \in Keys
    /\ command[c].key # None => command[c].key = view
    /\ command' = [command EXCEPT ![c].key = view]
    /\ Goto(c, IF command[c].op = "rotate" THEN "replace" ELSE "keep")
    /\ UNCHANGED <<authority, backend, lock>>

(* A registration never replaces a key that is on record.                  *)
Keep(c) ==
    /\ At(c, "keep")
    /\ keyfile \in {None, command[c].key}
    /\ keyfile' = command[c].key
    /\ Goto(c, "bind")
    /\ UNCHANGED <<retired, binding, journal, backend, lock, command>>

Bind(c) ==
    /\ At(c, "bind")
    /\ binding' = TRUE
    /\ Goto(c, IF command[c].op = "rotate" THEN "clear" ELSE "activate")
    /\ UNCHANGED <<retired, journal, keyfile, backend, lock, command>>

(* Only a confirmed and recorded view reopens publication.                 *)
Activate(c) ==
    /\ At(c, "activate")
    /\ retired' = FALSE
    /\ Leave(c)
    /\ UNCHANGED <<binding, journal, keyfile, backend>>

-----------------------------------------------------------------------------
(* Rotation.                                                               *)

Rotate(c) ==
    /\ Take(c)
    /\ retired => journal # None
    /\ command' = [command EXCEPT ![c].op = "rotate"]
    /\ Goto(c, "intent")
    /\ UNCHANGED <<authority, backend>>

(* The key that is going to be invalidated is written down, once.          *)
Intent(c) ==
    /\ At(c, "intent")
    /\ journal = None => view # Bad
    /\ journal' = IF journal = None THEN [prior |-> view] ELSE journal
    /\ Goto(c, "compare")
    /\ UNCHANGED <<retired, binding, keyfile, backend, lock, command>>

\* Mutant: a retry invalidates whatever view there is.
MutCompare(c) ==
    /\ At(c, "compare")
    /\ view # Bad
    /\ Goto(c, IF view # None THEN "delete" ELSE "get")
    /\ UNCHANGED <<authority, backend, lock, command>>

(* Only the view the intent names is invalidated.                          *)
Compare(c) ==
    /\ At(c, "compare")
    /\ view # Bad
    /\ Goto(c, IF view # None /\ view = journal.prior THEN "delete" ELSE "get")
    /\ UNCHANGED <<authority, backend, lock, command>>

Delete(c) ==
    /\ At(c, "delete")
    /\ view # None
    /\ view' = None
    /\ Goto(c, "get")
    /\ UNCHANGED <<authority, fresh, late, disowned, lock, command>>

(* Unlike a registration, a rotation replaces the recorded key.            *)
Replace(c) ==
    /\ At(c, "replace")
    /\ keyfile' = command[c].key
    /\ disowned' = (view # command[c].key)
    /\ Goto(c, "bind")
    /\ UNCHANGED <<retired, binding, journal, view, fresh, late, lock, command>>

Clear(c) ==
    /\ At(c, "clear")
    /\ journal' = None
    /\ Leave(c)
    /\ UNCHANGED <<retired, binding, keyfile, backend>>

-----------------------------------------------------------------------------
(* Retirement and publication.                                             *)

(* Waiting for the lock is what makes sure that no upload is under way.    *)
StartRetire(c) ==
    /\ Take(c)
    /\ command' = [command EXCEPT ![c].op = "retire"]
    /\ Goto(c, "retire")
    /\ UNCHANGED <<authority, backend>>

Retire(c) ==
    /\ At(c, "retire")
    /\ retired' = TRUE
    /\ Leave(c)
    /\ UNCHANGED <<binding, journal, keyfile, backend>>

Lock(p) ==
    /\ p \in Publishers /\ Take(p)
    /\ Goto(p, "load")
    /\ UNCHANGED <<authority, backend, command>>

Load(p) ==
    /\ p \in Publishers /\ pc[p] = "load"
    /\ binding /\ ~retired /\ journal = None
    /\ Goto(p, "upload")
    /\ UNCHANGED <<authority, backend, lock, command>>

Upload(p) ==
    /\ p \in Publishers /\ pc[p] = "upload"
    /\ view # None
    /\ Leave(p)
    /\ UNCHANGED <<authority, backend>>

-----------------------------------------------------------------------------
(* Failures.                                                               *)

(* The process fails, is cancelled or dies; a request it was waiting for   *)
(* may stay with the backend.                                              *)
Fail(p) ==
    /\ pc[p] # "idle"
    /\ Leave(p)
    /\ \/ UNCHANGED late
       \/ pc[p] \in {"create", "delete"} /\ late' = late \cup {pc[p]}
    /\ UNCHANGED <<authority, view, fresh, disowned>>

LateDelete ==
    /\ "delete" \in late
    /\ late' = late \ {"delete"}
    /\ view' = None
    /\ disowned' = TRUE
    /\ UNCHANGED <<authority, fresh, lock, pc, command>>

LateCreate ==
    /\ "create" \in late
    /\ late' = late \ {"create"}
    /\ IF view = None THEN Generates ELSE UNCHANGED <<view, fresh>>
    /\ disowned' = (disowned \/ view = None)
    /\ UNCHANGED <<authority, lock, pc, command>>

CommandStep(c) ==
    \/ Register(c) \/ Get(c) \/ Create(c) \/ Repair(c) \/ Confirm(c) \/ Keep(c) \/ Bind(c)
    \/ Activate(c) \/ Rotate(c) \/ Intent(c) \/ Compare(c) \/ Delete(c) \/ Replace(c)
    \/ Clear(c) \/ StartRetire(c) \/ Retire(c)

PublisherStep(p) == Lock(p) \/ Load(p) \/ Upload(p)

Next ==
    \/ \E c \in Commands : CommandStep(c)
    \/ \E p \in Publishers : PublisherStep(p)
    \/ \E p \in Procs : Fail(p)
    \/ LateDelete \/ LateCreate

Spec == Init /\ [][Next]_vars

-----------------------------------------------------------------------------
(* The recorded key is the key of the view the backend serves, unless a    *)
(* rotation is on record to be finished or the view was changed by         *)
(* something else than a rotation: clients never trust a key with which    *)
(* nothing is signed any more.                                             *)
KeyFollowsView ==
    keyfile # None /\ view \in Keys /\ view # keyfile => journal # None \/ disowned

(* A view is invalidated only if the intent on record names it: a retried  *)
(* rotation never throws away the view an earlier attempt created, unless  *)
(* a request that outlived its client had a hand in it; and the recorded   *)
(* key follows the view (rotate_private, Client::rotate).                  *)
ReplacementSpared ==
    [][/\ KeyFollowsView'
       /\ view # None /\ view' = None => disowned' \/ journal = [prior |-> view]]_vars
=============================================================================
