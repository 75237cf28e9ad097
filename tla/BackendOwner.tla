----------------------------- MODULE BackendOwner -----------------------------
(***************************************************************************)
(* The owner of the shared backend.  Files name the one container that may *)
(* open the host's data: the selection, a candidate while one is created,  *)
(* and a journal while the owner is renamed.  Commands create or restart   *)
(* that container, rename it, and take over the services that workspaces   *)
(* had before; each runs under the host's lifecycle lock, and may fail or  *)
(* be killed at any step.  The user and old launchers start, stop and      *)
(* remove containers at any time.                                          *)
(***************************************************************************)
EXTENDS Naturals, FiniteSets

CONSTANTS
    Operators,      \* processes that recover, start and rename
    Migrators,      \* processes of a migration
    Hosts,          \* names for the shared backend
    Default,        \* the one it gets first
    Workspaces,     \* each names the service it had before
    Ids,            \* identities of containers
    None

VARIABLES
    owner,          \* celler-owner.json
    candidate,      \* celler-candidate/celler-owner.json
    renaming,       \* owner-rename: the names, and the container's identity
    managed,        \* shared.json exists
    containers,     \* name -> its container: identity, and whether it runs
    lock,           \* host-lifecycle
    journal,        \* legacy-migration.json: the containers, and the approval
    adopted,        \* workspaces whose database the backend serves
    sources,        \* workspaces with a database at the old place
    recurred,       \* those whose service someone started since, as history
    proc            \* what each command does

Agents == Operators \cup Migrators

vars == <<owner, candidate, renaming, managed, containers, lock, journal,
          adopted, sources, recurred, proc>>

NoProc == [op |-> None, pc |-> "idle", name |-> None, workspace |-> None, todo |-> {}]

(* Containers have identities of their own. *)
First ==
    CHOOSE f \in [Workspaces -> Ids] : \A v, w \in Workspaces : v # w => f[v] # f[w]

Init ==
    /\ owner = None
    /\ candidate = None
    /\ renaming = None
    /\ managed = FALSE
    /\ containers = [n \in Hosts \cup Workspaces |->
                       IF n \in Hosts THEN None ELSE [id |-> First[n], running |-> TRUE]]
    /\ lock = None
    /\ journal = None
    /\ adopted = {}
    /\ sources = Workspaces
    /\ recurred = {}
    /\ proc = [p \in Agents |-> NoProc]

records == <<owner, candidate, renaming, managed>>
world == <<containers, sources, recurred>>
migration == <<journal, adopted>>

-----------------------------------------------------------------------------
Status(n) ==
    IF containers[n] = None THEN "Missing"
    ELSE IF containers[n].running THEN "Running" ELSE "Stopped"

Goto(p, from, to) ==
    /\ proc[p].pc = from
    /\ proc' = [proc EXCEPT ![p].pc = to]

Done(p, from) ==
    /\ proc[p].pc = from
    /\ proc' = [proc EXCEPT ![p] = NoProc]

(* A command begins, and ends or is killed: the system frees its lock.     *)
Begin(p, op, w, n) ==
    /\ proc[p] = NoProc
    /\ lock = None
    /\ proc' = [proc EXCEPT ![p] = [NoProc EXCEPT !.op = op, !.pc = "lock",
                                                  !.workspace = w, !.name = n]]
    /\ UNCHANGED <<records, world, migration, lock>>

End(p) ==
    /\ proc[p] # NoProc
    /\ proc' = [proc EXCEPT ![p] = NoProc]
    /\ lock' = IF lock = p THEN None ELSE lock
    /\ UNCHANGED <<records, world, migration>>

Free(p) == lock' = None

Acquire(p) ==
    /\ lock = None
    /\ lock' = p

(* Identities that a container has, or that a record remembers. *)
Known ==
    {containers[n].id : n \in {m \in DOMAIN containers : containers[m] # None}}
    \cup {renaming.id : r \in {renaming} \ {None}}
    \cup {journal.entries[n] : n \in {m \in DOMAIN containers : journal # None}}

\* Bound: there is an identity that no container has had.
Creates(n) ==
    /\ Status(n) = "Missing" /\ Ids \ Known # {}
    /\ containers' = [containers EXCEPT ![n] = [id |-> CHOOSE i \in Ids \ Known : TRUE,
                                               running |-> TRUE]]

(* The ports of the backend let only one of its containers run. *)
Starts(n) ==
    /\ Status(n) = "Stopped"
    /\ n \in Hosts => \A m \in Hosts : Status(m) # "Running"
    /\ containers' = [containers EXCEPT ![n].running = TRUE]

-----------------------------------------------------------------------------
(* Creation and recovery.                                                  *)

(* What prepared containers a start in this workspace may adopt from.      *)
Permits(w) ==
    /\ journal # None
    /\ journal.authorized
    /\ journal.entries[w] = containers[w].id

(* No service but the selected one runs.  The first start of a workspace   *)
(* on a host without a shared backend finds its own stopped service, too.  *)
CheckInventory(n, w) ==
    /\ \A m \in DOMAIN containers \ {n} : Status(m) # "Running"
    /\ w # None /\ Status(w) = "Stopped" => Permits(w)

Selects == IF candidate # None THEN candidate ELSE IF owner # None THEN owner ELSE Default

(* A start leaves an existing owner that does not run to recovery.         *)
Ensure(p) ==
    LET maintenance == proc[p].op # "start"
        n == Selects
        legacy == IF owner # None /\ managed THEN None
                  ELSE IF maintenance THEN None ELSE proc[p].workspace
    IN
    /\ proc[p].op \in {"recover", "start", "migrate"}
    /\ renaming = None
    /\ candidate # None /\ owner # None => candidate = owner
    /\ CheckInventory(n, legacy)
    /\ Status(n) # "Missing" => owner # None \/ candidate # None
    /\ Status(n) = "Running" => managed
    /\ owner # None /\ (~managed \/ Status(n) # "Running") => maintenance
    /\ Acquire(p)
    /\ proc[p].pc = "lock"
    /\ proc' = [proc EXCEPT ![p].name = n,
                            ![p].pc = CASE Status(n) = "Running" -> "ready"
                                        [] Status(n) = "Stopped" -> "restart"
                                        [] OTHER -> "candidate"]
    /\ UNCHANGED <<records, world, migration>>

Restart(p) ==
    /\ Goto(p, "restart", "ready")
    /\ Starts(proc[p].name)
    /\ UNCHANGED <<records, sources, recurred, migration, lock>>

\* Mutant: the candidate is recorded only when it is ready.
MutCandidate(p) ==
    /\ Goto(p, "candidate", "create")
    /\ managed' = TRUE
    /\ UNCHANGED <<owner, candidate, renaming, world, migration, lock>>

(* The name is on disk before the container exists. *)
Candidate(p) ==
    /\ Goto(p, "candidate", "create")
    /\ managed' = TRUE
    /\ candidate' = proc[p].name
    /\ UNCHANGED <<owner, renaming, world, migration, lock>>

Create(p) ==
    /\ Goto(p, "create", "ready")
    /\ \A m \in Hosts : Status(m) # "Running"
    /\ Creates(proc[p].name)
    /\ UNCHANGED <<records, sources, recurred, migration, lock>>

(* A backend whose socket is dead is stopped and started by recovery.      *)
Reopen(p) ==
    /\ proc[p].op # "start"
    /\ Goto(p, "ready", "restart")
    /\ Status(proc[p].name) = "Running"
    /\ containers' = [containers EXCEPT ![proc[p].name].running = FALSE]
    /\ UNCHANGED <<records, sources, recurred, migration, lock>>

(* Cache and databases answer, or the command fails. *)
Ready(p) ==
    /\ Goto(p, "ready", IF candidate = None THEN "ensured" ELSE "commit")
    /\ Status(proc[p].name) = "Running"
    /\ UNCHANGED <<records, world, migration, lock>>

Commit(p) ==
    /\ Goto(p, "commit", "clear")
    /\ owner' = proc[p].name
    /\ UNCHANGED <<candidate, renaming, managed, world, migration, lock>>

Clear(p) ==
    /\ Goto(p, "clear", "ensured")
    /\ candidate' = None
    /\ UNCHANGED <<owner, renaming, managed, world, migration, lock>>

Recovered(p) ==
    /\ proc[p].op = "recover" \/ (proc[p].op = "migrate" /\ proc[p].workspace = None)
    /\ IF proc[p].op = "recover" THEN Done(p, "ensured") ELSE Goto(p, "ensured", "next")
    /\ Free(p)
    /\ UNCHANGED <<records, world, migration>>

(* The workspace's database moves to the backend, unless it has been       *)
(* before (DoltAdoption).                                                  *)
Register(p) ==
    LET w == proc[p].workspace IN
    /\ w # None
    /\ IF proc[p].op = "start" THEN Done(p, "ensured") ELSE Goto(p, "ensured", "verify")
    /\ adopted' = adopted \cup {w}
    /\ sources' = IF w \in adopted THEN sources ELSE sources \ {w}
    /\ Free(p)
    /\ UNCHANGED <<records, containers, recurred, journal>>

-----------------------------------------------------------------------------
(* Renaming.                                                               *)

(* A rename under way is resumed with the same name; a new one finds its   *)
(* owner inactive, the name free, and no other service running.            *)
Rename(p) ==
    LET n == proc[p].name
        id == IF Status(owner) = "Stopped" THEN containers[owner].id ELSE None
    IN
    /\ proc[p].op = "rename"
    /\ owner # None /\ candidate = None
    /\ Acquire(p)
    /\ Goto(p, "lock", "finish")
    /\ \/ /\ renaming # None
          /\ renaming.to = n
          /\ owner \in {renaming.from, renaming.to}
          /\ UNCHANGED renaming
       \/ /\ renaming = None
          /\ owner # n
          /\ Status(owner) # "Running"
          /\ Status(n) = "Missing"
          /\ CheckInventory(owner, None)
          /\ renaming' = [from |-> owner, to |-> n, id |-> id]
    /\ UNCHANGED <<owner, candidate, managed, world, migration>>

Is(n, id) == Status(n) = "Stopped" /\ containers[n].id = id

(* The container that the journal names has one of its two names; if there *)
(* was none, there is none.                                                *)
Finish(p) ==
    LET r == renaming IN
    /\ proc[p].pc = "finish"
    /\ \/ /\ r.id = None /\ Status(r.from) = "Missing" /\ Status(r.to) = "Missing"
          /\ Goto(p, "finish", "persist")
       \/ /\ r.id # None /\ Is(r.from, r.id) /\ Status(r.to) = "Missing"
          /\ Goto(p, "finish", "rename")
       \/ /\ r.id # None /\ Status(r.from) = "Missing" /\ Is(r.to, r.id)
          /\ Goto(p, "finish", "persist")
    /\ UNCHANGED <<records, world, migration, lock>>

RenameContainer(p) ==
    /\ Goto(p, "rename", "renamed")
    /\ Status(renaming.from) # "Missing" /\ Status(renaming.to) = "Missing"
    /\ containers' = [containers EXCEPT ![renaming.to] = containers[renaming.from],
                                        ![renaming.from] = None]
    /\ UNCHANGED <<records, sources, recurred, migration, lock>>

Renamed(p) ==
    /\ Goto(p, "renamed", "persist")
    /\ Status(renaming.from) = "Missing" /\ Is(renaming.to, renaming.id)
    /\ UNCHANGED <<records, world, migration, lock>>

Persist(p) ==
    /\ Goto(p, "persist", "unfence")
    /\ owner' = renaming.to
    /\ UNCHANGED <<candidate, renaming, managed, world, migration, lock>>

Unfence(p) ==
    /\ Done(p, "unfence")
    /\ renaming' = None
    /\ Free(p)
    /\ UNCHANGED <<owner, candidate, managed, world, migration>>

-----------------------------------------------------------------------------
(* Cutover of the services that workspaces had before.                     *)

(* Every service but the owner, one that is a candidate included. *)
Inventory ==
    [n \in DOMAIN containers |->
        IF n = owner \/ containers[n] = None THEN None ELSE containers[n].id]

Alone == \A p \in Agents : proc[p].op # "migrate"

Prepare(p) ==
    /\ proc[p].op = "prepare" /\ lock = None /\ renaming = None /\ Alone
    /\ journal # None => journal.entries = Inventory
    /\ Done(p, "lock")
    /\ journal' = IF journal # None THEN journal
                  ELSE [entries |-> Inventory, authorized |-> FALSE]
    /\ UNCHANGED <<records, world, adopted, lock>>

Listed == {n \in DOMAIN containers : journal.entries[n] # None}

(* Those and only those containers that were prepared, each a workspace's  *)
(* and stopped; a sandbox that runs makes the command fail.                *)
AdmitCutover ==
    /\ journal # None
    /\ journal.entries = Inventory
    /\ Listed \subseteq Workspaces
    /\ \A w \in Listed : Status(w) = "Stopped"

(* The lock is free while the backend recovers and workspaces start; only  *)
(* another migration is kept out.                                          *)
Quiesced(p) ==
    /\ proc[p].op = "quiesced" /\ proc[p].pc = "lock" /\ lock = None
    /\ renaming = None /\ owner # None
    /\ Alone
    /\ AdmitCutover
    /\ journal' = [journal EXCEPT !.authorized = TRUE]
    /\ recurred' = {}
    /\ proc' = [proc EXCEPT ![p].op = "migrate", ![p].todo = Listed,
                            ![p].pc = IF Status(owner) # "Running" THEN "lock" ELSE "next"]
    /\ UNCHANGED <<records, containers, sources, adopted, lock>>

(* Each workspace's own start follows. *)
Turn(p) ==
    /\ proc[p].pc = "next"
    /\ \E w \in proc[p].todo :
         proc' = [proc EXCEPT ![p].pc = "lock", ![p].workspace = w, ![p].todo = @ \ {w}]
    /\ UNCHANGED <<records, world, migration, lock>>

\* Mutant: a workspace whose backend answers counts as verified.
MutVerify(p) ==
    /\ proc[p].pc = "verify"
    /\ proc' = [proc EXCEPT ![p].pc = "next", ![p].workspace = None]
    /\ UNCHANGED <<records, world, migration, lock>>

(* A database that is still at the old place has a history of its own.     *)
Verify(p) ==
    /\ proc[p].pc = "verify"
    /\ proc[p].workspace \notin sources
    /\ proc' = [proc EXCEPT ![p].pc = "next", ![p].workspace = None]
    /\ UNCHANGED <<records, world, migration, lock>>

Verified(p) ==
    /\ proc[p].todo = {}
    /\ lock = None /\ renaming = None
    /\ AdmitCutover
    /\ Goto(p, "next", "verified")
    /\ UNCHANGED <<records, world, migration, lock>>

-----------------------------------------------------------------------------
(* The user, and launchers that know nothing of the shared backend.        *)

Stop(n) ==
    /\ Status(n) = "Running"
    /\ containers' = [containers EXCEPT ![n].running = FALSE]
    /\ UNCHANGED <<records, sources, recurred, migration, lock, proc>>

Remove(n) ==
    /\ Status(n) = "Stopped"
    /\ containers' = [containers EXCEPT ![n] = None]
    /\ UNCHANGED <<records, sources, recurred, migration, lock, proc>>

Start(n) ==
    /\ n \in Hosts
    /\ Starts(n)
    /\ UNCHANGED <<records, sources, recurred, migration, lock, proc>>

(* An old launcher's service opens its own database, or makes one. *)
Launch(w) ==
    /\ Starts(w) \/ Creates(w)
    /\ sources' = sources \cup {w}
    /\ recurred' = recurred \cup {w}
    /\ UNCHANGED <<records, migration, lock, proc>>

-----------------------------------------------------------------------------
Command(p) ==
    \/ p \in Migrators /\ \E op \in {"prepare", "quiesced"} : Begin(p, op, None, None)
    \/ p \in Operators /\ Begin(p, "recover", None, None)
    \/ p \in Operators /\ \E w \in Workspaces : Begin(p, "start", w, None)
    \/ p \in Operators /\ \E n \in Hosts : Begin(p, "rename", None, n)
    \/ End(p)
    \/ Ensure(p) \/ Restart(p) \/ Candidate(p) \/ Create(p) \/ Reopen(p) \/ Ready(p)
    \/ Commit(p) \/ Clear(p) \/ Recovered(p) \/ Register(p)
    \/ Rename(p) \/ Finish(p) \/ RenameContainer(p) \/ Renamed(p) \/ Persist(p) \/ Unfence(p)
    \/ Prepare(p) \/ Quiesced(p) \/ Turn(p) \/ Verify(p) \/ Verified(p)

Next ==
    \/ \E p \in Agents : Command(p)
    \/ \E n \in DOMAIN containers : Stop(n) \/ Remove(n) \/ Start(n)
    \/ \E w \in Workspaces : Launch(w)

Spec == Init /\ [][Next]_vars

TypeOK ==
    /\ owner \in Hosts \cup {None} /\ candidate \in Hosts \cup {None}
    /\ managed \in BOOLEAN
    /\ DOMAIN containers = Hosts \cup Workspaces
    /\ lock \in Agents \cup {None}
    /\ adopted \subseteq Workspaces /\ sources \subseteq Workspaces

(* At most one container for the host's data exists, and a record names    *)
(* it: whatever was killed where, recovery or a repeated rename finds it   *)
(* instead of creating a second one (owner::host::ensure, rename::finish). *)
OneBackend ==
    \A n \in Hosts : containers[n] # None =>
        /\ n \in {owner, candidate} \/ (renaming # None /\ n \in {renaming.from, renaming.to})
        /\ \A m \in Hosts \ {n} : containers[m] = None

(* A cutover that reports success leaves no listed workspace with a        *)
(* history apart from the backend's: its database was adopted, and none is *)
(* left at the old place but what an old launcher made since the approval  *)
(* (migration::run).                                                       *)
CutoverComplete ==
    \A p \in Agents : proc[p].pc = "verified" =>
        \A w \in Listed : w \in adopted /\ w \notin sources \ recurred
=============================================================================
