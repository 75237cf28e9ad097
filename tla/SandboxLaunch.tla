---------------------------- MODULE SandboxLaunch ----------------------------
(***************************************************************************)
(* The launch of a sandbox.  It opens its journal, loads the workspace's   *)
(* services, registers its notification route, installs its image          *)
(* (ImageStore), reserves a place in the shared Nix store when it wants    *)
(* one, stages what it mounts, waits for the client of the container, and  *)
(* undoes all of it.  Any step may fail, and the launcher or the client    *)
(* may be killed.                                                          *)
(***************************************************************************)
CONSTANTS
    Launchers,
    None

VARIABLES
    launch,     \* what each launcher does and holds
    client,     \* the foreground client of each launch
    container,  \* each launch's container
    ticket      \* each launch's reservation of the shared store

vars == <<launch, client, container, ticket>>

NoLaunch ==
    [pc |-> "idle", shared |-> FALSE, session |-> FALSE, registered |-> FALSE,
     attempt |-> FALSE, warned |-> FALSE, staging |-> {}, journal |-> None,
     observed |-> FALSE, result |-> "ok"]

Init ==
    /\ launch = [l \in Launchers |-> NoLaunch]
    /\ client = [l \in Launchers |-> None]
    /\ container = [l \in Launchers |-> None]
    /\ ticket = [l \in Launchers |-> None]

-----------------------------------------------------------------------------
At(l, pc) == launch[l].pc = pc

Goto(l, from, to) ==
    /\ At(l, from)
    /\ launch' = [launch EXCEPT ![l].pc = to]

(* A launch that is refused before its journal exists has had no effect:   *)
(* its policies, its plan, and the admission to cache and store come first.*)
Start(l, shared, blockers) ==
    /\ At(l, "idle")
    /\ shared => ~blockers
    /\ launch' = [launch EXCEPT ![l].pc = "journal", ![l].shared = shared]
    /\ UNCHANGED <<client, container, ticket>>

Journal(l) ==
    /\ At(l, "journal")
    /\ launch' = [launch EXCEPT ![l].pc = "services", ![l].journal = "incomplete"]
    /\ UNCHANGED <<client, container, ticket>>

(* Services are started; a workspace with a cache gets a first token, in a *)
(* private directory of this launch.                                       *)
LoadServices(l, cache) ==
    /\ Goto(l, "services", IF cache THEN "cache" ELSE "dolt")
    /\ UNCHANGED <<client, container, ticket>>

LoadProjectCache(l) ==
    /\ At(l, "cache")
    /\ launch' = [launch EXCEPT ![l].pc = "dolt", ![l].session = TRUE]
    /\ UNCHANGED <<client, container, ticket>>

LoadDolt(l) == Goto(l, "dolt", "register") /\ UNCHANGED <<client, container, ticket>>

Register(l) ==
    /\ At(l, "register")
    /\ launch' = [launch EXCEPT ![l].pc = "image", ![l].registered = TRUE]
    /\ UNCHANGED <<client, container, ticket>>

InstallImage(l) ==
    /\ Goto(l, "image", IF launch[l].shared THEN "reserve" ELSE "stage")
    /\ UNCHANGED <<client, container, ticket>>

(* The reservation is this launch's own, or one it was given. *)
Reserve(l) ==
    /\ At(l, "reserve")
    /\ launch' = [launch EXCEPT ![l].pc = "prepare", ![l].attempt = TRUE]
    /\ ticket' = [ticket EXCEPT ![l] = "reserved"]
    /\ UNCHANGED <<client, container>>

Prepare(l) == Goto(l, "prepare", "stage") /\ UNCHANGED <<client, container, ticket>>

-----------------------------------------------------------------------------
(* Staging.                                                                *)

Fill(l, from, to, what) ==
    /\ At(l, from)
    /\ launch' = [launch EXCEPT ![l].pc = to, ![l].staging = @ \cup what]
    /\ UNCHANGED <<client, container, ticket>>

Stage(l) == Fill(l, "stage", "mounts", {"root"})

(* Read-only directories are copied, and on Darwin every mount. *)
Mounts(l, copied) == Fill(l, "mounts", "keys", IF copied THEN {"mounts"} ELSE {})

(* The keys of a launch that may deploy or sign are copied. *)
Credentials(l, granted) == Fill(l, "keys", "beads", IF granted THEN {"keys"} ELSE {})

Beads(l, configured) == Fill(l, "beads", "command", IF configured THEN {"beads"} ELSE {})

(* The environment and the arguments of the container. *)
Command(l) == Goto(l, "command", "spawn") /\ UNCHANGED <<client, container, ticket>>

-----------------------------------------------------------------------------
(* The container.                                                          *)

Runs(l) ==
    /\ client' = [client EXCEPT ![l] = "running"]
    /\ container' = [container EXCEPT ![l] = "running"]

Spawn(l) ==
    /\ ~launch[l].shared
    /\ Goto(l, "spawn", "wait")
    /\ Runs(l)
    /\ UNCHANGED ticket

(* The reservation is handed off before the container is created. *)
Handoff(l) ==
    /\ launch[l].shared
    /\ Goto(l, "spawn", "create")
    /\ ticket' = [ticket EXCEPT ![l] = "handed"]
    /\ UNCHANGED <<client, container>>

SpawnShared(l) ==
    /\ Goto(l, "create", "wait")
    /\ Runs(l)
    /\ UNCHANGED ticket

(* A sandbox ends, and its client with it. *)
Exit(l) ==
    /\ container[l] = "running"
    /\ container' = [container EXCEPT ![l] = "exited"]
    /\ client' = [client EXCEPT ![l] = "exited"]
    /\ UNCHANGED <<launch, ticket>>

(* A client is killed: its container goes on. *)
LoseClient(l) ==
    /\ client[l] = "running"
    /\ client' = [client EXCEPT ![l] = "exited"]
    /\ UNCHANGED <<launch, container, ticket>>

(* While it waits, the launcher renews the token; the directory it is in   *)
(* goes with the wait.                                                     *)
Wait(l) ==
    /\ At(l, "wait")
    /\ client[l] = "exited"
    /\ launch' = [launch EXCEPT ![l].pc = IF launch[l].shared THEN "retire" ELSE "sync",
                                ![l].observed = TRUE, ![l].session = FALSE]
    /\ UNCHANGED <<client, container, ticket>>

\* Mutant: the end of the client is taken for that of the container.
MutRetired(l) ==
    /\ Goto(l, "retire", "sync")
    /\ ticket' = [ticket EXCEPT ![l] = "retired"]
    /\ UNCHANGED <<client, container>>

(* The container of a shared worker must be seen to have retired, within   *)
(* 30 seconds.                                                             *)
Retired(l) ==
    /\ container[l] = "exited"
    /\ Goto(l, "retire", "sync")
    /\ ticket' = [ticket EXCEPT ![l] = "retired"]
    /\ UNCHANGED <<client, container>>

(* On Darwin what the sandbox wrote to files is copied back to them. *)
Sync(l) == Goto(l, "sync", "unstage") /\ UNCHANGED <<client, container, ticket>>

-----------------------------------------------------------------------------
(* The end.                                                                *)

Fallible == {"services", "cache", "dolt", "register", "image", "reserve", "prepare", "stage",
             "mounts", "keys", "beads", "command", "spawn", "create", "retire", "sync"}

\* Mutant: a launch that fails with a reservation leaves it to others.
MutCancelled(l, fails) == ticket[l]

(* A reservation that was never handed off is cancelled, unless the state  *)
(* of the store cannot be read or written any more.                        *)
Cancelled(l, fails) ==
    IF launch[l].attempt /\ ticket[l] = "reserved" /\ ~fails THEN "cancelled" ELSE ticket[l]

(* A step fails, and what the launch has built is undone.  The attempt is  *)
(* dropped: when it cannot observe or cancel its reservation it only warns.*)
Fail(l, fails) ==
    /\ launch[l].pc \in Fallible
    /\ launch' = [launch EXCEPT
                    ![l].pc = IF launch[l].staging # {} THEN "unstage"
                              ELSE IF launch[l].registered THEN "unregister" ELSE "complete",
                    ![l].result = "failed", ![l].attempt = FALSE,
                    ![l].warned = launch[l].attempt /\ fails]
    /\ ticket' = [ticket EXCEPT ![l] = Cancelled(l, fails)]
    /\ UNCHANGED <<client, container>>

(* A cleanup that fails goes into the result, and the next one still runs. *)
Cleaned(l, fails) == IF fails THEN "unclean" ELSE launch[l].result

Unstage(l, fails) ==
    /\ At(l, "unstage")
    /\ launch' = [launch EXCEPT ![l].pc = "unregister",
                                ![l].staging = IF fails THEN @ ELSE {},
                                ![l].result = Cleaned(l, fails)]
    /\ UNCHANGED <<client, container, ticket>>

Unregister(l, fails) ==
    /\ At(l, "unregister")
    /\ launch' = [launch EXCEPT ![l].pc = "complete",
                                ![l].registered = fails,
                                ![l].result = Cleaned(l, fails)]
    /\ UNCHANGED <<client, container, ticket>>

(* The services go out of scope before the journal gets the status of the  *)
(* client that was waited for, if there was one.                           *)
Complete(l, fails) ==
    /\ At(l, "complete")
    /\ launch' = [launch EXCEPT
                    ![l].pc = "done", ![l].session = FALSE,
                    ![l].journal = IF fails THEN @
                                   ELSE IF launch[l].observed THEN "status" ELSE "ended"]
    /\ UNCHANGED <<client, container, ticket>>

(* A launcher that is killed undoes nothing. *)
Kill(l) ==
    /\ launch[l].pc \notin {"idle", "done", "killed"}
    /\ launch' = [launch EXCEPT ![l].pc = "killed"]
    /\ UNCHANGED <<client, container, ticket>>

-----------------------------------------------------------------------------
Preparing(l) ==
    \/ \E flag, other \in BOOLEAN : Start(l, flag, other)
    \/ Journal(l) \/ LoadProjectCache(l) \/ LoadDolt(l) \/ Register(l) \/ InstallImage(l)
    \/ Reserve(l) \/ Prepare(l) \/ Stage(l) \/ Command(l)
    \/ \E flag \in BOOLEAN :
         LoadServices(l, flag) \/ Mounts(l, flag) \/ Credentials(l, flag) \/ Beads(l, flag)

Running(l) ==
    \/ Spawn(l) \/ Handoff(l) \/ SpawnShared(l) \/ Exit(l) \/ LoseClient(l)
    \/ Wait(l) \/ Retired(l) \/ Sync(l)

Ending(l) ==
    \/ Kill(l)
    \/ \E fails \in BOOLEAN :
         Fail(l, fails) \/ Unstage(l, fails) \/ Unregister(l, fails) \/ Complete(l, fails)

Next == \E l \in Launchers : Preparing(l) \/ Running(l) \/ Ending(l)

Spec == Init /\ [][Next]_vars

TypeOK ==
    \A l \in Launchers :
        /\ launch[l].staging \subseteq {"root", "mounts", "keys", "beads"}
        /\ launch[l].journal \in {None, "incomplete", "ended", "status"}
        /\ launch[l].result \in {"ok", "failed", "unclean"}
        /\ client[l] \in {None, "running", "exited"}
        /\ container[l] \in {None, "running", "exited"}
        /\ ticket[l] \in {None, "reserved", "cancelled", "handed", "retired"}

(* A launch that returns has undone what it did, or says that it has not:  *)
(* whichever of its steps failed, no key and no token stays on disk, no    *)
(* route stays registered, and a reservation keeps the shared store from   *)
(* collection only while a container may exist for it                      *)
(* (complete_with_cleanup, Staging::with, Attempt::drop).  The exception   *)
(* is a reservation that could not be cancelled: it goes on to keep the    *)
(* store, which a warning says and the result of the launch does not.      *)
LeftoversReported ==
    \A l \in Launchers : At(l, "done") =>
        /\ ~launch[l].session
        /\ launch[l].result # "unclean" => launch[l].staging = {} /\ ~launch[l].registered
        /\ launch[l].result = "ok" => launch[l].journal # "ended"
        /\ ticket[l] = "reserved" => launch[l].warned
        /\ ticket[l] = "retired" => container[l] = "exited"
=============================================================================
