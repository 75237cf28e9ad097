-------------------------- MODULE FocusRegistration --------------------------
(***************************************************************************)
(* Notification routes of launches, in a user's session directory.  A      *)
(* launch registers where it was started from in a file named after the    *)
(* target that it exports.  Launches with the same target share the file   *)
(* and count themselves in it; targets whose file names collide replace    *)
(* each other's registration.  A supervised native command has a target    *)
(* of its own and a lease that ends with its supervisor.  Launchers run    *)
(* concurrently and may be killed at any step.  They lock a file beside    *)
(* the registration, which they open before they wait for its lock, and    *)
(* which a supervisor unlinks when it ends.                                *)
(***************************************************************************)
EXTENDS Integers, FiniteSets

CONSTANTS
    Launchers,  \* launching processes
    Files,      \* file names of registrations
    Names,      \* names that targets of sandboxes with the same file may have
    MaxCount,   \* bound: launches counted in a registration
    MaxUnlinks, \* bound: lock files of a registration that are unlinked
    None

Native == "native"

Targets == [file : Files, name : Names \cup {Native}]

VARIABLES
    record,     \* registration files
    lockfile,   \* which lock file of a registration has the name, by number
    launch,     \* what each launcher does
    collided,   \* targets whose registration another target replaced, as history
    split       \* files whose registration two launchers had locked, as history

vars == <<record, lockfile, launch, collided, split>>

NoLaunch == [pc |-> "idle", target |-> None, leased |-> FALSE, inode |-> 0, seen |-> None]

(* A registration of an earlier version of the program is unreadable. *)
Obsolete == [target |-> None, count |-> 0]

Init ==
    /\ record \in [Files -> {None, Obsolete}]
    /\ lockfile = [f \in Files |-> 0]
    /\ launch = [l \in Launchers |-> NoLaunch]
    /\ collided = {}
    /\ split = {}

-----------------------------------------------------------------------------
Phase(l, pcs) == launch[l].pc \in pcs

(* Processes that export or hold a target. *)
Users(t) == {l \in Launchers : launch[l].target = t}

(* Launchers that have locked the registration of a file, under whichever  *)
(* lock file they have opened: from their read of it to their write.       *)
Holders(f) == {l \in Launchers : Phase(l, {"created", "removed"}) /\ launch[l].target.file = f}

(* A sandbox takes the target of its environment or of its tmux pane: one  *)
(* started by a supervised command has the target of its supervisor.        *)
Start(l, t) ==
    /\ Phase(l, {"idle"})
    /\ t.name = Native => \E k \in Users(t) : launch[k].leased /\ Phase(k, {"active"})
    /\ launch' = [launch EXCEPT ![l] =
                    [NoLaunch EXCEPT !.pc = "create", !.target = t]]
    /\ UNCHANGED <<record, lockfile, collided, split>>

(* A supervised command gets a file of its own. *)
Supervise(l, f) ==
    /\ Phase(l, {"idle"})
    /\ record[f] = None
    /\ \A t \in Targets : t.file = f => Users(t) = {}
    /\ launch' = [launch EXCEPT ![l] = [NoLaunch EXCEPT
                    !.pc = "create", !.leased = TRUE, !.target = [file |-> f, name |-> Native]]]
    /\ split' = split \ {f}
    /\ UNCHANGED <<record, lockfile, collided>>

(* The lock file that has the name is opened, or made; its lock is waited  *)
(* for then, whatever becomes of the name.                                 *)
Open(l, from, to) ==
    /\ Phase(l, {from})
    /\ launch' = [launch EXCEPT ![l].pc = to, ![l].inode = lockfile[launch[l].target.file]]
    /\ UNCHANGED <<record, lockfile, collided, split>>

Reads(l, to, others) ==
    LET f == launch[l].target.file IN
    /\ split' = IF others = {} THEN split ELSE split \cup {f}
    /\ launch' = [launch EXCEPT ![l].pc = to, ![l].seen = record[f]]
    /\ UNCHANGED <<record, lockfile, collided>>

SameLock(k, l) == launch[k].inode = launch[l].inode

\* Mutant: a launcher does not wait for the lock of the file.
MutRead(l, from, to) ==
    /\ Phase(l, {from})
    /\ Reads(l, to, {k \in Holders(launch[l].target.file) : ~SameLock(k, l)})

(* Under the lock of the file it opened, a launcher reads the registration.*)
Read(l, from, to) ==
    /\ Phase(l, {from})
    /\ LET others == Holders(launch[l].target.file) IN
         /\ \A k \in others : ~SameLock(k, l)
         /\ Reads(l, to, others)

(* The same target is counted once more, in the registration it has.       *)
Created(l) ==
    LET r == launch[l].seen IN
    IF r # None /\ r.target = launch[l].target
    THEN [r EXCEPT !.count = @ + 1]
    ELSE [target |-> launch[l].target, count |-> 1]

Create(l) ==
    LET f == launch[l].target.file
        r == Created(l)
        old == launch[l].seen
    IN /\ Phase(l, {"created"})
       /\ r.count <= MaxCount
       /\ record' = [record EXCEPT ![f] = r]
       /\ launch' = [launch EXCEPT ![l].pc = "active", ![l].inode = 0, ![l].seen = None]
       /\ collided' = IF old \in {None, Obsolete} \/ old.target = r.target THEN collided
                      ELSE collided \cup {old.target}
       /\ UNCHANGED <<lockfile, split>>

(* A registration that disappeared or changed is left alone. *)
Removed(l) ==
    LET r == launch[l].seen IN
    IF r = None \/ r.target # launch[l].target THEN r
    ELSE IF r.count > 1 THEN [r EXCEPT !.count = @ - 1] ELSE None

(* A supervisor goes on to its lock file when it has unlocked it. *)
Unregister(l) ==
    LET f == launch[l].target.file IN
    /\ Phase(l, {"removed"})
    /\ record' = [record EXCEPT ![f] = Removed(l)]
    /\ launch' = [launch EXCEPT ![l] =
                    IF launch[l].leased THEN [launch[l] EXCEPT !.pc = "unlink"] ELSE NoLaunch]
    /\ UNCHANGED <<lockfile, collided, split>>

(* Who opened the lock file before keeps it; who opens it from now on gets *)
(* another one.                                                            *)
Unlink(l) ==
    LET f == launch[l].target.file IN
    /\ Phase(l, {"unlink"})
    /\ lockfile[f] < MaxUnlinks
    /\ lockfile' = [lockfile EXCEPT ![f] = @ + 1]
    /\ launch' = [launch EXCEPT ![l] = NoLaunch]
    /\ UNCHANGED <<record, collided, split>>

(* A killed launcher leaves its registration; its locks end with it. *)
Kill(l) ==
    /\ ~Phase(l, {"idle"})
    /\ launch' = [launch EXCEPT ![l] = NoLaunch]
    /\ UNCHANGED <<record, lockfile, collided, split>>

-----------------------------------------------------------------------------
Registering(l) ==
    \/ \E t \in Targets : Start(l, t)
    \/ \E f \in Files : Supervise(l, f)
    \/ Open(l, "create", "creating") \/ Read(l, "creating", "created") \/ Create(l)
    \/ Open(l, "active", "removing") \/ Read(l, "removing", "removed") \/ Unregister(l)
    \/ Unlink(l) \/ Kill(l)

Next == \E l \in Launchers : Registering(l)

Spec == Init /\ [][Next]_vars

Registrations == [target : Targets \cup {None}, count : 0..MaxCount] \cup {None}

TypeOK ==
    /\ record \in [Files -> Registrations]
    /\ lockfile \in [Files -> 0..MaxUnlinks]
    /\ \A l \in Launchers :
         /\ launch[l].pc \in {"idle", "create", "creating", "created", "active", "removing",
                              "removed", "unlink"}
         /\ launch[l].target \in Targets \cup {None}
         /\ launch[l].seen \in Registrations
    /\ collided \subseteq Targets
    /\ split \subseteq Files

(* A registration counts at least the launches that live: none of them     *)
(* loses its route when another one that shares its target ends, its       *)
(* supervisor included (FocusRegistration).  The exceptions are targets    *)
(* with colliding file names, which the code warns about, and a            *)
(* registration that two launchers have changed at once under different    *)
(* lock files, because a supervisor unlinked the one that the first of     *)
(* them had opened.                                                        *)
RegistrationHeld ==
    \A l \in Launchers :
        LET t == launch[l].target
            r == record[t.file]
        IN (Phase(l, {"active"}) /\ t \notin collided /\ t.file \notin split)
             => /\ r # None /\ r.target = t
                /\ r.count >= Cardinality({k \in Users(t) :
                                 Phase(k, {"active", "removing", "removed"})})
=============================================================================
