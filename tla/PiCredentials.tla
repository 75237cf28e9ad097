---------------------------- MODULE PiCredentials ----------------------------
(***************************************************************************)
(* The credentials of the Pi agent.  Pi keeps them in one file, and locks  *)
(* it while it reads and writes it.  A sandbox can mount only a directory: *)
(* the first launch moves the file into a directory of its own and leaves  *)
(* a symbolic link, while other launches do the same, a native Pi may be   *)
(* at work, and the launch may die between any two steps.                  *)
(***************************************************************************)
EXTENDS FiniteSets

CONSTANTS
    Launchers,
    Natives,        \* Pi processes of the host, which use the selected path
    Guests,         \* Pi processes in sandboxes, which use the mounted file
    Tokens,         \* credentials that someone logs in for
    None

VARIABLES
    path,       \* what the selected path is, with the credentials in it
    target,     \* what the mounted directory has for a file
    locked,     \* the locks of Pi: beside the path, and beside the target
    migrating,  \* the launcher that holds the lock of the migration
    launch,     \* what each launcher does
    agent,      \* what each Pi does
    written,    \* credentials that a Pi has written, as history
    overtaken   \* a Pi began after a migration had looked for it, as history

vars == <<path, target, locked, migrating, launch, agent, written, overtaken>>

Absent == [kind |-> "none", has |-> {}]

File(has) == [kind |-> "file", has |-> has]

Link == [kind |-> "link", has |-> {}]

NoAgent == [pc |-> "idle", lock |-> None, has |-> {}]

Agents == Natives \cup Guests

Init ==
    /\ path \in {Absent} \cup {File(S) : S \in SUBSET Tokens}
    /\ target = Absent
    /\ locked = [k \in {"path", "store"} |-> None]
    /\ migrating = None
    /\ launch = [l \in Launchers |-> "idle"]
    /\ agent = [a \in Agents |-> NoAgent]
    /\ written = path.has
    /\ overtaken = FALSE

-----------------------------------------------------------------------------
(* A launch.                                                               *)

Goto(l, from, to) ==
    /\ launch[l] = from
    /\ launch' = [launch EXCEPT ![l] = to]

(* The directory is mounted if its file is a regular one.                  *)
Opened == IF target.kind = "file" THEN "mounted" ELSE "idle"

(* A path that is linked already is used as it is.                         *)
Prepare(l, create) ==
    /\ Goto(l, "idle",
            IF path.kind = "link" THEN Opened
            ELSE IF path.kind = "none" /\ target.kind = "none" /\ ~create THEN "idle"
            ELSE "lock")
    /\ UNCHANGED <<path, target, migrating>>

Lock(l) ==
    /\ migrating = None
    /\ Goto(l, "lock", "check")
    /\ migrating' = l
    /\ UNCHANGED <<path, target>>

Unlock(l) == migrating' = None

(* Another launch has made the link meanwhile, or a Pi is at work. *)
Settled(l) ==
    /\ path.kind = "link" \/ locked["path"] # None
    /\ Goto(l, "check", IF path.kind = "link" THEN Opened ELSE "idle")
    /\ Unlock(l)
    /\ UNCHANGED <<path, target>>

Check(l) ==
    /\ path.kind # "link" /\ locked["path"] = None
    /\ Goto(l, "check", "move")
    /\ UNCHANGED <<path, target, migrating>>

(* Two files are for the user to merge. *)
Conflict(l) ==
    /\ path.kind # "none" /\ target.kind # "none"
    /\ Goto(l, "move", "idle")
    /\ Unlock(l)
    /\ UNCHANGED <<path, target>>

\* Mutant: a file at the path is moved over what an interrupted migration left.
MutMove(l) ==
    /\ Goto(l, "move", "link")
    /\ path' = Absent
    /\ target' = IF path.kind # "none" THEN path
                 ELSE IF target.kind # "none" THEN target ELSE File({})
    /\ UNCHANGED migrating

(* The file is moved, or a migration that died after the move is taken up, *)
(* or there are no credentials yet.                                        *)
Move(l) ==
    /\ path.kind = "none" \/ target.kind = "none"
    /\ Goto(l, "move", "link")
    /\ path' = Absent
    /\ target' = IF path.kind # "none" THEN path
                 ELSE IF target.kind # "none" THEN target ELSE File({})
    /\ UNCHANGED migrating

(* The link takes the place only of nothing. *)
MakeLink(l) ==
    /\ Goto(l, "link", IF path.kind = "none" THEN "mounted" ELSE "idle")
    /\ path' = IF path.kind = "none" THEN Link ELSE path
    /\ Unlock(l)
    /\ UNCHANGED target

(* A launch ends, or dies: the system releases its lock. *)
End(l) ==
    /\ launch[l] # "idle"
    /\ launch' = [launch EXCEPT ![l] = "idle"]
    /\ migrating' = IF migrating = l THEN None ELSE migrating
    /\ UNCHANGED <<path, target>>

-----------------------------------------------------------------------------
(* A Pi process.                                                           *)

(* The lock is beside what the path resolves to, and it needs a file.      *)
Place(a) == IF a \in Guests \/ path.kind = "link" THEN "store" ELSE "path"

Take(a) ==
    /\ agent[a].pc = "idle"
    /\ a \in Guests => \E l \in Launchers : launch[l] = "mounted"
    /\ locked[Place(a)] = None
    /\ locked' = [locked EXCEPT ![Place(a)] = a]
    /\ agent' = [agent EXCEPT ![a] = [NoAgent EXCEPT !.pc = "read", !.lock = Place(a)]]
    /\ path' = IF Place(a) = "path" /\ path.kind = "none" THEN File({}) ELSE path
    /\ overtaken' =
         (overtaken \/ (Place(a) = "path" /\ \E l \in Launchers : launch[l] = "move"))
    /\ UNCHANGED <<target, written>>

Read(a) ==
    /\ agent[a].pc = "read"
    /\ agent' = [agent EXCEPT ![a].pc = "write",
                              ![a].has = IF Place(a) = "store" THEN target.has ELSE path.has]
    /\ UNCHANGED <<path, target, locked, written, overtaken>>

(* What was read is written back with what the login has brought. *)
Write(a, e) ==
    /\ agent[a].pc = "write"
    /\ e \notin written
    /\ IF Place(a) = "store"
       THEN target' = File(agent[a].has \cup {e}) /\ UNCHANGED path
       ELSE path' = File(agent[a].has \cup {e}) /\ UNCHANGED target
    /\ written' = written \cup {e}
    /\ agent' = [agent EXCEPT ![a].pc = "unlock"]
    /\ UNCHANGED <<locked, overtaken>>

(* A Pi is done, or is interrupted between its steps. *)
Leave(a) ==
    /\ agent[a].pc # "idle"
    /\ locked' = [k \in DOMAIN locked |-> IF locked[k] = a THEN None ELSE locked[k]]
    /\ agent' = [agent EXCEPT ![a] = NoAgent]
    /\ UNCHANGED <<path, target, written, overtaken>>

-----------------------------------------------------------------------------
Launch(l) ==
    /\ \/ \E create \in BOOLEAN : Prepare(l, create)
       \/ Lock(l) \/ Settled(l) \/ Check(l) \/ Conflict(l) \/ Move(l) \/ MakeLink(l) \/ End(l)
    /\ UNCHANGED <<locked, agent, written, overtaken>>

Login(a) ==
    /\ Take(a) \/ Read(a) \/ (\E e \in Tokens : Write(a, e)) \/ Leave(a)
    /\ UNCHANGED <<migrating, launch>>

Next == (\E l \in Launchers : Launch(l)) \/ (\E a \in Agents : Login(a))

Spec == Init /\ [][Next]_vars

TypeOK ==
    /\ path.kind \in {"none", "file", "link"} /\ path.has \subseteq Tokens
    /\ target.kind \in {"none", "file", "link"} /\ target.has \subseteq Tokens
    /\ locked \in [{"path", "store"} -> Agents \cup {None}]
    /\ migrating \in Launchers \cup {None}
    /\ launch \in [Launchers -> {"idle", "lock", "check", "move", "link", "mounted"}]
    /\ written \subseteq Tokens

(* No credential is lost, and once the path is a link every one of them is *)
(* in the file that the sandboxes share, however launches, deaths and      *)
(* logins interleave.  Only a Pi that takes its lock between the look for  *)
(* that lock and the move may lose one (Storage::prepare).                 *)
CredentialsKept ==
    \/ overtaken
    \/ written \subseteq target.has \cup (IF path.kind = "link" THEN {} ELSE path.has)
=============================================================================
