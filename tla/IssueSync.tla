------------------------------- MODULE IssueSync -------------------------------
(***************************************************************************)
(* Session-close synchronisation of a workspace's issues, "wrix beads      *)
(* push".  Issues leave a machine on a Git branch that carries a Dolt file *)
(* remote: a manifest that names a root, and immutable tables.  The host   *)
(* and a guest of the machine push the database to the remote, commit the  *)
(* beads worktree, rebase it on what others published and push it.         *)
(*                                                                         *)
(* In a "repository" workspace Dolt pushes into the worktree itself.  In a *)
(* "managed" one the shared service pushes to a private remote and copies  *)
(* it into the worktree, the projection, one request at a time (sync.lock) *)
(* while Git runs under another lock (git-sync.lock), host and guest each  *)
(* with a Git administration of its own over the one worktree.             *)
(*                                                                         *)
(* A root is the set of commits it reaches.  A client or the service may   *)
(* die anywhere; the service does not notice that its client is gone.      *)
(***************************************************************************)
EXTENDS Integers, Sequences, SequencesExt

CONSTANTS
    Callers,    \* "host" and, if there is one, "guest": at least "host"
    Commits,    \* what anybody may ever write to an issue
    MaxPushes,  \* bound on the length of the published branch
    None

VARIABLES
    mode,       \* "repository" or "managed"
    db,         \* root of the database
    native,     \* the private remote
    access,     \* access.json lets clients sync
    op,         \* the request that holds sync.lock, or None
    tree,       \* .beads/dolt-remote of the worktree
    valid,      \* the worktree is one Git accepts
    recovery,   \* the remote set aside while the worktree is recreated
    gitlock,    \* holder of git-sync.lock
    admin,      \* Callers -> Git administration of the worktree
    github,     \* trees of the published branch, oldest first
    published,  \* commits that were ever published, as history
    pc,
    listed      \* Callers -> tables found by an unfinished git add

service == <<mode, db, native, access, op>>
worktree == <<tree, valid, recovery>>
git == <<admin, github, published>>
vars == <<service, worktree, git, gitlock, pc, listed>>

(* The root of a manifest that Git merged two histories into. *)
Garbled == {None}

Empty == [root |-> {}, tables |-> {}]

Whole(r) == r.root # Garbled /\ r.root \subseteq r.tables

(* In a repository host and guest share the administration. *)
Admin(c) == IF mode = "managed" THEN c ELSE "host"

Init ==
    /\ mode \in {"repository", "managed"}
    /\ db = {} /\ native = Empty /\ tree = Empty /\ github = <<Empty>>
    /\ access = (mode = "managed")
    /\ op = None
    /\ valid = TRUE /\ recovery = None
    /\ gitlock = None
    /\ admin = [c \in Callers |-> [base |-> 1, local |-> None, stuck |-> FALSE]]
    /\ published = {}
    /\ pc = [c \in Callers |-> "idle"]
    /\ listed = [c \in Callers |-> {}]

Goto(c, l) == pc' = [pc EXCEPT ![c] = l]

(* The command ends, however it ends, and its lock goes with it. *)
Ends(c) ==
    /\ Goto(c, "idle")
    /\ gitlock' = IF gitlock = c THEN None ELSE gitlock
    /\ listed' = [listed EXCEPT ![c] = {}]

(* A session writes an issue; bd commits it before anything is pushed.     *)
Write(i) ==
    /\ i \notin db \cup published
    /\ db' = db \cup {i}
    /\ UNCHANGED <<mode, native, access, op, worktree, git, gitlock, pc, listed>>

(* Another machine that has all that was published publishes more.         *)
Elsewhere(i) ==
    /\ i \notin db \cup published /\ Len(github) < MaxPushes
    /\ Whole(Last(github))
    /\ github' = Append(github, [root |-> Last(github).root \cup {i},
                                 tables |-> Last(github).tables \cup {i}])
    /\ published' = published \cup {i}
    /\ UNCHANGED <<service, worktree, admin, gitlock, pc, listed>>

\* Mutant: what an interrupted recovery set aside is forgotten.
MutBegin(c) ==
    /\ pc[c] = "idle"
    /\ mode = "repository" => \A d \in Callers : pc[d] = "idle"
    /\ recovery' = None
    /\ Goto(c, "push")
    /\ UNCHANGED <<service, tree, valid, git, gitlock, listed>>

(* What an interrupted recovery set aside is put back first.  A repository *)
(* has no lock: its sessions are taken to close one at a time.             *)
Begin(c) ==
    /\ pc[c] = "idle"
    /\ mode = "repository" => \A d \in Callers : pc[d] = "idle"
    /\ tree' = IF recovery = None THEN tree ELSE recovery
    /\ recovery' = None
    /\ Goto(c, "push")
    /\ UNCHANGED <<service, valid, git, gitlock, listed>>

-----------------------------------------------------------------------------
(* Dolt in a repository: the remote is the worktree's.                     *)

(* The first push is tried before any pull; the one after a pull is final. *)
Push(c) ==
    /\ mode = "repository" /\ pc[c] \in {"push", "again"}
    /\ Whole(tree) /\ tree.root \subseteq db
    /\ tree' = [root |-> db, tables |-> tree.tables \cup db]
    /\ Goto(c, "git")
    /\ UNCHANGED <<service, valid, recovery, git, gitlock, listed>>

NotFastForward(c) ==
    /\ mode = "repository" /\ pc[c] = "push"
    /\ Whole(tree) /\ ~(tree.root \subseteq db)
    /\ Goto(c, "pull")
    /\ UNCHANGED <<service, worktree, git, gitlock, listed>>

(* A merge that changed what this session meant is kept but not pushed:    *)
(* the command then ends.                                                  *)
Pull(c) ==
    /\ mode = "repository" /\ pc[c] = "pull"
    /\ Whole(tree)
    /\ db' = db \cup tree.root
    /\ Goto(c, "again") \/ (db # {} /\ Goto(c, "idle"))
    /\ UNCHANGED <<mode, native, access, op, worktree, git, gitlock, listed>>

-----------------------------------------------------------------------------
(* Dolt in a managed workspace: the service, one request at a time.        *)

Requests(kind, c) ==
    /\ mode = "managed" /\ access /\ op = None
    /\ op' = [kind |-> kind, by |-> c, step |-> IF kind = "push" THEN "dolt" ELSE "tables"]
    /\ UNCHANGED <<mode, db, native, access, worktree, git, gitlock, listed>>

Request(c) ==
    \/ pc[c] = "push" /\ Requests("push", c) /\ Goto(c, "pushing")
    \/ pc[c] = "pull" /\ Requests("pull", c) /\ Goto(c, "pulling")
    \/ pc[c] = "again" /\ Requests("push", c) /\ Goto(c, "repushing")

(* wrix service dolt sync-push and sync-pull, by themselves.               *)
Sync ==
    /\ \E kind \in {"push", "pull"} : Requests(kind, None)
    /\ UNCHANGED pc

(* Where an answer takes the client that waits for it.                     *)
After(wait, answer) ==
    CASE answer = "rejected" /\ wait = "pushing" -> "pull"
      [] answer = "applied" /\ wait = "pulling" -> "again"
      [] answer = "applied" /\ wait # "pulling" -> "git"
      [] OTHER -> "idle"

Replies(answer) ==
    /\ op' = None
    /\ pc' = [c \in Callers |->
                IF c = op.by /\ pc[c] \in {"pushing", "pulling", "repushing"}
                THEN After(pc[c], answer) ELSE pc[c]]

InHand(kind, step) == op # None /\ op.kind = kind /\ op.step = step

Step(step) == op' = [op EXCEPT !.step = step] /\ UNCHANGED pc

(* DOLT_PUSH knows only the private remote.                                *)
DoltPush ==
    /\ InHand("push", "dolt")
    /\ IF native.root \subseteq db
       THEN native' = [root |-> db, tables |-> native.tables \cup db] /\ Step("tables")
       ELSE UNCHANGED native /\ Replies("rejected")
    /\ UNCHANGED <<mode, db, access, worktree, git, gitlock, listed>>

(* Tables first, the manifest last.                                        *)
PublishTables ==
    /\ InHand("push", "tables")
    /\ tree' = [tree EXCEPT !.tables = @ \cup native.tables]
    /\ Step("manifest")
    /\ UNCHANGED <<mode, db, native, access, valid, recovery, git, gitlock, listed>>

PublishManifest ==
    /\ InHand("push", "manifest")
    /\ IF native.root \subseteq tree.tables
       THEN tree' = [tree EXCEPT !.root = native.root] /\ Replies("applied")
       ELSE UNCHANGED tree /\ Replies("failed")
    /\ UNCHANGED <<mode, db, native, access, valid, recovery, git, gitlock, listed>>

ImportTables ==
    /\ InHand("pull", "tables")
    /\ native' = [native EXCEPT !.tables = @ \cup tree.tables]
    /\ Step("manifest")
    /\ UNCHANGED <<mode, db, access, worktree, git, gitlock, listed>>

(* The very bytes that are committed are checked against the tables.       *)
ImportManifest ==
    /\ InHand("pull", "manifest")
    /\ IF tree.root # Garbled /\ tree.root \subseteq native.tables
       THEN native' = [native EXCEPT !.root = tree.root] /\ Step("dolt")
       ELSE UNCHANGED native /\ Replies("failed")
    /\ UNCHANGED <<mode, db, access, worktree, git, gitlock, listed>>

(* The client may find that the merge changed what its session meant.      *)
DoltPull ==
    /\ InHand("pull", "dolt")
    /\ db' = db \cup native.root
    /\ Replies("applied") \/ Replies("failed")
    /\ UNCHANGED <<mode, native, access, worktree, git, gitlock, listed>>

(* The service dies, or a query runs into its limit.                       *)
ServiceFails ==
    /\ op # None
    /\ Replies("failed")
    /\ UNCHANGED <<mode, db, native, access, worktree, git, gitlock, listed>>

(* Retirement and registration take sync.lock as well.                     *)
Access ==
    /\ mode = "managed" /\ op = None
    /\ access' \in BOOLEAN
    /\ UNCHANGED <<mode, db, native, op, worktree, git, gitlock, pc, listed>>

-----------------------------------------------------------------------------
(* Git.                                                                    *)

Checkout(c) == LET a == admin[Admin(c)] IN IF a.local # None THEN a.local ELSE github[a.base]

Lock(c) ==
    /\ pc[c] = "git"
    /\ IF mode = "managed" THEN gitlock = None /\ gitlock' = c ELSE UNCHANGED gitlock
    /\ Goto(c, IF valid THEN "add" ELSE "stage")
    /\ UNCHANGED <<service, worktree, git, listed>>

(* An invalid worktree is made anew from the branch, but its remote, which *)
(* may be ahead of the branch, is set aside and put back.                  *)
Stage(c) ==
    /\ pc[c] = "stage" /\ recovery = None
    /\ recovery' = tree
    /\ tree' = Empty
    /\ Goto(c, "recreate")
    /\ UNCHANGED <<service, valid, git, gitlock, listed>>

Recreate(c) ==
    /\ pc[c] = "recreate"
    /\ tree' = Checkout(c)
    /\ valid' = TRUE
    /\ Goto(c, "restore")
    /\ UNCHANGED <<service, recovery, git, gitlock, listed>>

Restore(c) ==
    /\ pc[c] = "restore"
    /\ tree' = recovery
    /\ recovery' = None
    /\ Goto(c, "add")
    /\ UNCHANGED <<service, valid, git, gitlock, listed>>

(* git add finds the files and then reads them: tables never change, the   *)
(* manifest does.                                                          *)
Add(c) ==
    /\ pc[c] \in {"add", "add again"}
    /\ listed' = [listed EXCEPT ![c] = tree.tables]
    /\ Goto(c, IF pc[c] = "add" THEN "commit" ELSE "commit again")
    /\ UNCHANGED <<service, worktree, git, gitlock>>

Commit(c) ==
    LET found == [root |-> tree.root, tables |-> listed[c]] IN
    /\ pc[c] \in {"commit", "commit again"}
    /\ admin' = [admin EXCEPT ![Admin(c)].local = IF found = Checkout(c) THEN @ ELSE found]
    /\ listed' = [listed EXCEPT ![c] = {}]
    /\ Goto(c, IF pc[c] = "commit" THEN "rebase" ELSE "publish")
    /\ UNCHANGED <<service, worktree, github, published, gitlock>>

(* A rebase wants a clean worktree and none that is unfinished.  Without   *)
(* commits of its own the worktree follows the branch.                     *)
Rebases(c) ==
    /\ pc[c] = "rebase" /\ ~admin[Admin(c)].stuck
    /\ tree = Checkout(c)
    /\ UNCHANGED <<service, valid, recovery, github, published>>

Follow(c) ==
    /\ Rebases(c)
    /\ admin[Admin(c)].base = Len(github) \/ admin[Admin(c)].local = None
    /\ admin' = [admin EXCEPT ![Admin(c)].base = Len(github)]
    /\ tree' = IF admin[Admin(c)].local = None THEN Last(github) ELSE tree
    /\ Goto(c, "add again")
    /\ UNCHANGED <<gitlock, listed>>

(* Tables merge; the manifest, if only one side changed it or both alike.  *)
Rebase(c) ==
    LET a == admin[Admin(c)]
        base == github[a.base]
        upstream == Last(github)
        merged == [root |-> IF a.local.root = base.root THEN upstream.root ELSE a.local.root,
                   tables |-> a.local.tables \cup upstream.tables]
    IN
    /\ Rebases(c)
    /\ a.local # None /\ a.base < Len(github)
    /\ IF merged.root = upstream.root \/ upstream.root = base.root
       THEN /\ admin' = [admin EXCEPT ![Admin(c)].base = Len(github),
                              ![Admin(c)].local = IF merged = upstream THEN None ELSE merged]
            /\ tree' = merged
            /\ Goto(c, "add again")
            /\ UNCHANGED <<gitlock, listed>>
       ELSE /\ admin' = [admin EXCEPT ![Admin(c)].stuck = TRUE]
            /\ tree' = [merged EXCEPT !.root = Garbled]
            /\ Ends(c)

(* GitHub takes a fast-forward only.                                       *)
Publish(c) ==
    LET a == admin[Admin(c)] IN
    /\ pc[c] = "publish"
    /\ IF a.local # None /\ a.base = Len(github)
       THEN /\ Len(github) < MaxPushes
            /\ github' = Append(github, a.local)
            /\ published' = published \cup a.local.root
            /\ admin' = [admin EXCEPT ![Admin(c)].base = @ + 1, ![Admin(c)].local = None]
       ELSE UNCHANGED git
    /\ Ends(c)
    /\ UNCHANGED <<service, worktree>>

(* The operator settles a stopped rebase for what was published.           *)
Resolve(c) ==
    /\ admin[c].stuck /\ \A d \in Callers : pc[d] = "idle"
    /\ admin' = [admin EXCEPT ![c] = [base |-> Len(github), local |-> None, stuck |-> FALSE]]
    /\ tree' = Last(github)
    /\ UNCHANGED <<service, valid, recovery, github, published, gitlock, pc, listed>>

-----------------------------------------------------------------------------
(* Failures.                                                               *)

(* A step fails or is refused, the client times out or dies: the request   *)
(* it waits for goes on.                                                   *)
Fail(c) ==
    /\ pc[c] # "idle"
    /\ Ends(c)
    /\ UNCHANGED <<service, worktree, git>>

(* The worktree's registration is pruned behind its back.                  *)
Invalidate ==
    /\ mode = "repository" /\ valid
    /\ valid' = FALSE
    /\ UNCHANGED <<service, tree, recovery, git, gitlock, pc, listed>>

ServiceStep ==
    \/ Sync \/ DoltPush \/ PublishTables \/ PublishManifest \/ ImportTables
    \/ ImportManifest \/ DoltPull \/ ServiceFails \/ Access

CallerStep(c) ==
    \/ Begin(c) \/ Push(c) \/ NotFastForward(c) \/ Pull(c) \/ Request(c)
    \/ Lock(c) \/ Stage(c) \/ Recreate(c) \/ Restore(c) \/ Add(c) \/ Commit(c)
    \/ Follow(c) \/ Rebase(c) \/ Publish(c) \/ Resolve(c) \/ Fail(c)

Next ==
    \/ ServiceStep \/ Invalidate
    \/ \E i \in Commits : Write(i) \/ Elsewhere(i)
    \/ \E c \in Callers : CallerStep(c)

Spec == Init /\ [][Next]_vars

-----------------------------------------------------------------------------
(* Whatever Git brings into the projection, and wherever a copy stops, the *)
(* private remote Dolt works on names no table it has not got.             *)
NativeWhole == Whole(native)

Remote == IF recovery = None THEN tree ELSE recovery

Kept(r, s) == r = Garbled \/ s = Garbled \/ r \subseteq s

(* In a repository neither the remote nor the published branch ever loses  *)
(* a commit: not by a recovery that is interrupted, a rebase or a retry.   *)
(* The private remote of a managed workspace always names what it has.     *)
RemotesLoseNothing ==
    [][/\ NativeWhole'
       /\ mode = "repository" => /\ Kept(Remote.root, Remote'.root)
                                /\ Kept(Last(github).root, Last(github').root)]_vars

(* What was published once stays published: a push falls back to pulling   *)
(* when the remote has advanced.                                           *)
PublishedSurvives == published \subseteq Last(github).root
=============================================================================
