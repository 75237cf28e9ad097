----------------------------- MODULE DoltAdoption -----------------------------
(***************************************************************************)
(* The adoption of a workspace's own Dolt database and beads worktree by   *)
(* the shared service: "wrix service start" in a workspace with issues.    *)
(*                                                                         *)
(* The database is moved out of the repository under the native writer     *)
(* lock, copied to fresh files, exported and restored into the shared      *)
(* server; the worktree is moved next to it and given a private Git        *)
(* administration.  One adopter works at a time (sync.lock, held with the  *)
(* registration), may be killed between any two steps and is then run      *)
(* again.  Legacy programs use database and worktree by their old paths    *)
(* until these are gone, and may create a new database there.              *)
(***************************************************************************)
EXTENDS Integers, FiniteSets

CONSTANTS
    Writers,    \* legacy processes that use the database
    Commits,    \* what anybody may commit to the database
    Edits,      \* changes of files in the worktree
    None

VARIABLES
    original,   \* where the database's directory is, and its commits
    stray,      \* commits of another database at the old path, or None
    open,       \* legacy writers that hold the directory's native lock
    phase,      \* source.json
    snapshot,   \* the private copy: commits and whether it is complete
    backup,     \* registration-backup, likewise
    record,     \* the registration's phase
    db,         \* the shared server's database, likewise
    enabled,    \* access.json lets clients use it
    place,      \* where the worktree's directory is
    files,      \* Edits -> how far the change got in the legacy worktree
    import,     \* the private import of the Git administration
    host,       \* the private Git administration, or None
    fresh,      \* the marker of a worktree that is checked out anew
    pc

database == <<original, stray, open>>
service == <<phase, snapshot, backup, record, db, enabled>>
worktree == <<place, files, import, host, fresh>>
vars == <<database, service, worktree, pc>>

Nothing == [items |-> {}, whole |-> FALSE]

Is(level) == {e \in Edits : files[e] = level}

(* A workspace with a legacy database, with or without a worktree. *)
Init ==
    /\ original = [at |-> "source", items |-> {}]
    /\ stray = None /\ open = {}
    /\ phase = None /\ snapshot = None /\ backup = None
    /\ record = None /\ db = None /\ enabled = FALSE
    /\ place \in {"source", None}
    /\ files = [e \in Edits |-> "none"]
    /\ import = None /\ host = None /\ fresh = FALSE
    /\ pc = "idle"

Goto(l) == pc' = l

-----------------------------------------------------------------------------
(* Legacy programs.                                                        *)

(* The adopter holds the native lock from here until its attempt ends.     *)
Guarded == pc \notin {"idle", "lock", "register", "restore", "imported", "provision"}

Open(w) ==
    /\ original.at = "source" /\ open = {} /\ ~Guarded
    /\ open' = {w}
    /\ UNCHANGED <<original, stray, service, worktree, pc>>

Write(w, i) ==
    /\ w \in open
    /\ original' = [original EXCEPT !.items = @ \cup {i}]
    /\ UNCHANGED <<stray, open, service, worktree, pc>>

Close(w) ==
    /\ w \in open
    /\ open' = {}
    /\ UNCHANGED <<original, stray, service, worktree, pc>>

(* A stale launcher finds no database and creates one, or an operator      *)
(* takes that one away.                                                    *)
Stray ==
    /\ original.at # "source" /\ record # "ready"
    /\ stray' = IF stray = None THEN {} ELSE None
    /\ UNCHANGED <<original, open, service, worktree, pc>>

Edit(e) ==
    /\ place = "source"
    /\ files[e] # "committed"
    /\ files' = [files EXCEPT ![e] = CASE @ = "none" -> "changed" [] @ = "changed" -> "staged"
                                       [] @ = "staged" -> "committed"]
    /\ UNCHANGED <<database, service, place, import, host, fresh, pc>>

-----------------------------------------------------------------------------
(* The source: prepare_source.                                             *)

(* With a record the source is not looked at any more.                     *)
Begin ==
    /\ pc = "idle"
    /\ Goto(IF record = None THEN "lock" ELSE "worktree")
    /\ UNCHANGED <<database, service, worktree>>

Ambiguous == stray # None /\ original.at = "checkpoint"

SourceBusy ==
    /\ pc = "lock" /\ (Ambiguous \/ open # {})
    /\ Goto("idle")
    /\ UNCHANGED <<database, service, worktree>>

\* Mutant: the native lock is not asked for.
MutLock ==
    /\ pc = "lock" /\ ~Ambiguous
    /\ Goto(IF original.at = "source" THEN "moving" ELSE "checkpointed")
    /\ UNCHANGED <<database, service, worktree>>

Lock ==
    /\ pc = "lock" /\ ~Ambiguous /\ open = {}
    /\ Goto(IF original.at = "source" THEN "moving" ELSE "checkpointed")
    /\ UNCHANGED <<database, service, worktree>>

Moving ==
    /\ pc = "moving"
    /\ phase' = "moving"
    /\ Goto("move")
    /\ UNCHANGED <<database, snapshot, backup, record, db, enabled, worktree>>

(* The locked inode goes with the directory.                               *)
Move ==
    /\ pc = "move"
    /\ original' = [original EXCEPT !.at = "checkpoint"]
    /\ Goto("checkpointed")
    /\ UNCHANGED <<stray, open, service, worktree>>

Checkpointed ==
    /\ pc = "checkpointed"
    /\ phase' = "checkpointed"
    /\ Goto(IF snapshot = None \/ ~snapshot.whole THEN "copy" ELSE "export")
    /\ UNCHANGED <<database, snapshot, backup, record, db, enabled, worktree>>

(* What an interrupted copy left is thrown away.                           *)
Copy ==
    /\ pc = "copy"
    /\ snapshot' = Nothing
    /\ Goto("copied")
    /\ UNCHANGED <<database, phase, backup, record, db, enabled, worktree>>

(* A complete copy gets its name at once. *)
Copied ==
    /\ pc = "copied"
    /\ snapshot' = [items |-> original.items, whole |-> TRUE]
    /\ Goto("export")
    /\ UNCHANGED <<database, phase, backup, record, db, enabled, worktree>>

(* dolt backup is incremental: it goes on where an earlier one was killed. *)
Export ==
    /\ pc = "export"
    /\ backup' = [items |-> {}, whole |-> FALSE]
    /\ Goto("exported")
    /\ UNCHANGED <<database, phase, snapshot, record, db, enabled, worktree>>

Exported ==
    /\ pc = "exported"
    /\ backup' = snapshot
    /\ phase' = "exported"
    /\ Goto("worktree")
    /\ UNCHANGED <<database, snapshot, record, db, enabled, worktree>>

-----------------------------------------------------------------------------
(* The worktree: migrate_worktree.  Its entries are moved one by one when  *)
(* it is checked out anew: "partial" stands for a directory with some.     *)

AdministrationDone ==
    /\ pc = "worktree" /\ host # None
    /\ Goto("register")
    /\ UNCHANGED <<database, service, worktree>>

MoveWorktree ==
    /\ pc = "worktree" /\ host = None
    /\ place' = IF place = "source" THEN "destination" ELSE place
    /\ Goto("clone")
    /\ UNCHANGED <<database, service, files, import, host, fresh>>

(* A killed clone must never be mistaken for a complete import.            *)
Clone ==
    /\ pc = "clone"
    /\ import' = IF import = None \/ ~import.whole THEN [items |-> {}, whole |-> FALSE] ELSE import
    /\ Goto("cloned")
    /\ UNCHANGED <<database, service, place, files, host, fresh>>

Cloned ==
    /\ pc = "cloned"
    /\ import' = IF import.whole THEN import ELSE [items |-> Is("committed"), whole |-> TRUE]
    /\ Goto(IF place = "destination" /\ ~fresh THEN "index" ELSE "fresh")
    /\ UNCHANGED <<database, service, place, files, host, fresh>>

(* The objects that only the index names come along. *)
IndexEntries == Is("staged")

(* The legacy index, with what was staged, is copied before the pointer to *)
(* it is replaced.                                                         *)
Index ==
    /\ pc = "index"
    /\ import' = [import EXCEPT !.items = @ \cup IndexEntries]
    /\ Goto("administration")
    /\ UNCHANGED <<database, service, place, files, host, fresh>>

Fresh ==
    /\ pc = "fresh"
    /\ fresh' = TRUE
    /\ Goto("checkout")
    /\ UNCHANGED <<database, service, place, files, import, host>>

(* A checkout restores every entry, and a directory cannot be moved over   *)
(* one that has entries.                                                   *)
Collides ==
    /\ pc = "checkout" /\ place = "partial"
    /\ Goto("idle")
    /\ UNCHANGED <<database, service, worktree>>

Checkout ==
    /\ pc = "checkout" /\ place = None
    /\ place' = "partial"
    /\ Goto("checked out")
    /\ UNCHANGED <<database, service, files, import, host, fresh>>

CheckedOut ==
    /\ pc = "checked out"
    /\ Goto("administration")
    /\ UNCHANGED <<database, service, worktree>>

Administration ==
    /\ pc = "administration"
    /\ host' = import.items
    /\ place' = "destination"
    /\ Goto("register")
    /\ UNCHANGED <<database, service, files, import, fresh>>

-----------------------------------------------------------------------------
(* The registration: register.                                             *)

(* An interrupted restore is never retried over an existing database.      *)
Incomplete ==
    /\ pc = "register"
    /\ record = "restoring"
    /\ Goto("idle")
    /\ UNCHANGED <<database, service, worktree>>

Register ==
    /\ pc = "register" /\ record = None /\ db = None /\ backup # None
    /\ record' = "restoring"
    /\ Goto("restore")
    /\ UNCHANGED <<database, phase, snapshot, backup, db, enabled, worktree>>

Restore ==
    /\ pc = "restore"
    /\ db' = [items |-> {}, whole |-> FALSE]
    /\ Goto("imported")
    /\ UNCHANGED <<database, phase, snapshot, backup, record, enabled, worktree>>

(* The server goes on restoring when its client is gone. *)
Restores ==
    /\ db # None /\ ~db.whole /\ record = "restoring"
    /\ db' = backup
    /\ UNCHANGED <<database, phase, snapshot, backup, record, enabled, worktree, pc>>

Imported ==
    /\ pc = "imported" /\ db.whole
    /\ record' = "imported"
    /\ Goto("provision")
    /\ UNCHANGED <<database, phase, snapshot, backup, db, enabled, worktree>>

Registered ==
    /\ pc = "register" /\ record \in {"imported", "ready"}
    /\ Goto("provision")
    /\ UNCHANGED <<database, service, worktree>>

Provision ==
    /\ pc = "provision"
    /\ record' = "ready"
    /\ Goto("enable")
    /\ UNCHANGED <<database, phase, snapshot, backup, db, enabled, worktree>>

Enable ==
    /\ pc = "enable"
    /\ enabled' = TRUE
    /\ Goto("idle")
    /\ UNCHANGED <<database, phase, snapshot, backup, record, db, worktree>>

(* wrix service stop closes the namespace; it stays registered.            *)
RetireAccess ==
    /\ pc = "idle" /\ record \notin {None, "restoring"}
    /\ enabled' = FALSE
    /\ UNCHANGED <<database, phase, snapshot, backup, record, db, worktree, pc>>

(* A client of the shared server commits.                                  *)
Client(i) ==
    /\ enabled
    /\ db' = [db EXCEPT !.items = @ \cup {i}]
    /\ UNCHANGED <<database, phase, snapshot, backup, record, enabled, worktree, pc>>

(* The adopter fails or is killed: its locks go with it. *)
Crash ==
    /\ pc # "idle"
    /\ Goto("idle")
    /\ UNCHANGED <<database, service, worktree>>

Prepare ==
    \/ Begin \/ SourceBusy \/ Lock \/ Moving \/ Move \/ Checkpointed \/ Copy \/ Copied
    \/ Export \/ Exported

Migrate ==
    \/ AdministrationDone \/ MoveWorktree \/ Clone \/ Cloned \/ Index \/ Fresh \/ Collides
    \/ Checkout \/ CheckedOut \/ Administration

Registration ==
    \/ Incomplete \/ Register \/ Restore \/ Restores \/ Imported \/ Registered \/ Provision
    \/ Enable \/ RetireAccess

Next ==
    \/ Prepare \/ Migrate \/ Registration \/ Crash \/ Stray
    \/ \E w \in Writers : Open(w) \/ Close(w) \/ \E i \in Commits : Write(w, i)
    \/ \E e \in Edits : Edit(e)
    \/ \E i \in Commits : Client(i)

Spec == Init /\ [][Next]_vars

-----------------------------------------------------------------------------
(* The shared database has every commit a legacy program ever made, none   *)
(* of them can make another, and the worktree's private administration has *)
(* all that was committed and staged.                                      *)
Whole ==
    /\ original.items \subseteq db.items
    /\ original.at = "checkpoint" /\ open = {}
    /\ Is("committed") \cup Is("staged") \subseteq host

(* Clients may use the shared database only when nothing of the workspace  *)
(* was left behind, and no later attempt, restore or crash of an adoption  *)
(* takes a commit from it (prepare_source, migrate_worktree, register).    *)
AdoptedWhole ==
    [][/\ enabled' => Whole'
       /\ db # None => db' # None /\ db.items \subseteq db'.items]_vars
=============================================================================
