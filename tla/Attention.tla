------------------------------ MODULE Attention ------------------------------
(***************************************************************************)
(* Pending attention in a user's session.  The notification daemon queues  *)
(* the targets that asked for attention; one command visits them, the      *)
(* newest first, and another one returns to the position before the last   *)
(* visit.  The three take turns under one lock, and may be killed at any   *)
(* step.  The user goes on working meanwhile, panes close, and the routes  *)
(* of targets change as launches come and go (FocusRegistration).          *)
(***************************************************************************)
EXTENDS Integers, FiniteSets, SequencesExt

CONSTANTS
    Targets,    \* targets that launches export
    Windows,
    Panes,      \* panes of each window
    None

Commands == {"enqueue", "focus", "return"}

Places == Windows \X Panes

Routes == Places \cup {None}

VARIABLES
    registration,   \* Targets -> the route of the target, if there is one
    pending,        \* queue of targets and their routes, newest last
    saved,          \* the position to return to
    lock,           \* holder of attention.lock
    command,        \* what each command does
    owed,           \* targets queued and not visited or found stale since, as history
    focused,        \* the window with the keyboard
    selected,       \* the selected pane of each window
    alive,          \* places whose pane lives
    open,           \* windows that are open
    clients         \* clients attached to the session of each window

queue == <<pending, saved, lock, command, owed>>
desktop == <<focused, selected, alive, open, clients>>
vars == <<registration, queue, desktop>>

NoCommand == [pc |-> "idle", target |-> None, route |-> None, rest |-> <<>>,
              pending |-> <<>>, saved |-> None, origin |-> None]

Init ==
    /\ registration = [t \in Targets |-> None]
    /\ pending = <<>> /\ saved = None
    /\ lock = None
    /\ command = [c \in Commands |-> NoCommand]
    /\ owed = {}
    /\ focused \in Windows
    /\ selected \in [Windows -> Panes]
    /\ alive = Places
    /\ open = Windows
    /\ clients = [w \in Windows |-> 1]

-----------------------------------------------------------------------------
(* The environment.  A target has no route when its registration is        *)
(* missing, is another target's, has lost its lease or names no place.     *)

Register(t, route) ==
    /\ registration' = [registration EXCEPT ![t] = route]
    /\ UNCHANGED <<queue, desktop>>

Position == <<focused, selected[focused]>>

Work(w, p) ==
    /\ w \in open /\ <<w, p>> \in alive
    /\ focused' = w
    /\ selected' = [selected EXCEPT ![w] = p]
    /\ UNCHANGED <<registration, queue, alive, open, clients>>

ClosePane(place) ==
    /\ alive' = alive \ {place}
    /\ UNCHANGED <<registration, queue, focused, selected, open, clients>>

CloseWindow(w) ==
    /\ open' = open \ {w}
    /\ UNCHANGED <<registration, queue, focused, selected, alive, clients>>

(* Clients attach to a session, detach from it or switch to another one.   *)
Attach(w, n) ==
    /\ clients' = [clients EXCEPT ![w] = n]
    /\ UNCHANGED <<registration, queue, focused, selected, alive, open>>

-----------------------------------------------------------------------------
(* What a command sees of the desktop.                                     *)

(* The client of a visit must be the only one of its session; that of a    *)
(* return may have left it.                                                *)
ValidPane(place, returning) ==
    /\ clients[place[1]] <= 1
    /\ returning \/ clients[place[1]] = 1
    /\ place \in alive

Valid(place, returning) == place[1] \in open /\ ValidPane(place, returning)

(* The position, unless it is ambiguous.                                   *)
Origin ==
    IF clients[focused] = 1 /\ Valid(Position, TRUE) THEN Position ELSE None

IsFocused(t) == registration[t] = Position

Doing(c, pcs) == command[c].pc \in pcs

\* Mutant: the lock is not waited for.
MutAcquire(c) == lock' = c

Acquire(c) == lock = None /\ lock' = c

Finish(c) ==
    /\ command' = [command EXCEPT ![c] = NoCommand]
    /\ lock' = None

(* A command that is killed rolls back what it did not commit. *)
Abort(c) ==
    /\ ~Doing(c, {"idle"})
    /\ command' = [command EXCEPT ![c] = NoCommand]
    /\ lock' = IF lock = c THEN None ELSE lock
    /\ UNCHANGED <<registration, pending, saved, owed, desktop>>

-----------------------------------------------------------------------------
(* Delivery.                                                               *)

(* The daemon delivers a notification of a target and queues it, unless    *)
(* the target is seen to be focused.  It waits for the lock for a while,   *)
(* and gives up like a command that is killed.                             *)
Deliver(t, answers) ==
    /\ Doing("enqueue", {"idle"})
    /\ answers => ~IsFocused(t)
    /\ command' = [command EXCEPT !["enqueue"] = [NoCommand EXCEPT !.pc = "lock", !.target = t]]
    /\ UNCHANGED <<registration, pending, saved, lock, owed, desktop>>

(* Only a target with a route is queued. *)
Enqueue ==
    LET t == command["enqueue"].target IN
    /\ Doing("enqueue", {"lock"})
    /\ Acquire("enqueue")
    /\ command' = [command EXCEPT !["enqueue"].pc = "insert",
                                  !["enqueue"].route = registration[t]]
    /\ UNCHANGED <<registration, pending, saved, owed, desktop>>

(* A target has one entry at most: it is the key of the table.             *)
Without(q, t) ==
    IF \E i \in DOMAIN q : q[i].target = t
    THEN RemoveAt(q, CHOOSE i \in DOMAIN q : q[i].target = t) ELSE q

(* A target that is queued already moves to the front. *)
Insert ==
    LET t == command["enqueue"].target
        route == command["enqueue"].route
    IN /\ Doing("enqueue", {"insert"})
       /\ IF route = None THEN UNCHANGED <<pending, owed>>
          ELSE /\ pending' = Append(Without(pending, t), [target |-> t, place |-> route])
               /\ owed' = owed \cup {t}
       /\ Finish("enqueue")
       /\ UNCHANGED <<registration, saved, desktop>>

-----------------------------------------------------------------------------
(* Visits.                                                                 *)

Visit ==
    /\ Doing("focus", {"idle"})
    /\ Acquire("focus")
    /\ command' = [command EXCEPT !["focus"] = [NoCommand EXCEPT
                     !.pc = "visit", !.rest = Reverse(pending),
                     !.pending = pending, !.saved = saved]]
    /\ UNCHANGED <<registration, pending, saved, owed, desktop>>

Entry == Head(command["focus"].rest)

(* The visit goes on with the next entry; it keeps or forgets this one.    *)
Skip(forget) ==
    command' = [command EXCEPT !["focus"].pc = "visit",
                               !["focus"].rest = Tail(@),
                               !["focus"].pending = IF forget THEN Without(@, Entry.target)
                                                    ELSE @]

(* A registration that is gone, or has another route than when the target  *)
(* was queued, is stale.                                                   *)
Discard ==
    /\ Doing("focus", {"visit"})
    /\ command["focus"].rest # <<>>
    /\ registration[Entry.target] # Entry.place
    /\ Skip(TRUE)
    /\ owed' = owed \ {Entry.target}
    /\ UNCHANGED <<registration, pending, saved, lock, desktop>>

(* The position is noted before the navigation; it may be ambiguous.       *)
Match(origin) ==
    /\ Doing("focus", {"visit"})
    /\ command["focus"].rest # <<>>
    /\ registration[Entry.target] = Entry.place
    /\ origin \in {Origin, None}
    /\ command' = [command EXCEPT !["focus"].pc = "validate",
                                  !["focus"].route = Entry.place,
                                  !["focus"].origin = origin]
    /\ UNCHANGED <<registration, pending, saved, lock, owed, desktop>>

(* A return goes back to the position that was saved. *)
Return ==
    /\ Doing("return", {"idle"})
    /\ Acquire("return")
    /\ saved # None
    /\ command' = [command EXCEPT !["return"] =
                     [NoCommand EXCEPT !.pc = "validate", !.route = saved]]
    /\ UNCHANGED <<registration, pending, saved, owed, desktop>>

(* Nothing is selected when the place is not what it was. *)
Stale(c) ==
    /\ Doing(c, {"validate"})
    /\ ~Valid(command[c].route, c = "return")
    /\ IF c = "focus" THEN Skip(TRUE) /\ owed' = owed \ {Entry.target}
       ELSE /\ command' = [command EXCEPT ![c].pc = "commit", ![c].saved = None]
            /\ UNCHANGED owed
    /\ UNCHANGED <<registration, pending, saved, lock, desktop>>

(* A query or a command of tmux or of the desktop may fail: the entry, or  *)
(* the position, is kept for another attempt.                              *)
Retry(c) ==
    /\ Doing(c, {"validate", "raise"})
    /\ IF c = "focus" THEN Skip(FALSE) ELSE Finish(c)
    /\ c = "focus" => UNCHANGED lock
    /\ UNCHANGED <<registration, pending, saved, owed, desktop>>

(* A return first switches its client back to the session. *)
Select(c) ==
    /\ Doing(c, {"validate"})
    /\ Valid(command[c].route, c = "return")
    /\ selected' = [selected EXCEPT ![command[c].route[1]] = command[c].route[2]]
    /\ command' = [command EXCEPT ![c].pc = "raise"]
    /\ clients' = IF c = "return" THEN [clients EXCEPT ![command[c].route[1]] = 1] ELSE clients
    /\ UNCHANGED <<registration, pending, saved, lock, owed, focused, alive, open>>

(* The navigation succeeds: the visit forgets its entry and replaces the   *)
(* saved position, a return consumes it.                                   *)
Raise(c) ==
    /\ Doing(c, {"raise"})
    /\ command[c].route[1] \in open
    /\ focused' = command[c].route[1]
    /\ IF c = "focus"
       THEN /\ command' = [command EXCEPT
                             ![c].pc = "commit", ![c].saved = command[c].origin,
                             ![c].pending = Without(@, Entry.target)]
            /\ owed' = owed \ {Entry.target}
       ELSE /\ command' = [command EXCEPT ![c].pc = "commit", ![c].saved = None]
            /\ UNCHANGED owed
    /\ UNCHANGED <<registration, pending, saved, lock, selected, alive, open,
                   clients>>

(* A visit ends with the first success or after the last entry. *)
Commit(c) ==
    /\ Doing(c, {"commit"}) \/ (Doing(c, {"visit"}) /\ command[c].rest = <<>>)
    /\ pending' = IF c = "focus" THEN command[c].pending ELSE pending
    /\ saved' = command[c].saved
    /\ Finish(c)
    /\ UNCHANGED <<registration, owed, desktop>>

-----------------------------------------------------------------------------
Navigating(c) == Stale(c) \/ Retry(c) \/ Select(c) \/ Raise(c) \/ Commit(c)

Next ==
    \/ \E t \in Targets, route \in Routes : Register(t, route)
    \/ \E w \in Windows, p \in Panes : Work(w, p)
    \/ \E place \in Places : ClosePane(place)
    \/ \E w \in Windows : CloseWindow(w) \/ (\E n \in 0..2 : Attach(w, n))
    \/ \E t \in Targets, answers \in BOOLEAN : Deliver(t, answers)
    \/ Enqueue \/ Insert
    \/ Visit \/ Discard \/ (\E origin \in Routes : Match(origin))
    \/ Return
    \/ \E c \in {"focus", "return"} : Navigating(c)
    \/ \E c \in Commands : Abort(c)

Spec == Init /\ [][Next]_vars

-----------------------------------------------------------------------------
Entries == [target : Targets, place : Places]

TypeOK ==
    /\ registration \in [Targets -> Routes]
    /\ \A i \in DOMAIN pending : pending[i] \in Entries
    /\ saved \in Routes
    /\ lock \in Commands \cup {None}
    /\ owed \subseteq Targets
    /\ focused \in Windows /\ selected \in [Windows -> Panes]
    /\ alive \subseteq Places /\ open \subseteq Windows /\ clients \in [Windows -> 0..2]

(* A notification that was queued waits until its place has been visited   *)
(* or its route was found stale, after it was delivered: no visit that was *)
(* under way throws it away (attention::enqueue, attention::focus).        *)
AttentionKept == owed \subseteq {pending[i].target : i \in DOMAIN pending}
=============================================================================
