-------------------------- MODULE PendingPublication --------------------------
(***************************************************************************)
(* Publication of a workspace's build outputs to its private view of the   *)
(* cache.  Three programs meet in the workspace's state directory:         *)
(*                                                                         *)
(*   - "hook", the post-build hook: it roots and records what was built    *)
(*     and publishes it at once, unless a warm owns the build;             *)
(*   - "publish", which publishes the realized roots and drains the        *)
(*     pending records;                                                    *)
(*   - "warm", which builds the selected graph, approves what the hook     *)
(*     captured for it and publishes.                                      *)
(*                                                                         *)
(* They exclude each other with cache.lock, except for what the hook does  *)
(* before and after it holds the lock.  Each may die between two steps,    *)
(* and Nix collects what nothing roots.  Whether the workspace has the     *)
(* authority to publish is the subject of CacheAuthority: here reading it  *)
(* may fail at any time.                                                   *)
(***************************************************************************)
EXTENDS Integers, FiniteSets

CONSTANTS
    Outs,       \* build outputs, all of them in the selected graph
    Ids,        \* acquisition directories (inflight-...) that may exist at once
    None

Programs == {"hook", "publish", "warm"}

VARIABLES
    store,      \* valid outputs of the host's Nix store
    dirs,       \* Ids -> the rooted output and the state of the root directory
    records,    \* pending records: a kind and an acquisition directory
    recorded,   \* acquisition directories that were recorded, as history
    delivered,  \* acquisition directories whose output was published, as history
    pins,       \* outputs rooted by directories nobody will release
    scopes,     \* selected graphs in the publish-roots manifest
    lock,       \* holder of cache.lock
    pc,
    job         \* what each program publishes

vars == <<store, dirs, records, recorded, delivered, pins, scopes, lock, pc, job>>

publishing == <<store, dirs, records, recorded, delivered, pins, scopes, job>>

(* A held record waits for the approval of its warm; a stale one belongs   *)
(* to a warm that is over.                                                 *)
Kinds == {"protected", "held", "stale", "ready"}

Idle == [ids |-> {}, todo |-> {}, hold |-> {}, out |-> None, kind |-> "protected"]

NoDir == [out |-> None, links |-> "none"]

(* A root directory with its link protects its output from collection, and *)
(* so does the temporary root of a builder whose hook runs.                *)
Rooted == {dirs[i].out : i \in {j \in Ids : dirs[j].links = "whole"}}
            \cup pins \cup {job[p].out : p \in Programs}
            \cup UNION {job[p].hold : p \in Programs}

Live(i) == \E r \in records : r.id = i

Used(i) == dirs[i].links # "none" \/ Live(i) \/ \E p \in Programs : i \in job[p].ids

Init ==
    /\ store \in {{}, Outs}
    /\ dirs = [i \in Ids |-> NoDir]
    /\ records = {}
    /\ recorded = {} /\ delivered = {} /\ pins = {}
    /\ scopes = {}
    /\ lock = None
    /\ pc = [p \in Programs |-> "idle"]
    /\ job = [p \in Programs |-> Idle]

Goto(p, l) == pc' = [pc EXCEPT ![p] = l]

Acquire(p) == lock = None /\ lock' = p

-----------------------------------------------------------------------------
(* Protection and pending records.                                         *)

(* A derivation of a selected graph is held for the warm that registered   *)
(* it, the latest one first, alive or not.                                 *)
Scoped == CASE "live" \in scopes -> "held"
            [] scopes = {"stale"} -> "stale"
            [] OTHER -> "protected"

(* A build realizes an output and calls the hook, which reads the          *)
(* manifest; the builder's temporary root protects the output meanwhile.   *)
Build(o) ==
    /\ pc["hook"] = "idle"
    /\ store' = store \cup {o}
    /\ job' = [job EXCEPT !["hook"] = [Idle EXCEPT !.out = o, !.kind = Scoped]]
    /\ Goto("hook", "capture")
    /\ UNCHANGED <<dirs, records, recorded, delivered, pins, scopes, lock>>

(* A fresh acquisition directory roots the output. *)
Acquired(i, o) ==
    /\ ~Used(i)
    /\ dirs' = [dirs EXCEPT ![i] = [out |-> o, links |-> "whole"]]
    /\ recorded' = recorded \ {i}
    /\ delivered' = delivered \ {i}

Capture(i) ==
    /\ pc["hook"] = "capture"
    /\ Acquired(i, job["hook"].out)
    /\ job' = [job EXCEPT !["hook"].ids = {i}]
    /\ Goto("hook", "record")
    /\ UNCHANGED <<store, records, pins, scopes, lock>>

Record ==
    /\ pc["hook"] = "record"
    /\ records' = records \cup [kind : {job["hook"].kind}, id : job["hook"].ids]
    /\ recorded' = recorded \cup job["hook"].ids
    /\ IF job["hook"].kind = "protected"
       THEN UNCHANGED job /\ Goto("hook", "lock")
       ELSE job' = [job EXCEPT !["hook"] = Idle] /\ Goto("hook", "idle")
    /\ UNCHANGED <<store, dirs, delivered, pins, scopes, lock>>

(* The hook waits for a while and leaves the record to a later publish. *)
HookTimesOut ==
    /\ pc["hook"] = "lock" /\ lock # None
    /\ job' = [job EXCEPT !["hook"] = Idle]
    /\ Goto("hook", "idle")
    /\ UNCHANGED <<store, dirs, records, recorded, delivered, pins, scopes,
                   lock>>

HookLocks ==
    /\ pc["hook"] = "lock" /\ Acquire("hook")
    /\ job' = [job EXCEPT !["hook"].todo = {job["hook"].out}]
    /\ Goto("hook", "load")
    /\ UNCHANGED <<store, dirs, records, recorded, delivered, pins, scopes>>

-----------------------------------------------------------------------------
(* Explicit publish: the realized roots and every record that is ready or  *)
(* belongs to one of them.                                                 *)

Publish ==
    /\ pc["publish"] = "idle" /\ Acquire("publish")
    /\ \E roots \in SUBSET store :
         LET drained == {r.id : r \in {s \in records :
                            \/ s.kind = "ready"
                            \/ s.kind = "protected" /\ dirs[s.id].out \in roots}}
         IN job' = [job EXCEPT !["publish"] =
                      [Idle EXCEPT !.ids = drained,
                                   !.todo = roots \cup {dirs[i].out : i \in drained}]]
    /\ Goto("publish", "load")
    /\ UNCHANGED <<store, dirs, records, recorded, delivered, pins, scopes>>

-----------------------------------------------------------------------------
(* Warm.                                                                   *)

Warm ==
    /\ pc["warm"] = "idle" /\ Acquire("warm")
    /\ Goto("warm", "scope")
    /\ UNCHANGED <<publishing>>

(* The warm needs authority before it registers its scope; the scopes of   *)
(* warms that died are kept.                                               *)
Scope ==
    /\ pc["warm"] = "scope"
    /\ scopes' = scopes \cup {"live"}
    /\ Goto("warm", "existing")
    /\ UNCHANGED <<store, dirs, records, recorded, delivered, pins, job, lock>>

(* What the graph already has is captured too, then Nix builds.            *)
Existing(i) ==
    /\ pc["warm"] = "existing"
    /\ \E o \in store :
         /\ Acquired(i, o)
         /\ job' = [job EXCEPT !["warm"].ids = {i}]
    /\ Goto("warm", "hold")
    /\ UNCHANGED <<store, records, pins, scopes, lock>>

Hold ==
    /\ pc["warm"] = "hold"
    /\ records' = records \cup [kind : {"held"}, id : job["warm"].ids]
    /\ recorded' = recorded \cup job["warm"].ids
    /\ job' = [job EXCEPT !["warm"] = Idle]
    /\ Goto("warm", "realize")
    /\ UNCHANGED <<store, dirs, delivered, pins, scopes, lock>>

Nothing ==
    /\ pc["warm"] = "existing" /\ store = {}
    /\ Goto("warm", "realize")
    /\ UNCHANGED <<publishing, lock>>

(* The out-links of the selected outputs root them; they outlive a failure. *)
Realize(o) ==
    /\ pc["warm"] = "realize"
    /\ store' = store \cup {o}
    /\ job' = [job EXCEPT !["warm"] = [Idle EXCEPT !.todo = {o}, !.hold = {o}]]
    /\ Goto("warm", "approve")
    /\ UNCHANGED <<dirs, records, recorded, delivered, pins, scopes, lock>>

(* Each held record of the scope becomes ready before it ceases to be held. *)
Approve(i) ==
    /\ pc["warm"] = "approve"
    /\ [kind |-> "held", id |-> i] \in records
    /\ IF [kind |-> "ready", id |-> i] \in records
       THEN records' = records \ {[kind |-> "held", id |-> i]}
       ELSE records' = records \cup {[kind |-> "ready", id |-> i]}
    /\ UNCHANGED <<store, dirs, recorded, delivered, pins, scopes, job, lock,
                   pc>>

(* Everything that is ready is published with what was selected.           *)
Approved ==
    /\ pc["warm"] = "approve"
    /\ LET ready == {r.id : r \in {s \in records : s.kind = "ready"}} IN
         job' = [job EXCEPT !["warm"].ids = ready,
                            !["warm"].todo = @ \cup {dirs[i].out : i \in ready}]
    /\ \A r \in records : r.kind # "held"
    /\ Goto("warm", "load")
    /\ UNCHANGED <<store, dirs, records, recorded, delivered, pins, scopes,
                   lock>>

(* Nobody will approve what a warm that is over left held.                 *)
Outlived ==
    /\ records' = {[r EXCEPT !.kind = IF @ = "held" THEN "stale" ELSE @] : r \in records}
    /\ job' = [p \in Programs |->
                 IF p = "warm" THEN Idle
                 ELSE [job[p] EXCEPT !.kind = IF @ = "held" THEN "stale" ELSE @]]

(* The scope leaves the manifest whether or not the rest succeeded.        *)
Cleanup ==
    /\ pc["warm"] = "cleanup"
    /\ scopes' = scopes \ {"live"}
    /\ Outlived
    /\ lock' = None
    /\ Goto("warm", "idle")
    /\ UNCHANGED <<store, dirs, recorded, delivered, pins>>

-----------------------------------------------------------------------------
(* What the three share: authority, protection, upload, completion.        *)

Completed(p) == IF p = "hook" THEN "unlock" ELSE "unlink"

(* Publishing nothing needs no authority.                                  *)
NothingToUpload(p) ==
    /\ pc[p] = "load" /\ job[p].todo = {}
    /\ Goto(p, Completed(p))
    /\ UNCHANGED <<publishing, lock>>

(* Authority is read and every path is rooted: a path that was collected   *)
(* meanwhile fails the whole publication.                                  *)
Prepare(p) ==
    /\ pc[p] = "load" /\ job[p].todo # {}
    /\ job[p].todo \subseteq store
    /\ job' = [job EXCEPT ![p].hold = @ \cup job[p].todo]
    /\ Goto(p, "upload")
    /\ UNCHANGED <<store, dirs, records, recorded, delivered, pins, scopes,
                   lock>>

Delivers(p, o) ==
    /\ o \in job[p].todo
    /\ job' = [job EXCEPT ![p].todo = @ \ {o}]
    /\ delivered' = delivered \cup {i \in Ids : dirs[i].out = o}
    /\ UNCHANGED <<store, dirs, records, recorded, pins, scopes, lock, pc>>

(* What an upstream cache has is not uploaded.  The hook asks before it    *)
(* reads the authority.                                                    *)
Upstream(p, o) ==
    /\ pc[p] = "upload" \/ (p = "hook" /\ pc[p] = "load")
    /\ Delivers(p, o)

Upload(p, o) ==
    /\ pc[p] = "upload"
    /\ Delivers(p, o)

(* The workflow is closed and the roots taken for the upload are released. *)
Finish(p) ==
    /\ pc[p] = "upload" /\ job[p].todo = {}
    /\ job' = [job EXCEPT ![p].hold = {}]
    /\ Goto(p, Completed(p))
    /\ UNCHANGED <<store, dirs, records, recorded, delivered, pins, scopes,
                   lock>>

(* No destructor releases a root: what a failure leaves stays protected.   *)
Abandoned(p) ==
    /\ pins' = pins \cup job[p].hold
    /\ job' = [job EXCEPT ![p] = Idle]

\* Mutant: a refused upload completes the record all the same.
MutFail(p) ==
    /\ pc[p] = "upload"
    /\ Goto(p, Completed(p))
    /\ UNCHANGED <<publishing, lock>>

(* A missing authority, a collected path, a refused or failed request, or  *)
(* a root directory that does not match its record.                        *)
Fail(p) ==
    /\ pc[p] \in {"scope", "existing", "realize", "approve", "load", "upload", "unlink",
                "rmdir"}
    /\ Abandoned(p)
    /\ IF p = "warm" /\ pc[p] # "scope"
       THEN Goto(p, "cleanup") /\ UNCHANGED lock
       ELSE /\ Goto(p, "idle")
            /\ lock' = IF lock = p THEN None ELSE lock
    /\ UNCHANGED <<store, dirs, records, recorded, delivered, scopes>>

(* The hook completes its record after it released the lock.               *)
HookUnlocks ==
    /\ pc["hook"] = "unlock"
    /\ lock' = None
    /\ Goto("hook", "unlink")
    /\ UNCHANGED <<publishing>>

(* complete: the directory must hold exactly the record's links, loses     *)
(* them, goes, and then the record goes.                                   *)
Unlink(p, i) ==
    /\ pc[p] = "unlink" /\ i \in job[p].ids
    /\ dirs[i].links = "whole"
    /\ dirs' = [dirs EXCEPT ![i].links = "partial"]
    /\ Goto(p, "rmdir")
    /\ UNCHANGED <<store, records, recorded, delivered, pins, scopes, job,
                   lock>>

Rmdir(p, i) ==
    /\ pc[p] = "rmdir" /\ i \in job[p].ids /\ dirs[i].links = "partial"
    /\ dirs' = [dirs EXCEPT ![i].links = "none"]
    /\ Goto(p, "drop")
    /\ UNCHANGED <<store, records, recorded, delivered, pins, scopes, job,
                   lock>>

Gone(p, i) ==
    /\ pc[p] = "unlink" /\ i \in job[p].ids
    /\ dirs[i].links = "none"
    /\ Goto(p, "drop")
    /\ UNCHANGED <<publishing, lock>>

Drop(p, i) ==
    /\ pc[p] = "drop" /\ i \in job[p].ids /\ dirs[i].links = "none"
    /\ records' = records \ [kind : {"ready", "protected"}, id : {i}]
    /\ recorded' = recorded \ (delivered \cap {i})
    /\ delivered' = delivered \ {i}
    /\ dirs' = [dirs EXCEPT ![i] = NoDir]
    /\ job' = [job EXCEPT ![p].ids = @ \ {i}]
    /\ Goto(p, "unlink")
    /\ UNCHANGED <<store, pins, scopes, lock>>

Done(p) ==
    /\ pc[p] = "unlink" /\ job[p].ids = {}
    /\ job' = [job EXCEPT ![p] = Idle]
    /\ IF p = "warm" THEN Goto(p, "cleanup") /\ UNCHANGED lock
       ELSE Goto(p, "idle") /\ lock' = IF lock = p THEN None ELSE lock
    /\ UNCHANGED <<store, dirs, records, recorded, delivered, pins, scopes>>

-----------------------------------------------------------------------------
(* A publisher dies: the kernel releases its lock, its directories stay.   *)
Crash(p) ==
    /\ pc[p] # "idle"
    /\ pins' = pins \cup job[p].hold
    /\ lock' = IF lock = p THEN None ELSE lock
    /\ Goto(p, "idle")
    /\ IF p = "warm"
       THEN /\ Outlived
            /\ scopes' = IF "live" \in scopes THEN {"stale"} ELSE scopes
       ELSE /\ job' = [job EXCEPT ![p] = Idle]
            /\ UNCHANGED <<records, scopes>>
    /\ UNCHANGED <<store, dirs, recorded, delivered>>

(* Nix collects what nothing roots.                                        *)
Collect(o) ==
    /\ o \in store \ Rooted
    /\ store' = store \ {o}
    /\ UNCHANGED <<dirs, records, recorded, delivered, pins, scopes, job,
                   lock, pc>>

HookStep == (\E i \in Ids : Capture(i)) \/ Record \/ HookTimesOut \/ HookLocks \/ HookUnlocks

WarmStep ==
    \/ Warm \/ Scope \/ Hold \/ Nothing \/ Approved \/ Cleanup
    \/ \E i \in Ids : Existing(i) \/ Approve(i)
    \/ \E o \in Outs : Realize(o)

Complete(p) == Done(p) \/ \E i \in Ids : Unlink(p, i) \/ Rmdir(p, i) \/ Gone(p, i) \/ Drop(p, i)

PublishStep(p) ==
    \/ NothingToUpload(p) \/ Prepare(p) \/ Finish(p) \/ Complete(p) \/ Fail(p)
    \/ \E o \in Outs : Upstream(p, o) \/ Upload(p, o)

Next ==
    \/ HookStep \/ Publish \/ WarmStep
    \/ \E p \in Programs : PublishStep(p) \/ Crash(p)
    \/ \E o \in Outs : Build(o) \/ Collect(o)

Spec == Init /\ [][Next]_vars

-----------------------------------------------------------------------------
(* What was recorded as pending stays on record and rooted, so that it is  *)
(* still there to be published, until it was published: no crash, failure, *)
(* approval or concurrent completion loses it.                             *)
PendingKept ==
    \A i \in recorded \ delivered :
        Live(i) /\ dirs[i].links = "whole" /\ dirs[i].out \in store
=============================================================================
