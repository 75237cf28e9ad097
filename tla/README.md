# A TLA+ verification of wrix

wrix runs AI coding agents in sandboxes on a developer's host. Around the
sandboxes it keeps shared, long-lived services: a backend container (Celler, the
binary cache; Dolt, the issue database; a compiler), egress gateways, Nix store
pools in virtual machines, and a controller that registers workspaces with all
of them. Almost nothing in it is hard as an algorithm. What is hard is that
every operation is done by some short-lived process that may die between any two
of its steps, that its state is a handful of files and locks shared with other
such processes, and that its objects (containers, native processes, databases)
outlive all of them. This directory models those protocols in TLA+, checks them
with TLC on small instances, and proves every safety property that a passing run
checks with TLAPS, for all values of the constants.

- [Inventory of the system](#inventory)
- [Modules](#modules) and how they correspond to the code
- [Runs](#runs): what is checked, with which bounds, under which fairness
- [Disagreements found](#disagreements) and [further observations](#observations)
- [Proofs](#proofs): what is proved, from which assumptions, by which invariant
- [What is not modelled](#not-modelled)

`PROJECT.json` holds the machine-readable side of this file: the lines of the
source each definition translates (`map`), the runs, a mutation of the model for
every checked property, the hazards of the code with the properties that cover
them, and the theorems.

To repeat a run: `tlc -config MCComponentSupervisor.cfg MCComponentSupervisor`;
to repeat a proof: `tlapm ComponentSupervisorProofs.tla`.

## Inventory

All paths are relative to `src/`. The Rust crates are `wrix-core`, `wrix-state`,
`wrix-sandbox`, `wrix-service`, `wrix-cache`, `wrix-notify`, `wrix-beads`,
`wrix-cli`, `wrix-image-tools` and `wrix-verify-tools`; `wrix-service` holds half
of the code. Two small programs of the backend container live in `lib/services`.

### The backend container and its host commands (wrix-service)

| component | state | operations | who it meets |
|---|---|---|---|
| component supervisor `lifecycle/supervisor` | `component.json` (intent, epoch), the ownership lock, `dolt-epoch.lock` inherited by Dolt's descendants, the two children, 16 requests in flight | start, answer Inspect / Retire / Resume, probe, clean up; a crash and a restart | control clients over a socket, Celler, Dolt |
| transition fence `lifecycle/supervisor/transition` | `component-transition.json`, `lifecycle.lock` | begin, finish, ensure_clear | the host's `stop`, the supervisor |
| host update `lifecycle/deployment` | `update.json` with eight phases and a failure, the owner record and its candidate, the routing plan, a checkpoint, an archive | update, resume, cancel; each publication and each effect a step | backend, gateway, pools, stop and start |
| host stop and start `lifecycle/deployment/mod.rs` | `shutdown.json`, the `stopped` file | stop --host, service start (resume, ensure, admit) | update, pools |
| pool gate and marker `nix_store/lifecycle` | `nix-pool-lifecycle.lock`, the maintenance marker | try exclusive / shared, publish, clear, retain | update, stop, admission of workspaces |
| native drain `lifecycle/drain`, `lifecycle/sql`, `lib/services/celler-work-drain*`, `lifecycle/compiler`, `dolt/server` | counters of admitted work, gates, `planned-stop`, `released`, `native-release.json` | begin, quiesce, status, abort, release; admission and end of work; wait for children and certify | the host's update through commands executed in the container |
| owner, rename, migration `lifecycle/owner`, `lifecycle/migration` | the selected owner, a candidate, a rename journal, a cutover journal | ensure, start, rename; prepare, approve, import, verify | every other command, which the journals fence |
| Dolt adoption `dolt/mod.rs`, `dolt/shared` | a legacy database and beads worktree on their way into the shared server | move, copy, export, restore, register; migrate the worktree | legacy writers, clients, its own earlier attempts |
| Dolt sync broker `dolt/broker` | access records, `sync.lock`, a private remote and its projection | pull, push, publish (manifest last) | SQL gate, Git in the beads worktree |

Hard here: a crash or a second command between any two publications; a command
executed in the container that its client has given up on; descendants of Dolt
that outlive it; a restart that must not bring back what was retired or released;
a database that is moved while programs that know the old place live on. Correct
means: two epochs of Dolt never overlap; the record never says clean over living
processes; a confirmed retirement is final until a resume; the data moves from one
version to the next only over a clean end and an exact checkpoint; a planned
release cuts no work off; an interrupted update can be completed; the host's data
has one container; nothing a legacy program committed is left behind.

### Executions and the trusted store (wrix-state, wrix-sandbox)

| component | state | operations | who it meets |
|---|---|---|---|
| trusted store `wrix-state/src/{store,context,namespace,resolver}` | one SQLite file under two locks: authority, integration, bindings, participants, former namespaces | initialize, select, import, admit, associate, inspect, authorize | every command, checkouts that move |
| installed-store approvals `wrix-state/src/nix_store` | approvals, one-use requests, tickets | approve, withdraw, reserve, issue, claim | launchers, controllers |
| execution records `wrix-state/src/execution` | a ticket's phase and its removal intent | reserve, hand off, bind, cancel, intend, retire | launchers, reconcilers, the pool's watchers |
| containment and retirement `wrix-sandbox/src/execution` | a Podman container per ticket | create, start, inspect, rm, exists | the same |
| sandbox launch `wrix-sandbox/src/command/launch.rs` | a journal, staged keys and mounts, a registration, a reservation | some fifteen steps, and what undoes them | runtime, store, notifications |
| images `wrix-sandbox/src/image.rs` | the runtime's image store with mutable references | install, check, run, prune | launches of other versions |
| Pi credentials `command/launch/pi_auth.rs` | one file, Pi's lock beside it, a directory, a symbolic link | move once, link, mount | Pi processes, other launches |

Hard here: containers are made and removed by processes that die between the
runtime's effect and the record of it; anybody may remove a container by hand;
several observers retire the same ticket; what was inspected before a lock was
taken is stale when used. Correct means: terminal evidence is true; a ticket runs
at most once; a removal that was begun is finished; a launch that returns left
nothing behind that it does not report; a checkout keeps its namespace; a request
is accepted once; no legal sequence of commands writes a store that is refused.

### Gateways, controller and pools (wrix-service)

| component | state | operations |
|---|---|---|
| gateway generations and routes `control/serving`, `control/gateway`, `route`, `lifecycle/generation` | the plan, live owners with their grants, per-target connection counts, durable receipts | reconcile: prepare, confirm, activate, select, drain, retire; revoke; admit a connection |
| gateway management and traffic `gateway` | grants, streams | attach, activate, detach, cancel; forward |
| controller `control` | the registry under `namespaces.lock`, leases, SQL capacity | requests of workspaces over private sockets |
| pool queue `control/pool` | 128 jobs by request id, one window per pool | prepare, poll, forget |
| pool owner and clients `nix_store/owner` | a reservation, the owner's ledger, a client record per ticket, watch threads | reserve, prepare, start, admit, release, recover |
| native pool `nix_store/native` | leases, admitted clients, the census, `released` / `resuming` seals | register, admit, release, collect, shut down, resume |
| collection `nix_store/gc` | the pool's collection lock | try until a deadline |

Hard here: make-before-break between gateways with several attachments, one of
which may fail; a restarted controller that knows nothing of old streams; a census
read before a state change that depends on it; a call that outlives its caller.
Correct means: no launch loses its grant to a handoff, no counted connection is
cut by a retirement, a revocation reaches every generation; what a running
execution was given stands; the collector runs alone; a certificate is true.

### Cache, issues, notifications and tools

| component | state | operations |
|---|---|---|
| publication authority `wrix-cache/src/backend/publication` | the namespace's key, a rotation journal, retirement records, the remote view | register, rotate, retire, each against a remote that may have applied what was not answered |
| publisher queue `wrix-cache/src/publisher` | pending records, roots, warm scopes | record, hold, approve, publish, complete |
| issue sync `wrix-beads/src/command` | the beads worktree, a Dolt file remote in it, two Git administrations | push, pull, commit, rebase, recover the worktree |
| notification routes `command/launch.rs` | a registration per target, with a count and a lease | register, unregister |
| attention queue `wrix-notify/src/attention` | a small persistent queue and a return position under a writer lock | notify, visit, return |
| window navigation, command line, templates, image layer planner, verifier tools, Nix packaging | none that is shared | sequential |

Hard here: a remote request whose answer was lost; records and the roots that
protect them, changed in two steps; a manifest that names a table not there; a
notification that arrives while its target is visited. Correct means: a retried
rotation deletes nothing it did not name; a pending output stays in the store
until published; no remote loses a commit; a launch keeps its route; a queued
notification waits until it was visited.

## Modules

The abstract specifications are short and stand for what a component promises;
each detailed module implements one of them, by a refinement mapping at its end.

| module | component | abstract specification | run | proofs |
|---|---|---|---|---|
| `ComponentSupervisor` | supervisor, transition fence | `ExclusiveService`: a vacant, owned or abandoned place where at most one service runs | `supervisor`, `retirement` | `ComponentSupervisorProofs` |
| `HostUpdate` | update, stop, start, gate | `DataCustody`: a version gives the data away only when it no longer writes, and the next one opens it only over a saved copy | `host_update`, `host_update_legacy`, `host_update_restart` | `HostUpdateProofs` |
| `BackendDrain` | native drain and release | `CleanHandover`: roles shut, rest, leave, and only then is a clean end proven | `backend_drain`, `retirement`, `backend_drain_stray` | `BackendDrainProofs` |
| `ExecutionRecord` | execution records, containment, retirement | `OneShotWork`: work is made and started at most once and judged only when it ended | `workspace`, `host_update_legacy` | `ExecutionRecordProofs` |
| `GatewayHandoff` | gateway generations, grants, routes | | `gateway_handoff` | `GatewayHandoffProofs` |
| `PoolLease` | pool owner, clients, native pool | | `pool_lease` | `PoolLeaseProofs` |
| `CacheAuthority` | publication authority | | `workspace` | `CustodyProofs` |
| `PendingPublication` | publisher queue | | `workspace` | `CustodyProofs` |
| `IssueSync` | issue sync, Dolt sync broker | | `workspace`, `sync_overwrite` | `CustodyProofs` |
| `DoltAdoption` | adoption of database and worktree | | `workspace` | `CustodyProofs` |
| `NixApproval` | installed-store approvals | | `workspace` | `CustodyProofs` |
| `FocusRegistration` | notification routes | | `workspace_launch` | `WorkspaceProofs` |
| `Attention` | attention queue, navigation | | `workspace` | `WorkspaceProofs` |
| `ImageStore` | images | | `workspace_launch` | `WorkspaceProofs` |
| `SandboxLaunch` | sandbox launch | | `workspace_launch` | `WorkspaceProofs` |
| `PiCredentials` | Pi credentials | | `workspace_launch` | `WorkspaceProofs` |
| `BackendOwner` | owner, rename, migration | | `workspace_launch` | `WorkspaceProofs` |
| `WorkspaceAdmission` | trusted store | | `workspace` | `WorkspaceProofs` |

`MCComponentSupervisor` and `MCHostUpdate` only add symmetry sets; `MCBackendDrain`
has the next-state relation without `TakeLate`, which is never enabled where `MaxLate`
is 0. `MCHost`, `MCRetirement` and `MCWorkspace` put components side by side that
share no variable: the first state chooses one (`pick`), which then runs by itself
while the others stand still in one of their initial states. So one run checks each
of them exhaustively, its state space is the sum of theirs and not the product, and
a theorem about `WorkspaceSpec` is a theorem about the component it names, since
every behaviour of the component is one with its `pick`. The constant `Picks` of
`MCWorkspace` says which of its components a run chooses from; `workspace` and
`workspace_launch` share them out between them. Every action of every component is
taken in its run.

Components that do interact are composed by abstraction. What `BackendDrain`
shows of the release (it finds the roles quiet, and its certificate is true) is
the one step by which `HostUpdate` drains and releases the backend; a retired
namespace of `ComponentSupervisor` is a Dolt that `HostUpdate`'s container no
longer runs; terminal evidence of `ExecutionRecord` is `PoolLease`'s `Terminal`;
`WorkspaceAdmission` says when a context is current, which in `NixApproval` is an
age; the authority of `CacheAuthority` may be missing at any time in
`PendingPublication`; the registrations of `FocusRegistration` change at any time
in `Attention`; the steps of `ImageStore` are one step of `SandboxLaunch`; and the
import of one workspace in `BackendOwner` is `DoltAdoption`.

Two conventions hold in all modules. A step that the code refuses with an error is
not enabled: the process ends by an action of its own (`Die`, `HostDies`,
`Crash`, `Fail`), which is possible everywhere, so an error return and a kill are
the same behaviour where they leave the same state. And a file operation, a
transaction, a command executed in a container and a query of the runtime are each
one step, with every process free to act between two of them.

### ComponentSupervisor

`lifecycle/supervisor/serve/mod.rs::run` with its record (`state`), lock
(`hold`), clients (`client`, `wire`) and the host's `stop` behind the transition
fence (`transition`, `lifecycle/mod.rs`).

| variables | in the code |
|---|---|
| `owner`, `disk`, `mem` | the ownership flock; `component.json`; `Owner`'s record in memory |
| `pc`, `phase`, `child`, `celler` | where a process is in `run`; `serve::Phase`; its two children |
| `native`, `launch`, `signaled` | the processes of every Dolt epoch: unborn, waiting for the flock helper, alive, dead; which got SIGTERM |
| `holds` | supervisors that have `dolt-epoch.lock`; living native processes hold it by inheritance (`Held`) |
| `slots`, `answer` | requests accepted into the bounded queue; replies under way |
| `hpc`, `guard`, `fence` | the host command, `lifecycle.lock`, `component-transition.json` |
| `acked` | history: what a caller may rely on |

Start is `Open`, `AcquireHeld`, `Begin`, `SpawnFirst`, `SpawnSecond` or
`StartRetired`; `Serve` is one turn of the loop (a probe, a child that exited, a
request of the queue applied by `Apply*`); `Stop`, `Cleanup*` and `Finish` are the
end. A save has three outcomes (`ok`, `unsaved`: failed before the rename,
`committed`: failed after it). `Crash` kills a supervisor and leaves its native
processes; `ContainerDies` kills all. A caller times out whenever it likes.

Not in it: signals to the host command are its death; the 16 slots are the
constant `Slots`; sockets are the slots and answers.

### HostUpdate

`lifecycle/deployment` (update, recovery, checkpoint, cancel, stop, resume),
`lifecycle/owner/host.rs` (ensure), `lifecycle/generation` (the plan) and
`nix_store/lifecycle` (gate and marker).

| variables | in the code |
|---|---|
| `intent`, `shutdown`, `marker` | `update.json`, `shutdown.json`, the pool maintenance marker |
| `selected`, `candidate` | `celler-owner.json` and `celler-candidate/celler-owner.json` |
| `native`, `plan`, `controller` | native ports in `shared.json`; the routing plan; `package.json` and `stopped` |
| `checkpoint`, `archived` | the attempt's checkpoint and cancelled-update file |
| `container` | the backend container: status, image, drained, releasing, clean |
| `updateLock`, `gate`, `hostLock` | the three flocks |
| `proc` | every command: which operation, at which point, with which update in memory and what it saw |
| `data`, `touched` | history: the version that opened the data last; whether the attempt changed an owner |

A command is a sequence of points; each point is one action (`UpdateRecord` …
`UpdateFinish`, `Stop*`, `Start*`, `Cancel*`) which publishes or has one effect.
`Die` ends any command anywhere and frees its flocks; `BackendExits` is the
planned exit, `BackendCrashes` any other. The drain and release by which
`UpdateQuiesced` and `UpdateRelease` change `container` in one step are
`BackendDrain`.

Not in it: `repair`, the first installation, recovery and rename of an owner and
the migration of older per-workspace containers (`BackendOwner`), the inode pins of the storage lock
(assumed to confirm), the checks that a recorded runtime, port or path still
matches (they only refuse), the single pool owners (the census of pools is one
step), and the owners' part of a retained marker.

### BackendDrain

`lib/services/celler-work-drain-state.rs` (Tracker), `lifecycle/drain` (commands),
`lifecycle/sql` (gate), `lifecycle/deployment/backend` (the host's part),
`lifecycle/compiler` and `dolt/server` (supervision of the children, certificate).
`ReleaseCertificate` has the part of its variables that the certificate speaks of.

| variables | in the code |
|---|---|
| `tracker` | `Inner` of the Trackers of Celler and the compiler: phase, counters, failed |
| `sql` | the gate and its leases; `native` is what Dolt itself counts as sessions, which may outlast a lease |
| `call`, `late` | the command the host waits for; commands executed after their client is gone |
| `host`, `intent`, `route` | where the update is in `quiesce`, `abort`, `release`; its record; admission at the gateway |
| `planned`, `freed`, `certificate` | the three files in the container |
| `children`, `main` | how the native processes ended; where the first process is |

A request, a detached job, a workflow, a session or a broker's lease starts and
ends in a step of its own. `TakeTracked`, `TakeSql` and `Census` execute a
command; the gate's own counters and Dolt's sessions are read in two steps,
because the lock is given up in between. `GiveUp` is the client's timeout and may
put the command into `late`; `TakeLate` executes it at any later time. `Ends` and
the steps of `Release` are the clean end, `Disrupted` is every other end of the
container.

Not in it: the restart of a backend (`HostUpdate`), which work a counter counts,
and Dolt's failures to answer the census, which are `GiveUp`'s `error`.

### ExecutionRecord

`wrix-state/src/execution` (record), `wrix-sandbox/src/execution` (create, bind,
start, reconcile), `containment` (approved launches), `retirement` (observers).

| variables | in the code |
|---|---|
| `record`, `intent` | the ticket's `Phase` and the presence of its `/removal` row |
| `box` | its container; when gone: `buried` after an exit, `lost` before one |
| `proc` | every launcher, reconciliation and watcher, between which two calls it is |
| `reported` | history: tickets somebody was told are retired |

Each query of Podman and each transaction is a step. `Remove` is `podman rm`
without force; `ForeignRemove` is anybody's `rm`, with force if need be. A ticketed
launch (`execution::command`) starts directly after the binding, an approved one
(`Prepared::spawn`) reads the record once more; both are taken. `Reconcile*` is
`execution reconcile`, which records no intent, `Watch*` is
`retirement::reconcile`, which does.

Not in it: rechecks of a generation or an image, which only refuse (`Die`), the
Apple runtime, whose identities follow the same phases, and tickets whose
container has another identity (one container per ticket). A reconciliation that
dies between its `rm` and its transaction leaves a bound ticket whose container is
gone, refused from then on; the specification of the sandbox says so, and
`RemovalCompletes` speaks of recorded intents only.

### GatewayHandoff

`lifecycle/generation` (the plan, receipts, the command that changes it),
`control/serving/native` (the controller's loop), `control/gateway` (the issuer's
owners and attachments), `gateway`, `gateway/management`, `gateway/traffic` and
`route` (the front door).

| variables | in the code |
|---|---|
| `plan`, `receipt`, `status`, `halted` | `native-generation.json`, `native-retirement-<n>.json`, `native-status.json`, `stopped` |
| `container`, `draining`, `grants`, `seen` | each gateway: its container, and in its memory the closed admission, the grant table and the credentials it ever installed |
| `stream`, `route` | proxy connections, and the generation that new ones reach |
| `ctl`, `owner`, `held` | the controller: its point in `reconcile`, the ownership of launches, its attachments |
| `cli` | the command that publishes a plan and waits for its status |

A `late` connection was accepted while its gateway was draining; a `counted` one is
in a route's count. `Tick` begins a turn of the loop, `Prepare` … `Transfer` is the
handoff, `Select` and `DrainOld` the switch, `Obsolete` … `RecordRemoved` the
retirement, `Follow*` the tasks that hold an attachment. The plan and the receipts
survive a crash of the controller, everything of `ctl`, `owner`, `held` and the
counts does not; a gateway's memory ends with its process, which the runtime
restarts.

Not in it: the backend's four roles (their routes change with the same plan and
protect no grant), probes and probe credentials, epochs of owner transfers, which
nothing in production makes, and the caps of 32, 4096 and 65536 on links, grants
and credentials (`ObsoleteLimit` is the one cap the protocol turns on). The model
lets a new generation be published while the last one was never confirmed;
`prepare_gateway` has no guard against it either.

### PoolLease

`nix_store/owner/backend` and its `client` (the ledger, admission, retirement
threads), `nix_store/lifecycle` (maintenance), `nix_store/gc`, `nix_store/native`
with `native/restart` and `lib/services/nix-pool` (the guest).

| variables | in the code |
|---|---|
| `phase`, `index`, `fence`, `client`, `mount`, `boot` | the owner's state and executions, the maintenance marker, `client.json`, the projections, `bootstrap.json` |
| `files`, `dirty`, `lease` | the certificate and the resume marker on the pool's disk, whether it is synced, lease records |
| `vm`, `admission`, `handler`, `session`, `export` | the guest: whether it runs, `AdmissionState`, the command with the mutex, Nix sessions |
| `task`, `call`, `stray` | the host operation with the ownership lock, its call to the guest, calls whose caller is gone |
| `exec`, `watch`, `up`, `begun` | executions, retirement threads, the controller, a maintenance command between its halves |

Admission goes from `AdmitStart` to `AdmitDeliver`, retirement from `ReleaseStart`
to `ReleaseIndex`, a stop through both halves of repair, shutdown or update; the
guest takes one call at a time and may execute one whose caller timed out. Faults
are named: the host process crashes, a call times out or is dropped, the guest
dies, its container vanishes, an unmount fails.

Not in it: software seals and versions, image seeding, the Apple plane, replica
mounts, the key limit of 64 and the limit of 128 retirement threads; a retried job
is a new job; the inspection before an admission and the recording of activity are
one step.

### CacheAuthority, PendingPublication

`wrix-cache/src/backend/publication` and `wrix-cache/src/publisher`.
`CacheAuthority` has the files of a workspace's authority (`retired`, `binding`,
`journal`, `keyfile`), the backend's `view` by its key, and the commands that hold
`cache.lock`; `late` are requests that outlived their client, `disowned` records
that such a request changed the view. `PendingPublication` has the Nix store, the
root directories and records of captured outputs, the manifest of scopes, and the
hook, the publisher and the warm between each two of their file operations; Nix
collects what is not rooted whenever it likes. Not in them: the common view, the
publisher's RotateKey mode, tokens, records of older versions that expire.

### IssueSync

`wrix-beads/src/command` and `dolt/broker`. A root is the set of commits it
reaches; `tree` is the worktree's Dolt remote, `native` a managed workspace's
private remote, `admin` the Git administrations, `github` the published branch.
Dolt's pushes and pulls, the copying of tables and then of the manifest, the
recreation of the worktree with the remote set aside (`recovery`), the commit
between listing and adding files, the rebase and the push are steps that may fail
or be the last one. Not in it: the temporary override of Dolt's origin, the merge
policies of intents.

### DoltAdoption

`dolt/mod.rs` and `dolt/shared`: the database is moved under its native lock
(`original`, `open`, `phase`), copied (`snapshot`), exported and restored
(`backup`, `db`, `record`), the worktree moved or checked out anew and given a
private administration (`place`, `files`, `import`, `host`, `fresh`). Legacy
writers commit, edit and make another database at the old path (`stray`) as long
as they can. `Crash` may follow any step; a restore outlives it.

### FocusRegistration, Attention

`FocusRegistration` is `FocusRegistration` and `NativeRegistration` of
`command/launch.rs`.

| variables | in the code |
|---|---|
| `record` | per file name the `FocusRecord`, of which target and count |
| `lockfile` | which lock file beside it has the name: `NativeRegistration::remove` unlinks one, and the next `with_focus_lock` makes another |
| `launch` | every launcher: its target, the lock file it has opened (`inode`), what it read |
| `collided`, `split` | history: targets that another one with the same file name replaced; files whose registration two launchers had locked at once |

`Open` opens the lock file, `Read` waits for its lock and reads, `Create` and
`Unregister` write and unlock, `Unlink` is the last step of a supervisor. A launcher
waits only for those that have locked the file it has opened (`SameLock`), so that
one with the old lock file and one with a new one change the record together. Not in
it: the route that a record holds, its lease, failures to read or write it.

`Attention` is `wrix-notify/src/attention` with `navigation`
and `route`: the queue of targets, the copy that a visit works on until it commits,
the return position, and a world of windows, panes and clients that changes
between any two questions to it. A visit takes the newest entry, drops it when it
is stale, keeps it when the navigation must be retried, and commits. `owed` is the
history of what was queued and neither visited nor found stale.

### ImageStore, SandboxLaunch, PiCredentials

`ImageStore` is `image.rs` with the launch steps that use it, on both runtimes: a
lookup by digest, a tag, a copy, the check of what the reference names, the run.
`rows` are images found without a reference, `refs` what the references name.
Podman finds an image by its digest; Apple's runtime finds a reference to it
(`ImageForDigest`), and the tag finds out once more what that names (`Resolved`). Apple's
archives are loaded untagged, to be tagged and unloaded, or under a name of
their own, which is then not tagged (`LoadNamed`). `moved` is the history of
launches that count on a reference another one moved, `strayed` a launch whose
archive came with another name. `SandboxLaunch` is the
order of `launch.rs`: what every step leaves (`launch` has journal, staging,
registration, session), every failure, and what each end undoes; the client may be
lost and the launcher killed. The drop of an `Attempt` cancels its reservation or
fails to and only warns (`warned`). `PiCredentials` is `launch/pi_auth.rs`: lock, look
for Pi's own lock, move, link, mount, next to Pi processes that lock, read and
write.

### BackendOwner

`lifecycle/owner` and `lifecycle/migration`: the selection, a candidate, the rename
journal, containers by name and identity, the cutover's journal, and the
workspaces it takes over. The user stops, removes and starts containers; old
launchers start the services that the migration takes over. Not in it: recipes,
image identity and ports, Apple's runtime, legacy versions of the selection;
running sandboxes are only a reason to refuse.

### WorkspaceAdmission, NixApproval

`WorkspaceAdmission` is the trusted store: a transaction is one step, since it holds
the store's lock from its first read, but what it was prepared from was observed
before. Checkouts are replaced by others at their paths, the resolver's
attestations change, the repository directory is replaced. `worked` is the history
of namespaces that a checkout's commands changed. `NixApproval` has the approvals,
tickets and one-use requests, with contexts that end.

## Runs

Every run is exhaustive within its bounds. States are distinct states (up to
symmetry in `supervisor` and `host_update`).

| run | instance | states | shows |
|---|---|---|---|
| `supervisor` | 2 supervisors, 1 host, an own and a foreign operator (all actions), 1 descendant, 1 slot, 2 launches, all outcomes of a save | 1 315 490 | `SingleEpoch`, `CleanIsQuiet`; implements `ExclusiveService` |
| `retirement` | 1 supervisor, restarted; 2 hosts; an operator that never resumes; or a drain with requests, one late command at a time; fair | 234 236 | `DispatchIsFenced`, `NoResurrection`, `RetirementCompletes`; `CertificateTruthful`, `PlannedReleaseEnds` |
| `host_update` | 2 commands at once (update, resume, cancel, stop, start), 2 versions, pools | 1 510 136 | `OwnerMatchesContainer`, `CheckpointFaithful`; implements `DataCustody` |
| `host_update_legacy` | one command after another, no pools, no plan and no native ports at first; or 2 launchers, 2 reconcilers, 2 watchers of a ticket; fair | 305 760 | `IntentRemovalJustified`, `UpdateResumable`, `RemovalCompletes` |
| `host_update_restart` | one command after another, no pools | | counterexample to `NoOldBinaryAfterRelease` |
| `backend_drain` | all five kinds of work, one of each; no late command | 684 107 | `ReleaseFindsQuiet`; implements `CleanHandover` |
| `backend_drain_stray` | sessions, one late command at a time | | counterexample to `NoWorkAbandoned` |
| `gateway_handoff` | 2 generations, 1 launch, 1 connection, one fault of five kinds; fair | 212 525 | `OwnersStayAuthorized`, `RetirementSparesStreams`, `RevocationReaches`, `RetirementProceeds` |
| `pool_lease` | 2 executions, 2 maintenance commands, one fault of six kinds; fair | 180 753 | `LiveExecutionHeld`, `CollectionExcludesReaders`, `CertificateHonest`, `ReleaseProceeds` |
| `workspace` | eight components, each by itself | 550 532 | below |
| `workspace_launch` | five components, each by itself | 1 470 581 | below |
| `sync_overwrite` | a managed workspace and another machine | | counterexample to `PublishedSurvives` |

The parts of `workspace` and, from `FocusRegistration` to `BackendOwner` but for
`Attention`, of `workspace_launch`:

| component | instance | states | shows |
|---|---|---|---|
| `ExecutionRecord` | 1 ticket, 2 launchers, 2 reconcilers, 2 watchers | 6 789 | `TerminalIsTrue`; implements `OneShotWork` |
| `CacheAuthority` | 2 commands, 1 publisher, 4 keys | 8 128 | `ReplacementSpared` |
| `PendingPublication` | 1 output, 2 captures of it, hook, publish and warm | 71 480 | `PendingKept` |
| `IssueSync` | the host, 2 commits, 3 pushes, both kinds of workspace | 42 075 | `RemotesLoseNothing` |
| `DoltAdoption` | 1 legacy writer, 2 commits, 2 edits | 19 160 | `AdoptedWhole` |
| `FocusRegistration` | 3 launchers, one file name with a sandbox's and a native target, 1 lock file unlinked | 504 080 | `RegistrationHeld` |
| `Attention` | 1 target, 1 window with 2 panes | 66 960 | `AttentionKept` |
| `ImageStore` | both runtimes, 2 launchers, 2 images (one fit for the shared store), 2 references | 485 314 | `RunsItsImage` |
| `SandboxLaunch` | 1 launch, every failure | 2 185 | `LeftoversReported` |
| `PiCredentials` | 2 launchers, a native and a sandboxed Pi, 2 credentials | 3 668 | `CredentialsKept` |
| `BackendOwner` | 1 operator, 1 migrator, 2 names, 1 workspace, 5 identities | 475 334 | `OneBackend`, `CutoverComplete` |
| `WorkspaceAdmission` | 2 checkouts, 1 membership, 1 slot and the host's, 1 administrator, 1 launcher, 1 change of the world | 310 468 | `StoreReadable`, `HomeKept` |
| `NixApproval` | 1 ticket, 2 namespaces, 1 launcher, 2 controllers, 1 request | 25 472 | `AcceptedOnce` |

No run spends a property on types: they are a part of each inductive invariant,
which TLC checked before it was proved.

**Why the bounds are enough.** A second supervisor is what a restart over a
living or abandoned epoch needs; a third could only wait for the same flock. Two
launches give an epoch and its successor. One descendant is enough to outlive the
main process. One slot makes callers meet in the queue in every order; that
requests are bounded at 16 plays no part in any property. Two commands at once are
what three flocks can distinguish: one holds, one meets. Dead commands cost
nothing, so their number in a behaviour is not bounded, and neither are updates,
stops and restarts. Two versions are the old one and the target; an update back is
one of the behaviours. One unit of each kind of work is the difference between
busy and quiet, on which every guard depends. One late command at a time may be
any command, and after it was executed the next one may be late. Two executions
are one that ends and one that must be left alone. What is difficult about a
ticket happens between two observers of it; an image reference or a
credential file needs the second launch that changes it. A registration needs three:
a supervisor that unlinks the lock file, a launch that has opened it and one that
makes it anew; one unlinked lock file is what splits a lock. One fault at a time is
followed by any number of ordinary steps; that more of them break nothing is what
the proofs say. All bounds are on the environment (`MaxLaunch`, `MaxWork`,
`MaxLate`, `MaxStops`, `MaxFaults`, `MaxKeys`, `MaxPushes`, `MaxCount`,
`MaxUnlinks`, `MaxChanges`, `MaxGen`); no action of the code is cut off by one, save that the
environment does not ask for more.

Larger instances were explored by hand where the proofs say nothing or were not
yet there, without an error: `HostUpdate` without pools (3 500 736 states) and
without a plan at first (5 219 651); `BackendOwner` with two operators under
symmetry (1 982 269); `IssueSync` with a guest (4.0 million); `GatewayHandoff` with
three generations and lost calls (1 251 497) or one fault of any kind (3 830 777).

**Deadlock.** `CHECK_DEADLOCK FALSE` stands where the system may really end: an
unclean epoch that only an operator's repair may end (`ComponentSupervisor`), a
backend whose container exited (`BackendDrain`), tickets that are all retired or
whose container vanished (`ExecutionRecord`), a pool whose executions and commands
are used up (`PoolLease`), and the components of `MCWorkspace`, whose supplies of
commits, keys, identities and changes are finite. `HostUpdate` with pools and
`GatewayHandoff` are checked for deadlocks: some command can always be begun.

**Fairness.**
`ComponentSupervisor`: the loop polls its children and its probe and a stopping
supervisor goes through its cleanup; a Celler or a native process exits once it was
signalled (SIGTERM, for Dolt after its own shutdown). Nothing else is fair: no
request need ever come, no container need start.
`HostUpdate`: a command that runs goes on, or returns with an error where the code
has one (`Fails`), the resumption is begun again, and a backend that was released
exits. Commands may still die, but `UpdateResumable` speaks of behaviours in which
they stop to (`Calm`).
`BackendDrain`: commands are executed or time out, the first process supervises,
the host's process goes on or is resumed. Work need not end, sessions need not
disconnect.
`ExecutionRecord`: a watcher goes on, and looks again at a binding with a recorded
intent, as `wait_for_retirement` and the pool's `watch` do after every error while
the intent stands. Launchers and reconciliations are not fair; containers need not
exit.
`GatewayHandoff`: the controller's loop turns, is restarted when it died, its
follower tasks act, and the runtime restarts gateways (`--restart=unless-stopped`,
`lifecycle/generation/mod.rs:717`). Clients and commands owe nothing.
`PoolLease`: the guest and the host operation in progress go on, the daemon ends
what its clients left, and a watch tries every two seconds for a lock that it does
not wait for, which is strong fairness. Executions and maintenance commands owe
nothing.

**What the properties except.** An exception is named in the property where the
code makes it: `Wedged` in `HostUpdate`, `GatewayHandoff` and `PoolLease` (states
that no retry of the code gets out of, see the observations), `disowned` requests
of a dead client, targets with `collided` file names, registrations that two
launchers changed at once because their lock was `split`, private launches whose
reference, or the one under which their image was found, was `moved`, or whose archive
came under another name (`strayed`), a reservation that could not be cancelled
(`warned`), a Pi that begins right after a migration looked for it (`overtaken`), services that `recurred`
since the approval of the cutover, checkouts let `apart` while the integration is off.

## Disagreements

The three runs that expect a violation show where the code does not do what its
documentation says. Each has a trace of TLC behind it.

1. *A released image runs again* (`host_update_restart`,
   `lifecycle/deployment/mod.rs:345`). On a host without Nix pools no marker fences
   the resumption: an update that died after the release, `service stop --host`
   and `service start` start the old image, although after a release "no old
   binary is restarted". The resumed update then verifies that its checkpoint is
   for the same attempt but not that it is newer than the data. With pools both
   properties hold: `ReleasedStaysDown` and `CheckpointIsFaithful` prove it for
   every number of commands and versions.
2. *A late abort reopens the SQL gate* (`backend_drain_stray`,
   `lifecycle/sql/mod.rs:96`). A command whose client gave up is not cancelled in
   the container. The gate executes an abort in every state, so one that comes
   after the release was authorised admits a session, which Dolt's termination
   cuts off. The Tracker refuses the same abort, so Celler and the compiler never
   cut work off (`TrackedWorkFinishes`, for any number of late commands).
3. *A push overwrites what another machine published* (`sync_overwrite`,
   `dolt/broker/mod.rs:262`). In a managed workspace Dolt compares with the private
   remote, into which nothing imports what Git brought into the projection: the
   next push copies its own manifest over it and is a fast-forward for Git. In a
   repository workspace nothing is lost (`RemotesLoseNothing`).

## Observations

Things a maintainer should know that were met while modelling. They are excluded
from the properties by a named exception, or lie beside them.

*Supervisor.* A Resume whose save or spawn fails leaves the in-memory intent
Active; a later Retire then only observes Retired and records nothing, and the
next clean start launches Dolt (`supervisor/serve/mod.rs:270`,
`state/mod.rs:105`). No production caller sends a Resume, and `RetirementIsKept`
assumes that none does (`NeverResumed`).

*Update.* An update in Releasing whose backend died before its clean exit can
neither be completed nor cancelled (`Wedged`). A leftover workflow of a dead client
keeps every drain busy (`celler-work-drain-state.rs:26`), and a planned release of
Dolt waits for its child without a deadline (`dolt/server/mod.rs:111`).

*Gateways.* A lost reply to a Prepare makes the new generation reject the same
credential for as long as the launch lives (`Wedged`). Nothing removes a retired
gateway from `plan.obsolete`, so that updates are refused after 32 handoffs
(`generation/mod.rs:902`). An obsolete gateway that ended without a receipt is
retired only by the next `service stop --host`, and blocks later ones. A controller
whose drain of the old generation failed selects the new one again with fresh
counters (`Generation::from_native`), so that a connection admitted in between is in
no count; if its permit was taken after the drain closed admission
(`gateway/mod.rs:257`), a later retirement cuts it. This needs three generations:
it came out of the proof of `StreamsSpared`, and is the exact exception of
`RetirementSparesStreams`. Between the end of a handoff and the switch of the front
door a launch is registered only at the new gateway while connections still reach
the old one.

*Pools.* The retry of an applied Release whose answer was lost is Rejected: the
protection stays and the pool can never be collected, stopped or updated. A crash
between indexing a ticket and writing its `client.json` poisons the pool;
Registering, Attaching, Starting and Created are never recovered. `quiescent` is
one for the whole pool: another execution's export keeps a Release Busy. After a
Shutdown has latched Stopping, a busy second census leaves the daemon unsignalled,
and the pool neither serves nor stops; a repeated Shutdown that meets an orphaned
one publishes Serving over a guest that then stops. A daemon's child that outlives
its client can be missed by the census.

*Cache.* A DELETE that outlived its killed client can throw away the replacement of
a retried rotation (`disowned`; against `specs/cache.md:671`). A warm that dies
leaves its scope for ever, and records held for it are never drained. A crash
between the removal of a root directory and of its record makes later publishes
fail.

*Issues and adoption.* Host and guest have Git administrations of their own over
one worktree: a second rebase conflicts on the manifest and stays stuck until
somebody settles it. A refused divergence of intents is not remembered. `git add`
may commit a manifest whose tables it listed too early, which importers refuse.
A crash while the entries of a fresh worktree are moved (`dolt/shared/mod.rs:473`)
makes every retry fail on a directory that is not empty (`Collides`; against
`specs/beads.md:144`). An interrupted restore is refused for ever, by design. A
launcher of an older version may create another database at the old place.

*Owner and migration.* `migration::permits` is asked only when there is no shared
owner, while a cutover needs one: `service start` imports a legacy workspace
without authorization when its container is merely stopped. A `--prepare` during
an interrupted bootstrap lists the candidate's container as a legacy service, after
which the journal never matches again. Removing the stopped container during a
rename leaves a conflict for ever. An old launcher may leave a new database at the
old place between the check of its workspace and the final inventory; the property
excepts every service that an old launcher began anew since the approval
(`recurred`).

*Launches.* A private launch runs by a mutable reference: another one may move it to
an incompatible image between the check and the run (`moved`; against
`image.rs:828`). On Apple's runtime the image is found as a reference
(`image.rs:1046`) which `container image tag` resolves again (`image.rs:655`): when
another launch has moved it meanwhile, a private launch tags and runs that one's
image. An archive that is loaded under a name of its own is not tagged
(`image.rs:476`), and the launch runs whatever its reference named before
(`strayed`). A killed launcher leaves its staging, with copies of deploy keys,
its registration and a reserved ticket; a killed Podman client has its staging
removed under the running container. A failure to complete the journal is only
printed, and so is one of `Attempt::drop` (`sandbox/src/nix_store/mod.rs:211`): when
it cannot observe or cancel its ticket, because the context it asks with is stale or the store
cannot be written, the reservation goes on to keep the shared store while the
launch reports only why it failed (`warned`). On Darwin the synchronisation of writable files
is last-writer-wins.

*Pi.* A Pi that takes its lock between the look for it and the rename may lose an
update (`overtaken`). A crash between rename and link followed by a new login is a
conflict that the user must merge.

*Notifications.* A killed launcher's count stays in a shared record for ever. A
sandbox started under `wrix notify run` inherits the native target and overwrites
its lease, so that a leftover registration survives the supervisor's death (against
`specs/notifications.md`). Colliding file names may delete a record that is in use
(`collided`). A supervisor that ends unlinks its lock file after it has unlocked it
(`command/launch.rs:898`), and `with_focus_lock` opens and then locks without looking
whether the file still has the name (`command/launch.rs:928`): a launcher that opened it before and
one that makes it anew change the registration together, a count is lost and the
record is removed under a launch that lives (`split`). A navigation that fails half way has moved the user, and the next
entry's origin is that position.

*Store.* With the integration disabled an admitted checkout that is not its own
primary gets a namespace of its own (`Store::standalone` looks at binding and former
receipts, not at participants), after which enabling it again is refused for the
whole membership (`apart`; against `specs/workspaces.md:167`; the test covers a
checkout that is its own primary). A request issued before a withdrawal can be
claimed once the approval is given again. An approval cannot be withdrawn after the
repository directory was replaced.

## Proofs

TLAPS (Z3, Zenon and LS4 as backends) proves, for every value of the constants that
satisfies the named ASSUMEs. In parentheses the property of a run, where the
theorem states one (`NoOldBinaryAfterRelease` is the one of `host_update_restart`,
which the host without pools violates):

| module | theorems |
|---|---|
| `ComponentSupervisorProofs` | `TypesHold`, `OneEpochAtATime` (`SingleEpoch`), `HandoffNeverConflicts`, `CleanRecordIsTruthful` (`CleanIsQuiet`), `RetirementIsTruthful`, `DispatchAlwaysFenced` (`DispatchIsFenced`), `LaunchesAuthorized`, `UncleanStaysFinal`, `LeaseRefined` (`ImplementsLease`); where nobody resumes `RetirementIsKept` (`NoResurrection`) |
| `HostUpdateProofs` | `HostTypes`, `OwnerIsContainer` (`OwnerMatchesContainer`), `IntentIsUndisturbed`, `AdmissionIsFenced`, `HostKeepsCustody` (`ImplementsCustody`), `RemovalIsJustified` (`IntentRemovalJustified`); with pools `CheckpointIsFaithful` (`CheckpointFaithful`) and `ReleasedStaysDown` (`NoOldBinaryAfterRelease`) |
| `BackendDrainProofs` | `DrainTypes`, `CertificateIsTruthful` (`CertificateTruthful`), `TrackedWorkFinishes`; with no late command `ReleaseIsQuiet` (`ReleaseFindsQuiet`), `OpenIsServing`, `HandoverRefined` (`ImplementsHandover`) |
| `ExecutionRecordProofs` | `RecordTypes`, `TerminalEvidence` (`TerminalIsTrue`), `ReportsAreTrue`, `RunsOnlyBound`, `OneShotRefined` (`ImplementsOneShot`) |
| `GatewayHandoffProofs` | `AuthorityHeld` (`OwnersStayAuthorized`), `StreamsSpared` (`RetirementSparesStreams`) |
| `PoolLeaseProofs` | `PoolTypes`, `LiveExecutionsHeld` (`LiveExecutionHeld`), `CollectionIsExclusive` (`CollectionExcludesReaders`), `ReadersLeased`, `CertificateIsHonest` (`CertificateHonest`) |
| `CustodyProofs` | `AcceptedAtMostOnce` (`AcceptedOnce`), `ReplacementKept` (`ReplacementSpared`), `AdoptionComplete` (`AdoptedWhole`), `PendingStaysKept` (`PendingKept`), `RemotesKept` (`RemotesLoseNothing`) |
| `WorkspaceProofs` | `ImagesRun` (`RunsItsImage`), `LeftoversKnown` (`LeftoversReported`), `CredentialsSurvive` (`CredentialsKept`), `RoutesHeld` (`RegistrationHeld`), `AttentionWaits` (`AttentionKept`), `StoreStaysReadable` (`StoreReadable`), `HomesKept` (`HomeKept`), `BackendIsOne` (`OneBackend`), `CutoverIsComplete` (`CutoverComplete`) |

So every invariant, every action property and every refinement that a passing run
checks is proved: for any number of supervisors, hosts, callers and launches; any
kinds and amounts of work and of late commands; any tickets, launchers,
reconcilers and watchers; any commands on a host and any versions; any gateway
generations, connections and faults; any executions and maintenance commands of a
pool; any images, references, checkouts, namespaces, commits, outputs and
panes. Each invariant was checked by TLC, as an invariant of the run's instance,
before it was proved.

Each proof is laid out the same way. One named inductive invariant, a conjunction of
named parts; a lemma that the initial states have it; a lemma for each action, with
one step for every part the action may disturb; a lemma that gathers them; and the
theorem.

**ComponentSupervisor.** The invariant is `IInv`. `SingleEpoch` alone is not
inductive: that nobody starts a second epoch depends on who has the epoch lock
where in `run` (`HoldsInv`), that a lock holder sees no native process
(`NativeInv`), that a record lets nobody begin while an epoch lives (`EpochInv`,
`CleanIsQuiet`), and that only the owner of the ownership lock is past `Open`
(`OwnerInv`). `ChildInv` keeps the launch a supervisor waits for, `CellerInv` the
Celler of a dead one. `DispatchInv` relates the host's fence to requests still in
the queue; it stands apart. `LeaseRefined` needs only `IInv` and one lemma per
abstract step. `RetirementIsKept` assumes that no operator sends a Resume
(`NeverResumed`), which is how the program is used; a Resume whose save failed
leaves Active in memory, and then the property is false. Its invariant `RestInv`
adds that no Resume is queued, that a supervisor which retires has it on disk, and
that what a caller was told is on disk.

**HostUpdate.** `TypeOK` is not inductive alone: what `EnsureCommit` selects is a
version only because the candidate is still there, and what a phase publishes is an
update only because the process has adopted one; both depend on the locks.
`ProcInv` ties each operation to its points (`Placed`) and to the update it has in
memory (`Adopted`); `LockInv` names the flocks that a process has at each point
(`Holds`). A step of one process is `Orderly` when it leaves the locks of the
others alone, so both are proved once per action and for no pair of them. With
`StateTypes` and what a process relies on at its point (`Grounded`) they make
`Inv`. On it rest: a candidate is on disk before its container runs and stays the
recorded owner until it is selected (`OwnerInv`); `update.json` is written only by
the holder of the update lock (`IntentInv`); a reader of the gate keeps the marker,
the shutdown record and the phases after the preparation away (`AdmitInv`).
The refinement needs `CustodyInv`: the container is of the version that opened the
data last, and the recorded owner is that version or the target that a checkpoint
was made for (`Custodian`); what each point of an update relies on is so
(`Entrusted`). The removal of `update.json` needs in addition what an update has
done when it gets there (`Concluded`), and that an attempt which touched an owner
left a trace of it (`Traced`): `RemovalInv`. The checkpoint's faithfulness rests on
the marker, and so on pools: `GuardInv` says that from the first drain to the
opening by the target the marker stands, that nobody passes it (`Guarded`), and that
the checkpoint is not stale (`Exact`). Without pools finding 1 refutes both
theorems, which is why they assume `Pooled`.

**BackendDrain.** `SafeInv` (types and leases, a tracked role that was released has
no work left, the first process follows the ends of its children, the planned stop
was authorised by `update.json`) holds with any late command and gives the
certificate and `TrackedNeverAbandons`. `HandoverInv` adds that the host's point and
role describe what the roles answered before (`CallInv`, `QuietInv`, `RouteInv`); it
is inductive only when no command is executed late, since finding 2 breaks exactly
that. This is why three theorems assume `MaxLate = 0`; their run has the same
constant.

**ExecutionRecord.** `IInv` says what a process knows at each of its points and that
it stays true whatever the others do: a launcher's container was not started before
(`LaunchInv`, with at most one launcher a ticket, `OneLauncher`), what an observer
saw exited is exited or buried (`ObserveInv`), and a removal intent stands only over
an exited or buried container (`TicketInv`). `OneShotRefined` maps every step to one
of the abstract ones or to a stutter.

**GatewayHandoff.** `Inv` orders the generations (`PlanInv`: what is obsolete is older
than what serves, and that older than what is prepared; `Selection`), places the
controller in them (`CtlInv`, `Routing`), and says of a live launch how far the
handoff is with it: still to be prepared, or to be activated, or followed (`Handed`,
with `Tables`). For the retirement, `Streaming` relates each connection to its
gateway and `Spared` says that from the drain on what is left at a retiring gateway
is not counted and is late or not accepted. That a set of generations has a first
one is lemma `Least`, from the library's theorems about well-founded sets.

**PoolLease.** `IInv` is the type with: the shapes of operations and calls (`Shapes`,
`Calls`), what the operation in progress has found so far (`Progress`), what
admission and retirement have done of a ticket (`Admission`, `Retirement`), that a
protected ticket is in the ledger of a pool that serves (`Protection`), that a
release is asked only for an unmounted projection (`Unmounted`), that the guest
counts nobody without a lease (`Counted`), and the files of the storage over a boot,
a shutdown and a death (`Storage`).

**Components of a workspace.** `CustodyProofs` and `WorkspaceProofs` extend
`MCWorkspace`, so that a theorem states the very property of the run; a lemma shows
that a step of `WorkspaceNext` is one of the component or leaves its variables. Per
component:

| invariant | besides types and the property itself |
|---|---|
| `ApprovalInv` | an identity is drawn once, for one request (`Drawn`); who is about to accept a request that is still there read that one (`Claimed`) |
| `AuthorityInv` | who works holds the lock (`Exclusive`); a rotation does nothing before its intent is on record (`Intended`); what will be recorded is the key of the view (`Confirmed`); the recorded key follows the view (`Followed`) |
| `AdoptionInv` | nobody writes to a moved database and its complete copies were made since (`Copied`); what is registered has an export and a worktree (`Exported`); the database is restored once (`Restored`); a moved worktree is not edited, and the administration gets all there is (`Moved`) |
| `PendingInv` | rooted outputs stay (`Rooting`, `Acquiring`); what a program took it has still to deliver (`Carried`), and it completes only what is delivered (`Completing`) |
| `IssueInv` | a repository's sessions close one at a time (`Alone`); what was set aside is there until it is put back (`SetAside`); the branch only grows, and so does what is on it (`Grown`, `Based`); the remote has what was checked out (`Ahead`) |
| `ImageInv` | the reference under which the image was found, until it is tagged, and the launch's own from then on, names the image, or nothing, unless it was moved or the archive's name was another (`Pointed`) |
| `SandboxInv` | what a launch has passed it has removed or says so (`Undone`); the journal is closed at the end (`Journalled`); a reservation is cancelled, handed off or warned of (`Reservations`) |
| `PiInv` | unless overtaken: one migration at a time, nothing linked before its target is a file (`Migration`), a Pi at work has the lock of its file and that file has what it read (`Working`) |
| `FocusInv` | who writes a registration that was not split is the only one to have read it since it was last written (`Locked`); the count covers also who is about to leave (`Held`) |
| `AttentionInv` | who has begun holds the lock (`WriterInv`); one entry per target in the queue and in a visit's copy, which keeps what the visit has not dealt with (`QueueInv`) |
| `AdmissionInv` | what a command has seen (`Seeing`); commands work in registered namespaces, those of their checkouts (`Entered`) |
| `BackendInv` | who works on the backend has the host's lock (`Holding`); the records name only the backend it prepares (`Prepared`); a rename has an owner and ends when the old name is free (`Renames`); a migration has still to visit what it has not taken over (`Asked`, `Visited`) |

**Assumptions.** Each is named, in the module that declares the constants, and TLC
evaluates it on every run. They say that `None` is none of the things it stands for
the absence of (`NoneIs…`), that processes of different kinds are different, that
bounds are numbers, and that the words a constant may contain are the ones the code
has. In `MCWorkspace` also: the reference `Latest` is one of the references; the host
is one of those who push (`HostPushes`); the host's own slot is no integration's
(`AssociationIsHosts`); there is a membership (`MembersExist`); a backend's name is no
workspace's (`HostsApart`); workspaces can have containers of different identities
(`IdentitiesDistinct`); the backend can generate a key (`KeysExist`); a run chooses
from the components there are (`PicksAreComponents`); and the launchers of a
registration are finitely many (`RegistrantsFinite`), since it counts them.

**Only model-checked.** The seven liveness properties: `RetirementCompletes`,
`UpdateResumable`, `RemovalCompletes`, `PlannedReleaseEnds`, `RevocationReaches`,
`RetirementProceeds` and `ReleaseProceeds`. Liveness under fairness and ENABLED are
out of this prover's reach. So are facts by induction over data and about RECURSIVE
operators; the modules have neither.

Theorems without a property in parentheses state definitions of the modules that no
run lists: the types, and what was once checked by a run of its own
(`HandoffUncontended`, `RetiredIsQuiet`, `LaunchAuthorized`, `UncleanIsFinal`,
`IntentUndisturbed`, `NoAdmissionDuringHandoff`, `TrackedNeverAbandons`,
`OpenMeansServing`, `ReportsAreRecorded`, `RunsBound`, `ReadersHoldLeases`).

## Not modelled

`PROJECT.json` lists every component with its reason, and the sections above say
what each module leaves out. In short: the controller's registry is read, checked
and written under one lock. Apple's execution records follow the phases of
`ExecutionRecord` over other identities. Runtime adapters, launch configuration,
command lines, templates, the layer planner, verifier tools and packaging format,
parse and call, with no protocol of their own.

Hazards of the code that no property covers, for what is left to do: a first writer
of the store that dies between its lock file and its database
(`wrix-state/src/store/mod.rs:138`); an outcome forgotten at 128 jobs
(`control/pool/mod.rs:134`); access revoked while the sync lock is awaited
(`dolt/broker/mod.rs:230`); sessions that begin between the gate's own counters and
Dolt's census (`lifecycle/sql/mod.rs:134`); the projection that changes under its
copy (`dolt/snapshot.rs:38`); a descendant that keeps the epoch lock while a
supervisor serves Retired (`supervisor/serve/mod.rs:188`); the seals and versions of
a pool's software.
