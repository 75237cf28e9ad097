----------------------------- MODULE MCWorkspace -----------------------------
(***************************************************************************)
(* Instances, for TLC, of components of a host and its workspaces that     *)
(* share no state: execution tickets, the authority to publish to a cache, *)
(* what waits to be published, the synchronisation of issues, the adoption *)
(* of a database that was there before, the routes of notifications, the   *)
(* attention they ask for, images, the launch of a sandbox, the            *)
(* credentials of the Pi agent, the owner of the shared backend, the store *)
(* that says who may act where, and the approvals of the shared Nix store. *)
(* A behaviour picks one of them, and the others stand still: a run checks *)
(* each of its Picks by itself.                                            *)
(***************************************************************************)
EXTENDS ExecutionRecord, Naturals, FiniteSets

CONSTANTS
    Picks,                          \* the components of a run
    Admins, Publishers, MaxKeys,    \* CacheAuthority
    Outs, Ids,                      \* PendingPublication
    Callers, Commits, MaxPushes,    \* IssueSync
    Writers, Edits,                 \* DoltAdoption, with Commits
    Registrants, Files, Names, MaxCount, MaxUnlinks, \* FocusRegistration
    Receivers, Windows, Panes,      \* Attention
    Contents, Compatible, Refs, Latest,     \* ImageStore, with Launchers
    Sandboxes,                      \* SandboxLaunch
    Natives, Guests, Tokens,        \* PiCredentials, with Launchers
    Restarters, Migrators, Hosts, Default, Workspaces, Identities,  \* BackendOwner
    Checkouts, Members, Slots, Association, Administrators, Starters, \* WorkspaceAdmission
    MaxChanges,
    Controllers, RequestIds, Limit    \* NixApproval, with Tickets, Checkouts and Starters

ASSUME PicksAreComponents ==
    Picks \subseteq {"execution", "authority", "pending", "issues", "adoption", "routes",
                     "attention", "images", "sandbox", "credentials", "backend", "admission",
                     "approvals"}
\* What stands for nothing or nobody is no member of anything.
ASSUME NoneIsNobody ==
    None \notin Launchers \cup Registrants \cup Natives \cup Guests \cup Contents \cup Admins
                    \cup Publishers \cup Slots \cup Commits \cup Hosts \cup Workspaces
                    \cup Restarters \cup Migrators
ASSUME NoneIsNoWord ==
    None \notin {"running", "exited", "reserved", "retired", "ended", "source", "destination",
                 "partial", "restoring", "imported", "ready",
                 "start", "rename", "quiesced", "migrate", "enqueue", "focus", "return"}
ASSUME LatestIsReference == Latest \in Refs
ASSUME NoneIsNoReference == None \notin Refs
ASSUME NoneIsNoRecord ==
    /\ None \notin [file : Files, name : Names \cup {"native"}]
    /\ None \notin [target : [file : Files, name : Names \cup {"native"}] \cup {None},
                    count : Nat]
    /\ None \notin [prior : {None, 0} \cup 1..MaxKeys]
ASSUME NoneIsNoReservation ==
    /\ None \notin [slot : Slots \cup {Association}, member : Members \cup Checkouts,
                    primary : Checkouts, evidence : Nat \X Nat]
    /\ None \notin [key : Checkouts, evidence : Nat \X Nat]
    /\ None \notin [destination : Checkouts, evidence : Nat \X Nat]
ASSUME NoneIsNoRemote ==
    None \notin [root : {{None}} \cup SUBSET Commits, tables : SUBSET Commits]
\* The host pushes, whoever else does.
ASSUME HostPushes == "host" \in Callers
ASSUME NoneIsNoCopy ==
    /\ None \notin [items : SUBSET (Commits \cup Edits), whole : BOOLEAN]
    /\ \A s \in SUBSET (Commits \cup Edits) : s # None
ASSUME NoneIsNoKey == None \notin 1..MaxKeys
\* No integration has the slot of the host's own associations.
ASSUME AssociationIsHosts == Association \notin Slots
ASSUME MembersExist == Members # {}
ASSUME NoneIsNoContainer ==
    /\ None \notin [id : Identities, running : BOOLEAN]
    /\ None \notin [from : Hosts, to : Hosts, id : Identities \cup {None}]
\* The backend's names are no workspace's, and containers have identities
\* of their own.
ASSUME HostsApart == Hosts \cap Workspaces = {} /\ Default \in Hosts
ASSUME IdentitiesDistinct ==
    \E f \in [Workspaces -> Identities] : \A v, w \in Workspaces : v # w => f[v] # f[w]
ASSUME KeysExist == MaxKeys \in Nat \ {0}
ASSUME RegistrantsFinite == IsFiniteSet(Registrants)

VARIABLES
    pick,
    lock, retired, binding, journal, keyfile, view, fresh, late, disowned, pc, command,
    outputs, dirs, records, recorded, delivered, pins, scopes, cacheLock, at, job,
    mode, db, native, access, op, tree, valid, recovery, gitlock, admin, github, published,
    stage, listed,
    original, stray, open, phase, snapshot, backup, registration, shared, enabled, place,
    files, import, private, anew, adopter,
    route, lockfile, launch, collided, split,
    registered, queued, saved, writer, commands, owed, focused, selected, alive, opened,
    clients,
    apple, rows, refs, install, boots, moved,
    session, client, cage, reservation,
    path, target, locked, migrating, setup, agent, written, overtaken,
    owner, prepared, renaming, managed, containers, ownerLock, cutover, adopted, sources,
    recurred, restart,
    attest, age, repository, homes, initialized, acknowledged, integration, namespaces,
    bound, participant, former, caller, worked, apart, changes,
    current, common, approval, granted, requests, issued, accepted, actor, changed

authority == <<lock, retired, binding, journal, keyfile, view, fresh, late, disowned, pc,
               command>>
pending == <<outputs, dirs, records, recorded, delivered, pins, scopes, cacheLock, at, job>>
issues == <<mode, db, native, access, op, tree, valid, recovery, gitlock, admin, github,
            published, stage, listed>>
adoption == <<original, stray, open, phase, snapshot, backup, registration, shared, enabled,
              place, files, import, private, anew, adopter>>
routes == <<route, lockfile, launch, collided, split>>
attention == <<registered, queued, saved, writer, commands, owed, focused, selected, alive,
               opened, clients>>
images == <<apple, rows, refs, install, boots, moved>>
sandbox == <<session, client, cage, reservation>>
credentials == <<path, target, locked, migrating, setup, agent, written, overtaken>>
backend == <<owner, prepared, renaming, managed, containers, ownerLock, cutover, adopted,
             sources, recurred, restart>>
admission == <<attest, age, repository, homes, initialized, acknowledged, integration,
               namespaces, bound, participant, former, caller, worked, apart, changes>>
approvals == <<current, common, approval, granted, requests, issued, accepted, actor, changed>>
all == <<pick, vars, authority, pending, issues, adoption, routes, attention, images, sandbox,
         credentials, backend, admission, approvals>>

Authority == INSTANCE CacheAuthority WITH Commands <- Admins

Pending == INSTANCE PendingPublication WITH store <- outputs, lock <- cacheLock, pc <- at

Issues == INSTANCE IssueSync WITH pc <- stage

Adoption == INSTANCE DoltAdoption WITH
    record <- registration, db <- shared, host <- private, fresh <- anew, pc <- adopter

Focus == INSTANCE FocusRegistration WITH
    Launchers <- Registrants, record <- route

Attend == INSTANCE Attention WITH
    Targets <- Receivers,
    registration <- registered, pending <- queued, lock <- writer, command <- commands,
    open <- opened

Images == INSTANCE ImageStore WITH launch <- install, container <- boots

Sandbox == INSTANCE SandboxLaunch WITH
    Launchers <- Sandboxes, launch <- session, container <- cage, ticket <- reservation

Pi == INSTANCE PiCredentials WITH launch <- setup

Backend == INSTANCE BackendOwner WITH
    Operators <- Restarters, Ids <- Identities,
    candidate <- prepared, lock <- ownerLock, journal <- cutover, proc <- restart

Admission == INSTANCE WorkspaceAdmission WITH
    Host <- Association, Launchers <- Starters,
    dirs <- homes, registered <- namespaces, binding <- bound, proc <- caller

Approvals == INSTANCE NixApproval WITH
    Keys <- Checkouts, Launchers <- Starters, Ids <- RequestIds,
    age <- current, repository <- common, tickets <- granted, proc <- actor,
    changes <- changed

(* A component that is not picked has one initial state; at most one        *)
(* worktree has state of its own from before the host had a store.          *)
WorkspaceInit ==
    /\ pick \in Picks
    /\ Init
    /\ Authority!Init /\ (pick # "authority" => view = None)
    /\ Pending!Init /\ (pick # "pending" => outputs = {})
    /\ Issues!Init /\ (pick # "issues" => mode = "managed")
    /\ Adoption!Init /\ (pick # "adoption" => place = None)
    /\ Focus!Init /\ (pick # "routes" => route = [f \in Files |-> None])
    /\ Attend!Init
    /\ pick # "attention" =>
         /\ focused = CHOOSE w \in Windows : TRUE
         /\ selected = [w \in Windows |-> CHOOSE p \in Panes : TRUE]
    /\ Images!Init /\ (pick # "images" => apple = FALSE /\ rows = {})
    /\ Sandbox!Init
    /\ Pi!Init /\ (pick # "credentials" => path.kind = "none")
    /\ Backend!Init
    /\ Admission!Init /\ homes \subseteq {CHOOSE c \in Checkouts : TRUE}
    /\ pick # "admission" => homes = {}
    /\ Approvals!Init

WorkspaceNext ==
    /\ UNCHANGED pick
    /\ pick # "execution" => UNCHANGED vars
    /\ pick # "authority" => UNCHANGED authority
    /\ pick # "pending" => UNCHANGED pending
    /\ pick # "issues" => UNCHANGED issues
    /\ pick # "adoption" => UNCHANGED adoption
    /\ pick # "routes" => UNCHANGED routes
    /\ pick # "attention" => UNCHANGED attention
    /\ pick # "images" => UNCHANGED images
    /\ pick # "sandbox" => UNCHANGED sandbox
    /\ pick # "credentials" => UNCHANGED credentials
    /\ pick # "backend" => UNCHANGED backend
    /\ pick # "admission" => UNCHANGED admission
    /\ pick # "approvals" => UNCHANGED approvals
    /\ \/ pick = "execution" /\ Next
       \/ pick = "authority" /\ Authority!Next
       \/ pick = "pending" /\ Pending!Next
       \/ pick = "issues" /\ Issues!Next
       \/ pick = "adoption" /\ Adoption!Next
       \/ pick = "routes" /\ Focus!Next
       \/ pick = "attention" /\ Attend!Next
       \/ pick = "images" /\ Images!Next
       \/ pick = "sandbox" /\ Sandbox!Next
       \/ pick = "credentials" /\ Pi!Next
       \/ pick = "backend" /\ Backend!Next
       \/ pick = "admission" /\ Admission!Next
       \/ pick = "approvals" /\ Approvals!Next

WorkspaceSpec == WorkspaceInit /\ [][WorkspaceNext]_all

(* A rotation invalidates only the view it named, and the recorded key     *)
(* follows the view (CacheAuthority).                                      *)
ReplacementSpared == Authority!ReplacementSpared

(* What was recorded as pending is rooted until it is published            *)
(* (PendingPublication).                                                   *)
PendingKept == Pending!PendingKept

(* A repository's remote and branch lose no commit, and a private remote   *)
(* names no table it has not got (IssueSync).                              *)
RemotesLoseNothing == Issues!RemotesLoseNothing

(* What clients may use has all that the workspace had, and keeps it       *)
(* (DoltAdoption).                                                         *)
AdoptedWhole == Adoption!AdoptedWhole

(* A launch keeps its route while it lives (FocusRegistration).            *)
RegistrationHeld == Focus!RegistrationHeld

(* What asked for attention waits until it is visited or stale             *)
(* (Attention).                                                            *)
AttentionKept == Attend!AttentionKept

(* A container runs the image that its launch was asked for (ImageStore).  *)
RunsItsImage == Images!RunsItsImage

(* A launch that returns has undone what it did, or says that it has not   *)
(* (SandboxLaunch).                                                        *)
LeftoversReported == Sandbox!LeftoversReported

(* No credential of Pi is lost by its move (PiCredentials).                *)
CredentialsKept == Pi!CredentialsKept

(* The host's data has at most one container, and a record names it        *)
(* (BackendOwner).                                                         *)
OneBackend == Backend!OneBackend

(* A cutover that succeeds leaves no listed workspace apart                *)
(* (BackendOwner).                                                         *)
CutoverComplete == Backend!CutoverComplete

(* No sequence of commands writes a store that is refused as unsupported   *)
(* (WorkspaceAdmission).                                                   *)
StoreReadable == Admission!StoreReadable

(* The namespace of a checkout is not taken from its commands              *)
(* (WorkspaceAdmission).                                                   *)
HomeKept == Admission!HomeKept

(* A request is accepted once, under an approval in force (NixApproval).   *)
AcceptedOnce == Approvals!AcceptedOnce
=============================================================================
