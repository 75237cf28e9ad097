----------------------------- MODULE ImageStore ------------------------------
(***************************************************************************)
(* The image store of a user's container runtime.  Each launch of a        *)
(* sandbox installs the image it was asked for under a mutable reference,  *)
(* checks what the reference names, and runs it.  Launches of different    *)
(* versions share references, and the user removes images: nothing locks   *)
(* the store between the steps of a launch.                                *)
(***************************************************************************)
EXTENDS FiniteSets

CONSTANTS
    Launchers,
    Contents,       \* images, by the digest of their content
    Compatible,     \* those that implement the private Nix store
    Refs,           \* mutable references of images
    Latest,         \* the one that follows the last image that was copied
    None

VARIABLES
    apple,      \* Apple's runtime on Darwin, or Podman
    rows,       \* images found without a reference: Podman's by their digest,
                \* Apple's in an untagged row
    refs,       \* Refs -> the image it names
    launch,     \* what each launcher does
    container,  \* the image that each launch's container runs
    moved       \* launches under which a reference was moved, as history

vars == <<apple, rows, refs, launch, container, moved>>

NoLaunch == [pc |-> "idle", want |-> None, ref |-> None, shared |-> FALSE, source |-> None,
             strayed |-> FALSE]

Init ==
    /\ apple \in BOOLEAN
    /\ rows \in SUBSET Contents
    /\ refs \in [Refs -> (IF apple THEN Contents ELSE rows) \cup {None}]
    /\ launch = [l \in Launchers |-> NoLaunch]
    /\ container = [l \in Launchers |-> None]
    /\ moved = {}

-----------------------------------------------------------------------------
Moves(l, from, to) ==
    /\ launch[l].pc = from
    /\ launch' = [launch EXCEPT ![l].pc = to]

(* The image of the profile has a recorded digest, that of an override has *)
(* the one its descriptor or its archive tells.                            *)
Desired(c, r) == [NoLaunch EXCEPT !.pc = "lookup", !.want = c, !.ref = r]

(* A shared Nix store takes only the image of the profile.                 *)
Blocked(shared, overridden) == shared /\ overridden

Request(l, c, r, shared, overridden) ==
    /\ launch[l].pc = "idle"
    /\ ~Blocked(shared, overridden)
    /\ launch' = [launch EXCEPT ![l] = [Desired(c, r) EXCEPT !.shared = shared]]
    /\ UNCHANGED <<rows, refs, container, moved>>

(* A launch counts on the reference it has found until it tags that, and   *)
(* on its own from then on.                                                *)
Relies(k, r) ==
    \/ launch[k].pc = "tag" /\ launch[k].source = r
    \/ launch[k].pc \in {"untag", "latest", "check", "spawn"} /\ launch[k].ref = r

(* A reference is moved under the launches that count on it. *)
Point(l, r, c) ==
    /\ refs' = [refs EXCEPT ![r] = c]
    /\ moved' = moved \cup {k \in Launchers \ {l} : Relies(k, r) /\ launch[k].want # c}

(* Podman finds an image by its digest, which stands for no reference.     *)
(* Apple's runtime lists references and untagged rows, and each of them is *)
(* inspected.                                                              *)
ImageForDigest(c) ==
    {r \in Refs : apple /\ refs[r] = c} \cup {r \in {None} : c \in rows}

(* A reference that names the image already is left as it is.  An image of *)
(* Apple's is known only when this program has attested it.                *)
Lookup(l) ==
    LET found == ImageForDigest(launch[l].want) IN
    /\ launch[l].pc = "lookup"
    /\ \/ \E r \in found \ {launch[l].ref} :
            launch' = [launch EXCEPT ![l].pc = "tag", ![l].source = r]
       \/ launch[l].ref \in found /\ launch' = [launch EXCEPT ![l].pc = "check"]
       \/ (apple \/ found = {}) /\ launch' = [launch EXCEPT ![l].pc = "copy"]
    /\ UNCHANGED <<rows, refs, container, moved>>

(* What the runtime finds under the source of a tag: a reference names what *)
(* it names by now.                                                        *)
Resolved(l) ==
    IF launch[l].source # None THEN refs[launch[l].source]
    ELSE IF launch[l].want \in rows THEN launch[l].want ELSE None

\* Mutant: an image that is present keeps the references it has.
MutTag(l, from, to) ==
    /\ launch[l].pc = from
    /\ Resolved(l) # None
    /\ launch' = [launch EXCEPT ![l].pc = to, ![l].source = None]
    /\ UNCHANGED <<rows, refs, container, moved>>

(* An image that is present gets the reference. *)
Tag(l, from, to) ==
    /\ launch[l].pc = from
    /\ Resolved(l) # None
    /\ Point(l, launch[l].ref, Resolved(l))
    /\ launch' = [launch EXCEPT ![l].pc = to, ![l].source = None]
    /\ UNCHANGED <<rows, container>>

(* Podman's store takes the image together with the reference. One without *)
(* a tag has no latest.                                                    *)
Copy(l, tagged) ==
    /\ ~apple
    /\ Moves(l, "copy", IF tagged THEN "latest" ELSE "check")
    /\ rows' = rows \cup {launch[l].want}
    /\ Point(l, launch[l].ref, launch[l].want)
    /\ UNCHANGED container

(* Apple's store loads an archive into an untagged row, to be tagged and   *)
(* removed.                                                                *)
Load(l) ==
    /\ apple
    /\ Moves(l, "copy", "loaded")
    /\ rows' = rows \cup {launch[l].want}
    /\ UNCHANGED <<refs, container, moved>>

(* An archive that brings a name of its own is loaded under that, and is   *)
(* not tagged.                                                             *)
LoadNamed(l, r) ==
    /\ apple
    /\ launch[l].pc = "copy"
    /\ launch' = [launch EXCEPT ![l].pc = "check", ![l].strayed = r # launch[l].ref]
    /\ Point(l, r, launch[l].want)
    /\ UNCHANGED <<rows, container>>

Unload(l) ==
    /\ launch[l].want \in rows
    /\ Moves(l, "untag", "check")
    /\ rows' = rows \ {launch[l].want}
    /\ UNCHANGED <<refs, container, moved>>

(* The latest image is what the reference names by now. *)
TagLatest(l) ==
    LET c == refs[launch[l].ref] IN
    /\ Moves(l, "latest", "check")
    /\ c # None
    /\ Point(l, Latest, c)
    /\ UNCHANGED <<rows, container>>

(* What the reference names implements the private Nix store. *)
RequirePrivateNix(l) ==
    /\ Moves(l, "check", "spawn")
    /\ refs[launch[l].ref] \in Compatible
    /\ UNCHANGED <<rows, refs, container, moved>>

Runs(l, c) ==
    /\ Moves(l, "spawn", "running")
    /\ c # None
    /\ container' = [container EXCEPT ![l] = c]
    /\ UNCHANGED <<rows, refs, moved>>

(* A private sandbox runs what its reference names by now. *)
Spawn(l) == ~launch[l].shared /\ Runs(l, refs[launch[l].ref])

(* The runtime is told the digest of a shared one; Apple's knows only      *)
(* references, and what this one names is compared with the digest.        *)
SpawnShared(l) ==
    /\ launch[l].shared
    /\ IF apple THEN refs[launch[l].ref] = launch[l].want ELSE launch[l].want \in rows
    /\ Runs(l, launch[l].want)

(* A launch ends, or fails or is killed before. *)
End(l) ==
    /\ launch[l].pc # "idle"
    /\ launch' = [launch EXCEPT ![l] = NoLaunch]
    /\ container' = [container EXCEPT ![l] = None]
    /\ moved' = moved \ {l}
    /\ UNCHANGED <<rows, refs>>

(* The user removes an image that no container runs. *)
Prune(c) ==
    /\ c \in rows \/ \E r \in Refs : refs[r] = c
    /\ \A l \in Launchers : container[l] # c
    /\ rows' = rows \ {c}
    /\ refs' = [r \in Refs |-> IF refs[r] = c THEN None ELSE refs[r]]
    /\ UNCHANGED <<launch, container, moved>>

-----------------------------------------------------------------------------
Installing(l) ==
    \/ \E c \in Contents, r \in Refs, shared, overridden \in BOOLEAN :
         Request(l, c, r, shared, overridden)
    \/ Lookup(l) \/ Tag(l, "tag", "check") \/ (\E tagged \in BOOLEAN : Copy(l, tagged))
    \/ TagLatest(l)
    \/ Load(l) \/ Tag(l, "loaded", "untag") \/ Unload(l) \/ (\E r \in Refs : LoadNamed(l, r))
    \/ RequirePrivateNix(l) \/ Spawn(l) \/ SpawnShared(l) \/ End(l)

Next ==
    /\ (\E l \in Launchers : Installing(l)) \/ (\E c \in Contents : Prune(c))
    /\ UNCHANGED apple

Spec == Init /\ [][Next]_vars

TypeOK ==
    /\ rows \subseteq Contents
    /\ refs \in [Refs -> (IF apple THEN Contents ELSE rows) \cup {None}]
    /\ launch \in [Launchers ->
         [pc : {"idle", "lookup", "tag", "copy", "loaded", "untag", "latest", "check", "spawn",
                "running"},
          want : Contents \cup {None}, ref : Refs \cup {None}, shared : BOOLEAN,
          source : Refs \cup {None}, strayed : BOOLEAN]]
    /\ container \in [Launchers -> Contents \cup {None}]
    /\ moved \subseteq Launchers

(* A container runs the image that its launch was asked for, whatever the  *)
(* store held before and whatever others install or remove meanwhile.      *)
(* Only a private launch may run something else: one whose reference       *)
(* another launch has moved, or the one under which it found its image and *)
(* which is resolved again when it is tagged, and one whose archive came   *)
(* with another name than the launch's (image::install,                    *)
(* Plan::launch_linux).                                                    *)
RunsItsImage ==
    \A l \in Launchers :
        launch[l].pc = "running"
          => \/ container[l] = launch[l].want
             \/ ~launch[l].shared /\ (l \in moved \/ launch[l].strayed)
=============================================================================
