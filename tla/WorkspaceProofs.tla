--------------------------- MODULE WorkspaceProofs ---------------------------
(* Proofs of the safety properties of the components of a workspace: those  *)
(* a launch goes through.                                                   *)
EXTENDS MCWorkspace, FiniteSetTheorems, SequenceTheorems, Sequences, TLAPS

-----------------------------------------------------------------------------
(* ImageStore. *)

InstallStates ==
    [pc : {"idle", "lookup", "tag", "copy", "loaded", "untag", "latest", "check", "spawn",
           "running"},
     want : Contents \cup {None}, ref : Refs \cup {None}, shared : BOOLEAN,
     source : Refs \cup {None}, strayed : BOOLEAN]

ImageTypes ==
    /\ rows \subseteq Contents
    /\ refs \in [Refs -> Contents \cup {None}]
    /\ install \in [Launchers -> InstallStates]
    /\ \A l \in Launchers : install[l].pc # "idle" =>
        install[l].ref \in Refs /\ install[l].want \in Contents
    /\ \A l \in Launchers : install[l].source # None => install[l].pc = "tag"
    /\ boots \in [Launchers -> Contents \cup {None}]

(* From its installation on, the reference of a launch names the image that *)
(* it was asked for, or none, unless another launch has moved it or the     *)
(* archive had another name; so does, until it is tagged, the reference     *)
(* under which the image was found.                                         *)
Pointed ==
    \A l \in Launchers :
        /\ install[l].pc \in {"untag", "latest", "check", "spawn"} =>
             \/ l \in moved \/ install[l].strayed
             \/ refs[install[l].ref] \in {install[l].want, None}
        /\ install[l].source # None =>
             l \in moved \/ refs[install[l].source] \in {install[l].want, None}

ImageInv == ImageTypes /\ Pointed /\ Images!RunsItsImage

(* The initial states. *)
LEMMA ImageInit == Images!Init => ImageInv
  <1> SUFFICES ASSUME Images!Init PROVE ImageInv
    OBVIOUS
  <1>1. refs \in [Refs -> Contents \cup {None}]
    BY DEF Images!Init
  <1>2. ImageTypes
    BY <1>1 DEF Images!Init, ImageTypes, InstallStates, Images!NoLaunch
  <1>3. Pointed /\ Images!RunsItsImage
    BY DEF Images!Init, Pointed, Images!RunsItsImage, Images!NoLaunch
  <1>4. QED
    BY <1>2, <1>3 DEF ImageInv

(* One step. *)
LEMMA ImageStep == ImageInv /\ Images!Next => ImageInv'
  <1> SUFFICES ASSUME ImageInv, Images!Next PROVE ImageInv'
    OBVIOUS
  <1> USE NoneIsNobody, LatestIsReference
  <1>1. ASSUME NEW l \in Launchers, NEW c \in Contents, NEW r \in Refs, NEW flag \in BOOLEAN,
               NEW overridden \in BOOLEAN, Images!Request(l, c, r, flag, overridden),
               UNCHANGED apple
        PROVE  ImageInv'
    <2>1. ImageTypes'
      BY <1>1 DEF ImageInv, ImageTypes, InstallStates, Images!Request, Images!Desired,
         Images!NoLaunch
    <2>2. Pointed'
      BY <1>1, <2>1 DEF ImageInv, ImageTypes, Pointed, Images!RunsItsImage, InstallStates,
         Images!Request, Images!Desired, Images!NoLaunch
    <2>3. Images!RunsItsImage'
      BY <1>1, <2>1 DEF ImageInv, ImageTypes, Pointed, Images!RunsItsImage, InstallStates,
         Images!Request, Images!Desired, Images!NoLaunch
    <2>4. QED
      BY <2>1, <2>2, <2>3 DEF ImageInv
  <1>2. ASSUME NEW l \in Launchers, Images!Lookup(l),
               UNCHANGED apple
        PROVE  ImageInv'
    <2>1. ImageTypes'
      BY <1>2 DEF ImageInv, ImageTypes, InstallStates, Images!Lookup, Images!ImageForDigest
    <2>2. Pointed'
      <3>1. /\ install[l].pc = "lookup" /\ install[l].source = None
            /\ install[l] \in InstallStates
        BY <1>2 DEF ImageInv, ImageTypes, Images!Lookup
      <3>2. /\ refs' = refs /\ moved' = moved
            /\ \A k \in Launchers \ {l} : install'[k] = install[k]
        BY <1>2 DEF ImageInv, ImageTypes, Images!Lookup
      <3>3. CASE \E r \in Images!ImageForDigest(install[l].want) \ {install[l].ref} :
                    install' = [install EXCEPT ![l].pc = "tag", ![l].source = r]
        <4>1. PICK r \in Images!ImageForDigest(install[l].want) :
                 install' = [install EXCEPT ![l].pc = "tag", ![l].source = r]
          BY <3>3
        <4>2. r = None \/ refs[r] = install[l].want
          BY <4>1 DEF Images!ImageForDigest
        <4>3. /\ install'[l].pc = "tag" /\ install'[l].source = r
              /\ install'[l].want = install[l].want
          BY <3>1, <4>1 DEF ImageInv, ImageTypes, InstallStates
        <4>4. QED
          BY <3>2, <4>2, <4>3 DEF ImageInv, Pointed
      <3>4. CASE /\ install[l].ref \in Images!ImageForDigest(install[l].want)
                 /\ install' = [install EXCEPT ![l].pc = "check"]
        <4>1. refs[install[l].ref] = install[l].want
          BY <3>1, <3>4, NoneIsNoReference DEF ImageInv, ImageTypes, Images!ImageForDigest
        <4>2. /\ install'[l].pc = "check" /\ install'[l].source = None
              /\ install'[l].want = install[l].want /\ install'[l].ref = install[l].ref
          BY <3>1, <3>4 DEF ImageInv, ImageTypes, InstallStates
        <4>3. QED
          BY <3>2, <4>1, <4>2 DEF ImageInv, Pointed
      <3>5. CASE install' = [install EXCEPT ![l].pc = "copy"]
        <4>1. install'[l].pc = "copy" /\ install'[l].source = None
          BY <3>1, <3>5 DEF ImageInv, ImageTypes, InstallStates
        <4>2. QED
          BY <3>2, <4>1 DEF ImageInv, Pointed
      <3>6. QED
        BY <1>2, <3>3, <3>4, <3>5 DEF Images!Lookup
    <2>3. Images!RunsItsImage'
      BY <1>2, <2>1 DEF ImageInv, ImageTypes, Pointed, Images!RunsItsImage, InstallStates,
         Images!Lookup, Images!ImageForDigest
    <2>4. QED
      BY <2>1, <2>2, <2>3 DEF ImageInv
  <1>3. ASSUME NEW l \in Launchers, Images!Tag(l, "tag", "check"),
               UNCHANGED apple
        PROVE  ImageInv'
    <2>1. ImageTypes'
      <3>1. /\ install[l] \in InstallStates /\ install[l].pc = "tag"
            /\ install[l].ref \in Refs /\ install[l].want \in Contents
        BY <1>3 DEF ImageInv, ImageTypes, Images!Tag
      <3>2. Images!Resolved(l) \in Contents \cup {None}
        BY <3>1 DEF ImageInv, ImageTypes, InstallStates, Images!Resolved
      <3>3. refs' \in [Refs -> Contents \cup {None}]
        BY <1>3, <3>1, <3>2, LatestIsReference DEF ImageInv, ImageTypes, Images!Point, Images!Tag
      <3>4. [install[l] EXCEPT !.pc = "check", !.source = None] \in InstallStates
        BY <3>1 DEF InstallStates
      <3>5. install' = [install EXCEPT ![l] = [install[l] EXCEPT !.pc = "check", !.source = None]]
        BY <1>3 DEF ImageInv, ImageTypes, Images!Tag
      <3>6. install' \in [Launchers -> InstallStates]
        BY <3>4, <3>5 DEF ImageInv, ImageTypes
      <3>7. /\ install'[l].ref = install[l].ref /\ install'[l].want = install[l].want
            /\ install'[l].source = None
            /\ \A k \in Launchers \ {l} : install'[k] = install[k]
        BY <3>1, <3>5 DEF ImageInv, ImageTypes, InstallStates
      <3>8. rows' \subseteq Contents /\ boots' \in [Launchers -> Contents \cup {None}]
        BY <1>3, <3>1 DEF ImageInv, ImageTypes, Images!Tag
      <3>9. QED
        BY <3>1, <3>3, <3>6, <3>7, <3>8 DEF ImageInv, ImageTypes
    <2>2. Pointed'
      <3>1. /\ install[l] \in InstallStates /\ install[l].pc = "tag"
            /\ install[l].ref \in Refs /\ install[l].want \in Contents
            /\ install' = [install EXCEPT ![l] = [install[l] EXCEPT !.pc = "check",
                                                          !.source = None]]
        BY <1>3 DEF ImageInv, ImageTypes, Images!Tag
      <3>2. /\ install'[l].pc = "check" /\ install'[l].ref = install[l].ref
            /\ install'[l].want = install[l].want /\ install'[l].strayed = install[l].strayed
            /\ install'[l].source = None
            /\ \A k \in Launchers \ {l} : install'[k] = install[k]
        BY <3>1 DEF ImageInv, ImageTypes, InstallStates
      <3>3. PICK c : c = Images!Resolved(l)
        OBVIOUS
      <3>4. /\ refs' = [refs EXCEPT ![install[l].ref] = c]
            /\ moved' = moved \cup {k \in Launchers \ {l} :
                                   Images!Relies(k, install[l].ref) /\ install[k].want # c}
        BY <1>3, <3>3 DEF Images!Point, Images!Tag
      <3>5. l \in moved \/ install'[l].strayed \/ refs'[install[l].ref] \in {install[l].want, None}
        BY <3>1, <3>2, <3>3, <3>4 DEF ImageInv, ImageTypes, Pointed, Images!Resolved
      <3>6. ASSUME NEW k \in Launchers \ {l}
            PROVE  /\ install[k].pc \in {"untag", "latest", "check", "spawn"} =>
                        \/ k \in moved' \/ install[k].strayed
                        \/ refs'[install[k].ref] \in {install[k].want, None}
                   /\ install[k].source # None =>
                        k \in moved' \/ refs'[install[k].source] \in {install[k].want, None}
        BY <3>4 DEF ImageInv, ImageTypes, InstallStates, Pointed, Images!Relies
      <3>7. QED
        BY <3>2, <3>4, <3>5, <3>6 DEF Pointed
    <2>3. Images!RunsItsImage'
      BY <1>3, <2>1 DEF ImageInv, ImageTypes, Pointed, Images!RunsItsImage, InstallStates,
         Images!Tag, Images!Resolved, Images!Point, Images!Relies
    <2>4. QED
      BY <2>1, <2>2, <2>3 DEF ImageInv
  <1>4. ASSUME NEW l \in Launchers, Images!Tag(l, "loaded", "untag"),
               UNCHANGED apple
        PROVE  ImageInv'
    <2>1. ImageTypes'
      <3>1. /\ install[l] \in InstallStates /\ install[l].pc = "loaded"
            /\ install[l].ref \in Refs /\ install[l].want \in Contents
        BY <1>4 DEF ImageInv, ImageTypes, Images!Tag
      <3>2. Images!Resolved(l) \in Contents \cup {None}
        BY <3>1 DEF ImageInv, ImageTypes, InstallStates, Images!Resolved
      <3>3. refs' \in [Refs -> Contents \cup {None}]
        BY <1>4, <3>1, <3>2, LatestIsReference DEF ImageInv, ImageTypes, Images!Point, Images!Tag
      <3>4. [install[l] EXCEPT !.pc = "untag", !.source = None] \in InstallStates
        BY <3>1 DEF InstallStates
      <3>5. install' = [install EXCEPT ![l] = [install[l] EXCEPT !.pc = "untag", !.source = None]]
        BY <1>4 DEF ImageInv, ImageTypes, Images!Tag
      <3>6. install' \in [Launchers -> InstallStates]
        BY <3>4, <3>5 DEF ImageInv, ImageTypes
      <3>7. /\ install'[l].ref = install[l].ref /\ install'[l].want = install[l].want
            /\ install'[l].source = None
            /\ \A k \in Launchers \ {l} : install'[k] = install[k]
        BY <3>1, <3>5 DEF ImageInv, ImageTypes, InstallStates
      <3>8. rows' \subseteq Contents /\ boots' \in [Launchers -> Contents \cup {None}]
        BY <1>4, <3>1 DEF ImageInv, ImageTypes, Images!Tag
      <3>9. QED
        BY <3>1, <3>3, <3>6, <3>7, <3>8 DEF ImageInv, ImageTypes
    <2>2. Pointed'
      <3>1. /\ install[l] \in InstallStates /\ install[l].pc = "loaded"
            /\ install[l].ref \in Refs /\ install[l].want \in Contents
            /\ install' = [install EXCEPT ![l] = [install[l] EXCEPT !.pc = "untag",
                                                          !.source = None]]
        BY <1>4 DEF ImageInv, ImageTypes, Images!Tag
      <3>2. /\ install'[l].pc = "untag" /\ install'[l].ref = install[l].ref
            /\ install'[l].want = install[l].want /\ install'[l].strayed = install[l].strayed
            /\ install'[l].source = None
            /\ \A k \in Launchers \ {l} : install'[k] = install[k]
        BY <3>1 DEF ImageInv, ImageTypes, InstallStates
      <3>3. PICK c : c = Images!Resolved(l)
        OBVIOUS
      <3>4. /\ refs' = [refs EXCEPT ![install[l].ref] = c]
            /\ moved' = moved \cup {k \in Launchers \ {l} :
                                   Images!Relies(k, install[l].ref) /\ install[k].want # c}
        BY <1>4, <3>3 DEF Images!Point, Images!Tag
      <3>5. l \in moved \/ install'[l].strayed \/ refs'[install[l].ref] \in {install[l].want, None}
        BY <3>1, <3>2, <3>3, <3>4 DEF ImageInv, ImageTypes, Pointed, Images!Resolved
      <3>6. ASSUME NEW k \in Launchers \ {l}
            PROVE  /\ install[k].pc \in {"untag", "latest", "check", "spawn"} =>
                        \/ k \in moved' \/ install[k].strayed
                        \/ refs'[install[k].ref] \in {install[k].want, None}
                   /\ install[k].source # None =>
                        k \in moved' \/ refs'[install[k].source] \in {install[k].want, None}
        BY <3>4 DEF ImageInv, ImageTypes, InstallStates, Pointed, Images!Relies
      <3>7. QED
        BY <3>2, <3>4, <3>5, <3>6 DEF Pointed
    <2>3. Images!RunsItsImage'
      BY <1>4, <2>1 DEF ImageInv, ImageTypes, Pointed, Images!RunsItsImage, InstallStates,
         Images!Tag, Images!Resolved, Images!Point, Images!Relies
    <2>4. QED
      BY <2>1, <2>2, <2>3 DEF ImageInv
  <1>5. ASSUME NEW l \in Launchers, NEW tagged \in BOOLEAN, Images!Copy(l, tagged),
               UNCHANGED apple
        PROVE  ImageInv'
    <2>1. ImageTypes'
      <3>1. /\ install[l] \in InstallStates /\ install[l].pc = "copy"
            /\ install[l].ref \in Refs /\ install[l].want \in Contents
        BY <1>5 DEF ImageInv, ImageTypes, Images!Copy, Images!Moves
      <3>2. install[l].want \in Contents \cup {None}
        BY <3>1 DEF ImageInv, ImageTypes, InstallStates
      <3>3. refs' \in [Refs -> Contents \cup {None}]
        BY <1>5, <3>1, <3>2, LatestIsReference DEF ImageInv, ImageTypes, Images!Point,
           Images!Copy, Images!Moves
      <3>4. [install[l] EXCEPT !.pc = IF tagged THEN "latest" ELSE "check"] \in InstallStates
        BY <3>1 DEF InstallStates
      <3>5. install' = [install EXCEPT ![l] = [install[l] EXCEPT
                               !.pc = IF tagged THEN "latest" ELSE "check"]]
        BY <1>5 DEF ImageInv, ImageTypes, Images!Copy, Images!Moves
      <3>6. install' \in [Launchers -> InstallStates]
        BY <3>4, <3>5 DEF ImageInv, ImageTypes
      <3>7. /\ install'[l].ref = install[l].ref /\ install'[l].want = install[l].want
            /\ install'[l].source = None
            /\ \A k \in Launchers \ {l} : install'[k] = install[k]
        BY <3>1, <3>5 DEF ImageInv, ImageTypes, InstallStates
      <3>8. rows' \subseteq Contents /\ boots' \in [Launchers -> Contents \cup {None}]
        BY <1>5, <3>1 DEF ImageInv, ImageTypes, Images!Copy, Images!Moves
      <3>9. QED
        BY <3>1, <3>3, <3>6, <3>7, <3>8 DEF ImageInv, ImageTypes
    <2>2. Pointed'
      <3>1. /\ install[l] \in InstallStates /\ install[l].pc = "copy"
            /\ install[l].ref \in Refs /\ install[l].want \in Contents
            /\ install' = [install EXCEPT ![l] = [install[l] EXCEPT
                               !.pc = IF tagged THEN "latest" ELSE "check"]]
        BY <1>5 DEF ImageInv, ImageTypes, Images!Copy, Images!Moves
      <3>2. /\ install'[l].pc = (IF tagged THEN "latest" ELSE "check")
            /\ install'[l].ref = install[l].ref
            /\ install'[l].want = install[l].want /\ install'[l].strayed = install[l].strayed
            /\ install'[l].source = None
            /\ \A k \in Launchers \ {l} : install'[k] = install[k]
        BY <3>1 DEF ImageInv, ImageTypes, InstallStates
      <3>3. PICK c : c = install[l].want
        OBVIOUS
      <3>4. /\ refs' = [refs EXCEPT ![install[l].ref] = c]
            /\ moved' = moved \cup {k \in Launchers \ {l} :
                                   Images!Relies(k, install[l].ref) /\ install[k].want # c}
        BY <1>5, <3>3 DEF Images!Point, Images!Copy, Images!Moves
      <3>5. l \in moved \/ install'[l].strayed \/ refs'[install[l].ref] \in {install[l].want, None}
        BY <3>1, <3>2, <3>3, <3>4 DEF ImageInv, ImageTypes, Pointed
      <3>6. ASSUME NEW k \in Launchers \ {l}
            PROVE  /\ install[k].pc \in {"untag", "latest", "check", "spawn"} =>
                        \/ k \in moved' \/ install[k].strayed
                        \/ refs'[install[k].ref] \in {install[k].want, None}
                   /\ install[k].source # None =>
                        k \in moved' \/ refs'[install[k].source] \in {install[k].want, None}
        BY <3>4 DEF ImageInv, ImageTypes, InstallStates, Pointed, Images!Relies
      <3>7. QED
        BY <3>2, <3>4, <3>5, <3>6 DEF Pointed
    <2>3. Images!RunsItsImage'
      BY <1>5, <2>1 DEF ImageInv, ImageTypes, Pointed, Images!RunsItsImage, InstallStates,
         Images!Copy, Images!Moves, Images!Point, Images!Relies
    <2>4. QED
      BY <2>1, <2>2, <2>3 DEF ImageInv
  <1>6. ASSUME NEW l \in Launchers, Images!Load(l),
               UNCHANGED apple
        PROVE  ImageInv'
    <2>1. ImageTypes'
      BY <1>6 DEF ImageInv, ImageTypes, InstallStates, Images!Load, Images!Moves
    <2>2. Pointed'
      BY <1>6, <2>1 DEF ImageInv, ImageTypes, Pointed, Images!RunsItsImage, InstallStates,
         Images!Load, Images!Moves
    <2>3. Images!RunsItsImage'
      BY <1>6, <2>1 DEF ImageInv, ImageTypes, Pointed, Images!RunsItsImage, InstallStates,
         Images!Load, Images!Moves
    <2>4. QED
      BY <2>1, <2>2, <2>3 DEF ImageInv
  <1>7. ASSUME NEW l \in Launchers, NEW r \in Refs, Images!LoadNamed(l, r),
               UNCHANGED apple
        PROVE  ImageInv'
    <2>1. ImageTypes'
      <3>1. /\ install[l] \in InstallStates /\ install[l].pc = "copy"
            /\ install[l].ref \in Refs /\ install[l].want \in Contents
        BY <1>7 DEF ImageInv, ImageTypes, Images!LoadNamed
      <3>2. install[l].want \in Contents \cup {None}
        BY <3>1 DEF ImageInv, ImageTypes, InstallStates
      <3>3. refs' \in [Refs -> Contents \cup {None}]
        BY <1>7, <3>1, <3>2, LatestIsReference DEF ImageInv, ImageTypes, Images!Point,
           Images!LoadNamed
      <3>4. [install[l] EXCEPT !.pc = "check", !.strayed = r # install[l].ref] \in InstallStates
        BY <3>1 DEF InstallStates
      <3>5. install' = [install EXCEPT ![l] = [install[l] EXCEPT !.pc = "check",
                                                       !.strayed = r # install[l].ref]]
        BY <1>7 DEF ImageInv, ImageTypes, Images!LoadNamed
      <3>6. install' \in [Launchers -> InstallStates]
        BY <3>4, <3>5 DEF ImageInv, ImageTypes
      <3>7. /\ install'[l].ref = install[l].ref /\ install'[l].want = install[l].want
            /\ install'[l].source = None
            /\ \A k \in Launchers \ {l} : install'[k] = install[k]
        BY <3>1, <3>5 DEF ImageInv, ImageTypes, InstallStates
      <3>8. rows' \subseteq Contents /\ boots' \in [Launchers -> Contents \cup {None}]
        BY <1>7, <3>1 DEF ImageInv, ImageTypes, Images!LoadNamed
      <3>9. QED
        BY <3>1, <3>3, <3>6, <3>7, <3>8 DEF ImageInv, ImageTypes
    <2>2. Pointed'
      <3>1. /\ install[l] \in InstallStates /\ install[l].pc = "copy"
            /\ install[l].ref \in Refs /\ install[l].want \in Contents
            /\ install' = [install EXCEPT ![l] = [install[l] EXCEPT !.pc = "check",
                                                          !.strayed = r # install[l].ref]]
        BY <1>7 DEF ImageInv, ImageTypes, Images!LoadNamed
      <3>2. /\ install'[l].pc = "check" /\ install'[l].ref = install[l].ref
            /\ install'[l].want = install[l].want /\ install'[l].strayed = (r # install[l].ref)
            /\ install'[l].source = None
            /\ \A k \in Launchers \ {l} : install'[k] = install[k]
        BY <3>1 DEF ImageInv, ImageTypes, InstallStates
      <3>3. PICK c : c = install[l].want
        OBVIOUS
      <3>4. /\ refs' = [refs EXCEPT ![r] = c]
            /\ moved' = moved \cup {k \in Launchers \ {l} :
                                   Images!Relies(k, r) /\ install[k].want # c}
        BY <1>7, <3>3 DEF Images!Point, Images!LoadNamed
      <3>5. l \in moved \/ install'[l].strayed \/ refs'[install[l].ref] \in {install[l].want, None}
        BY <3>1, <3>2, <3>3, <3>4 DEF ImageInv, ImageTypes, Pointed
      <3>6. ASSUME NEW k \in Launchers \ {l}
            PROVE  /\ install[k].pc \in {"untag", "latest", "check", "spawn"} =>
                        \/ k \in moved' \/ install[k].strayed
                        \/ refs'[install[k].ref] \in {install[k].want, None}
                   /\ install[k].source # None =>
                        k \in moved' \/ refs'[install[k].source] \in {install[k].want, None}
        BY <3>4 DEF ImageInv, ImageTypes, InstallStates, Pointed, Images!Relies
      <3>7. QED
        BY <3>2, <3>4, <3>5, <3>6 DEF Pointed
    <2>3. Images!RunsItsImage'
      BY <1>7, <2>1 DEF ImageInv, ImageTypes, Pointed, Images!RunsItsImage, InstallStates,
         Images!LoadNamed, Images!Point, Images!Relies
    <2>4. QED
      BY <2>1, <2>2, <2>3 DEF ImageInv
  <1>8. ASSUME NEW l \in Launchers, Images!Unload(l),
               UNCHANGED apple
        PROVE  ImageInv'
    <2>1. ImageTypes'
      BY <1>8 DEF ImageInv, ImageTypes, InstallStates, Images!Unload, Images!Moves
    <2>2. Pointed'
      BY <1>8, <2>1 DEF ImageInv, ImageTypes, Pointed, Images!RunsItsImage, InstallStates,
         Images!Unload, Images!Moves
    <2>3. Images!RunsItsImage'
      BY <1>8, <2>1 DEF ImageInv, ImageTypes, Pointed, Images!RunsItsImage, InstallStates,
         Images!Unload, Images!Moves
    <2>4. QED
      BY <2>1, <2>2, <2>3 DEF ImageInv
  <1>9. ASSUME NEW l \in Launchers, Images!TagLatest(l),
               UNCHANGED apple
        PROVE  ImageInv'
    <2>1. ImageTypes'
      <3>1. /\ install[l] \in InstallStates /\ install[l].pc = "latest"
            /\ install[l].ref \in Refs /\ install[l].want \in Contents
        BY <1>9 DEF ImageInv, ImageTypes, Images!TagLatest, Images!Moves
      <3>2. refs[install[l].ref] \in Contents \cup {None}
        BY <3>1 DEF ImageInv, ImageTypes, InstallStates
      <3>3. refs' \in [Refs -> Contents \cup {None}]
        BY <1>9, <3>1, <3>2, LatestIsReference DEF ImageInv, ImageTypes, Images!Point,
           Images!TagLatest, Images!Moves
      <3>4. [install[l] EXCEPT !.pc = "check"] \in InstallStates
        BY <3>1 DEF InstallStates
      <3>5. install' = [install EXCEPT ![l] = [install[l] EXCEPT !.pc = "check"]]
        BY <1>9 DEF ImageInv, ImageTypes, Images!TagLatest, Images!Moves
      <3>6. install' \in [Launchers -> InstallStates]
        BY <3>4, <3>5 DEF ImageInv, ImageTypes
      <3>7. /\ install'[l].ref = install[l].ref /\ install'[l].want = install[l].want
            /\ install'[l].source = None
            /\ \A k \in Launchers \ {l} : install'[k] = install[k]
        BY <3>1, <3>5 DEF ImageInv, ImageTypes, InstallStates
      <3>8. rows' \subseteq Contents /\ boots' \in [Launchers -> Contents \cup {None}]
        BY <1>9, <3>1 DEF ImageInv, ImageTypes, Images!TagLatest, Images!Moves
      <3>9. QED
        BY <3>1, <3>3, <3>6, <3>7, <3>8 DEF ImageInv, ImageTypes
    <2>2. Pointed'
      <3>1. /\ install[l] \in InstallStates /\ install[l].pc = "latest"
            /\ install[l].ref \in Refs /\ install[l].want \in Contents
            /\ install' = [install EXCEPT ![l] = [install[l] EXCEPT !.pc = "check"]]
        BY <1>9 DEF ImageInv, ImageTypes, Images!TagLatest, Images!Moves
      <3>2. /\ install'[l].pc = "check" /\ install'[l].ref = install[l].ref
            /\ install'[l].want = install[l].want /\ install'[l].strayed = install[l].strayed
            /\ install'[l].source = None
            /\ \A k \in Launchers \ {l} : install'[k] = install[k]
        BY <3>1 DEF ImageInv, ImageTypes, InstallStates
      <3>3. PICK c : c = refs[install[l].ref]
        OBVIOUS
      <3>4. /\ refs' = [refs EXCEPT ![Latest] = c]
            /\ moved' = moved \cup {k \in Launchers \ {l} :
                                   Images!Relies(k, Latest) /\ install[k].want # c}
        BY <1>9, <3>3 DEF Images!Point, Images!TagLatest, Images!Moves
      <3>5. l \in moved \/ install'[l].strayed \/ refs'[install[l].ref] \in {install[l].want, None}
        BY <3>1, <3>2, <3>3, <3>4 DEF ImageInv, ImageTypes, Pointed
      <3>6. ASSUME NEW k \in Launchers \ {l}
            PROVE  /\ install[k].pc \in {"untag", "latest", "check", "spawn"} =>
                        \/ k \in moved' \/ install[k].strayed
                        \/ refs'[install[k].ref] \in {install[k].want, None}
                   /\ install[k].source # None =>
                        k \in moved' \/ refs'[install[k].source] \in {install[k].want, None}
        BY <3>4 DEF ImageInv, ImageTypes, InstallStates, Pointed, Images!Relies
      <3>7. QED
        BY <3>2, <3>4, <3>5, <3>6 DEF Pointed
    <2>3. Images!RunsItsImage'
      BY <1>9, <2>1 DEF ImageInv, ImageTypes, Pointed, Images!RunsItsImage, InstallStates,
         Images!TagLatest, Images!Moves, Images!Point, Images!Relies
    <2>4. QED
      BY <2>1, <2>2, <2>3 DEF ImageInv
  <1>10. ASSUME NEW l \in Launchers, Images!RequirePrivateNix(l),
               UNCHANGED apple
        PROVE  ImageInv'
    <2>1. ImageTypes'
      BY <1>10 DEF ImageInv, ImageTypes, InstallStates, Images!RequirePrivateNix, Images!Moves
    <2>2. Pointed'
      BY <1>10, <2>1 DEF ImageInv, ImageTypes, Pointed, Images!RunsItsImage, InstallStates,
         Images!RequirePrivateNix, Images!Moves
    <2>3. Images!RunsItsImage'
      BY <1>10, <2>1 DEF ImageInv, ImageTypes, Pointed, Images!RunsItsImage, InstallStates,
         Images!RequirePrivateNix, Images!Moves
    <2>4. QED
      BY <2>1, <2>2, <2>3 DEF ImageInv
  <1>11. ASSUME NEW l \in Launchers, Images!Spawn(l),
               UNCHANGED apple
        PROVE  ImageInv'
    <2>1. ImageTypes'
      BY <1>11 DEF ImageInv, ImageTypes, InstallStates, Images!Spawn, Images!Runs, Images!Moves
    <2>2. Pointed'
      BY <1>11, <2>1 DEF ImageInv, ImageTypes, Pointed, Images!RunsItsImage, InstallStates,
         Images!Spawn, Images!Runs, Images!Moves
    <2>3. Images!RunsItsImage'
      BY <1>11, <2>1 DEF ImageInv, ImageTypes, Pointed, Images!RunsItsImage, InstallStates,
         Images!Spawn, Images!Runs, Images!Moves
    <2>4. QED
      BY <2>1, <2>2, <2>3 DEF ImageInv
  <1>12. ASSUME NEW l \in Launchers, Images!SpawnShared(l),
               UNCHANGED apple
        PROVE  ImageInv'
    <2>1. ImageTypes'
      BY <1>12 DEF ImageInv, ImageTypes, InstallStates, Images!SpawnShared, Images!Runs,
         Images!Moves
    <2>2. Pointed'
      BY <1>12, <2>1 DEF ImageInv, ImageTypes, Pointed, Images!RunsItsImage, InstallStates,
         Images!SpawnShared, Images!Runs, Images!Moves
    <2>3. Images!RunsItsImage'
      BY <1>12, <2>1 DEF ImageInv, ImageTypes, Pointed, Images!RunsItsImage, InstallStates,
         Images!SpawnShared, Images!Runs, Images!Moves
    <2>4. QED
      BY <2>1, <2>2, <2>3 DEF ImageInv
  <1>13. ASSUME NEW l \in Launchers, Images!End(l),
               UNCHANGED apple
        PROVE  ImageInv'
    <2>1. ImageTypes'
      BY <1>13 DEF ImageInv, ImageTypes, InstallStates, Images!End, Images!NoLaunch
    <2>2. Pointed'
      BY <1>13, <2>1 DEF ImageInv, ImageTypes, Pointed, Images!RunsItsImage, InstallStates,
         Images!End, Images!NoLaunch
    <2>3. Images!RunsItsImage'
      BY <1>13, <2>1 DEF ImageInv, ImageTypes, Pointed, Images!RunsItsImage, InstallStates,
         Images!End, Images!NoLaunch
    <2>4. QED
      BY <2>1, <2>2, <2>3 DEF ImageInv
  <1>14. ASSUME NEW c \in Contents, Images!Prune(c),
               UNCHANGED apple
        PROVE  ImageInv'
    <2>1. ImageTypes'
      BY <1>14 DEF ImageInv, ImageTypes, InstallStates, Images!Prune
    <2>2. Pointed'
      BY <1>14, <2>1 DEF ImageInv, ImageTypes, Pointed, Images!RunsItsImage, InstallStates,
         Images!Prune
    <2>3. Images!RunsItsImage'
      BY <1>14, <2>1 DEF ImageInv, ImageTypes, Pointed, Images!RunsItsImage, InstallStates,
         Images!Prune
    <2>4. QED
      BY <2>1, <2>2, <2>3 DEF ImageInv
  <1>15. QED
    BY <1>1, <1>2, <1>3, <1>4, <1>5, <1>6, <1>7, <1>8, <1>9, <1>10, <1>11, <1>12, <1>13, <1>14
       DEF Images!Next, Images!Installing

(* A container runs the image that its launch was asked for, however many   *)
(* launches install images and whatever is removed, unless another moved    *)
(* the reference that a private launch had found or installs under, or its  *)
(* archive had another name.                                                *)
THEOREM ImagesRun == WorkspaceSpec => []RunsItsImage
  <1>1. WorkspaceInit => ImageInv
    BY ImageInit DEF WorkspaceInit
  <1>2. ImageInv /\ [WorkspaceNext]_all => ImageInv'
    <2> SUFFICES ASSUME ImageInv, [WorkspaceNext]_all PROVE ImageInv'
      OBVIOUS
    <2>1. CASE pick = "images" /\ Images!Next
      BY <2>1, ImageStep
    <2>2. CASE UNCHANGED images
      BY <2>2 DEF images, ImageInv, ImageTypes, Pointed, Images!RunsItsImage
    <2>3. QED
      BY <2>1, <2>2 DEF WorkspaceNext, all
  <1>3. ImageInv => RunsItsImage
    BY DEF ImageInv, RunsItsImage
  <1>4. QED
    BY <1>1, <1>2, <1>3, PTL DEF WorkspaceSpec

-----------------------------------------------------------------------------
(* SandboxLaunch. *)

SandboxPoints ==
    {"idle", "journal", "services", "cache", "dolt", "register", "image", "reserve", "prepare",
     "stage", "mounts", "keys", "beads", "command", "spawn", "create", "wait", "retire", "sync",
     "unstage", "unregister", "complete", "done", "killed"}

Leftovers == SUBSET {"root", "mounts", "keys", "beads"}

Journals == {None, "incomplete", "ended", "status"}

Results == {"ok", "failed", "unclean"}

SandboxStates ==
    [pc : SandboxPoints, shared : BOOLEAN, session : BOOLEAN, registered : BOOLEAN,
     attempt : BOOLEAN, warned : BOOLEAN, staging : Leftovers, journal : Journals,
     observed : BOOLEAN, result : Results]

(* Where an action can take a launch, and what it can record there. *)
LEMMA LaunchWords ==
    /\ "journal" \in SandboxPoints /\ "services" \in SandboxPoints /\ "cache" \in SandboxPoints
    /\ "dolt" \in SandboxPoints /\ "register" \in SandboxPoints /\ "image" \in SandboxPoints
    /\ "reserve" \in SandboxPoints /\ "prepare" \in SandboxPoints /\ "stage" \in SandboxPoints
    /\ "mounts" \in SandboxPoints /\ "keys" \in SandboxPoints /\ "beads" \in SandboxPoints
    /\ "command" \in SandboxPoints /\ "spawn" \in SandboxPoints /\ "create" \in SandboxPoints
    /\ "wait" \in SandboxPoints /\ "retire" \in SandboxPoints /\ "sync" \in SandboxPoints
    /\ "unstage" \in SandboxPoints /\ "unregister" \in SandboxPoints
    /\ "complete" \in SandboxPoints /\ "done" \in SandboxPoints /\ "killed" \in SandboxPoints
    /\ "incomplete" \in Journals /\ "ended" \in Journals /\ "status" \in Journals
    /\ "failed" \in Results /\ "unclean" \in Results
    /\ {} \in Leftovers
    /\ \A s \in Leftovers : s \cup {"root"} \in Leftovers /\ s \cup {"mounts"} \in Leftovers
    /\ \A s \in Leftovers : s \cup {"keys"} \in Leftovers /\ s \cup {"beads"} \in Leftovers
    /\ \A s \in Leftovers : s \cup {} \in Leftovers
  BY DEF SandboxPoints, Journals, Results, Leftovers

SandboxTypes ==
    /\ session \in [Sandboxes -> SandboxStates]
    /\ client \in [Sandboxes -> {None, "running", "exited"}]
    /\ cage \in [Sandboxes -> {None, "running", "exited"}]
    /\ reservation \in [Sandboxes -> {None, "reserved", "cancelled", "handed", "retired"}]

(* A launch that has passed the removal of its files has none, or says so,  *)
(* and the same holds of its route.                                         *)
Undone ==
    \A l \in Sandboxes :
        /\ session[l].pc \in {"unregister", "complete", "done"} =>
             session[l].result = "unclean" \/ session[l].staging = {}
        /\ session[l].pc \in {"complete", "done"} =>
             session[l].result = "unclean" \/ ~session[l].registered
        /\ session[l].pc = "done" => ~session[l].session

(* The journal is closed at the end, and a launch without a failure has    *)
(* seen the end of its client.                                             *)
Journalled ==
    \A l \in Sandboxes :
        /\ session[l].pc \notin {"done", "killed"} => session[l].journal # "ended"
        /\ session[l].pc \in {"retire", "sync"} => session[l].observed
        /\ session[l].pc \in {"unstage", "unregister", "complete"} /\ session[l].result = "ok" =>
             session[l].observed
        /\ session[l].pc = "done" /\ session[l].result = "ok" => session[l].journal # "ended"

(* A reservation is cancelled by a failure, which warns when it is not, or  *)
(* handed off, and it is retired only when its container is.                *)
Reservations ==
    \A l \in Sandboxes :
        /\ reservation[l] = "reserved" /\ session[l].pc # "killed" =>
             /\ session[l].shared
             /\ \/ /\ session[l].attempt
                   /\ session[l].pc \in {"prepare", "stage", "mounts", "keys", "beads", "command",
                                         "spawn"}
                \/ /\ session[l].warned
                   /\ session[l].pc \in {"unstage", "unregister", "complete", "done"}
        /\ session[l].pc \in {"reserve", "prepare"} => session[l].shared
        /\ reservation[l] = "retired" =>
             /\ cage[l] = "exited"
             /\ session[l].pc \in {"sync", "unstage", "unregister", "complete", "done", "killed"}

SandboxInv == SandboxTypes /\ Undone /\ Journalled /\ Reservations

LEMMA NoLaunchWord == None \notin {"running", "exited", "reserved", "retired", "ended"}
  BY NoneIsNoWord

(* The initial states. *)
LEMMA SandboxInit == Sandbox!Init => SandboxInv
  <1> SUFFICES ASSUME Sandbox!Init PROVE SandboxInv
    OBVIOUS
  <1>1. SandboxTypes
    BY DEF Sandbox!Init, SandboxTypes, SandboxStates, SandboxPoints, Journals, Results, Leftovers,
       Sandbox!NoLaunch
  <1>2. Undone /\ Journalled /\ Reservations
    BY NoLaunchWord DEF Sandbox!Init, Undone, Journalled, Reservations, Sandbox!NoLaunch
  <1>3. QED
    BY <1>1, <1>2 DEF SandboxInv

(* One step. *)
LEMMA SandboxStep == SandboxInv /\ Sandbox!Next => SandboxInv'
  <1> SUFFICES ASSUME SandboxInv, Sandbox!Next PROVE SandboxInv'
    OBVIOUS
  <1>1. ASSUME NEW l \in Sandboxes, NEW flag \in BOOLEAN, NEW other \in BOOLEAN, Sandbox!Start(l,
               flag, other)
        PROVE  SandboxInv'
    <2>1. SandboxTypes'
      <3>1. session[l] \in SandboxStates
        BY DEF SandboxInv, SandboxTypes
      <3>2. [session[l] EXCEPT !.pc = "journal", !.shared = flag] \in SandboxStates
        BY <3>1, LaunchWords DEF SandboxStates
      <3>3. session' = [session EXCEPT ![l] = [session[l] EXCEPT !.pc = "journal",
                                                       !.shared = flag]]
        BY <1>1 DEF Sandbox!Start, Sandbox!At
      <3>4. session' \in [Sandboxes -> SandboxStates]
        BY <3>2, <3>3 DEF SandboxInv, SandboxTypes
      <3>5. /\ client' \in [Sandboxes -> {None, "running", "exited"}]
            /\ cage' \in [Sandboxes -> {None, "running", "exited"}]
            /\ reservation' \in [Sandboxes -> {None, "reserved", "cancelled", "handed",
                                              "retired"}]
        BY <1>1 DEF SandboxInv, SandboxTypes, Sandbox!Start, Sandbox!At
      <3>6. QED
        BY <3>4, <3>5 DEF SandboxTypes
    <2>2. Undone'
      BY <1>1, <2>1, NoLaunchWord DEF SandboxInv, SandboxTypes, Undone, Journalled,
         Reservations, Sandbox!Start, Sandbox!At
    <2>3. Journalled'
      BY <1>1, <2>1, NoLaunchWord DEF SandboxInv, SandboxTypes, Undone, Journalled,
         Reservations, Sandbox!Start, Sandbox!At
    <2>4. Reservations'
      BY <1>1, <2>1, NoLaunchWord DEF SandboxInv, SandboxTypes, Undone, Journalled,
         Reservations, Sandbox!Start, Sandbox!At
    <2>5. QED
      BY <2>1, <2>2, <2>3, <2>4 DEF SandboxInv
  <1>2. ASSUME NEW l \in Sandboxes, Sandbox!Journal(l)
        PROVE  SandboxInv'
    <2>1. SandboxTypes'
      <3>1. session[l] \in SandboxStates
        BY DEF SandboxInv, SandboxTypes
      <3>2. [session[l] EXCEPT !.pc = "services", !.journal = "incomplete"] \in SandboxStates
        BY <3>1, LaunchWords DEF SandboxStates
      <3>3. session' = [session EXCEPT ![l] = [session[l] EXCEPT !.pc = "services",
                                                       !.journal = "incomplete"]]
        BY <1>2 DEF Sandbox!Journal, Sandbox!At
      <3>4. session' \in [Sandboxes -> SandboxStates]
        BY <3>2, <3>3 DEF SandboxInv, SandboxTypes
      <3>5. /\ client' \in [Sandboxes -> {None, "running", "exited"}]
            /\ cage' \in [Sandboxes -> {None, "running", "exited"}]
            /\ reservation' \in [Sandboxes -> {None, "reserved", "cancelled", "handed",
                                              "retired"}]
        BY <1>2 DEF SandboxInv, SandboxTypes, Sandbox!Journal, Sandbox!At
      <3>6. QED
        BY <3>4, <3>5 DEF SandboxTypes
    <2>2. Undone'
      BY <1>2, <2>1, NoLaunchWord DEF SandboxInv, SandboxTypes, Undone, Journalled,
         Reservations, Sandbox!Journal, Sandbox!At
    <2>3. Journalled'
      BY <1>2, <2>1, NoLaunchWord DEF SandboxInv, SandboxTypes, Undone, Journalled,
         Reservations, Sandbox!Journal, Sandbox!At
    <2>4. Reservations'
      BY <1>2, <2>1, NoLaunchWord DEF SandboxInv, SandboxTypes, Undone, Journalled,
         Reservations, Sandbox!Journal, Sandbox!At
    <2>5. QED
      BY <2>1, <2>2, <2>3, <2>4 DEF SandboxInv
  <1>3. ASSUME NEW l \in Sandboxes, Sandbox!LoadProjectCache(l)
        PROVE  SandboxInv'
    <2>1. SandboxTypes'
      <3>1. session[l] \in SandboxStates
        BY DEF SandboxInv, SandboxTypes
      <3>2. [session[l] EXCEPT !.pc = "dolt", !.session = TRUE] \in SandboxStates
        BY <3>1, LaunchWords DEF SandboxStates
      <3>3. session' = [session EXCEPT ![l] = [session[l] EXCEPT !.pc = "dolt", !.session = TRUE]]
        BY <1>3 DEF Sandbox!LoadProjectCache, Sandbox!At
      <3>4. session' \in [Sandboxes -> SandboxStates]
        BY <3>2, <3>3 DEF SandboxInv, SandboxTypes
      <3>5. /\ client' \in [Sandboxes -> {None, "running", "exited"}]
            /\ cage' \in [Sandboxes -> {None, "running", "exited"}]
            /\ reservation' \in [Sandboxes -> {None, "reserved", "cancelled", "handed",
                                              "retired"}]
        BY <1>3 DEF SandboxInv, SandboxTypes, Sandbox!LoadProjectCache, Sandbox!At
      <3>6. QED
        BY <3>4, <3>5 DEF SandboxTypes
    <2>2. Undone'
      BY <1>3, <2>1, NoLaunchWord DEF SandboxInv, SandboxTypes, Undone, Journalled,
         Reservations, Sandbox!LoadProjectCache, Sandbox!At
    <2>3. Journalled'
      BY <1>3, <2>1, NoLaunchWord DEF SandboxInv, SandboxTypes, Undone, Journalled,
         Reservations, Sandbox!LoadProjectCache, Sandbox!At
    <2>4. Reservations'
      BY <1>3, <2>1, NoLaunchWord DEF SandboxInv, SandboxTypes, Undone, Journalled,
         Reservations, Sandbox!LoadProjectCache, Sandbox!At
    <2>5. QED
      BY <2>1, <2>2, <2>3, <2>4 DEF SandboxInv
  <1>4. ASSUME NEW l \in Sandboxes, Sandbox!LoadDolt(l)
        PROVE  SandboxInv'
    <2>1. SandboxTypes'
      BY <1>4, LaunchWords DEF SandboxInv, SandboxTypes, SandboxStates, Sandbox!LoadDolt,
         Sandbox!Goto, Sandbox!At
    <2>2. Undone'
      BY <1>4, <2>1, NoLaunchWord DEF SandboxInv, SandboxTypes, Undone, Journalled,
         Reservations, Sandbox!LoadDolt, Sandbox!Goto, Sandbox!At
    <2>3. Journalled'
      BY <1>4, <2>1, NoLaunchWord DEF SandboxInv, SandboxTypes, Undone, Journalled,
         Reservations, Sandbox!LoadDolt, Sandbox!Goto, Sandbox!At
    <2>4. Reservations'
      BY <1>4, <2>1, NoLaunchWord DEF SandboxInv, SandboxTypes, Undone, Journalled,
         Reservations, Sandbox!LoadDolt, Sandbox!Goto, Sandbox!At
    <2>5. QED
      BY <2>1, <2>2, <2>3, <2>4 DEF SandboxInv
  <1>5. ASSUME NEW l \in Sandboxes, Sandbox!Register(l)
        PROVE  SandboxInv'
    <2>1. SandboxTypes'
      <3>1. session[l] \in SandboxStates
        BY DEF SandboxInv, SandboxTypes
      <3>2. [session[l] EXCEPT !.pc = "image", !.registered = TRUE] \in SandboxStates
        BY <3>1, LaunchWords DEF SandboxStates
      <3>3. session' = [session EXCEPT ![l] = [session[l] EXCEPT !.pc = "image",
                                                       !.registered = TRUE]]
        BY <1>5 DEF Sandbox!Register, Sandbox!At
      <3>4. session' \in [Sandboxes -> SandboxStates]
        BY <3>2, <3>3 DEF SandboxInv, SandboxTypes
      <3>5. /\ client' \in [Sandboxes -> {None, "running", "exited"}]
            /\ cage' \in [Sandboxes -> {None, "running", "exited"}]
            /\ reservation' \in [Sandboxes -> {None, "reserved", "cancelled", "handed",
                                              "retired"}]
        BY <1>5 DEF SandboxInv, SandboxTypes, Sandbox!Register, Sandbox!At
      <3>6. QED
        BY <3>4, <3>5 DEF SandboxTypes
    <2>2. Undone'
      BY <1>5, <2>1, NoLaunchWord DEF SandboxInv, SandboxTypes, Undone, Journalled,
         Reservations, Sandbox!Register, Sandbox!At
    <2>3. Journalled'
      BY <1>5, <2>1, NoLaunchWord DEF SandboxInv, SandboxTypes, Undone, Journalled,
         Reservations, Sandbox!Register, Sandbox!At
    <2>4. Reservations'
      BY <1>5, <2>1, NoLaunchWord DEF SandboxInv, SandboxTypes, Undone, Journalled,
         Reservations, Sandbox!Register, Sandbox!At
    <2>5. QED
      BY <2>1, <2>2, <2>3, <2>4 DEF SandboxInv
  <1>6. ASSUME NEW l \in Sandboxes, Sandbox!InstallImage(l)
        PROVE  SandboxInv'
    <2>1. SandboxTypes'
      BY <1>6, LaunchWords DEF SandboxInv, SandboxTypes, SandboxStates, Sandbox!InstallImage,
         Sandbox!Goto, Sandbox!At
    <2>2. Undone'
      BY <1>6, <2>1, NoLaunchWord DEF SandboxInv, SandboxTypes, Undone, Journalled,
         Reservations, Sandbox!InstallImage, Sandbox!Goto, Sandbox!At
    <2>3. Journalled'
      BY <1>6, <2>1, NoLaunchWord DEF SandboxInv, SandboxTypes, Undone, Journalled,
         Reservations, Sandbox!InstallImage, Sandbox!Goto, Sandbox!At
    <2>4. Reservations'
      BY <1>6, <2>1, NoLaunchWord DEF SandboxInv, SandboxTypes, Undone, Journalled,
         Reservations, Sandbox!InstallImage, Sandbox!Goto, Sandbox!At
    <2>5. QED
      BY <2>1, <2>2, <2>3, <2>4 DEF SandboxInv
  <1>7. ASSUME NEW l \in Sandboxes, Sandbox!Reserve(l)
        PROVE  SandboxInv'
    <2>1. SandboxTypes'
      <3>1. session[l] \in SandboxStates
        BY DEF SandboxInv, SandboxTypes
      <3>2. [session[l] EXCEPT !.pc = "prepare", !.attempt = TRUE] \in SandboxStates
        BY <3>1, LaunchWords DEF SandboxStates
      <3>3. session' = [session EXCEPT ![l] = [session[l] EXCEPT !.pc = "prepare",
                                                       !.attempt = TRUE]]
        BY <1>7 DEF Sandbox!Reserve, Sandbox!At
      <3>4. session' \in [Sandboxes -> SandboxStates]
        BY <3>2, <3>3 DEF SandboxInv, SandboxTypes
      <3>5. /\ client' \in [Sandboxes -> {None, "running", "exited"}]
            /\ cage' \in [Sandboxes -> {None, "running", "exited"}]
            /\ reservation' \in [Sandboxes -> {None, "reserved", "cancelled", "handed",
                                              "retired"}]
        BY <1>7 DEF SandboxInv, SandboxTypes, Sandbox!Reserve, Sandbox!At
      <3>6. QED
        BY <3>4, <3>5 DEF SandboxTypes
    <2>2. Undone'
      BY <1>7, <2>1, NoLaunchWord DEF SandboxInv, SandboxTypes, Undone, Journalled,
         Reservations, Sandbox!Reserve, Sandbox!At
    <2>3. Journalled'
      BY <1>7, <2>1, NoLaunchWord DEF SandboxInv, SandboxTypes, Undone, Journalled,
         Reservations, Sandbox!Reserve, Sandbox!At
    <2>4. Reservations'
      BY <1>7, <2>1, NoLaunchWord DEF SandboxInv, SandboxTypes, Undone, Journalled,
         Reservations, Sandbox!Reserve, Sandbox!At
    <2>5. QED
      BY <2>1, <2>2, <2>3, <2>4 DEF SandboxInv
  <1>8. ASSUME NEW l \in Sandboxes, Sandbox!Prepare(l)
        PROVE  SandboxInv'
    <2>1. SandboxTypes'
      BY <1>8, LaunchWords DEF SandboxInv, SandboxTypes, SandboxStates, Sandbox!Prepare,
         Sandbox!Goto, Sandbox!At
    <2>2. Undone'
      BY <1>8, <2>1, NoLaunchWord DEF SandboxInv, SandboxTypes, Undone, Journalled,
         Reservations, Sandbox!Prepare, Sandbox!Goto, Sandbox!At
    <2>3. Journalled'
      BY <1>8, <2>1, NoLaunchWord DEF SandboxInv, SandboxTypes, Undone, Journalled,
         Reservations, Sandbox!Prepare, Sandbox!Goto, Sandbox!At
    <2>4. Reservations'
      BY <1>8, <2>1, NoLaunchWord DEF SandboxInv, SandboxTypes, Undone, Journalled,
         Reservations, Sandbox!Prepare, Sandbox!Goto, Sandbox!At
    <2>5. QED
      BY <2>1, <2>2, <2>3, <2>4 DEF SandboxInv
  <1>9. ASSUME NEW l \in Sandboxes, Sandbox!Stage(l)
        PROVE  SandboxInv'
    <2>1. SandboxTypes'
      <3> DEFINE kept == session[l].staging \cup {"root"}
      <3>1. session[l] \in SandboxStates
        BY DEF SandboxInv, SandboxTypes
      <3>2. kept \in Leftovers
        BY <3>1, <1>9, LaunchWords DEF SandboxStates
      <3>3. session' = [session EXCEPT ![l].pc = "mounts", ![l].staging = kept]
        BY <1>9 DEF Sandbox!Stage, Sandbox!Fill, Sandbox!At
      <3> HIDE DEF kept
      <3>4. session' \in [Sandboxes -> SandboxStates]
        BY <3>1, <3>2, <3>3, LaunchWords DEF SandboxInv, SandboxTypes, SandboxStates
      <3>5. client' \in [Sandboxes -> {None, "running", "exited"}]
             /\ cage' \in [Sandboxes -> {None, "running", "exited"}]
             /\ reservation' \in [Sandboxes -> {None, "reserved", "cancelled", "handed",
                                  "retired"}]
        BY <1>9 DEF SandboxInv, SandboxTypes, Sandbox!Stage, Sandbox!Fill, Sandbox!At
      <3>6. QED
        BY <3>4, <3>5 DEF SandboxTypes
    <2>2. Undone'
      BY <1>9, <2>1, NoLaunchWord DEF SandboxInv, SandboxTypes, Undone, Journalled,
         Reservations, Sandbox!Stage, Sandbox!Fill, Sandbox!At
    <2>3. Journalled'
      BY <1>9, <2>1, NoLaunchWord DEF SandboxInv, SandboxTypes, Undone, Journalled,
         Reservations, Sandbox!Stage, Sandbox!Fill, Sandbox!At
    <2>4. Reservations'
      BY <1>9, <2>1, NoLaunchWord DEF SandboxInv, SandboxTypes, Undone, Journalled,
         Reservations, Sandbox!Stage, Sandbox!Fill, Sandbox!At
    <2>5. QED
      BY <2>1, <2>2, <2>3, <2>4 DEF SandboxInv
  <1>10. ASSUME NEW l \in Sandboxes, Sandbox!Command(l)
        PROVE  SandboxInv'
    <2>1. SandboxTypes'
      BY <1>10, LaunchWords DEF SandboxInv, SandboxTypes, SandboxStates, Sandbox!Command,
         Sandbox!Goto, Sandbox!At
    <2>2. Undone'
      BY <1>10, <2>1, NoLaunchWord DEF SandboxInv, SandboxTypes, Undone, Journalled,
         Reservations, Sandbox!Command, Sandbox!Goto, Sandbox!At
    <2>3. Journalled'
      BY <1>10, <2>1, NoLaunchWord DEF SandboxInv, SandboxTypes, Undone, Journalled,
         Reservations, Sandbox!Command, Sandbox!Goto, Sandbox!At
    <2>4. Reservations'
      BY <1>10, <2>1, NoLaunchWord DEF SandboxInv, SandboxTypes, Undone, Journalled,
         Reservations, Sandbox!Command, Sandbox!Goto, Sandbox!At
    <2>5. QED
      BY <2>1, <2>2, <2>3, <2>4 DEF SandboxInv
  <1>11. ASSUME NEW l \in Sandboxes, NEW flag \in BOOLEAN, Sandbox!LoadServices(l, flag)
        PROVE  SandboxInv'
    <2>1. SandboxTypes'
      BY <1>11, LaunchWords DEF SandboxInv, SandboxTypes, SandboxStates, Sandbox!LoadServices,
         Sandbox!Goto, Sandbox!At
    <2>2. Undone'
      BY <1>11, <2>1, NoLaunchWord DEF SandboxInv, SandboxTypes, Undone, Journalled,
         Reservations, Sandbox!LoadServices, Sandbox!Goto, Sandbox!At
    <2>3. Journalled'
      BY <1>11, <2>1, NoLaunchWord DEF SandboxInv, SandboxTypes, Undone, Journalled,
         Reservations, Sandbox!LoadServices, Sandbox!Goto, Sandbox!At
    <2>4. Reservations'
      BY <1>11, <2>1, NoLaunchWord DEF SandboxInv, SandboxTypes, Undone, Journalled,
         Reservations, Sandbox!LoadServices, Sandbox!Goto, Sandbox!At
    <2>5. QED
      BY <2>1, <2>2, <2>3, <2>4 DEF SandboxInv
  <1>12. ASSUME NEW l \in Sandboxes, NEW flag \in BOOLEAN, Sandbox!Mounts(l, flag)
        PROVE  SandboxInv'
    <2>1. SandboxTypes'
      <3> DEFINE kept == session[l].staging \cup (IF flag THEN {"mounts"} ELSE {})
      <3>1. session[l] \in SandboxStates
        BY DEF SandboxInv, SandboxTypes
      <3>2. kept \in Leftovers
        BY <3>1, <1>12, LaunchWords DEF SandboxStates
      <3>3. session' = [session EXCEPT ![l].pc = "keys", ![l].staging = kept]
        BY <1>12 DEF Sandbox!Mounts, Sandbox!Fill, Sandbox!At
      <3> HIDE DEF kept
      <3>4. session' \in [Sandboxes -> SandboxStates]
        BY <3>1, <3>2, <3>3, LaunchWords DEF SandboxInv, SandboxTypes, SandboxStates
      <3>5. client' \in [Sandboxes -> {None, "running", "exited"}]
             /\ cage' \in [Sandboxes -> {None, "running", "exited"}]
             /\ reservation' \in [Sandboxes -> {None, "reserved", "cancelled", "handed",
                                  "retired"}]
        BY <1>12 DEF SandboxInv, SandboxTypes, Sandbox!Mounts, Sandbox!Fill, Sandbox!At
      <3>6. QED
        BY <3>4, <3>5 DEF SandboxTypes
    <2>2. Undone'
      BY <1>12, <2>1, NoLaunchWord DEF SandboxInv, SandboxTypes, Undone, Journalled,
         Reservations, Sandbox!Mounts, Sandbox!Fill, Sandbox!At
    <2>3. Journalled'
      BY <1>12, <2>1, NoLaunchWord DEF SandboxInv, SandboxTypes, Undone, Journalled,
         Reservations, Sandbox!Mounts, Sandbox!Fill, Sandbox!At
    <2>4. Reservations'
      BY <1>12, <2>1, NoLaunchWord DEF SandboxInv, SandboxTypes, Undone, Journalled,
         Reservations, Sandbox!Mounts, Sandbox!Fill, Sandbox!At
    <2>5. QED
      BY <2>1, <2>2, <2>3, <2>4 DEF SandboxInv
  <1>13. ASSUME NEW l \in Sandboxes, NEW flag \in BOOLEAN, Sandbox!Credentials(l, flag)
        PROVE  SandboxInv'
    <2>1. SandboxTypes'
      <3> DEFINE kept == session[l].staging \cup (IF flag THEN {"keys"} ELSE {})
      <3>1. session[l] \in SandboxStates
        BY DEF SandboxInv, SandboxTypes
      <3>2. kept \in Leftovers
        BY <3>1, <1>13, LaunchWords DEF SandboxStates
      <3>3. session' = [session EXCEPT ![l].pc = "beads", ![l].staging = kept]
        BY <1>13 DEF Sandbox!Credentials, Sandbox!Fill, Sandbox!At
      <3> HIDE DEF kept
      <3>4. session' \in [Sandboxes -> SandboxStates]
        BY <3>1, <3>2, <3>3, LaunchWords DEF SandboxInv, SandboxTypes, SandboxStates
      <3>5. client' \in [Sandboxes -> {None, "running", "exited"}]
             /\ cage' \in [Sandboxes -> {None, "running", "exited"}]
             /\ reservation' \in [Sandboxes -> {None, "reserved", "cancelled", "handed",
                                  "retired"}]
        BY <1>13 DEF SandboxInv, SandboxTypes, Sandbox!Credentials, Sandbox!Fill, Sandbox!At
      <3>6. QED
        BY <3>4, <3>5 DEF SandboxTypes
    <2>2. Undone'
      BY <1>13, <2>1, NoLaunchWord DEF SandboxInv, SandboxTypes, Undone, Journalled,
         Reservations, Sandbox!Credentials, Sandbox!Fill, Sandbox!At
    <2>3. Journalled'
      BY <1>13, <2>1, NoLaunchWord DEF SandboxInv, SandboxTypes, Undone, Journalled,
         Reservations, Sandbox!Credentials, Sandbox!Fill, Sandbox!At
    <2>4. Reservations'
      BY <1>13, <2>1, NoLaunchWord DEF SandboxInv, SandboxTypes, Undone, Journalled,
         Reservations, Sandbox!Credentials, Sandbox!Fill, Sandbox!At
    <2>5. QED
      BY <2>1, <2>2, <2>3, <2>4 DEF SandboxInv
  <1>14. ASSUME NEW l \in Sandboxes, NEW flag \in BOOLEAN, Sandbox!Beads(l, flag)
        PROVE  SandboxInv'
    <2>1. SandboxTypes'
      <3> DEFINE kept == session[l].staging \cup (IF flag THEN {"beads"} ELSE {})
      <3>1. session[l] \in SandboxStates
        BY DEF SandboxInv, SandboxTypes
      <3>2. kept \in Leftovers
        BY <3>1, <1>14, LaunchWords DEF SandboxStates
      <3>3. session' = [session EXCEPT ![l].pc = "command", ![l].staging = kept]
        BY <1>14 DEF Sandbox!Beads, Sandbox!Fill, Sandbox!At
      <3> HIDE DEF kept
      <3>4. session' \in [Sandboxes -> SandboxStates]
        BY <3>1, <3>2, <3>3, LaunchWords DEF SandboxInv, SandboxTypes, SandboxStates
      <3>5. client' \in [Sandboxes -> {None, "running", "exited"}]
             /\ cage' \in [Sandboxes -> {None, "running", "exited"}]
             /\ reservation' \in [Sandboxes -> {None, "reserved", "cancelled", "handed",
                                  "retired"}]
        BY <1>14 DEF SandboxInv, SandboxTypes, Sandbox!Beads, Sandbox!Fill, Sandbox!At
      <3>6. QED
        BY <3>4, <3>5 DEF SandboxTypes
    <2>2. Undone'
      BY <1>14, <2>1, NoLaunchWord DEF SandboxInv, SandboxTypes, Undone, Journalled,
         Reservations, Sandbox!Beads, Sandbox!Fill, Sandbox!At
    <2>3. Journalled'
      BY <1>14, <2>1, NoLaunchWord DEF SandboxInv, SandboxTypes, Undone, Journalled,
         Reservations, Sandbox!Beads, Sandbox!Fill, Sandbox!At
    <2>4. Reservations'
      BY <1>14, <2>1, NoLaunchWord DEF SandboxInv, SandboxTypes, Undone, Journalled,
         Reservations, Sandbox!Beads, Sandbox!Fill, Sandbox!At
    <2>5. QED
      BY <2>1, <2>2, <2>3, <2>4 DEF SandboxInv
  <1>15. ASSUME NEW l \in Sandboxes, Sandbox!Spawn(l)
        PROVE  SandboxInv'
    <2>1. SandboxTypes'
      BY <1>15, LaunchWords DEF SandboxInv, SandboxTypes, SandboxStates, Sandbox!Spawn,
         Sandbox!Goto, Sandbox!At, Sandbox!Runs
    <2>2. Undone'
      BY <1>15, <2>1, NoLaunchWord DEF SandboxInv, SandboxTypes, Undone, Journalled,
         Reservations, Sandbox!Spawn, Sandbox!Goto, Sandbox!At, Sandbox!Runs
    <2>3. Journalled'
      BY <1>15, <2>1, NoLaunchWord DEF SandboxInv, SandboxTypes, Undone, Journalled,
         Reservations, Sandbox!Spawn, Sandbox!Goto, Sandbox!At, Sandbox!Runs
    <2>4. Reservations'
      BY <1>15, <2>1, NoLaunchWord DEF SandboxInv, SandboxTypes, Undone, Journalled,
         Reservations, Sandbox!Spawn, Sandbox!Goto, Sandbox!At, Sandbox!Runs
    <2>5. QED
      BY <2>1, <2>2, <2>3, <2>4 DEF SandboxInv
  <1>16. ASSUME NEW l \in Sandboxes, Sandbox!Handoff(l)
        PROVE  SandboxInv'
    <2>1. SandboxTypes'
      BY <1>16, LaunchWords DEF SandboxInv, SandboxTypes, SandboxStates, Sandbox!Handoff,
         Sandbox!Goto, Sandbox!At
    <2>2. Undone'
      BY <1>16, <2>1, NoLaunchWord DEF SandboxInv, SandboxTypes, Undone, Journalled,
         Reservations, Sandbox!Handoff, Sandbox!Goto, Sandbox!At
    <2>3. Journalled'
      BY <1>16, <2>1, NoLaunchWord DEF SandboxInv, SandboxTypes, Undone, Journalled,
         Reservations, Sandbox!Handoff, Sandbox!Goto, Sandbox!At
    <2>4. Reservations'
      BY <1>16, <2>1, NoLaunchWord DEF SandboxInv, SandboxTypes, Undone, Journalled,
         Reservations, Sandbox!Handoff, Sandbox!Goto, Sandbox!At
    <2>5. QED
      BY <2>1, <2>2, <2>3, <2>4 DEF SandboxInv
  <1>17. ASSUME NEW l \in Sandboxes, Sandbox!SpawnShared(l)
        PROVE  SandboxInv'
    <2>1. SandboxTypes'
      BY <1>17, LaunchWords DEF SandboxInv, SandboxTypes, SandboxStates, Sandbox!SpawnShared,
         Sandbox!Goto, Sandbox!At, Sandbox!Runs
    <2>2. Undone'
      BY <1>17, <2>1, NoLaunchWord DEF SandboxInv, SandboxTypes, Undone, Journalled,
         Reservations, Sandbox!SpawnShared, Sandbox!Goto, Sandbox!At, Sandbox!Runs
    <2>3. Journalled'
      BY <1>17, <2>1, NoLaunchWord DEF SandboxInv, SandboxTypes, Undone, Journalled,
         Reservations, Sandbox!SpawnShared, Sandbox!Goto, Sandbox!At, Sandbox!Runs
    <2>4. Reservations'
      BY <1>17, <2>1, NoLaunchWord DEF SandboxInv, SandboxTypes, Undone, Journalled,
         Reservations, Sandbox!SpawnShared, Sandbox!Goto, Sandbox!At, Sandbox!Runs
    <2>5. QED
      BY <2>1, <2>2, <2>3, <2>4 DEF SandboxInv
  <1>18. ASSUME NEW l \in Sandboxes, Sandbox!Exit(l)
        PROVE  SandboxInv'
    <2>1. SandboxTypes'
      BY <1>18, LaunchWords DEF SandboxInv, SandboxTypes, SandboxStates, Sandbox!Exit
    <2>2. Undone'
      BY <1>18, <2>1, NoLaunchWord DEF SandboxInv, SandboxTypes, Undone, Journalled,
         Reservations, Sandbox!Exit
    <2>3. Journalled'
      BY <1>18, <2>1, NoLaunchWord DEF SandboxInv, SandboxTypes, Undone, Journalled,
         Reservations, Sandbox!Exit
    <2>4. Reservations'
      BY <1>18, <2>1, NoLaunchWord DEF SandboxInv, SandboxTypes, Undone, Journalled,
         Reservations, Sandbox!Exit
    <2>5. QED
      BY <2>1, <2>2, <2>3, <2>4 DEF SandboxInv
  <1>19. ASSUME NEW l \in Sandboxes, Sandbox!LoseClient(l)
        PROVE  SandboxInv'
    <2>1. SandboxTypes'
      BY <1>19, LaunchWords DEF SandboxInv, SandboxTypes, SandboxStates, Sandbox!LoseClient
    <2>2. Undone'
      BY <1>19, <2>1, NoLaunchWord DEF SandboxInv, SandboxTypes, Undone, Journalled,
         Reservations, Sandbox!LoseClient
    <2>3. Journalled'
      BY <1>19, <2>1, NoLaunchWord DEF SandboxInv, SandboxTypes, Undone, Journalled,
         Reservations, Sandbox!LoseClient
    <2>4. Reservations'
      BY <1>19, <2>1, NoLaunchWord DEF SandboxInv, SandboxTypes, Undone, Journalled,
         Reservations, Sandbox!LoseClient
    <2>5. QED
      BY <2>1, <2>2, <2>3, <2>4 DEF SandboxInv
  <1>20. ASSUME NEW l \in Sandboxes, Sandbox!Wait(l)
        PROVE  SandboxInv'
    <2>1. SandboxTypes'
      <3> DEFINE next == IF session[l].shared THEN "retire" ELSE "sync"
      <3>1. session[l] \in SandboxStates
        BY DEF SandboxInv, SandboxTypes
      <3>2. next \in SandboxPoints
        BY <3>1, <1>20, LaunchWords DEF SandboxStates
      <3>3. session' = [session EXCEPT ![l].pc = next, ![l].observed = TRUE,
                                        ![l].session = FALSE]
        BY <1>20 DEF Sandbox!Wait, Sandbox!At
      <3> HIDE DEF next
      <3>4. session' \in [Sandboxes -> SandboxStates]
        BY <3>1, <3>2, <3>3, LaunchWords DEF SandboxInv, SandboxTypes, SandboxStates
      <3>5. client' \in [Sandboxes -> {None, "running", "exited"}]
             /\ cage' \in [Sandboxes -> {None, "running", "exited"}]
             /\ reservation' \in [Sandboxes -> {None, "reserved", "cancelled", "handed",
                                  "retired"}]
        BY <1>20 DEF SandboxInv, SandboxTypes, Sandbox!Wait, Sandbox!At
      <3>6. QED
        BY <3>4, <3>5 DEF SandboxTypes
    <2>2. Undone'
      BY <1>20, <2>1, NoLaunchWord DEF SandboxInv, SandboxTypes, Undone, Journalled,
         Reservations, Sandbox!Wait, Sandbox!At
    <2>3. Journalled'
      BY <1>20, <2>1, NoLaunchWord DEF SandboxInv, SandboxTypes, Undone, Journalled,
         Reservations, Sandbox!Wait, Sandbox!At
    <2>4. Reservations'
      BY <1>20, <2>1, NoLaunchWord DEF SandboxInv, SandboxTypes, Undone, Journalled,
         Reservations, Sandbox!Wait, Sandbox!At
    <2>5. QED
      BY <2>1, <2>2, <2>3, <2>4 DEF SandboxInv
  <1>21. ASSUME NEW l \in Sandboxes, Sandbox!Retired(l)
        PROVE  SandboxInv'
    <2>1. SandboxTypes'
      BY <1>21, LaunchWords DEF SandboxInv, SandboxTypes, SandboxStates, Sandbox!Retired,
         Sandbox!Goto, Sandbox!At
    <2>2. Undone'
      BY <1>21, <2>1, NoLaunchWord DEF SandboxInv, SandboxTypes, Undone, Journalled,
         Reservations, Sandbox!Retired, Sandbox!Goto, Sandbox!At
    <2>3. Journalled'
      BY <1>21, <2>1, NoLaunchWord DEF SandboxInv, SandboxTypes, Undone, Journalled,
         Reservations, Sandbox!Retired, Sandbox!Goto, Sandbox!At
    <2>4. Reservations'
      BY <1>21, <2>1, NoLaunchWord DEF SandboxInv, SandboxTypes, Undone, Journalled,
         Reservations, Sandbox!Retired, Sandbox!Goto, Sandbox!At
    <2>5. QED
      BY <2>1, <2>2, <2>3, <2>4 DEF SandboxInv
  <1>22. ASSUME NEW l \in Sandboxes, Sandbox!Sync(l)
        PROVE  SandboxInv'
    <2>1. SandboxTypes'
      BY <1>22, LaunchWords DEF SandboxInv, SandboxTypes, SandboxStates, Sandbox!Sync,
         Sandbox!Goto, Sandbox!At
    <2>2. Undone'
      BY <1>22, <2>1, NoLaunchWord DEF SandboxInv, SandboxTypes, Undone, Journalled,
         Reservations, Sandbox!Sync, Sandbox!Goto, Sandbox!At
    <2>3. Journalled'
      BY <1>22, <2>1, NoLaunchWord DEF SandboxInv, SandboxTypes, Undone, Journalled,
         Reservations, Sandbox!Sync, Sandbox!Goto, Sandbox!At
    <2>4. Reservations'
      BY <1>22, <2>1, NoLaunchWord DEF SandboxInv, SandboxTypes, Undone, Journalled,
         Reservations, Sandbox!Sync, Sandbox!Goto, Sandbox!At
    <2>5. QED
      BY <2>1, <2>2, <2>3, <2>4 DEF SandboxInv
  <1>23. ASSUME NEW l \in Sandboxes, NEW fails \in BOOLEAN, Sandbox!Fail(l, fails)
        PROVE  SandboxInv'
    <2>1. SandboxTypes'
      <3> DEFINE next == IF session[l].staging # {} THEN "unstage"
                     ELSE IF session[l].registered THEN "unregister" ELSE "complete"
             told == session[l].attempt /\ fails
      <3>1. session[l] \in SandboxStates
        BY DEF SandboxInv, SandboxTypes
      <3>2. next \in SandboxPoints
        BY <3>1, <1>23, LaunchWords DEF SandboxStates
      <3>3. told \in BOOLEAN
        BY <3>1, <1>23, LaunchWords DEF SandboxStates
      <3>4. session' = [session EXCEPT ![l].pc = next, ![l].result = "failed",
                                        ![l].attempt = FALSE, ![l].warned = told]
        BY <1>23 DEF Sandbox!Fail, Sandbox!Fallible, Sandbox!Cancelled
      <3> HIDE DEF next, told
      <3>5. session' \in [Sandboxes -> SandboxStates]
        BY <3>1, <3>2, <3>3, <3>4, LaunchWords DEF SandboxInv, SandboxTypes, SandboxStates
      <3>6. client' \in [Sandboxes -> {None, "running", "exited"}]
             /\ cage' \in [Sandboxes -> {None, "running", "exited"}]
             /\ reservation' \in [Sandboxes -> {None, "reserved", "cancelled", "handed",
                                  "retired"}]
        BY <1>23 DEF SandboxInv, SandboxTypes, Sandbox!Fail, Sandbox!Fallible, Sandbox!Cancelled
      <3>7. QED
        BY <3>5, <3>6 DEF SandboxTypes
    <2>2. Undone'
      <3>1. /\ session[l].pc \notin {"unstage", "unregister", "complete", "done", "killed"}
            /\ session' = [session EXCEPT ![l] = session'[l]]
            /\ reservation' = [reservation EXCEPT ![l] = reservation'[l]]
            /\ cage' = cage
        BY <1>23 DEF SandboxInv, SandboxTypes, Sandbox!Fail, Sandbox!Fallible
      <3>2. /\ session'[l].result = "failed"
            /\ session'[l].pc = IF session[l].staging # {} THEN "unstage"
                                ELSE IF session[l].registered THEN "unregister" ELSE "complete"
            /\ session'[l].staging = session[l].staging
            /\ session'[l].registered = session[l].registered
            /\ session'[l].journal = session[l].journal
            /\ session'[l].shared = session[l].shared
            /\ session'[l].warned = (session[l].attempt /\ fails)
        <4>1. session[l] \in SandboxStates
          BY DEF SandboxInv, SandboxTypes
        <4>2. QED
          BY <4>1, <1>23 DEF SandboxInv, SandboxTypes, SandboxStates, Sandbox!Fail
      <3>3. reservation'[l] = IF session[l].attempt /\ reservation[l] = "reserved" /\ ~fails
                              THEN "cancelled" ELSE reservation[l]
        BY <1>23 DEF SandboxInv, SandboxTypes, Sandbox!Fail, Sandbox!Cancelled
      <3>4. QED
        BY <3>1, <3>2, <3>3, <2>1, NoLaunchWord DEF SandboxInv, SandboxTypes, Undone,
           Journalled, Reservations
    <2>3. Journalled'
      <3>1. /\ session[l].pc \notin {"unstage", "unregister", "complete", "done", "killed"}
            /\ session' = [session EXCEPT ![l] = session'[l]]
            /\ reservation' = [reservation EXCEPT ![l] = reservation'[l]]
            /\ cage' = cage
        BY <1>23 DEF SandboxInv, SandboxTypes, Sandbox!Fail, Sandbox!Fallible
      <3>2. /\ session'[l].result = "failed"
            /\ session'[l].pc = IF session[l].staging # {} THEN "unstage"
                                ELSE IF session[l].registered THEN "unregister" ELSE "complete"
            /\ session'[l].staging = session[l].staging
            /\ session'[l].registered = session[l].registered
            /\ session'[l].journal = session[l].journal
            /\ session'[l].shared = session[l].shared
            /\ session'[l].warned = (session[l].attempt /\ fails)
        <4>1. session[l] \in SandboxStates
          BY DEF SandboxInv, SandboxTypes
        <4>2. QED
          BY <4>1, <1>23 DEF SandboxInv, SandboxTypes, SandboxStates, Sandbox!Fail
      <3>3. reservation'[l] = IF session[l].attempt /\ reservation[l] = "reserved" /\ ~fails
                              THEN "cancelled" ELSE reservation[l]
        BY <1>23 DEF SandboxInv, SandboxTypes, Sandbox!Fail, Sandbox!Cancelled
      <3>4. QED
        BY <3>1, <3>2, <3>3, <2>1, NoLaunchWord DEF SandboxInv, SandboxTypes, Undone,
           Journalled, Reservations
    <2>4. Reservations'
      <3>1. /\ session[l].pc \notin {"unstage", "unregister", "complete", "done", "killed"}
            /\ session' = [session EXCEPT ![l] = session'[l]]
            /\ reservation' = [reservation EXCEPT ![l] = reservation'[l]]
            /\ cage' = cage
        BY <1>23 DEF SandboxInv, SandboxTypes, Sandbox!Fail, Sandbox!Fallible
      <3>2. /\ session'[l].result = "failed"
            /\ session'[l].pc = IF session[l].staging # {} THEN "unstage"
                                ELSE IF session[l].registered THEN "unregister" ELSE "complete"
            /\ session'[l].staging = session[l].staging
            /\ session'[l].registered = session[l].registered
            /\ session'[l].journal = session[l].journal
            /\ session'[l].shared = session[l].shared
            /\ session'[l].warned = (session[l].attempt /\ fails)
        <4>1. session[l] \in SandboxStates
          BY DEF SandboxInv, SandboxTypes
        <4>2. QED
          BY <4>1, <1>23 DEF SandboxInv, SandboxTypes, SandboxStates, Sandbox!Fail
      <3>3. reservation'[l] = IF session[l].attempt /\ reservation[l] = "reserved" /\ ~fails
                              THEN "cancelled" ELSE reservation[l]
        BY <1>23 DEF SandboxInv, SandboxTypes, Sandbox!Fail, Sandbox!Cancelled
      <3>4. QED
        BY <3>1, <3>2, <3>3, <2>1, NoLaunchWord DEF SandboxInv, SandboxTypes, Undone,
           Journalled, Reservations
    <2>5. QED
      BY <2>1, <2>2, <2>3, <2>4 DEF SandboxInv
  <1>24. ASSUME NEW l \in Sandboxes, Sandbox!Kill(l)
        PROVE  SandboxInv'
    <2>1. SandboxTypes'
      <3>1. session[l] \in SandboxStates
        BY DEF SandboxInv, SandboxTypes
      <3>2. [session[l] EXCEPT !.pc = "killed"] \in SandboxStates
        BY <3>1, LaunchWords DEF SandboxStates
      <3>3. session' = [session EXCEPT ![l] = [session[l] EXCEPT !.pc = "killed"]]
        BY <1>24 DEF Sandbox!Kill
      <3>4. session' \in [Sandboxes -> SandboxStates]
        BY <3>2, <3>3 DEF SandboxInv, SandboxTypes
      <3>5. /\ client' \in [Sandboxes -> {None, "running", "exited"}]
            /\ cage' \in [Sandboxes -> {None, "running", "exited"}]
            /\ reservation' \in [Sandboxes -> {None, "reserved", "cancelled", "handed",
                                              "retired"}]
        BY <1>24 DEF SandboxInv, SandboxTypes, Sandbox!Kill
      <3>6. QED
        BY <3>4, <3>5 DEF SandboxTypes
    <2>2. Undone'
      BY <1>24, <2>1, NoLaunchWord DEF SandboxInv, SandboxTypes, Undone, Journalled,
         Reservations, Sandbox!Kill
    <2>3. Journalled'
      BY <1>24, <2>1, NoLaunchWord DEF SandboxInv, SandboxTypes, Undone, Journalled,
         Reservations, Sandbox!Kill
    <2>4. Reservations'
      BY <1>24, <2>1, NoLaunchWord DEF SandboxInv, SandboxTypes, Undone, Journalled,
         Reservations, Sandbox!Kill
    <2>5. QED
      BY <2>1, <2>2, <2>3, <2>4 DEF SandboxInv
  <1>25. ASSUME NEW l \in Sandboxes, NEW fails \in BOOLEAN, Sandbox!Unstage(l, fails)
        PROVE  SandboxInv'
    <2>1. SandboxTypes'
      <3> DEFINE kept == IF fails THEN session[l].staging ELSE {}
             end == IF fails THEN "unclean" ELSE session[l].result
      <3>1. session[l] \in SandboxStates
        BY DEF SandboxInv, SandboxTypes
      <3>2. kept \in Leftovers
        BY <3>1, <1>25, LaunchWords DEF SandboxStates
      <3>3. end \in Results
        BY <3>1, <1>25, LaunchWords DEF SandboxStates
      <3>4. session' = [session EXCEPT ![l].pc = "unregister", ![l].staging = kept,
                                        ![l].result = end]
        BY <1>25 DEF Sandbox!Unstage, Sandbox!At, Sandbox!Cleaned
      <3> HIDE DEF kept, end
      <3>5. session' \in [Sandboxes -> SandboxStates]
        BY <3>1, <3>2, <3>3, <3>4, LaunchWords DEF SandboxInv, SandboxTypes, SandboxStates
      <3>6. client' \in [Sandboxes -> {None, "running", "exited"}]
             /\ cage' \in [Sandboxes -> {None, "running", "exited"}]
             /\ reservation' \in [Sandboxes -> {None, "reserved", "cancelled", "handed",
                                  "retired"}]
        BY <1>25 DEF SandboxInv, SandboxTypes, Sandbox!Unstage, Sandbox!At, Sandbox!Cleaned
      <3>7. QED
        BY <3>5, <3>6 DEF SandboxTypes
    <2>2. Undone'
      BY <1>25, <2>1, NoLaunchWord DEF SandboxInv, SandboxTypes, Undone, Journalled,
         Reservations, Sandbox!Unstage, Sandbox!At, Sandbox!Cleaned
    <2>3. Journalled'
      BY <1>25, <2>1, NoLaunchWord DEF SandboxInv, SandboxTypes, Undone, Journalled,
         Reservations, Sandbox!Unstage, Sandbox!At, Sandbox!Cleaned
    <2>4. Reservations'
      BY <1>25, <2>1, NoLaunchWord DEF SandboxInv, SandboxTypes, Undone, Journalled,
         Reservations, Sandbox!Unstage, Sandbox!At, Sandbox!Cleaned
    <2>5. QED
      BY <2>1, <2>2, <2>3, <2>4 DEF SandboxInv
  <1>26. ASSUME NEW l \in Sandboxes, NEW fails \in BOOLEAN, Sandbox!Unregister(l, fails)
        PROVE  SandboxInv'
    <2>1. SandboxTypes'
      <3> DEFINE end == IF fails THEN "unclean" ELSE session[l].result
      <3>1. session[l] \in SandboxStates
        BY DEF SandboxInv, SandboxTypes
      <3>2. end \in Results
        BY <3>1, <1>26, LaunchWords DEF SandboxStates
      <3>3. session' = [session EXCEPT ![l].pc = "complete", ![l].registered = fails,
                                        ![l].result = end]
        BY <1>26 DEF Sandbox!Unregister, Sandbox!At, Sandbox!Cleaned
      <3> HIDE DEF end
      <3>4. session' \in [Sandboxes -> SandboxStates]
        BY <3>1, <3>2, <3>3, LaunchWords DEF SandboxInv, SandboxTypes, SandboxStates
      <3>5. client' \in [Sandboxes -> {None, "running", "exited"}]
             /\ cage' \in [Sandboxes -> {None, "running", "exited"}]
             /\ reservation' \in [Sandboxes -> {None, "reserved", "cancelled", "handed",
                                  "retired"}]
        BY <1>26 DEF SandboxInv, SandboxTypes, Sandbox!Unregister, Sandbox!At, Sandbox!Cleaned
      <3>6. QED
        BY <3>4, <3>5 DEF SandboxTypes
    <2>2. Undone'
      BY <1>26, <2>1, NoLaunchWord DEF SandboxInv, SandboxTypes, Undone, Journalled,
         Reservations, Sandbox!Unregister, Sandbox!At, Sandbox!Cleaned
    <2>3. Journalled'
      BY <1>26, <2>1, NoLaunchWord DEF SandboxInv, SandboxTypes, Undone, Journalled,
         Reservations, Sandbox!Unregister, Sandbox!At, Sandbox!Cleaned
    <2>4. Reservations'
      BY <1>26, <2>1, NoLaunchWord DEF SandboxInv, SandboxTypes, Undone, Journalled,
         Reservations, Sandbox!Unregister, Sandbox!At, Sandbox!Cleaned
    <2>5. QED
      BY <2>1, <2>2, <2>3, <2>4 DEF SandboxInv
  <1>27. ASSUME NEW l \in Sandboxes, NEW fails \in BOOLEAN, Sandbox!Complete(l, fails)
        PROVE  SandboxInv'
    <2>1. SandboxTypes'
      <3> DEFINE end == IF fails THEN session[l].journal
                    ELSE IF session[l].observed THEN "status" ELSE "ended"
      <3>1. session[l] \in SandboxStates
        BY DEF SandboxInv, SandboxTypes
      <3>2. end \in Journals
        BY <3>1, <1>27, LaunchWords DEF SandboxStates
      <3>3. session' = [session EXCEPT ![l].pc = "done", ![l].session = FALSE,
                                        ![l].journal = end]
        BY <1>27 DEF Sandbox!Complete, Sandbox!At
      <3> HIDE DEF end
      <3>4. session' \in [Sandboxes -> SandboxStates]
        BY <3>1, <3>2, <3>3, LaunchWords DEF SandboxInv, SandboxTypes, SandboxStates
      <3>5. client' \in [Sandboxes -> {None, "running", "exited"}]
             /\ cage' \in [Sandboxes -> {None, "running", "exited"}]
             /\ reservation' \in [Sandboxes -> {None, "reserved", "cancelled", "handed",
                                  "retired"}]
        BY <1>27 DEF SandboxInv, SandboxTypes, Sandbox!Complete, Sandbox!At
      <3>6. QED
        BY <3>4, <3>5 DEF SandboxTypes
    <2>2. Undone'
      BY <1>27, <2>1, NoLaunchWord DEF SandboxInv, SandboxTypes, Undone, Journalled,
         Reservations, Sandbox!Complete, Sandbox!At
    <2>3. Journalled'
      BY <1>27, <2>1, NoLaunchWord DEF SandboxInv, SandboxTypes, Undone, Journalled,
         Reservations, Sandbox!Complete, Sandbox!At
    <2>4. Reservations'
      BY <1>27, <2>1, NoLaunchWord DEF SandboxInv, SandboxTypes, Undone, Journalled,
         Reservations, Sandbox!Complete, Sandbox!At
    <2>5. QED
      BY <2>1, <2>2, <2>3, <2>4 DEF SandboxInv
  <1>28. QED
    BY <1>1, <1>2, <1>3, <1>4, <1>5, <1>6, <1>7, <1>8, <1>9, <1>10, <1>11, <1>12, <1>13, <1>14,
       <1>15, <1>16, <1>17, <1>18, <1>19, <1>20, <1>21, <1>22, <1>23, <1>24, <1>25, <1>26, <1>27
       DEF Sandbox!Next, Sandbox!Preparing, Sandbox!Running, Sandbox!Ending

(* A launch that returns has undone what it did, or says that it has not,   *)
(* whichever of its steps failed or was interrupted: a reservation that it  *)
(* could not cancel is left with a warning.                                 *)
THEOREM LeftoversKnown == WorkspaceSpec => []LeftoversReported
  <1>1. WorkspaceInit => SandboxInv
    BY SandboxInit DEF WorkspaceInit
  <1>2. SandboxInv /\ [WorkspaceNext]_all => SandboxInv'
    <2> SUFFICES ASSUME SandboxInv, [WorkspaceNext]_all PROVE SandboxInv'
      OBVIOUS
    <2>1. CASE pick = "sandbox" /\ Sandbox!Next
      BY <2>1, SandboxStep
    <2>2. CASE UNCHANGED sandbox
      BY <2>2 DEF sandbox, SandboxInv, SandboxTypes, Undone, Journalled, Reservations
    <2>3. QED
      BY <2>1, <2>2 DEF WorkspaceNext, all
  <1>3. SandboxInv => LeftoversReported
    BY DEF SandboxInv, SandboxTypes, Undone, Journalled, Reservations, LeftoversReported,
       Sandbox!LeftoversReported, Sandbox!At
  <1>4. QED
    BY <1>1, <1>2, <1>3, PTL DEF WorkspaceSpec

-----------------------------------------------------------------------------
(* PiCredentials. *)

Holders == Launchers \cup {None}
States == {"none", "file", "link"}

AgentStates ==
    [pc : {"idle", "read", "write", "unlock"}, lock : {"path", "store", None},
     has : SUBSET Tokens]

PiTypes ==
    /\ path \in [kind : States, has : SUBSET Tokens]
    /\ target \in [kind : States, has : SUBSET Tokens]
    /\ locked \in [{"path", "store"} -> Pi!Agents \cup {None}]
    /\ migrating \in Holders
    /\ setup \in [Launchers -> {"idle", "lock", "check", "move", "link", "mounted"}]
    /\ agent \in [Pi!Agents -> AgentStates]
    /\ written \subseteq Tokens
    /\ overtaken \in BOOLEAN

(* What is no file has no credentials in it. *)
Empty ==
    /\ path.kind # "file" => path.has = {}
    /\ target.kind = "none" => target.has = {}

(* One migration is under way.  Nothing is linked before its target is a   *)
(* file, and nothing is mounted before it is linked.                       *)
Migration ==
    /\ \A l \in Launchers : setup[l] \in {"check", "move", "link"} => migrating = l
    /\ \A l \in Launchers : setup[l] = "move" => path.kind # "link" /\ locked["path"] = None
    /\ \A l \in Launchers : setup[l] = "link" => path.kind # "link" /\ target.kind = "file"
    /\ \A l \in Launchers : setup[l] = "mounted" => path.kind = "link"
    /\ path.kind = "link" => target.kind = "file"
    /\ target.kind # "link"

(* A Pi at work has the lock of the file that it works on, and that file   *)
(* has what it has read.                                                   *)
Working ==
    \A a \in Pi!Agents : agent[a].pc # "idle" =>
        /\ agent[a].lock \in {"path", "store"} /\ locked[agent[a].lock] = a
        /\ agent[a].lock = "path" => path.kind = "file" /\ a \notin Guests
        /\ agent[a].lock = "store" => path.kind = "link"
        /\ agent[a].pc = "write" =>
             agent[a].has = IF agent[a].lock = "store" THEN target.has ELSE path.has

PiInv == PiTypes /\ (~overtaken => Empty /\ Migration /\ Working /\ Pi!CredentialsKept)

(* The initial states. *)
LEMMA PiInit == Pi!Init => PiInv
  <1> SUFFICES ASSUME Pi!Init PROVE PiInv
    OBVIOUS
  <1>1. path \in [kind : States, has : SUBSET Tokens] /\ path.kind # "link"
        /\ (path.kind = "none" => path.has = {})
    BY DEF Pi!Init, States, Pi!Absent, Pi!File
  <1>2. PiTypes
    BY <1>1 DEF Pi!Init, PiTypes, AgentStates, Holders, States, Pi!Absent, Pi!NoAgent
  <1>3. Empty /\ Migration /\ Working /\ Pi!CredentialsKept
    BY <1>1 DEF Pi!Init, States, Empty, Migration, Working, Pi!CredentialsKept, Pi!Absent,
       Pi!NoAgent
  <1>4. QED
    BY <1>2, <1>3 DEF PiInv

(* What a Pi reads is a set of credentials. *)
LEMMA ReadsWhole ==
    ASSUME NEW x \in AgentStates, NEW h \in SUBSET Tokens
    PROVE  [x EXCEPT !.pc = "write", !.has = h] \in AgentStates
  BY DEF AgentStates

(* One step. *)
LEMMA PiStep == PiInv /\ Pi!Next => PiInv'
  <1> SUFFICES ASSUME PiInv, Pi!Next PROVE PiInv'
    OBVIOUS
  <1> USE NoneIsNobody
  <1>1. ASSUME NEW l \in Launchers, NEW create \in BOOLEAN, Pi!Prepare(l, create),
               UNCHANGED <<locked, agent, written, overtaken>>
        PROVE  PiInv'
    <2>1. PiTypes'
      BY <1>1 DEF PiInv, PiTypes, AgentStates, Holders, States, Pi!Prepare, Pi!Goto, Pi!Opened
    <2> SUFFICES ASSUME ~overtaken'
                 PROVE  Empty' /\ Migration' /\ Working' /\ Pi!CredentialsKept'
      BY <2>1 DEF PiInv
    <2>2. ~overtaken /\ Empty /\ Migration /\ Working /\ Pi!CredentialsKept
      BY <1>1 DEF PiInv, PiTypes, Pi!Prepare
    <2>3. Empty'
      BY <1>1, <2>1, <2>2 DEF PiInv, PiTypes, Empty, Migration, Working, Pi!CredentialsKept,
         AgentStates, Holders, States, Pi!Prepare, Pi!Goto, Pi!Opened
    <2>4. Migration'
      BY <1>1, <2>1, <2>2 DEF PiInv, PiTypes, Empty, Migration, Working, Pi!CredentialsKept,
         AgentStates, Holders, States, Pi!Prepare, Pi!Goto, Pi!Opened
    <2>5. Working'
      BY <1>1, <2>1, <2>2 DEF PiInv, PiTypes, Empty, Migration, Working, Pi!CredentialsKept,
         AgentStates, Holders, States, Pi!Prepare, Pi!Goto, Pi!Opened
    <2>6. Pi!CredentialsKept'
      BY <1>1, <2>1, <2>2 DEF PiInv, PiTypes, Empty, Migration, Working, Pi!CredentialsKept,
         AgentStates, Holders, States, Pi!Prepare, Pi!Goto, Pi!Opened
    <2>7. QED
      BY <2>3, <2>4, <2>5, <2>6
  <1>2. ASSUME NEW l \in Launchers, Pi!Lock(l),
               UNCHANGED <<locked, agent, written, overtaken>>
        PROVE  PiInv'
    <2>1. PiTypes'
      BY <1>2 DEF PiInv, PiTypes, AgentStates, Holders, States, Pi!Lock, Pi!Goto
    <2> SUFFICES ASSUME ~overtaken'
                 PROVE  Empty' /\ Migration' /\ Working' /\ Pi!CredentialsKept'
      BY <2>1 DEF PiInv
    <2>2. ~overtaken /\ Empty /\ Migration /\ Working /\ Pi!CredentialsKept
      BY <1>2 DEF PiInv, PiTypes, Pi!Lock
    <2>3. Empty'
      BY <1>2, <2>1, <2>2 DEF PiInv, PiTypes, Empty, Migration, Working, Pi!CredentialsKept,
         AgentStates, Holders, States, Pi!Lock, Pi!Goto
    <2>4. Migration'
      BY <1>2, <2>1, <2>2 DEF PiInv, PiTypes, Empty, Migration, Working, Pi!CredentialsKept,
         AgentStates, Holders, States, Pi!Lock, Pi!Goto
    <2>5. Working'
      BY <1>2, <2>1, <2>2 DEF PiInv, PiTypes, Empty, Migration, Working, Pi!CredentialsKept,
         AgentStates, Holders, States, Pi!Lock, Pi!Goto
    <2>6. Pi!CredentialsKept'
      BY <1>2, <2>1, <2>2 DEF PiInv, PiTypes, Empty, Migration, Working, Pi!CredentialsKept,
         AgentStates, Holders, States, Pi!Lock, Pi!Goto
    <2>7. QED
      BY <2>3, <2>4, <2>5, <2>6
  <1>3. ASSUME NEW l \in Launchers, Pi!Settled(l),
               UNCHANGED <<locked, agent, written, overtaken>>
        PROVE  PiInv'
    <2>1. PiTypes'
      BY <1>3 DEF PiInv, PiTypes, AgentStates, Holders, States, Pi!Settled, Pi!Goto, Pi!Opened,
         Pi!Unlock
    <2> SUFFICES ASSUME ~overtaken'
                 PROVE  Empty' /\ Migration' /\ Working' /\ Pi!CredentialsKept'
      BY <2>1 DEF PiInv
    <2>2. ~overtaken /\ Empty /\ Migration /\ Working /\ Pi!CredentialsKept
      BY <1>3 DEF PiInv, PiTypes, Pi!Settled
    <2>3. Empty'
      BY <1>3, <2>1, <2>2 DEF PiInv, PiTypes, Empty, Migration, Working, Pi!CredentialsKept,
         AgentStates, Holders, States, Pi!Settled, Pi!Goto, Pi!Opened, Pi!Unlock
    <2>4. Migration'
      BY <1>3, <2>1, <2>2 DEF PiInv, PiTypes, Empty, Migration, Working, Pi!CredentialsKept,
         AgentStates, Holders, States, Pi!Settled, Pi!Goto, Pi!Opened, Pi!Unlock
    <2>5. Working'
      BY <1>3, <2>1, <2>2 DEF PiInv, PiTypes, Empty, Migration, Working, Pi!CredentialsKept,
         AgentStates, Holders, States, Pi!Settled, Pi!Goto, Pi!Opened, Pi!Unlock
    <2>6. Pi!CredentialsKept'
      BY <1>3, <2>1, <2>2 DEF PiInv, PiTypes, Empty, Migration, Working, Pi!CredentialsKept,
         AgentStates, Holders, States, Pi!Settled, Pi!Goto, Pi!Opened, Pi!Unlock
    <2>7. QED
      BY <2>3, <2>4, <2>5, <2>6
  <1>4. ASSUME NEW l \in Launchers, Pi!Check(l),
               UNCHANGED <<locked, agent, written, overtaken>>
        PROVE  PiInv'
    <2>1. PiTypes'
      BY <1>4 DEF PiInv, PiTypes, AgentStates, Holders, States, Pi!Check, Pi!Goto
    <2> SUFFICES ASSUME ~overtaken'
                 PROVE  Empty' /\ Migration' /\ Working' /\ Pi!CredentialsKept'
      BY <2>1 DEF PiInv
    <2>2. ~overtaken /\ Empty /\ Migration /\ Working /\ Pi!CredentialsKept
      BY <1>4 DEF PiInv, PiTypes, Pi!Check
    <2>3. Empty'
      BY <1>4, <2>1, <2>2 DEF PiInv, PiTypes, Empty, Migration, Working, Pi!CredentialsKept,
         AgentStates, Holders, States, Pi!Check, Pi!Goto
    <2>4. Migration'
      BY <1>4, <2>1, <2>2 DEF PiInv, PiTypes, Empty, Migration, Working, Pi!CredentialsKept,
         AgentStates, Holders, States, Pi!Check, Pi!Goto
    <2>5. Working'
      BY <1>4, <2>1, <2>2 DEF PiInv, PiTypes, Empty, Migration, Working, Pi!CredentialsKept,
         AgentStates, Holders, States, Pi!Check, Pi!Goto
    <2>6. Pi!CredentialsKept'
      BY <1>4, <2>1, <2>2 DEF PiInv, PiTypes, Empty, Migration, Working, Pi!CredentialsKept,
         AgentStates, Holders, States, Pi!Check, Pi!Goto
    <2>7. QED
      BY <2>3, <2>4, <2>5, <2>6
  <1>5. ASSUME NEW l \in Launchers, Pi!Conflict(l),
               UNCHANGED <<locked, agent, written, overtaken>>
        PROVE  PiInv'
    <2>1. PiTypes'
      BY <1>5 DEF PiInv, PiTypes, AgentStates, Holders, States, Pi!Conflict, Pi!Goto, Pi!Unlock
    <2> SUFFICES ASSUME ~overtaken'
                 PROVE  Empty' /\ Migration' /\ Working' /\ Pi!CredentialsKept'
      BY <2>1 DEF PiInv
    <2>2. ~overtaken /\ Empty /\ Migration /\ Working /\ Pi!CredentialsKept
      BY <1>5 DEF PiInv, PiTypes, Pi!Conflict
    <2>3. Empty'
      BY <1>5, <2>1, <2>2 DEF PiInv, PiTypes, Empty, Migration, Working, Pi!CredentialsKept,
         AgentStates, Holders, States, Pi!Conflict, Pi!Goto, Pi!Unlock
    <2>4. Migration'
      BY <1>5, <2>1, <2>2 DEF PiInv, PiTypes, Empty, Migration, Working, Pi!CredentialsKept,
         AgentStates, Holders, States, Pi!Conflict, Pi!Goto, Pi!Unlock
    <2>5. Working'
      BY <1>5, <2>1, <2>2 DEF PiInv, PiTypes, Empty, Migration, Working, Pi!CredentialsKept,
         AgentStates, Holders, States, Pi!Conflict, Pi!Goto, Pi!Unlock
    <2>6. Pi!CredentialsKept'
      BY <1>5, <2>1, <2>2 DEF PiInv, PiTypes, Empty, Migration, Working, Pi!CredentialsKept,
         AgentStates, Holders, States, Pi!Conflict, Pi!Goto, Pi!Unlock
    <2>7. QED
      BY <2>3, <2>4, <2>5, <2>6
  <1>6. ASSUME NEW l \in Launchers, Pi!Move(l),
               UNCHANGED <<locked, agent, written, overtaken>>
        PROVE  PiInv'
    <2>1. PiTypes'
      BY <1>6 DEF PiInv, PiTypes, AgentStates, Holders, States, Pi!Move, Pi!Agents, Pi!Goto,
         Pi!Absent, Pi!File
    <2> SUFFICES ASSUME ~overtaken'
                 PROVE  Empty' /\ Migration' /\ Working' /\ Pi!CredentialsKept'
      BY <2>1 DEF PiInv
    <2>2. ~overtaken /\ Empty /\ Migration /\ Working /\ Pi!CredentialsKept
      BY <1>6 DEF PiInv, PiTypes, Pi!Move
    <2>3. Empty'
      BY <1>6, <2>1, <2>2 DEF PiInv, PiTypes, Empty, Migration, Working, Pi!CredentialsKept,
         AgentStates, Holders, States, Pi!Move, Pi!Agents, Pi!Goto, Pi!Absent, Pi!File
    <2>4. Migration'
      BY <1>6, <2>1, <2>2 DEF PiInv, PiTypes, Empty, Migration, Working, Pi!CredentialsKept,
         AgentStates, Holders, States, Pi!Move, Pi!Agents, Pi!Goto, Pi!Absent, Pi!File
    <2>5. Working'
      BY <1>6, <2>1, <2>2 DEF PiInv, PiTypes, Empty, Migration, Working, Pi!CredentialsKept,
         AgentStates, Holders, States, Pi!Move, Pi!Agents, Pi!Goto, Pi!Absent, Pi!File
    <2>6. Pi!CredentialsKept'
      BY <1>6, <2>1, <2>2 DEF PiInv, PiTypes, Empty, Migration, Working, Pi!CredentialsKept,
         AgentStates, Holders, States, Pi!Move, Pi!Agents, Pi!Goto, Pi!Absent, Pi!File
    <2>7. QED
      BY <2>3, <2>4, <2>5, <2>6
  <1>7. ASSUME NEW l \in Launchers, Pi!MakeLink(l),
               UNCHANGED <<locked, agent, written, overtaken>>
        PROVE  PiInv'
    <2>1. PiTypes'
      BY <1>7 DEF PiInv, PiTypes, AgentStates, Holders, States, Pi!MakeLink, Pi!Goto, Pi!Unlock,
         Pi!Link
    <2> SUFFICES ASSUME ~overtaken'
                 PROVE  Empty' /\ Migration' /\ Working' /\ Pi!CredentialsKept'
      BY <2>1 DEF PiInv
    <2>2. ~overtaken /\ Empty /\ Migration /\ Working /\ Pi!CredentialsKept
      BY <1>7 DEF PiInv, PiTypes, Pi!MakeLink
    <2>3. Empty'
      BY <1>7, <2>1, <2>2 DEF PiInv, PiTypes, Empty, Migration, Working, Pi!CredentialsKept,
         AgentStates, Holders, States, Pi!MakeLink, Pi!Goto, Pi!Unlock, Pi!Link
    <2>4. Migration'
      BY <1>7, <2>1, <2>2 DEF PiInv, PiTypes, Empty, Migration, Working, Pi!CredentialsKept,
         AgentStates, Holders, States, Pi!MakeLink, Pi!Goto, Pi!Unlock, Pi!Link
    <2>5. Working'
      BY <1>7, <2>1, <2>2 DEF PiInv, PiTypes, Empty, Migration, Working, Pi!CredentialsKept,
         AgentStates, Holders, States, Pi!MakeLink, Pi!Goto, Pi!Unlock, Pi!Link
    <2>6. Pi!CredentialsKept'
      BY <1>7, <2>1, <2>2 DEF PiInv, PiTypes, Empty, Migration, Working, Pi!CredentialsKept,
         AgentStates, Holders, States, Pi!MakeLink, Pi!Goto, Pi!Unlock, Pi!Link
    <2>7. QED
      BY <2>3, <2>4, <2>5, <2>6
  <1>8. ASSUME NEW l \in Launchers, Pi!End(l),
               UNCHANGED <<locked, agent, written, overtaken>>
        PROVE  PiInv'
    <2>1. PiTypes'
      BY <1>8 DEF PiInv, PiTypes, AgentStates, Holders, States, Pi!End
    <2> SUFFICES ASSUME ~overtaken'
                 PROVE  Empty' /\ Migration' /\ Working' /\ Pi!CredentialsKept'
      BY <2>1 DEF PiInv
    <2>2. ~overtaken /\ Empty /\ Migration /\ Working /\ Pi!CredentialsKept
      BY <1>8 DEF PiInv, PiTypes, Pi!End
    <2>3. Empty'
      BY <1>8, <2>1, <2>2 DEF PiInv, PiTypes, Empty, Migration, Working, Pi!CredentialsKept,
         AgentStates, Holders, States, Pi!End
    <2>4. Migration'
      BY <1>8, <2>1, <2>2 DEF PiInv, PiTypes, Empty, Migration, Working, Pi!CredentialsKept,
         AgentStates, Holders, States, Pi!End
    <2>5. Working'
      BY <1>8, <2>1, <2>2 DEF PiInv, PiTypes, Empty, Migration, Working, Pi!CredentialsKept,
         AgentStates, Holders, States, Pi!End
    <2>6. Pi!CredentialsKept'
      BY <1>8, <2>1, <2>2 DEF PiInv, PiTypes, Empty, Migration, Working, Pi!CredentialsKept,
         AgentStates, Holders, States, Pi!End
    <2>7. QED
      BY <2>3, <2>4, <2>5, <2>6
  <1>9. ASSUME NEW a \in Pi!Agents, Pi!Take(a),
               UNCHANGED <<migrating, setup>>
        PROVE  PiInv'
    <2>1. PiTypes'
      BY <1>9 DEF PiInv, PiTypes, AgentStates, Holders, States, Pi!Take, Pi!Agents, Pi!Place,
         Pi!NoAgent, Pi!File
    <2> SUFFICES ASSUME ~overtaken'
                 PROVE  Empty' /\ Migration' /\ Working' /\ Pi!CredentialsKept'
      BY <2>1 DEF PiInv
    <2>2. ~overtaken /\ Empty /\ Migration /\ Working /\ Pi!CredentialsKept
      BY <1>9 DEF PiInv, PiTypes, Pi!Take
    <2>3. Empty'
      BY <1>9, <2>1, <2>2 DEF PiInv, PiTypes, Empty, Migration, Working, Pi!CredentialsKept,
         AgentStates, Holders, States, Pi!Take, Pi!Agents, Pi!Place, Pi!NoAgent, Pi!File
    <2>4. Migration'
      BY ZenonT(30), <1>9, <2>1, <2>2 DEF PiInv, PiTypes, Empty, Migration, Working, Pi!CredentialsKept,
         AgentStates, Holders, States, Pi!Take, Pi!Agents, Pi!Place, Pi!NoAgent, Pi!File
    <2>5. Working'
      BY <1>9, <2>1, <2>2 DEF PiInv, PiTypes, Empty, Migration, Working, Pi!CredentialsKept,
         AgentStates, Holders, States, Pi!Take, Pi!Agents, Pi!Place, Pi!NoAgent, Pi!File
    <2>6. Pi!CredentialsKept'
      BY <1>9, <2>1, <2>2 DEF PiInv, PiTypes, Empty, Migration, Working, Pi!CredentialsKept,
         AgentStates, Holders, States, Pi!Take, Pi!Agents, Pi!Place, Pi!NoAgent, Pi!File
    <2>7. QED
      BY <2>3, <2>4, <2>5, <2>6
  <1>10. ASSUME NEW a \in Pi!Agents, Pi!Read(a),
               UNCHANGED <<migrating, setup>>
        PROVE  PiInv'
    <2>1. PiTypes'
      <3>1. agent[a] \in AgentStates
        BY DEF PiInv, PiTypes
      <3>2. [agent[a] EXCEPT !.pc = "write",
                             !.has = IF Pi!Place(a) = "store" THEN target.has ELSE path.has]
              \in AgentStates
        BY <3>1, ReadsWhole DEF PiInv, PiTypes
      <3>3. agent' \in [Pi!Agents -> AgentStates]
        BY <1>10, <3>2 DEF PiInv, PiTypes, Pi!Read
      <3>4. QED
        BY <1>10, <3>3 DEF PiInv, PiTypes, Holders, States, Pi!Read
    <2> SUFFICES ASSUME ~overtaken'
                 PROVE  Empty' /\ Migration' /\ Working' /\ Pi!CredentialsKept'
      BY <2>1 DEF PiInv
    <2>2. ~overtaken /\ Empty /\ Migration /\ Working /\ Pi!CredentialsKept
      BY <1>10 DEF PiInv, PiTypes, Pi!Read
    <2>3. Empty'
      BY <1>10, <2>1, <2>2 DEF PiInv, PiTypes, Empty, Migration, Working, Pi!CredentialsKept,
         AgentStates, Holders, States, Pi!Read, Pi!Place
    <2>4. Migration'
      BY <1>10, <2>1, <2>2 DEF PiInv, PiTypes, Empty, Migration, Working, Pi!CredentialsKept,
         AgentStates, Holders, States, Pi!Read, Pi!Place
    <2>5. Working'
      BY <1>10, <2>1, <2>2 DEF PiInv, PiTypes, Empty, Migration, Working, Pi!CredentialsKept,
         AgentStates, Holders, States, Pi!Read, Pi!Place
    <2>6. Pi!CredentialsKept'
      BY <1>10, <2>1, <2>2 DEF PiInv, PiTypes, Empty, Migration, Working, Pi!CredentialsKept,
         AgentStates, Holders, States, Pi!Read, Pi!Place
    <2>7. QED
      BY <2>3, <2>4, <2>5, <2>6
  <1>11. ASSUME NEW a \in Pi!Agents, NEW e \in Tokens, Pi!Write(a, e),
               UNCHANGED <<migrating, setup>>
        PROVE  PiInv'
    <2>1. PiTypes'
      BY <1>11 DEF PiInv, PiTypes, AgentStates, Holders, States, Pi!Write, Pi!Place, Pi!File
    <2> SUFFICES ASSUME ~overtaken'
                 PROVE  Empty' /\ Migration' /\ Working' /\ Pi!CredentialsKept'
      BY <2>1 DEF PiInv
    <2>2. ~overtaken /\ Empty /\ Migration /\ Working /\ Pi!CredentialsKept
      BY <1>11 DEF PiInv, PiTypes, Pi!Write
    <2>3. Empty'
      BY <1>11, <2>1, <2>2 DEF PiInv, PiTypes, Empty, Migration, Working, Pi!CredentialsKept,
         AgentStates, Holders, States, Pi!Write, Pi!Place, Pi!File
    <2>4. Migration'
      BY <1>11, <2>1, <2>2 DEF PiInv, PiTypes, Empty, Migration, Working, Pi!CredentialsKept,
         AgentStates, Holders, States, Pi!Write, Pi!Place, Pi!File
    <2>5. Working'
      BY <1>11, <2>1, <2>2 DEF PiInv, PiTypes, Empty, Migration, Working, Pi!CredentialsKept,
         AgentStates, Holders, States, Pi!Write, Pi!Place, Pi!File
    <2>6. Pi!CredentialsKept'
      BY <1>11, <2>1, <2>2 DEF PiInv, PiTypes, Empty, Migration, Working, Pi!CredentialsKept,
         AgentStates, Holders, States, Pi!Write, Pi!Place, Pi!File
    <2>7. QED
      BY <2>3, <2>4, <2>5, <2>6
  <1>12. ASSUME NEW a \in Pi!Agents, Pi!Leave(a),
               UNCHANGED <<migrating, setup>>
        PROVE  PiInv'
    <2>1. PiTypes'
      BY <1>12 DEF PiInv, PiTypes, AgentStates, Holders, States, Pi!Leave, Pi!NoAgent
    <2> SUFFICES ASSUME ~overtaken'
                 PROVE  Empty' /\ Migration' /\ Working' /\ Pi!CredentialsKept'
      BY <2>1 DEF PiInv
    <2>2. ~overtaken /\ Empty /\ Migration /\ Working /\ Pi!CredentialsKept
      BY <1>12 DEF PiInv, PiTypes, Pi!Leave
    <2>3. Empty'
      BY <1>12, <2>1, <2>2 DEF PiInv, PiTypes, Empty, Migration, Working, Pi!CredentialsKept,
         AgentStates, Holders, States, Pi!Leave, Pi!NoAgent
    <2>4. Migration'
      BY <1>12, <2>1, <2>2 DEF PiInv, PiTypes, Empty, Migration, Working, Pi!CredentialsKept,
         AgentStates, Holders, States, Pi!Leave, Pi!NoAgent
    <2>5. Working'
      BY <1>12, <2>1, <2>2 DEF PiInv, PiTypes, Empty, Migration, Working, Pi!CredentialsKept,
         AgentStates, Holders, States, Pi!Leave, Pi!NoAgent
    <2>6. Pi!CredentialsKept'
      BY <1>12, <2>1, <2>2 DEF PiInv, PiTypes, Empty, Migration, Working, Pi!CredentialsKept,
         AgentStates, Holders, States, Pi!Leave, Pi!NoAgent
    <2>7. QED
      BY <2>3, <2>4, <2>5, <2>6
  <1>13. QED
    BY <1>1, <1>2, <1>3, <1>4, <1>5, <1>6, <1>7, <1>8, <1>9, <1>10, <1>11, <1>12 DEF Pi!Next,
       Pi!Launch, Pi!Login

(* No credential of Pi is lost by its move, unless a Pi began in the very   *)
(* moment between the look for its lock and the move.                       *)
THEOREM CredentialsSurvive == WorkspaceSpec => []CredentialsKept
  <1>1. WorkspaceInit => PiInv
    BY PiInit DEF WorkspaceInit
  <1>2. PiInv /\ [WorkspaceNext]_all => PiInv'
    <2> SUFFICES ASSUME PiInv, [WorkspaceNext]_all PROVE PiInv'
      OBVIOUS
    <2>1. CASE pick = "credentials" /\ Pi!Next
      BY <2>1, PiStep
    <2>2. CASE UNCHANGED credentials
      BY <2>2 DEF credentials, PiInv, PiTypes, Empty, Migration, Working, Pi!CredentialsKept
    <2>3. QED
      BY <2>1, <2>2 DEF WorkspaceNext, all
  <1>3. PiInv => CredentialsKept
    BY DEF PiInv, CredentialsKept, Pi!CredentialsKept
  <1>4. QED
    BY <1>1, <1>2, <1>3, PTL DEF WorkspaceSpec

-----------------------------------------------------------------------------
(* FocusRegistration. *)

Registered == [target : Focus!Targets \cup {None}, count : Nat]

FocusPoints ==
    {"idle", "create", "creating", "created", "active", "removing", "removed", "unlink"}

FocusStates ==
    [pc : FocusPoints, target : Focus!Targets \cup {None}, leased : BOOLEAN, inode : Nat,
     seen : Registered \cup {None}]

FocusTypes ==
    /\ route \in [Files -> Registered \cup {None}]
    /\ lockfile \in [Files -> Nat]
    /\ launch \in [Registrants -> FocusStates]
    /\ \A l \in Registrants : launch[l].pc # "idle" => launch[l].target \in Focus!Targets
    /\ \A l \in Registrants : launch[l].pc = "idle" => launch[l] = Focus!NoLaunch

(* Of a registration whose lock was not split, one launcher at a time has   *)
(* read what it is going to write.                                          *)
Locked ==
    \A l \in Registrants :
        launch[l].pc \in {"created", "removed"} /\ launch[l].target.file \notin split =>
            /\ launch[l].seen = route[launch[l].target.file]
            /\ \A k \in Focus!Holders(launch[l].target.file) : k = l

(* The launches that a registration has to count. *)
Counted(t) == {k \in Focus!Users(t) : launch[k].pc \in {"active", "removing", "removed"}}

(* RegistrationHeld, for who is about to unregister too. *)
Held ==
    \A g \in Focus!Targets \ collided : g.file \notin split /\ Counted(g) # {} =>
        /\ route[g.file] # None /\ route[g.file].target = g
        /\ route[g.file].count >= Cardinality(Counted(g))

FocusInv == FocusTypes /\ Locked /\ Held

(* The launches of a target are finitely many. *)
LEMMA CountedFinite ==
    ASSUME NEW t
    PROVE  /\ IsFiniteSet(Counted(t)) /\ Counted(t) \subseteq Registrants
           /\ Cardinality(Counted(t)) \in Nat
  <1>1. Counted(t) \subseteq Registrants
    BY DEF Counted, Focus!Users
  <1>2. IsFiniteSet(Counted(t))
    BY <1>1, RegistrantsFinite, FS_Subset
  <1>3. QED
    BY <1>1, <1>2, FS_CardinalityType

(* A target is a pair of a file and a name. *)
LEMMA TargetFile == \A t \in Focus!Targets : t.file \in Files
  BY DEF Focus!Targets

(* What a registration becomes is one. *)
LEMMA CreatedTyped ==
    ASSUME NEW l \in Registrants, launch[l] \in FocusStates, launch[l].target \in Focus!Targets
    PROVE  Focus!Created(l) \in Registered
  <1>1. launch[l].seen \in Registered \cup {None}
    BY DEF FocusStates
  <1>2. CASE launch[l].seen # None /\ launch[l].seen.target = launch[l].target
    <2>1. launch[l].seen \in Registered
      BY <1>1, <1>2
    <2>2. [launch[l].seen EXCEPT !.count = @ + 1] \in Registered
      BY <2>1 DEF Registered
    <2>3. QED
      BY <1>2, <2>2 DEF Focus!Created
  <1>3. CASE ~(launch[l].seen # None /\ launch[l].seen.target = launch[l].target)
    BY <1>1, <1>3 DEF Focus!Created, Registered
  <1>4. QED
    BY <1>2, <1>3

(* Nothing is neither a registration nor a target. *)
LEMMA RegisteredIsSomething == None \notin Registered
  BY NoneIsNoRecord DEF Registered, Focus!Targets, Focus!Native

LEMMA NoneIsNoTarget == None \notin Focus!Targets
  BY NoneIsNoRecord DEF Focus!Targets, Focus!Native

(* The component counts as this module does. *)
LEMMA FocusCounts == \A S : Focus!Cardinality(S) = Cardinality(S)
  BY DEF Focus!Cardinality, Cardinality

(* The initial states. *)
LEMMA FocusInit == Focus!Init => FocusInv
  <1> SUFFICES ASSUME Focus!Init PROVE FocusInv
    OBVIOUS
  <1>1. Focus!Obsolete \in Registered
    BY DEF Focus!Obsolete, Registered
  <1>2. route \in [Files -> Registered \cup {None}]
    BY <1>1 DEF Focus!Init
  <1>3. Focus!NoLaunch \in FocusStates /\ Focus!NoLaunch.pc = "idle"
    BY DEF Focus!NoLaunch, FocusStates, FocusPoints
  <1>4. FocusTypes
    BY <1>2, <1>3 DEF Focus!Init, FocusTypes
  <1>5. Locked /\ Held
    BY <1>3 DEF Focus!Init, Locked, Held, Counted, Focus!Users
  <1>6. QED
    BY <1>4, <1>5 DEF FocusInv

(* One step. *)
LEMMA FocusStep == FocusInv /\ Focus!Next => FocusInv'
  <1> SUFFICES ASSUME FocusInv, Focus!Next PROVE FocusInv'
    OBVIOUS
  <1>1. ASSUME NEW l \in Registrants, NEW t \in Focus!Targets, Focus!Start(l, t)
        PROVE  FocusInv'
    <2>1. FocusTypes'
      <3>1. /\ launch[l] \in FocusStates /\ launch[l].pc \in {"idle"}
            /\ launch[l].pc # "idle" => launch[l].target \in Focus!Targets
        BY <1>1 DEF FocusInv, FocusTypes, FocusStates, Focus!Start, Focus!Phase
      <3>2. launch[l].pc # "idle" => route[launch[l].target.file] \in Registered \cup {None}
                                        /\ lockfile[launch[l].target.file] \in Nat
        BY <3>1, TargetFile DEF FocusInv, FocusTypes
      <3>3. Focus!NoLaunch \in FocusStates /\ Focus!NoLaunch.pc = "idle"
        BY DEF Focus!NoLaunch, FocusStates, FocusPoints
      <3>4. PICK s : s = [Focus!NoLaunch EXCEPT !.pc = "create", !.target = t]
        OBVIOUS
      <3>5. s \in FocusStates
        BY <3>1, <3>2, <3>3, <3>4 DEF FocusStates, FocusPoints
      <3>6. s.pc # "idle" => s.target \in Focus!Targets
        BY <3>1, <3>3, <3>4 DEF FocusStates, Focus!NoLaunch
      <3>7. s.pc = "idle" => s = Focus!NoLaunch
        BY <3>1, <3>3, <3>4 DEF FocusStates, Focus!NoLaunch
      <3>8. launch' = [launch EXCEPT ![l] = s]
        BY <1>1, <3>4 DEF FocusInv, FocusTypes, Focus!Start, Focus!Phase
      <3>9. route' \in [Files -> Registered \cup {None}] /\ lockfile' \in [Files -> Nat]
        BY <1>1, <3>1, <3>2, TargetFile DEF FocusInv, FocusTypes, Focus!Start, Focus!Phase
      <3>10. QED
        BY <3>5, <3>6, <3>7, <3>8, <3>9 DEF FocusInv, FocusTypes
    <2>2. Locked'
      <3>1. /\ launch[l] \in FocusStates /\ launch[l].pc \in {"idle"}
            /\ launch[l].pc # "idle" => launch[l].target \in Focus!Targets
            /\ \A k \in Registrants \ {l} : launch'[k] = launch[k]
        BY <1>1 DEF FocusInv, FocusTypes, FocusStates, Focus!Start, Focus!Phase
      <3>2. launch'[l].pc = "create" /\ launch'[l].target = t
        BY <1>1, <3>1 DEF FocusInv, FocusTypes, FocusStates, Focus!NoLaunch, Focus!Start,
           Focus!Phase
      <3>3. route' = route /\ collided' = collided /\ split' = split
        BY <1>1 DEF Focus!Start, Focus!Phase
      <3>4. QED
        BY <2>1, <3>1, <3>2, <3>3, TargetFile
           DEF FocusInv, FocusTypes, Locked, Focus!Holders, Focus!Phase
    <2>3. Held'
      <3>1. /\ launch[l] \in FocusStates /\ launch[l].pc \in {"idle"}
            /\ launch[l].pc # "idle" => launch[l].target \in Focus!Targets
            /\ \A k \in Registrants \ {l} : launch'[k] = launch[k]
        BY <1>1 DEF FocusInv, FocusTypes, FocusStates, Focus!Start, Focus!Phase
      <3>2. launch'[l].pc = "create" /\ launch'[l].target = t
        BY <1>1, <3>1 DEF FocusInv, FocusTypes, FocusStates, Focus!NoLaunch, Focus!Start,
           Focus!Phase
      <3>3. route' = route /\ collided' = collided /\ split' = split
        BY <1>1 DEF Focus!Start, Focus!Phase
      <3>4. \A g : Counted(g)' = Counted(g)
        BY <3>1, <3>2 DEF Counted, Focus!Users
      <3>5. split \subseteq split'
        BY <3>3
      <3>6. QED
        BY <3>3, <3>4, <3>5 DEF FocusInv, Held
    <2>4. QED
      BY <2>1, <2>2, <2>3 DEF FocusInv
  <1>2. ASSUME NEW l \in Registrants, NEW f \in Files, Focus!Supervise(l, f)
        PROVE  FocusInv'
    <2>1. FocusTypes'
      <3>1. /\ launch[l] \in FocusStates /\ launch[l].pc \in {"idle"}
            /\ launch[l].pc # "idle" => launch[l].target \in Focus!Targets
        BY <1>2 DEF FocusInv, FocusTypes, FocusStates, Focus!Supervise, Focus!Phase
      <3>2. launch[l].pc # "idle" => route[launch[l].target.file] \in Registered \cup {None}
                                        /\ lockfile[launch[l].target.file] \in Nat
        BY <3>1, TargetFile DEF FocusInv, FocusTypes
      <3>3. /\ [file |-> f, name |-> Focus!Native] \in Focus!Targets
            /\ Focus!NoLaunch \in FocusStates /\ Focus!NoLaunch.pc = "idle"
        BY DEF Focus!Targets, Focus!NoLaunch, FocusStates, FocusPoints
      <3>4. PICK s : s = [Focus!NoLaunch EXCEPT !.pc = "create", !.leased = TRUE,
                                    !.target = [file |-> f, name |-> Focus!Native]]
        OBVIOUS
      <3>5. s \in FocusStates
        BY <3>1, <3>2, <3>3, <3>4 DEF FocusStates, FocusPoints
      <3>6. s.pc # "idle" => s.target \in Focus!Targets
        BY <3>1, <3>3, <3>4 DEF FocusStates, Focus!NoLaunch
      <3>7. s.pc = "idle" => s = Focus!NoLaunch
        BY <3>1, <3>3, <3>4 DEF FocusStates, Focus!NoLaunch
      <3>8. launch' = [launch EXCEPT ![l] = s]
        BY <1>2, <3>4 DEF FocusInv, FocusTypes, Focus!Supervise, Focus!Phase
      <3>9. route' \in [Files -> Registered \cup {None}] /\ lockfile' \in [Files -> Nat]
        BY <1>2, <3>1, <3>2, TargetFile DEF FocusInv, FocusTypes, Focus!Supervise, Focus!Phase
      <3>10. QED
        BY <3>5, <3>6, <3>7, <3>8, <3>9 DEF FocusInv, FocusTypes
    <2>2. Locked'
      <3>1. /\ launch[l] \in FocusStates /\ launch[l].pc \in {"idle"}
            /\ launch[l].pc # "idle" => launch[l].target \in Focus!Targets
            /\ \A k \in Registrants \ {l} : launch'[k] = launch[k]
        BY <1>2 DEF FocusInv, FocusTypes, FocusStates, Focus!Supervise, Focus!Phase
      <3>2. launch'[l].pc = "create" /\ launch'[l].target = [file |-> f, name |-> Focus!Native]
        BY <1>2, <3>1 DEF FocusInv, FocusTypes, FocusStates, Focus!NoLaunch, Focus!Supervise,
           Focus!Phase
      <3>3. /\ route' = route /\ collided' = collided /\ split' = split \ {f}
            /\ \A k \in Registrants : launch[k].pc # "idle" => launch[k].target.file # f
        BY <1>2 DEF FocusInv, FocusTypes, Focus!Users, Focus!Supervise, Focus!Phase
      <3>4. QED
        BY <2>1, <3>1, <3>2, <3>3, TargetFile
           DEF FocusInv, FocusTypes, Locked, Focus!Holders, Focus!Phase
    <2>3. Held'
      <3>1. /\ launch[l] \in FocusStates /\ launch[l].pc \in {"idle"}
            /\ launch[l].pc # "idle" => launch[l].target \in Focus!Targets
            /\ \A k \in Registrants \ {l} : launch'[k] = launch[k]
        BY <1>2 DEF FocusInv, FocusTypes, FocusStates, Focus!Supervise, Focus!Phase
      <3>2. launch'[l].pc = "create" /\ launch'[l].target = [file |-> f, name |-> Focus!Native]
        BY <1>2, <3>1 DEF FocusInv, FocusTypes, FocusStates, Focus!NoLaunch, Focus!Supervise,
           Focus!Phase
      <3>3. /\ route' = route /\ collided' = collided /\ split' = split \ {f}
            /\ \A k \in Registrants : launch[k].pc # "idle" => launch[k].target.file # f
        BY <1>2 DEF FocusInv, FocusTypes, Focus!Users, Focus!Supervise, Focus!Phase
      <3>4. \A g : Counted(g)' = Counted(g)
        BY <3>1, <3>2 DEF Counted, Focus!Users
      <3>5. \A g : g.file = f => Counted(g) = {}
        BY <3>3 DEF Counted, Focus!Users
      <3>6. QED
        BY <3>3, <3>4, <3>5 DEF FocusInv, Held
    <2>4. QED
      BY <2>1, <2>2, <2>3 DEF FocusInv
  <1>3. ASSUME NEW l \in Registrants, Focus!Open(l, "create", "creating")
        PROVE  FocusInv'
    <2>1. FocusTypes'
      <3>1. /\ launch[l] \in FocusStates /\ launch[l].pc \in {"create"}
            /\ launch[l].pc # "idle" => launch[l].target \in Focus!Targets
        BY <1>3 DEF FocusInv, FocusTypes, FocusStates, Focus!Open, Focus!Phase
      <3>2. launch[l].pc # "idle" => route[launch[l].target.file] \in Registered \cup {None}
                                        /\ lockfile[launch[l].target.file] \in Nat
        BY <3>1, TargetFile DEF FocusInv, FocusTypes
      <3>3. Focus!NoLaunch \in FocusStates /\ Focus!NoLaunch.pc = "idle"
        BY DEF Focus!NoLaunch, FocusStates, FocusPoints
      <3>4. PICK s : s = [launch[l] EXCEPT !.pc = "creating",
                        !.inode = lockfile[launch[l].target.file]]
        OBVIOUS
      <3>5. s \in FocusStates
        BY <3>1, <3>2, <3>3, <3>4 DEF FocusStates, FocusPoints
      <3>6. s.pc # "idle" => s.target \in Focus!Targets
        BY <3>1, <3>3, <3>4 DEF FocusStates, Focus!NoLaunch
      <3>7. s.pc = "idle" => s = Focus!NoLaunch
        BY <3>1, <3>3, <3>4 DEF FocusStates, Focus!NoLaunch
      <3>8. launch' = [launch EXCEPT ![l] = s]
        BY <1>3, <3>4 DEF FocusInv, FocusTypes, Focus!Open, Focus!Phase
      <3>9. route' \in [Files -> Registered \cup {None}] /\ lockfile' \in [Files -> Nat]
        BY <1>3, <3>1, <3>2, TargetFile DEF FocusInv, FocusTypes, Focus!Open, Focus!Phase
      <3>10. QED
        BY <3>5, <3>6, <3>7, <3>8, <3>9 DEF FocusInv, FocusTypes
    <2>2. Locked'
      <3>1. /\ launch[l] \in FocusStates /\ launch[l].pc \in {"create"}
            /\ launch[l].pc # "idle" => launch[l].target \in Focus!Targets
            /\ \A k \in Registrants \ {l} : launch'[k] = launch[k]
        BY <1>3 DEF FocusInv, FocusTypes, FocusStates, Focus!Open, Focus!Phase
      <3>2. launch'[l].pc = "creating" /\ launch'[l].target = launch[l].target
        BY <1>3, <3>1 DEF FocusInv, FocusTypes, FocusStates, Focus!NoLaunch, Focus!Open,
           Focus!Phase
      <3>3. route' = route /\ collided' = collided /\ split' = split
        BY <1>3 DEF Focus!Open, Focus!Phase
      <3>4. QED
        BY <2>1, <3>1, <3>2, <3>3, TargetFile
           DEF FocusInv, FocusTypes, Locked, Focus!Holders, Focus!Phase
    <2>3. Held'
      <3>1. /\ launch[l] \in FocusStates /\ launch[l].pc \in {"create"}
            /\ launch[l].pc # "idle" => launch[l].target \in Focus!Targets
            /\ \A k \in Registrants \ {l} : launch'[k] = launch[k]
        BY <1>3 DEF FocusInv, FocusTypes, FocusStates, Focus!Open, Focus!Phase
      <3>2. launch'[l].pc = "creating" /\ launch'[l].target = launch[l].target
        BY <1>3, <3>1 DEF FocusInv, FocusTypes, FocusStates, Focus!NoLaunch, Focus!Open,
           Focus!Phase
      <3>3. route' = route /\ collided' = collided /\ split' = split
        BY <1>3 DEF Focus!Open, Focus!Phase
      <3>4. \A g : Counted(g)' = Counted(g)
        BY <3>1, <3>2 DEF Counted, Focus!Users
      <3>5. split \subseteq split'
        BY <3>3
      <3>6. QED
        BY <3>3, <3>4, <3>5 DEF FocusInv, Held
    <2>4. QED
      BY <2>1, <2>2, <2>3 DEF FocusInv
  <1>4. ASSUME NEW l \in Registrants, Focus!Read(l, "creating", "created")
        PROVE  FocusInv'
    <2>1. FocusTypes'
      <3>1. /\ launch[l] \in FocusStates /\ launch[l].pc \in {"creating"}
            /\ launch[l].pc # "idle" => launch[l].target \in Focus!Targets
        BY <1>4 DEF FocusInv, FocusTypes, FocusStates, Focus!Read, Focus!Reads, Focus!Phase
      <3>2. launch[l].pc # "idle" => route[launch[l].target.file] \in Registered \cup {None}
                                        /\ lockfile[launch[l].target.file] \in Nat
        BY <3>1, TargetFile DEF FocusInv, FocusTypes
      <3>3. Focus!NoLaunch \in FocusStates /\ Focus!NoLaunch.pc = "idle"
        BY DEF Focus!NoLaunch, FocusStates, FocusPoints
      <3>4. PICK s : s = [launch[l] EXCEPT !.pc = "created", !.seen = route[launch[l].target.file]]
        OBVIOUS
      <3>5. s \in FocusStates
        BY <3>1, <3>2, <3>3, <3>4 DEF FocusStates, FocusPoints
      <3>6. s.pc # "idle" => s.target \in Focus!Targets
        BY <3>1, <3>3, <3>4 DEF FocusStates, Focus!NoLaunch
      <3>7. s.pc = "idle" => s = Focus!NoLaunch
        BY <3>1, <3>3, <3>4 DEF FocusStates, Focus!NoLaunch
      <3>8. launch' = [launch EXCEPT ![l] = s]
        BY <1>4, <3>4 DEF FocusInv, FocusTypes, Focus!Read, Focus!Reads, Focus!Phase
      <3>9. route' \in [Files -> Registered \cup {None}] /\ lockfile' \in [Files -> Nat]
        BY <1>4, <3>1, <3>2, TargetFile DEF FocusInv, FocusTypes, Focus!Read, Focus!Reads,
           Focus!Phase
      <3>10. QED
        BY <3>5, <3>6, <3>7, <3>8, <3>9 DEF FocusInv, FocusTypes
    <2>2. Locked'
      <3>1. /\ launch[l] \in FocusStates /\ launch[l].pc \in {"creating"}
            /\ launch[l].pc # "idle" => launch[l].target \in Focus!Targets
            /\ \A k \in Registrants \ {l} : launch'[k] = launch[k]
        BY <1>4 DEF FocusInv, FocusTypes, FocusStates, Focus!Read, Focus!Reads, Focus!Phase
      <3>2. launch'[l].pc = "created" /\ launch'[l].target = launch[l].target
        BY <1>4, <3>1 DEF FocusInv, FocusTypes, FocusStates, Focus!NoLaunch, Focus!Read,
           Focus!Reads, Focus!Phase
      <3>3. /\ launch'[l].seen = route[launch[l].target.file]
            /\ route' = route /\ collided' = collided
            /\ split' = IF Focus!Holders(launch[l].target.file) = {} THEN split
                        ELSE split \cup {launch[l].target.file}
        BY <1>4, <3>1 DEF FocusInv, FocusTypes, FocusStates, Focus!Read, Focus!Reads, Focus!Phase
      <3>4. QED
        BY <2>1, <3>1, <3>2, <3>3, TargetFile
           DEF FocusInv, FocusTypes, Locked, Focus!Holders, Focus!Phase
    <2>3. Held'
      <3>1. /\ launch[l] \in FocusStates /\ launch[l].pc \in {"creating"}
            /\ launch[l].pc # "idle" => launch[l].target \in Focus!Targets
            /\ \A k \in Registrants \ {l} : launch'[k] = launch[k]
        BY <1>4 DEF FocusInv, FocusTypes, FocusStates, Focus!Read, Focus!Reads, Focus!Phase
      <3>2. launch'[l].pc = "created" /\ launch'[l].target = launch[l].target
        BY <1>4, <3>1 DEF FocusInv, FocusTypes, FocusStates, Focus!NoLaunch, Focus!Read,
           Focus!Reads, Focus!Phase
      <3>3. /\ launch'[l].seen = route[launch[l].target.file]
            /\ route' = route /\ collided' = collided
            /\ split' = IF Focus!Holders(launch[l].target.file) = {} THEN split
                        ELSE split \cup {launch[l].target.file}
        BY <1>4, <3>1 DEF FocusInv, FocusTypes, FocusStates, Focus!Read, Focus!Reads, Focus!Phase
      <3>4. \A g : Counted(g)' = Counted(g)
        BY <3>1, <3>2 DEF Counted, Focus!Users
      <3>5. split \subseteq split'
        BY <3>3
      <3>6. QED
        BY <3>3, <3>4, <3>5 DEF FocusInv, Held
    <2>4. QED
      BY <2>1, <2>2, <2>3 DEF FocusInv
  <1>5. ASSUME NEW l \in Registrants, Focus!Create(l)
        PROVE  FocusInv'
    <2>1. FocusTypes'
      <3>1. /\ launch[l] \in FocusStates /\ launch[l].pc \in {"created"}
            /\ launch[l].pc # "idle" => launch[l].target \in Focus!Targets
        BY <1>5 DEF FocusInv, FocusTypes, FocusStates, Focus!Create, Focus!Phase
      <3>2. Focus!Created(l) \in Registered
        BY <3>1, CreatedTyped
      <3>3. Focus!NoLaunch \in FocusStates /\ Focus!NoLaunch.pc = "idle"
        BY DEF Focus!NoLaunch, FocusStates, FocusPoints
      <3>4. PICK s : s = [launch[l] EXCEPT !.pc = "active", !.inode = 0, !.seen = None]
        OBVIOUS
      <3>5. s \in FocusStates
        BY <3>1, <3>2, <3>3, <3>4 DEF FocusStates, FocusPoints
      <3>6. s.pc # "idle" => s.target \in Focus!Targets
        BY <3>1, <3>3, <3>4 DEF FocusStates, Focus!NoLaunch
      <3>7. s.pc = "idle" => s = Focus!NoLaunch
        BY <3>1, <3>3, <3>4 DEF FocusStates, Focus!NoLaunch
      <3>8. launch' = [launch EXCEPT ![l] = s]
        BY <1>5, <3>4 DEF FocusInv, FocusTypes, Focus!Create, Focus!Phase
      <3>9. route' \in [Files -> Registered \cup {None}] /\ lockfile' \in [Files -> Nat]
        BY <1>5, <3>1, <3>2, TargetFile DEF FocusInv, FocusTypes, Focus!Create, Focus!Phase
      <3>10. QED
        BY <3>5, <3>6, <3>7, <3>8, <3>9 DEF FocusInv, FocusTypes
    <2>2. Locked'
      <3>1. /\ launch[l] \in FocusStates /\ launch[l].pc \in {"created"}
            /\ launch[l].pc # "idle" => launch[l].target \in Focus!Targets
            /\ \A k \in Registrants \ {l} : launch'[k] = launch[k]
        BY <1>5 DEF FocusInv, FocusTypes, FocusStates, Focus!Create, Focus!Phase
      <3>2. launch'[l].pc = "active" /\ launch'[l].target = launch[l].target
        BY <1>5, <3>1 DEF FocusInv, FocusTypes, FocusStates, Focus!NoLaunch, Focus!Create,
           Focus!Phase
      <3>3. /\ launch[l].target.file \notin split =>
                 launch[l].seen = route[launch[l].target.file]
            /\ route' = [route EXCEPT ![launch[l].target.file] = Focus!Created(l)]
            /\ split' = split
        BY <1>5, <3>1 DEF FocusInv, Locked, Focus!Create, Focus!Phase
      <3>4. QED
        BY <2>1, <3>1, <3>2, <3>3, TargetFile
           DEF FocusInv, FocusTypes, Locked, Focus!Holders, Focus!Phase
    <2>3. Held'
      <3>1. /\ launch[l] \in FocusStates /\ launch[l].pc \in {"created"}
            /\ launch[l].pc # "idle" => launch[l].target \in Focus!Targets
            /\ \A k \in Registrants \ {l} : launch'[k] = launch[k]
        BY <1>5 DEF FocusInv, FocusTypes, FocusStates, Focus!Create, Focus!Phase
      <3>2. launch'[l].pc = "active" /\ launch'[l].target = launch[l].target
        BY <1>5, <3>1 DEF FocusInv, FocusTypes, FocusStates, Focus!NoLaunch, Focus!Create,
           Focus!Phase
      <3>3. /\ launch[l].target.file \notin split =>
                 launch[l].seen = route[launch[l].target.file]
            /\ route' = [route EXCEPT ![launch[l].target.file] = Focus!Created(l)]
            /\ split' = split
        BY <1>5, <3>1 DEF FocusInv, Locked, Focus!Create, Focus!Phase
      <3>4. PICK t \in Focus!Targets : t = launch[l].target
        BY <3>1
      <3>5. /\ Counted(t)' = Counted(t) \cup {l} /\ l \notin Counted(t)
            /\ \A g : g # t => Counted(g)' = Counted(g)
        BY <3>1, <3>2, <3>4 DEF Counted, Focus!Users
      <3>6. Cardinality(Counted(t)') = Cardinality(Counted(t)) + 1
        BY <3>5, CountedFinite, FS_AddElement
      <3> DEFINE old == launch[l].seen
                 new == Focus!Created(l)
      <3>7. t.file \in Files /\ old \in Registered \cup {None}
        BY <3>1, TargetFile DEF FocusStates
      <3>8. route'[t.file] = new /\ \A f \in Files \ {t.file} : route'[f] = route[f]
        BY <3>3, <3>4, <3>7 DEF FocusInv, FocusTypes
      <3>9. new \in Registered
        BY <3>1, <3>4, CreatedTyped
      <3>10. /\ new # None /\ new.target = t /\ new.count \in Nat /\ new.count >= 1
             /\ old # None /\ old.target = t => old.count \in Nat /\ new.count = old.count + 1
        <4>1. CASE old # None /\ old.target = t
          <5>1. old \in Registered
            BY <3>7, <4>1
          <5>2. new.target = old.target /\ new.count = old.count + 1 /\ old.count \in Nat
            BY <3>4, <4>1, <5>1 DEF Focus!Created, Registered
          <5>3. QED
            BY <3>9, <4>1, <5>2, RegisteredIsSomething
        <4>2. CASE ~(old # None /\ old.target = t)
          <5>1. new.target = t /\ new.count = 1
            BY <3>4, <4>2 DEF Focus!Created
          <5>2. QED
            BY <3>9, <4>2, <5>1, RegisteredIsSomething
        <4>3. QED
          BY <4>1, <4>2
      <3>11. collided' = IF old \in {None, Focus!Obsolete} \/ old.target = t THEN collided
                         ELSE collided \cup {old.target}
        BY <1>5, <3>4, <3>10 DEF Focus!Create
      <3>12. t.file \notin split => old = route[t.file]
        BY <3>3, <3>4
      <3> HIDE DEF old, new
      <3>13. ASSUME NEW u \in Focus!Targets \ collided', u.file \notin split', Counted(u)' # {}
             PROVE  /\ route'[u.file] # None /\ route'[u.file].target = u
                    /\ route'[u.file].count >= Cardinality(Counted(u))'
        <4>1. u.file \in Files /\ u \notin collided /\ u.file \notin split
          BY <3>3, <3>11, <3>13, TargetFile
        <4>2. CASE u.file # t.file
          <5>1. Counted(u)' = Counted(u)
            BY <3>5, <4>2
          <5>2. route'[u.file] = route[u.file]
            BY <3>8, <4>1, <4>2
          <5>3. QED
            BY <3>13, <4>1, <5>1, <5>2 DEF FocusInv, Held
        <4>3. CASE u = t
          <5>1. CASE Counted(t) = {}
            BY <3>6, <3>8, <3>10, <4>3, <5>1, FS_EmptySet
          <5>2. CASE Counted(t) # {}
            <6>1. old # None /\ old.target = t /\ old.count >= Cardinality(Counted(t))
              BY <3>12, <4>1, <4>3, <5>2 DEF FocusInv, Held
            <6>2. QED
              BY <3>6, <3>8, <3>10, <4>3, <6>1, CountedFinite
          <5>3. QED
            BY <5>1, <5>2
        <4>4. CASE u # t /\ u.file = t.file
          <5>1. Counted(u) # {}
            BY <3>5, <3>13, <4>4
          <5>2. old # None /\ old.target = u
            BY <3>12, <4>1, <4>4, <5>1 DEF FocusInv, Held
          <5>3. old # Focus!Obsolete
            BY <5>2, NoneIsNoTarget DEF Focus!Obsolete
          <5>4. u \in collided'
            BY <3>11, <4>4, <5>2, <5>3
          <5>5. QED
            BY <3>13, <5>4
        <4>5. QED
          BY <4>2, <4>3, <4>4
      <3>14. QED
        BY <3>13 DEF Held
    <2>4. QED
      BY <2>1, <2>2, <2>3 DEF FocusInv
  <1>6. ASSUME NEW l \in Registrants, Focus!Open(l, "active", "removing")
        PROVE  FocusInv'
    <2>1. FocusTypes'
      <3>1. /\ launch[l] \in FocusStates /\ launch[l].pc \in {"active"}
            /\ launch[l].pc # "idle" => launch[l].target \in Focus!Targets
        BY <1>6 DEF FocusInv, FocusTypes, FocusStates, Focus!Open, Focus!Phase
      <3>2. launch[l].pc # "idle" => route[launch[l].target.file] \in Registered \cup {None}
                                        /\ lockfile[launch[l].target.file] \in Nat
        BY <3>1, TargetFile DEF FocusInv, FocusTypes
      <3>3. Focus!NoLaunch \in FocusStates /\ Focus!NoLaunch.pc = "idle"
        BY DEF Focus!NoLaunch, FocusStates, FocusPoints
      <3>4. PICK s : s = [launch[l] EXCEPT !.pc = "removing",
                        !.inode = lockfile[launch[l].target.file]]
        OBVIOUS
      <3>5. s \in FocusStates
        BY <3>1, <3>2, <3>3, <3>4 DEF FocusStates, FocusPoints
      <3>6. s.pc # "idle" => s.target \in Focus!Targets
        BY <3>1, <3>3, <3>4 DEF FocusStates, Focus!NoLaunch
      <3>7. s.pc = "idle" => s = Focus!NoLaunch
        BY <3>1, <3>3, <3>4 DEF FocusStates, Focus!NoLaunch
      <3>8. launch' = [launch EXCEPT ![l] = s]
        BY <1>6, <3>4 DEF FocusInv, FocusTypes, Focus!Open, Focus!Phase
      <3>9. route' \in [Files -> Registered \cup {None}] /\ lockfile' \in [Files -> Nat]
        BY <1>6, <3>1, <3>2, TargetFile DEF FocusInv, FocusTypes, Focus!Open, Focus!Phase
      <3>10. QED
        BY <3>5, <3>6, <3>7, <3>8, <3>9 DEF FocusInv, FocusTypes
    <2>2. Locked'
      <3>1. /\ launch[l] \in FocusStates /\ launch[l].pc \in {"active"}
            /\ launch[l].pc # "idle" => launch[l].target \in Focus!Targets
            /\ \A k \in Registrants \ {l} : launch'[k] = launch[k]
        BY <1>6 DEF FocusInv, FocusTypes, FocusStates, Focus!Open, Focus!Phase
      <3>2. launch'[l].pc = "removing" /\ launch'[l].target = launch[l].target
        BY <1>6, <3>1 DEF FocusInv, FocusTypes, FocusStates, Focus!NoLaunch, Focus!Open,
           Focus!Phase
      <3>3. route' = route /\ collided' = collided /\ split' = split
        BY <1>6 DEF Focus!Open, Focus!Phase
      <3>4. QED
        BY <2>1, <3>1, <3>2, <3>3, TargetFile
           DEF FocusInv, FocusTypes, Locked, Focus!Holders, Focus!Phase
    <2>3. Held'
      <3>1. /\ launch[l] \in FocusStates /\ launch[l].pc \in {"active"}
            /\ launch[l].pc # "idle" => launch[l].target \in Focus!Targets
            /\ \A k \in Registrants \ {l} : launch'[k] = launch[k]
        BY <1>6 DEF FocusInv, FocusTypes, FocusStates, Focus!Open, Focus!Phase
      <3>2. launch'[l].pc = "removing" /\ launch'[l].target = launch[l].target
        BY <1>6, <3>1 DEF FocusInv, FocusTypes, FocusStates, Focus!NoLaunch, Focus!Open,
           Focus!Phase
      <3>3. route' = route /\ collided' = collided /\ split' = split
        BY <1>6 DEF Focus!Open, Focus!Phase
      <3>4. \A g : Counted(g)' = Counted(g)
        BY <3>1, <3>2 DEF Counted, Focus!Users
      <3>5. split \subseteq split'
        BY <3>3
      <3>6. QED
        BY <3>3, <3>4, <3>5 DEF FocusInv, Held
    <2>4. QED
      BY <2>1, <2>2, <2>3 DEF FocusInv
  <1>7. ASSUME NEW l \in Registrants, Focus!Read(l, "removing", "removed")
        PROVE  FocusInv'
    <2>1. FocusTypes'
      <3>1. /\ launch[l] \in FocusStates /\ launch[l].pc \in {"removing"}
            /\ launch[l].pc # "idle" => launch[l].target \in Focus!Targets
        BY <1>7 DEF FocusInv, FocusTypes, FocusStates, Focus!Read, Focus!Reads, Focus!Phase
      <3>2. launch[l].pc # "idle" => route[launch[l].target.file] \in Registered \cup {None}
                                        /\ lockfile[launch[l].target.file] \in Nat
        BY <3>1, TargetFile DEF FocusInv, FocusTypes
      <3>3. Focus!NoLaunch \in FocusStates /\ Focus!NoLaunch.pc = "idle"
        BY DEF Focus!NoLaunch, FocusStates, FocusPoints
      <3>4. PICK s : s = [launch[l] EXCEPT !.pc = "removed", !.seen = route[launch[l].target.file]]
        OBVIOUS
      <3>5. s \in FocusStates
        BY <3>1, <3>2, <3>3, <3>4 DEF FocusStates, FocusPoints
      <3>6. s.pc # "idle" => s.target \in Focus!Targets
        BY <3>1, <3>3, <3>4 DEF FocusStates, Focus!NoLaunch
      <3>7. s.pc = "idle" => s = Focus!NoLaunch
        BY <3>1, <3>3, <3>4 DEF FocusStates, Focus!NoLaunch
      <3>8. launch' = [launch EXCEPT ![l] = s]
        BY <1>7, <3>4 DEF FocusInv, FocusTypes, Focus!Read, Focus!Reads, Focus!Phase
      <3>9. route' \in [Files -> Registered \cup {None}] /\ lockfile' \in [Files -> Nat]
        BY <1>7, <3>1, <3>2, TargetFile DEF FocusInv, FocusTypes, Focus!Read, Focus!Reads,
           Focus!Phase
      <3>10. QED
        BY <3>5, <3>6, <3>7, <3>8, <3>9 DEF FocusInv, FocusTypes
    <2>2. Locked'
      <3>1. /\ launch[l] \in FocusStates /\ launch[l].pc \in {"removing"}
            /\ launch[l].pc # "idle" => launch[l].target \in Focus!Targets
            /\ \A k \in Registrants \ {l} : launch'[k] = launch[k]
        BY <1>7 DEF FocusInv, FocusTypes, FocusStates, Focus!Read, Focus!Reads, Focus!Phase
      <3>2. launch'[l].pc = "removed" /\ launch'[l].target = launch[l].target
        BY <1>7, <3>1 DEF FocusInv, FocusTypes, FocusStates, Focus!NoLaunch, Focus!Read,
           Focus!Reads, Focus!Phase
      <3>3. /\ launch'[l].seen = route[launch[l].target.file]
            /\ route' = route /\ collided' = collided
            /\ split' = IF Focus!Holders(launch[l].target.file) = {} THEN split
                        ELSE split \cup {launch[l].target.file}
        BY <1>7, <3>1 DEF FocusInv, FocusTypes, FocusStates, Focus!Read, Focus!Reads, Focus!Phase
      <3>4. QED
        BY <2>1, <3>1, <3>2, <3>3, TargetFile
           DEF FocusInv, FocusTypes, Locked, Focus!Holders, Focus!Phase
    <2>3. Held'
      <3>1. /\ launch[l] \in FocusStates /\ launch[l].pc \in {"removing"}
            /\ launch[l].pc # "idle" => launch[l].target \in Focus!Targets
            /\ \A k \in Registrants \ {l} : launch'[k] = launch[k]
        BY <1>7 DEF FocusInv, FocusTypes, FocusStates, Focus!Read, Focus!Reads, Focus!Phase
      <3>2. launch'[l].pc = "removed" /\ launch'[l].target = launch[l].target
        BY <1>7, <3>1 DEF FocusInv, FocusTypes, FocusStates, Focus!NoLaunch, Focus!Read,
           Focus!Reads, Focus!Phase
      <3>3. /\ launch'[l].seen = route[launch[l].target.file]
            /\ route' = route /\ collided' = collided
            /\ split' = IF Focus!Holders(launch[l].target.file) = {} THEN split
                        ELSE split \cup {launch[l].target.file}
        BY <1>7, <3>1 DEF FocusInv, FocusTypes, FocusStates, Focus!Read, Focus!Reads, Focus!Phase
      <3>4. \A g : Counted(g)' = Counted(g)
        BY <3>1, <3>2 DEF Counted, Focus!Users
      <3>5. split \subseteq split'
        BY <3>3
      <3>6. QED
        BY <3>3, <3>4, <3>5 DEF FocusInv, Held
    <2>4. QED
      BY <2>1, <2>2, <2>3 DEF FocusInv
  <1>8. ASSUME NEW l \in Registrants, Focus!Unregister(l)
        PROVE  FocusInv'
    <2>1. FocusTypes'
      <3>1. /\ launch[l] \in FocusStates /\ launch[l].pc \in {"removed"}
            /\ launch[l].pc # "idle" => launch[l].target \in Focus!Targets
        BY <1>8 DEF FocusInv, FocusTypes, FocusStates, Focus!Unregister, Focus!Phase
      <3>2. Focus!Removed(l) \in Registered \cup {None}
        <4>1. launch[l].seen \in Registered \cup {None}
          BY <3>1 DEF FocusStates
        <4>2. CASE launch[l].seen \in Registered /\ launch[l].seen.count > 1
          <5>1. [launch[l].seen EXCEPT !.count = @ - 1] \in Registered
            BY <4>2 DEF Registered
          <5>2. QED
            BY <4>1, <5>1 DEF Focus!Removed
        <4>3. CASE ~(launch[l].seen \in Registered /\ launch[l].seen.count > 1)
          BY <4>1, <4>3 DEF Focus!Removed
        <4>4. QED
          BY <4>2, <4>3
      <3>3. Focus!NoLaunch \in FocusStates /\ Focus!NoLaunch.pc = "idle"
        BY DEF Focus!NoLaunch, FocusStates, FocusPoints
      <3>4. PICK s : s = IF launch[l].leased
                                        THEN [launch[l] EXCEPT !.pc = "unlink"] ELSE Focus!NoLaunch
        OBVIOUS
      <3>5. s \in FocusStates
        BY <3>1, <3>2, <3>3, <3>4 DEF FocusStates, FocusPoints
      <3>6. s.pc # "idle" => s.target \in Focus!Targets
        BY <3>1, <3>3, <3>4 DEF FocusStates, Focus!NoLaunch
      <3>7. s.pc = "idle" => s = Focus!NoLaunch
        BY <3>1, <3>3, <3>4 DEF FocusStates, Focus!NoLaunch
      <3>8. launch' = [launch EXCEPT ![l] = s]
        BY <1>8, <3>4 DEF FocusInv, FocusTypes, Focus!Unregister, Focus!Phase
      <3>9. route' \in [Files -> Registered \cup {None}] /\ lockfile' \in [Files -> Nat]
        BY <1>8, <3>1, <3>2, TargetFile DEF FocusInv, FocusTypes, Focus!Unregister, Focus!Phase
      <3>10. QED
        BY <3>5, <3>6, <3>7, <3>8, <3>9 DEF FocusInv, FocusTypes
    <2>2. Locked'
      <3>1. /\ launch[l] \in FocusStates /\ launch[l].pc \in {"removed"}
            /\ launch[l].pc # "idle" => launch[l].target \in Focus!Targets
            /\ \A k \in Registrants \ {l} : launch'[k] = launch[k]
        BY <1>8 DEF FocusInv, FocusTypes, FocusStates, Focus!Unregister, Focus!Phase
      <3>2. launch'[l].pc \in {"idle", "unlink"}
        BY <1>8, <3>1 DEF FocusInv, FocusTypes, FocusStates, Focus!NoLaunch, Focus!Unregister,
           Focus!Phase
      <3>3. /\ launch[l].target.file \notin split =>
                 launch[l].seen = route[launch[l].target.file]
            /\ route' = [route EXCEPT ![launch[l].target.file] = Focus!Removed(l)]
            /\ split' = split
        BY <1>8, <3>1 DEF FocusInv, Locked, Focus!Unregister, Focus!Phase
      <3>4. QED
        BY <2>1, <3>1, <3>2, <3>3, TargetFile
           DEF FocusInv, FocusTypes, Locked, Focus!Holders, Focus!Phase
    <2>3. Held'
      <3>1. /\ launch[l] \in FocusStates /\ launch[l].pc \in {"removed"}
            /\ launch[l].pc # "idle" => launch[l].target \in Focus!Targets
            /\ \A k \in Registrants \ {l} : launch'[k] = launch[k]
        BY <1>8 DEF FocusInv, FocusTypes, FocusStates, Focus!Unregister, Focus!Phase
      <3>2. launch'[l].pc \in {"idle", "unlink"}
        BY <1>8, <3>1 DEF FocusInv, FocusTypes, FocusStates, Focus!NoLaunch, Focus!Unregister,
           Focus!Phase
      <3>3. /\ launch[l].target.file \notin split =>
                 launch[l].seen = route[launch[l].target.file]
            /\ route' = [route EXCEPT ![launch[l].target.file] = Focus!Removed(l)]
            /\ split' = split
        BY <1>8, <3>1 DEF FocusInv, Locked, Focus!Unregister, Focus!Phase
      <3>4. PICK t \in Focus!Targets : t = launch[l].target
        BY <3>1
      <3>5. /\ Counted(t)' = Counted(t) \ {l} /\ l \in Counted(t)
            /\ \A g \in Focus!Targets : g # t => Counted(g)' = Counted(g)
        BY <3>1, <3>2, <3>4 DEF Counted, Focus!Users
      <3>6. Cardinality(Counted(t)') = Cardinality(Counted(t)) - 1
        BY <3>5, CountedFinite, FS_RemoveElement
      <3> DEFINE old == launch[l].seen
                 new == Focus!Removed(l)
      <3>7. /\ t.file \in Files /\ old \in Registered \cup {None} /\ collided' = collided
            /\ t.file \notin split => old = route[t.file]
        BY <1>8, <3>1, <3>3, <3>4, TargetFile DEF FocusStates, Focus!Unregister
      <3>8. route'[t.file] = new /\ \A f \in Files \ {t.file} : route'[f] = route[f]
        BY <3>3, <3>4, <3>7 DEF FocusInv, FocusTypes
      <3>9. ASSUME NEW u \in Focus!Targets \ collided', u.file \notin split', Counted(u)' # {}
            PROVE  /\ route'[u.file] # None /\ route'[u.file].target = u
                   /\ route'[u.file].count >= Cardinality(Counted(u))'
        <4>1. u.file \in Files /\ u \notin collided /\ Counted(u) # {} /\ u.file \notin split
          BY <3>3, <3>5, <3>7, <3>9, TargetFile
        <4>2. route[u.file] # None /\ route[u.file].target = u
                /\ route[u.file].count >= Cardinality(Counted(u))
          BY <4>1 DEF FocusInv, Held
        <4>3. CASE u.file # t.file
          <5>1. Counted(u)' = Counted(u)
            BY <3>5, <4>3
          <5>2. route'[u.file] = route[u.file]
            BY <3>8, <4>1, <4>3
          <5>3. QED
            BY <4>2, <5>1, <5>2
        <4>4. CASE u = t
          <5>1. old \in Registered /\ old.count \in Nat /\ old = route[t.file]
            BY <3>7, <4>1, <4>2, <4>4 DEF Registered
          <5>2. Cardinality(Counted(t)') \in Nat /\ Cardinality(Counted(t)') # 0
            <6>1. IsFiniteSet(Counted(t)')
              BY <3>5, CountedFinite, FS_RemoveElement
            <6>2. QED
              BY <3>9, <4>4, <6>1, FS_EmptySet, FS_CardinalityType
          <5>3. old.count > 1
            BY <3>6, <4>2, <4>4, <5>1, <5>2, CountedFinite
          <5>4. new = [old EXCEPT !.count = old.count - 1]
            BY <3>4, <4>2, <4>4, <5>1, <5>3 DEF Focus!Removed
          <5>5. new \in Registered /\ new.target = t /\ new.count = old.count - 1
            BY <4>2, <4>4, <5>1, <5>3, <5>4 DEF Registered
          <5>6. QED
            BY <3>6, <3>8, <4>2, <4>4, <5>1, <5>5, CountedFinite, RegisteredIsSomething
        <4>5. CASE u # t /\ u.file = t.file
          <5>1. Counted(u)' = Counted(u)
            BY <3>5, <4>5
          <5>2. new = old /\ old = route[t.file]
            BY <3>4, <3>7, <4>1, <4>2, <4>5 DEF Focus!Removed
          <5>3. QED
            BY <3>8, <4>2, <4>5, <5>1, <5>2
        <4>6. QED
          BY <4>3, <4>4, <4>5
      <3>10. QED
        BY <3>9 DEF Held
    <2>4. QED
      BY <2>1, <2>2, <2>3 DEF FocusInv
  <1>9. ASSUME NEW l \in Registrants, Focus!Unlink(l)
        PROVE  FocusInv'
    <2>1. FocusTypes'
      <3>1. /\ launch[l] \in FocusStates /\ launch[l].pc \in {"unlink"}
            /\ launch[l].pc # "idle" => launch[l].target \in Focus!Targets
        BY <1>9 DEF FocusInv, FocusTypes, FocusStates, Focus!Unlink, Focus!Phase
      <3>2. launch[l].pc # "idle" => route[launch[l].target.file] \in Registered \cup {None}
                                        /\ lockfile[launch[l].target.file] \in Nat
        BY <3>1, TargetFile DEF FocusInv, FocusTypes
      <3>3. Focus!NoLaunch \in FocusStates /\ Focus!NoLaunch.pc = "idle"
        BY DEF Focus!NoLaunch, FocusStates, FocusPoints
      <3>4. PICK s : s = Focus!NoLaunch
        OBVIOUS
      <3>5. s \in FocusStates
        BY <3>1, <3>2, <3>3, <3>4 DEF FocusStates, FocusPoints
      <3>6. s.pc # "idle" => s.target \in Focus!Targets
        BY <3>1, <3>3, <3>4 DEF FocusStates, Focus!NoLaunch
      <3>7. s.pc = "idle" => s = Focus!NoLaunch
        BY <3>1, <3>3, <3>4 DEF FocusStates, Focus!NoLaunch
      <3>8. launch' = [launch EXCEPT ![l] = s]
        BY <1>9, <3>4 DEF FocusInv, FocusTypes, Focus!Unlink, Focus!Phase
      <3>9. route' \in [Files -> Registered \cup {None}] /\ lockfile' \in [Files -> Nat]
        BY <1>9, <3>1, <3>2, TargetFile DEF FocusInv, FocusTypes, Focus!Unlink, Focus!Phase
      <3>10. QED
        BY <3>5, <3>6, <3>7, <3>8, <3>9 DEF FocusInv, FocusTypes
    <2>2. Locked'
      <3>1. /\ launch[l] \in FocusStates /\ launch[l].pc \in {"unlink"}
            /\ launch[l].pc # "idle" => launch[l].target \in Focus!Targets
            /\ \A k \in Registrants \ {l} : launch'[k] = launch[k]
        BY <1>9 DEF FocusInv, FocusTypes, FocusStates, Focus!Unlink, Focus!Phase
      <3>2. launch'[l].pc = "idle"
        BY <1>9 DEF FocusInv, FocusTypes, Focus!NoLaunch, Focus!Unlink, Focus!Phase
      <3>3. route' = route /\ collided' = collided /\ split' = split
        BY <1>9 DEF Focus!Unlink, Focus!Phase
      <3>4. QED
        BY <2>1, <3>1, <3>2, <3>3, TargetFile
           DEF FocusInv, FocusTypes, Locked, Focus!Holders, Focus!Phase
    <2>3. Held'
      <3>1. /\ launch[l] \in FocusStates /\ launch[l].pc \in {"unlink"}
            /\ launch[l].pc # "idle" => launch[l].target \in Focus!Targets
            /\ \A k \in Registrants \ {l} : launch'[k] = launch[k]
        BY <1>9 DEF FocusInv, FocusTypes, FocusStates, Focus!Unlink, Focus!Phase
      <3>2. launch'[l].pc = "idle"
        BY <1>9 DEF FocusInv, FocusTypes, Focus!NoLaunch, Focus!Unlink, Focus!Phase
      <3>3. route' = route /\ collided' = collided /\ split' = split
        BY <1>9 DEF Focus!Unlink, Focus!Phase
      <3>4. ASSUME NEW g \in Focus!Targets \ collided', g.file \notin split', Counted(g)' # {}
            PROVE  /\ route'[g.file] # None /\ route'[g.file].target = g
                   /\ route'[g.file].count >= Cardinality(Counted(g))'
        <4>1. Counted(g)' \subseteq Counted(g)
          BY <3>1, <3>2 DEF Counted, Focus!Users
        <4>2. /\ route[g.file] # None /\ route[g.file].target = g
              /\ route[g.file].count >= Cardinality(Counted(g))
          BY <3>3, <3>4, <4>1 DEF FocusInv, Held
        <4>3. /\ Cardinality(Counted(g)') <= Cardinality(Counted(g))
              /\ Cardinality(Counted(g)') \in Nat
          BY <4>1, CountedFinite, FS_Subset, FS_CardinalityType
        <4>4. route[g.file].count \in Nat
          BY <4>2, TargetFile DEF FocusInv, FocusTypes, Registered
        <4>5. QED
          BY <3>3, <4>2, <4>3, <4>4, CountedFinite
      <3>5. QED
        BY <3>4 DEF Held
    <2>4. QED
      BY <2>1, <2>2, <2>3 DEF FocusInv
  <1>10. ASSUME NEW l \in Registrants, Focus!Kill(l)
        PROVE  FocusInv'
    <2>1. FocusTypes'
      <3>1. /\ launch[l] \in FocusStates /\ launch[l].pc \in FocusPoints
            /\ launch[l].pc # "idle" => launch[l].target \in Focus!Targets
        BY <1>10 DEF FocusInv, FocusTypes, FocusStates, Focus!Kill, Focus!Phase
      <3>2. launch[l].pc # "idle" => route[launch[l].target.file] \in Registered \cup {None}
                                        /\ lockfile[launch[l].target.file] \in Nat
        BY <3>1, TargetFile DEF FocusInv, FocusTypes
      <3>3. Focus!NoLaunch \in FocusStates /\ Focus!NoLaunch.pc = "idle"
        BY DEF Focus!NoLaunch, FocusStates, FocusPoints
      <3>4. PICK s : s = Focus!NoLaunch
        OBVIOUS
      <3>5. s \in FocusStates
        BY <3>1, <3>2, <3>3, <3>4 DEF FocusStates, FocusPoints
      <3>6. s.pc # "idle" => s.target \in Focus!Targets
        BY <3>1, <3>3, <3>4 DEF FocusStates, Focus!NoLaunch
      <3>7. s.pc = "idle" => s = Focus!NoLaunch
        BY <3>1, <3>3, <3>4 DEF FocusStates, Focus!NoLaunch
      <3>8. launch' = [launch EXCEPT ![l] = s]
        BY <1>10, <3>4 DEF FocusInv, FocusTypes, Focus!Kill, Focus!Phase
      <3>9. route' \in [Files -> Registered \cup {None}] /\ lockfile' \in [Files -> Nat]
        BY <1>10, <3>1, <3>2, TargetFile DEF FocusInv, FocusTypes, Focus!Kill, Focus!Phase
      <3>10. QED
        BY <3>5, <3>6, <3>7, <3>8, <3>9 DEF FocusInv, FocusTypes
    <2>2. Locked'
      <3>1. /\ launch[l] \in FocusStates /\ launch[l].pc \in FocusPoints
            /\ launch[l].pc # "idle" => launch[l].target \in Focus!Targets
            /\ \A k \in Registrants \ {l} : launch'[k] = launch[k]
        BY <1>10 DEF FocusInv, FocusTypes, FocusStates, Focus!Kill, Focus!Phase
      <3>2. launch'[l].pc = "idle"
        BY <1>10 DEF FocusInv, FocusTypes, Focus!NoLaunch, Focus!Kill, Focus!Phase
      <3>3. route' = route /\ collided' = collided /\ split' = split
        BY <1>10 DEF Focus!Kill, Focus!Phase
      <3>4. QED
        BY <2>1, <3>1, <3>2, <3>3, TargetFile
           DEF FocusInv, FocusTypes, Locked, Focus!Holders, Focus!Phase
    <2>3. Held'
      <3>1. /\ launch[l] \in FocusStates /\ launch[l].pc \in FocusPoints
            /\ launch[l].pc # "idle" => launch[l].target \in Focus!Targets
            /\ \A k \in Registrants \ {l} : launch'[k] = launch[k]
        BY <1>10 DEF FocusInv, FocusTypes, FocusStates, Focus!Kill, Focus!Phase
      <3>2. launch'[l].pc = "idle"
        BY <1>10 DEF FocusInv, FocusTypes, Focus!NoLaunch, Focus!Kill, Focus!Phase
      <3>3. route' = route /\ collided' = collided /\ split' = split
        BY <1>10 DEF Focus!Kill, Focus!Phase
      <3>4. ASSUME NEW g \in Focus!Targets \ collided', g.file \notin split', Counted(g)' # {}
            PROVE  /\ route'[g.file] # None /\ route'[g.file].target = g
                   /\ route'[g.file].count >= Cardinality(Counted(g))'
        <4>1. Counted(g)' \subseteq Counted(g)
          BY <3>1, <3>2 DEF Counted, Focus!Users
        <4>2. /\ route[g.file] # None /\ route[g.file].target = g
              /\ route[g.file].count >= Cardinality(Counted(g))
          BY <3>3, <3>4, <4>1 DEF FocusInv, Held
        <4>3. /\ Cardinality(Counted(g)') <= Cardinality(Counted(g))
              /\ Cardinality(Counted(g)') \in Nat
          BY <4>1, CountedFinite, FS_Subset, FS_CardinalityType
        <4>4. route[g.file].count \in Nat
          BY <4>2, TargetFile DEF FocusInv, FocusTypes, Registered
        <4>5. QED
          BY <3>3, <4>2, <4>3, <4>4, CountedFinite
      <3>5. QED
        BY <3>4 DEF Held
    <2>4. QED
      BY <2>1, <2>2, <2>3 DEF FocusInv
  <1>11. QED
    BY <1>1, <1>2, <1>3, <1>4, <1>5, <1>6, <1>7, <1>8, <1>9, <1>10 DEF Focus!Next,
       Focus!Registering

(* A launch keeps its route while it lives: a registration counts at least  *)
(* the launches that live and share it, whatever is killed, as long as no   *)
(* target with the same file name replaced it and no two launchers changed  *)
(* it under different lock files.                                           *)
THEOREM RoutesHeld == WorkspaceSpec => []RegistrationHeld
  <1>1. WorkspaceInit => FocusInv
    BY FocusInit DEF WorkspaceInit
  <1>2. FocusInv /\ [WorkspaceNext]_all => FocusInv'
    <2> SUFFICES ASSUME FocusInv, [WorkspaceNext]_all PROVE FocusInv'
      OBVIOUS
    <2>1. CASE pick = "routes" /\ Focus!Next
      BY <2>1, FocusStep
    <2>2. CASE UNCHANGED routes
      BY <2>2 DEF routes, FocusInv, FocusTypes, Locked, Held, Counted, Focus!Users, Focus!Holders,
         Focus!Phase
    <2>3. QED
      BY <2>1, <2>2 DEF WorkspaceNext, all
  <1>3. FocusInv => RegistrationHeld
    <2> SUFFICES ASSUME FocusInv PROVE RegistrationHeld
      OBVIOUS
    <2>1. \A t : Counted(t) = {k \in Focus!Users(t) :
                              Focus!Phase(k, {"active", "removing", "removed"})}
      BY DEF Counted, Focus!Phase
    <2>2. ASSUME NEW l \in Registrants, launch[l].pc = "active", launch[l].target \notin collided,
                 launch[l].target.file \notin split
          PROVE  /\ route[launch[l].target.file] # None
                 /\ route[launch[l].target.file].target = launch[l].target
                 /\ route[launch[l].target.file].count >= Cardinality(Counted(launch[l].target))
      <3>1. launch[l].target \in Focus!Targets
        BY <2>2 DEF FocusInv, FocusTypes
      <3>2. l \in Counted(launch[l].target)
        BY <2>2 DEF Counted, Focus!Users
      <3>3. QED
        BY <2>2, <3>1, <3>2 DEF FocusInv, Held
    <2>3. QED
      BY <2>1, <2>2, FocusCounts DEF RegistrationHeld, Focus!RegistrationHeld, Focus!Phase
  <1>4. QED
    BY <1>1, <1>2, <1>3, PTL DEF WorkspaceSpec

-----------------------------------------------------------------------------
(* Attention. *)

Queues == Seq(Attend!Entries)

Resting == {"idle", "lock"}
Going == {"visit", "validate", "raise", "commit"}

CommandStates ==
    [pc : Resting \cup Going \cup {"insert"}, target : Receivers \cup {None},
     route : Attend!Routes, rest : Queues, pending : Queues, saved : Attend!Routes,
     origin : Attend!Routes]

AttentionTypes ==
    /\ queued \in Queues
    /\ saved \in Attend!Routes
    /\ registered \in [Receivers -> Attend!Routes]
    /\ commands \in [Attend!Commands -> CommandStates]
    /\ commands["enqueue"].pc \in Resting \cup {"insert"}
    /\ commands["enqueue"].pc # "idle" => commands["enqueue"].target \in Receivers
    /\ commands["focus"].pc \in {"idle"} \cup Going
    /\ commands["return"].pc \in {"idle"} \cup Going
    /\ commands["focus"].pc \in {"validate", "raise"} => commands["focus"].rest # <<>>

(* Who has begun to read or to write the queue holds the lock.              *)
WriterInv ==
    \A c \in Attend!Commands : commands[c].pc \notin Resting => writer = c

InQueue(q) == {q[i].target : i \in DOMAIN q}

OnePerTarget(q) == \A i, j \in DOMAIN q : q[i].target = q[j].target => i = j

(* The queue has one entry for a target, and so has the copy of a visit,    *)
(* which keeps what the visit has not dealt with.                           *)
QueueInv ==
    /\ OnePerTarget(queued)
    /\ commands["focus"].pc \in Going =>
         /\ OnePerTarget(commands["focus"].pending)
         /\ owed \subseteq InQueue(commands["focus"].pending)

AttentionInv == AttentionTypes /\ WriterInv /\ QueueInv /\ Attend!AttentionKept

LEMMA RemoveOne ==
  ASSUME NEW S, NEW q \in Seq(S), NEW k \in DOMAIN q
  PROVE  /\ Attend!RemoveAt(q, k) \in Seq(S)
         /\ Len(Attend!RemoveAt(q, k)) = Len(q) - 1
         /\ \A i \in 1 .. (Len(q) - 1) :
              Attend!RemoveAt(q, k)[i] = IF i < k THEN q[i] ELSE q[i + 1]
  <1> DEFINE a == SubSeq(q, 1, k - 1)
             b == SubSeq(q, k + 1, Len(q))
  <1>0. k \in 1 .. Len(q) /\ Len(q) \in Nat /\ \A i \in 1 .. Len(q) : q[i] \in S
    OBVIOUS
  <1>1. a \in Seq(S) /\ Len(a) = k - 1 /\ \A i \in 1 .. (k - 1) : a[i] = q[i]
    BY <1>0
  <1>2. b \in Seq(S) /\ Len(b) = Len(q) - k /\ \A i \in 1 .. (Len(q) - k) : b[i] = q[k + i]
    BY <1>0
  <1>3. Attend!RemoveAt(q, k) = a \o b
    BY DEF Attend!RemoveAt
  <1> HIDE DEF a, b
  <1>4. /\ a \o b \in Seq(S) /\ Len(a \o b) = Len(q) - 1
        /\ \A i \in 1 .. (Len(q) - 1) : (a \o b)[i] = IF i < k THEN a[i] ELSE b[i - (k - 1)]
    <2>1. /\ a \o b \in Seq(S) /\ Len(a \o b) = Len(a) + Len(b)
          /\ \A i \in 1 .. (Len(a) + Len(b)) :
               (a \o b)[i] = IF i <= Len(a) THEN a[i] ELSE b[i - Len(a)]
      BY <1>1, <1>2, ConcatProperties
    <2>2. Len(a) + Len(b) = Len(q) - 1 /\ \A i \in Int : i <= Len(a) <=> i < k
      BY <1>0, <1>1, <1>2
    <2>3. QED
      BY <1>1, <2>1, <2>2
  <1>5. ASSUME NEW i \in 1 .. (Len(q) - 1)
        PROVE  (a \o b)[i] = IF i < k THEN q[i] ELSE q[i + 1]
    <2>1. CASE i < k
      BY <1>0, <1>1, <1>4, <2>1
    <2>2. CASE ~(i < k)
      <3>1. i - (k - 1) \in 1 .. (Len(q) - k) /\ k + (i - (k - 1)) = i + 1
        BY <1>0, <2>2
      <3>2. QED
        BY <1>2, <1>4, <2>2, <3>1
    <2>3. QED
      BY <2>1, <2>2
  <1>6. QED
    BY <1>3, <1>4, <1>5

LEMMA Forgotten ==
  ASSUME NEW q \in Queues, OnePerTarget(q), NEW t
  PROVE  /\ Attend!Without(q, t) \in Queues
         /\ OnePerTarget(Attend!Without(q, t))
         /\ InQueue(Attend!Without(q, t)) = InQueue(q) \ {t}
  <1>1. CASE \E i \in DOMAIN q : q[i].target = t
    <2> DEFINE k == CHOOSE i \in DOMAIN q : q[i].target = t
               r == Attend!RemoveAt(q, k)
    <2>1. k \in DOMAIN q /\ q[k].target = t
      BY <1>1
    <2>2. Attend!Without(q, t) = r
      BY <1>1 DEF Attend!Without
    <2> HIDE DEF k
    <2>3. /\ r \in Queues /\ Len(r) = Len(q) - 1
          /\ \A i \in 1 .. (Len(q) - 1) : r[i] = IF i < k THEN q[i] ELSE q[i + 1]
      BY <2>1, RemoveOne DEF Queues
    <2> HIDE DEF r
    <2>4. /\ DOMAIN q = 1 .. Len(q) /\ DOMAIN r = 1 .. (Len(q) - 1)
          /\ Len(q) \in Nat /\ k \in 1 .. Len(q)
      BY <2>1, <2>3 DEF Queues
    <2>5. OnePerTarget(r)
      <3> SUFFICES ASSUME NEW i \in DOMAIN r, NEW j \in DOMAIN r, r[i].target = r[j].target
                   PROVE  i = j
        BY DEF OnePerTarget
      <3> DEFINE orig(n) == IF n < k THEN n ELSE n + 1
      <3>1. /\ i \in Int /\ j \in Int /\ orig(i) \in DOMAIN q /\ orig(j) \in DOMAIN q
            /\ r[i] = q[orig(i)] /\ r[j] = q[orig(j)]
        BY <2>3, <2>4
      <3>2. orig(i) = orig(j)
        BY <3>1 DEF OnePerTarget
      <3>3. QED
        BY <2>4, <3>1, <3>2
    <2>6. ASSUME NEW x \in InQueue(r) PROVE x \in InQueue(q) \ {t}
      <3>1. PICK i \in DOMAIN r : x = r[i].target
        BY <2>6 DEF InQueue
      <3>2. CASE i < k
        BY <2>1, <2>3, <2>4, <3>1, <3>2 DEF InQueue, OnePerTarget
      <3>3. CASE ~(i < k)
        <4>1. i + 1 \in DOMAIN q /\ i + 1 # k /\ x = q[i + 1].target
          BY <2>3, <2>4, <3>1, <3>3
        <4>2. QED
          BY <2>1, <4>1 DEF InQueue, OnePerTarget
      <3>4. QED
        BY <3>2, <3>3
    <2>7. ASSUME NEW x \in InQueue(q) \ {t} PROVE x \in InQueue(r)
      <3>1. PICK i \in DOMAIN q : x = q[i].target
        BY <2>7 DEF InQueue
      <3>2. i # k
        BY <2>1, <2>7, <3>1
      <3>3. CASE i < k
        <4>1. i \in DOMAIN r /\ r[i] = q[i]
          BY <2>3, <2>4, <3>3
        <4>2. QED
          BY <3>1, <4>1 DEF InQueue
      <3>4. CASE ~(i < k)
        <4>1. i - 1 \in DOMAIN r /\ r[i - 1] = q[i]
          BY <2>3, <2>4, <3>2, <3>4
        <4>2. QED
          BY <3>1, <4>1 DEF InQueue
      <3>5. QED
        BY <3>3, <3>4
    <2>8. QED
      BY <2>2, <2>3, <2>5, <2>6, <2>7
  <1>2. CASE ~(\E i \in DOMAIN q : q[i].target = t)
    BY <1>2 DEF Attend!Without, InQueue
  <1>3. QED
    BY <1>1, <1>2

LEMMA Queued ==
  ASSUME NEW q \in Queues, OnePerTarget(q), NEW e \in Attend!Entries
  PROVE  LET r == Append(Attend!Without(q, e.target), e)
         IN /\ r \in Queues /\ OnePerTarget(r)
            /\ InQueue(r) = InQueue(q) \cup {e.target}
  <1> DEFINE w == Attend!Without(q, e.target)
             r == Append(w, e)
  <1>1. w \in Queues /\ OnePerTarget(w) /\ InQueue(w) = InQueue(q) \ {e.target}
    BY Forgotten
  <1> HIDE DEF w
  <1>2. /\ r \in Queues /\ DOMAIN r = 1 .. (Len(w) + 1) /\ DOMAIN w = 1 .. Len(w) /\ Len(w) \in Nat
        /\ r[Len(w) + 1] = e /\ \A i \in 1 .. Len(w) : r[i] = w[i]
    BY <1>1 DEF Queues
  <1> HIDE DEF r
  <1>3. \A i \in 1 .. Len(w) : w[i].target # e.target
    BY <1>1, <1>2 DEF InQueue
  <1>4. OnePerTarget(r)
    BY <1>1, <1>2, <1>3 DEF OnePerTarget
  <1>5. InQueue(r) = InQueue(w) \cup {e.target}
    <2>1. ASSUME NEW x \in InQueue(r) PROVE x \in InQueue(w) \cup {e.target}
      <3>1. PICK i \in DOMAIN r : x = r[i].target
        BY <2>1 DEF InQueue
      <3>2. QED
        BY <1>2, <3>1 DEF InQueue
    <2>2. ASSUME NEW x \in InQueue(w) PROVE x \in InQueue(r)
      <3>1. PICK i \in DOMAIN w : x = w[i].target
        BY <2>2 DEF InQueue
      <3>2. i \in DOMAIN r /\ r[i] = w[i]
        BY <1>2
      <3>3. QED
        BY <3>1, <3>2 DEF InQueue
    <2>3. e.target \in InQueue(r)
      <3>1. Len(w) + 1 \in DOMAIN r
        BY <1>2
      <3>2. QED
        BY <1>2, <3>1 DEF InQueue
    <2>4. QED
      BY <2>1, <2>2, <2>3
  <1>6. QED
    BY <1>1, <1>2, <1>4, <1>5 DEF r, w

LEMMA Turned ==
  ASSUME NEW q \in Queues
  PROVE  Attend!Reverse(q) \in Queues
  <1>1. \A i \in 1 .. Len(q) : q[(Len(q) - i) + 1] \in Attend!Entries
    BY DEF Queues
  <1>2. QED
    BY <1>1 DEF Attend!Reverse, Queues

(* The initial states. *)
LEMMA AttentionInit == Attend!Init => AttentionInv
  <1> SUFFICES ASSUME Attend!Init PROVE AttentionInv
    OBVIOUS
  <1>1. <<>> \in Queues /\ None \in Attend!Routes
    BY DEF Queues, Attend!Routes
  <1>2. Attend!NoCommand \in CommandStates /\ Attend!NoCommand.pc = "idle"
    BY <1>1 DEF Attend!NoCommand, CommandStates, Resting
  <1>3. AttentionTypes
    <2>1. /\ commands \in [Attend!Commands -> CommandStates]
          /\ \A c \in Attend!Commands : commands[c].pc = "idle"
      BY <1>2 DEF Attend!Init
    <2>2. /\ queued \in Queues
          /\ saved \in Attend!Routes
          /\ registered \in [Receivers -> Attend!Routes]
      BY <1>1 DEF Attend!Init
    <2>3. QED
      BY <2>1, <2>2 DEF AttentionTypes, Attend!Commands, Resting, Going
  <1>4. WriterInv /\ QueueInv /\ Attend!AttentionKept
    BY <1>1, <1>2
       DEF Attend!Init, WriterInv, QueueInv, Attend!AttentionKept, Resting, Going, OnePerTarget,
           Attend!Commands
  <1>5. QED
    BY <1>3, <1>4 DEF AttentionInv

(* What the desktop and the launches do is no matter of the queue.          *)
LEMMA AttentionStays ==
  ASSUME AttentionInv, UNCHANGED <<queued, saved, writer, commands, owed>>,
         registered' \in [Receivers -> Attend!Routes]
  PROVE  AttentionInv'
  BY DEF AttentionInv, AttentionTypes, WriterInv, QueueInv, Attend!AttentionKept

(* A command goes on.                                                       *)
LEMMA Commanded ==
  ASSUME AttentionTypes, NEW c \in Attend!Commands, NEW s \in CommandStates,
         commands' = [commands EXCEPT ![c] = s]
  PROVE  /\ commands' \in [Attend!Commands -> CommandStates] /\ commands'[c] = s
         /\ \A d \in Attend!Commands : d # c => commands'[d] = commands[d]
  BY DEF AttentionTypes

LEMMA CommandTypes ==
  ASSUME AttentionTypes, NEW c \in Attend!Commands
  PROVE  /\ commands[c] \in CommandStates /\ commands[c].pc \in Resting \cup Going \cup {"insert"}
         /\ commands[c].target \in Receivers \cup {None} /\ commands[c].route \in Attend!Routes
         /\ commands[c].rest \in Queues /\ commands[c].pending \in Queues
         /\ commands[c].saved \in Attend!Routes /\ commands[c].origin \in Attend!Routes
  <1>1. commands[c] \in CommandStates
    BY DEF AttentionTypes
  <1>2. QED
    BY <1>1 DEF CommandStates

LEMMA NothingInHand ==
  /\ Attend!NoCommand \in CommandStates
  /\ Attend!NoCommand.pc = "idle"
  <1>1. <<>> \in Queues /\ None \in Attend!Routes
    BY DEF Queues, Attend!Routes
  <1>2. QED
    BY <1>1 DEF Attend!NoCommand, CommandStates, Resting

(* A command ends without a word to the queue.                              *)
LEMMA AttentionEnds ==
  ASSUME AttentionInv, NEW c \in Attend!Commands,
         commands' = [commands EXCEPT ![c] = Attend!NoCommand],
         writer' = writer \/ (writer = c /\ writer' = None),
         UNCHANGED <<registered, queued, saved, owed>>
  PROVE  AttentionInv'
  <1>1. AttentionTypes /\ WriterInv /\ QueueInv /\ Attend!AttentionKept
    BY DEF AttentionInv
  <1>2. /\ commands' \in [Attend!Commands -> CommandStates] /\ commands'[c].pc = "idle"
        /\ \A d \in Attend!Commands : d # c => commands'[d] = commands[d]
    BY <1>1, NothingInHand, Commanded
  <1>3. /\ "enqueue" \in Attend!Commands /\ "focus" \in Attend!Commands
        /\ "return" \in Attend!Commands
    BY DEF Attend!Commands
  <1>4. AttentionTypes'
    BY <1>1, <1>2, <1>3 DEF AttentionTypes, Resting
  <1>5. WriterInv'
    BY <1>1, <1>2 DEF WriterInv, Resting
  <1>6. QueueInv'
    BY <1>1, <1>2, <1>3 DEF QueueInv, Going
  <1>7. Attend!AttentionKept'
    BY <1>1 DEF Attend!AttentionKept
  <1>8. QED
    BY <1>4, <1>5, <1>6, <1>7 DEF AttentionInv

(* A visit or a return goes on with the lock: its queue keeps what is owed. *)
LEMMA AttentionGoes ==
  ASSUME AttentionInv, NEW c \in {"focus", "return"}, NEW s \in CommandStates,
         commands' = [commands EXCEPT ![c] = s],
         s.pc \in Going, c = "focus" /\ s.pc \in {"validate", "raise"} => s.rest # <<>>,
         writer' = c,
         c = "focus" => OnePerTarget(s.pending) /\ owed' \subseteq InQueue(s.pending),
         owed' \subseteq owed, \A d \in Attend!Commands : d # c => commands[d].pc \in Resting,
         UNCHANGED <<registered, queued, saved>>
  PROVE  AttentionInv'
  <1>1. AttentionTypes /\ WriterInv /\ QueueInv /\ Attend!AttentionKept
    BY DEF AttentionInv
  <1>2. /\ "enqueue" \in Attend!Commands /\ "focus" \in Attend!Commands
        /\ "return" \in Attend!Commands /\ c \in Attend!Commands
    BY DEF Attend!Commands
  <1>3. /\ commands' \in [Attend!Commands -> CommandStates] /\ commands'[c] = s
        /\ \A d \in Attend!Commands : d # c => commands'[d] = commands[d]
    BY <1>1, <1>2, Commanded
  <1>4. AttentionTypes'
    BY <1>1, <1>2, <1>3 DEF AttentionTypes
  <1>5. WriterInv'
    BY <1>3 DEF WriterInv, Resting
  <1>6. QueueInv'
    <2>1. CASE c = "focus"
      BY <1>1, <1>3, <2>1 DEF QueueInv
    <2>2. CASE c = "return"
      <3>1. commands'["focus"].pc \notin Going
        BY <1>2, <1>3, <2>2 DEF Resting, Going
      <3>2. QED
        BY <1>1, <3>1 DEF QueueInv
    <2>3. QED
      BY <2>1, <2>2
  <1>7. Attend!AttentionKept'
    BY <1>1 DEF Attend!AttentionKept
  <1>8. QED
    BY <1>4, <1>5, <1>6, <1>7 DEF AttentionInv

(* Whoever works on the queue works alone.                                  *)
LEMMA OneWriter ==
  ASSUME AttentionInv, NEW c \in Attend!Commands
  PROVE  /\ commands[c].pc \notin Resting =>
              writer = c /\ \A d \in Attend!Commands : d # c => commands[d].pc \in Resting
         /\ writer = None => \A d \in Attend!Commands : commands[d].pc \in Resting
  BY NoneIsNoWord DEF AttentionInv, WriterInv, Attend!Commands

(* A visit leaves an entry behind, and forgets it or not.                   *)
LEMMA Skipped ==
  ASSUME AttentionInv, NEW forget \in BOOLEAN, Attend!Skip(forget),
         commands["focus"].pc \in Going, commands["focus"].rest # <<>>,
         owed' = IF forget THEN owed \ {Attend!Entry.target} ELSE owed,
         UNCHANGED <<registered, queued, saved, writer>>
  PROVE  AttentionInv'
  <1> DEFINE f == commands["focus"]
             p == IF forget THEN Attend!Without(f.pending, Attend!Entry.target) ELSE f.pending
             s == [f EXCEPT !.pc = "visit", !.rest = Tail(f.rest), !.pending = p]
  <1>1. AttentionTypes /\ QueueInv /\ "focus" \in Attend!Commands
    BY DEF AttentionInv, Attend!Commands
  <1>2. /\ f \in CommandStates /\ f.rest \in Queues /\ f.pending \in Queues
        /\ OnePerTarget(f.pending) /\ owed \subseteq InQueue(f.pending)
    BY <1>1, CommandTypes DEF QueueInv
  <1>3. Tail(f.rest) \in Queues
    BY <1>2 DEF Queues
  <1>4. p \in Queues /\ OnePerTarget(p) /\ owed' \subseteq InQueue(p) /\ owed' \subseteq owed
    BY <1>2, Forgotten
  <1>5. commands' = [commands EXCEPT !["focus"] = s]
    BY <1>1 DEF Attend!Skip, AttentionTypes
  <1> HIDE DEF p
  <1>6. s \in CommandStates /\ s.pc = "visit" /\ s.pending = p
    BY <1>2, <1>3, <1>4 DEF CommandStates, Going
  <1> HIDE DEF s
  <1>7. writer = "focus" /\ \A d \in Attend!Commands : d # "focus" => commands[d].pc \in Resting
    BY <1>1, OneWriter DEF Going, Resting
  <1>8. QED
    BY <1>4, <1>5, <1>6, <1>7, AttentionGoes DEF Going

LEMMA AttentionStep == AttentionInv /\ Attend!Next => AttentionInv'
  <1> SUFFICES ASSUME AttentionInv, Attend!Next PROVE AttentionInv'
    OBVIOUS
  <1>0. /\ AttentionTypes /\ WriterInv /\ QueueInv /\ Attend!AttentionKept
        /\ "enqueue" \in Attend!Commands /\ "focus" \in Attend!Commands
        /\ "return" \in Attend!Commands
    BY DEF AttentionInv, Attend!Commands
  <1>1. ASSUME NEW t \in Receivers, NEW r \in Attend!Routes, Attend!Register(t, r)
        PROVE  AttentionInv'
    <2>1. registered' \in [Receivers -> Attend!Routes]
      BY <1>0, <1>1 DEF Attend!Register, AttentionTypes
    <2>2. QED
      BY <1>1, <2>1, AttentionStays DEF Attend!Register, Attend!queue
  <1>2. ASSUME UNCHANGED <<registered, queued, saved, writer, commands, owed>>
        PROVE  AttentionInv'
    BY <1>0, <1>2, AttentionStays DEF AttentionTypes
  <1>3. ASSUME NEW t \in Receivers, NEW answers \in BOOLEAN, Attend!Deliver(t, answers)
        PROVE  AttentionInv'
    <2> DEFINE s == [Attend!NoCommand EXCEPT !.pc = "lock", !.target = t]
    <2>1. s \in CommandStates /\ s.pc = "lock" /\ s.target = t
      BY NothingInHand DEF CommandStates, Resting
    <2>2. commands' = [commands EXCEPT !["enqueue"] = s]
      BY <1>3 DEF Attend!Deliver
    <2> HIDE DEF s
    <2>3. /\ commands' \in [Attend!Commands -> CommandStates] /\ commands'["enqueue"] = s
          /\ \A d \in Attend!Commands : d # "enqueue" => commands'[d] = commands[d]
      BY <1>0, <2>1, <2>2, Commanded
    <2>4. UNCHANGED <<registered, queued, saved, writer, owed>>
      BY <1>3 DEF Attend!Deliver
    <2>5. AttentionTypes'
      BY <1>0, <2>1, <2>3, <2>4 DEF AttentionTypes, Resting
    <2>6. WriterInv'
      BY <1>0, <2>1, <2>3, <2>4 DEF WriterInv, Resting
    <2>7. QueueInv' /\ Attend!AttentionKept'
      BY <1>0, <2>3, <2>4 DEF QueueInv, Attend!AttentionKept
    <2>8. QED
      BY <2>5, <2>6, <2>7 DEF AttentionInv
  <1>4. ASSUME Attend!Enqueue
        PROVE  AttentionInv'
    <2> DEFINE t == commands["enqueue"].target
               s == [commands["enqueue"] EXCEPT !.pc = "insert", !.route = registered[t]]
    <2>1. commands["enqueue"].pc = "lock" /\ writer = None /\ writer' = "enqueue"
      BY <1>4 DEF Attend!Enqueue, Attend!Doing, Attend!Acquire
    <2>2. t \in Receivers /\ registered[t] \in Attend!Routes
      BY <1>0, <2>1 DEF AttentionTypes
    <2>3. s \in CommandStates /\ s.pc = "insert" /\ s.target = t
      BY <1>0, <2>2, CommandTypes DEF CommandStates
    <2>4. commands' = [commands EXCEPT !["enqueue"] = s]
      BY <1>0, <1>4 DEF Attend!Enqueue, AttentionTypes
    <2> HIDE DEF s
    <2>5. /\ commands' \in [Attend!Commands -> CommandStates] /\ commands'["enqueue"] = s
          /\ \A d \in Attend!Commands : d # "enqueue" => commands'[d] = commands[d]
      BY <1>0, <2>3, <2>4, Commanded
    <2>6. UNCHANGED <<registered, queued, saved, owed>>
      BY <1>4 DEF Attend!Enqueue
    <2>7. AttentionTypes'
      BY <1>0, <2>2, <2>3, <2>5, <2>6 DEF AttentionTypes
    <2>8. \A d \in Attend!Commands : commands[d].pc \in Resting
      BY <1>0, <2>1, OneWriter
    <2>9. WriterInv'
      BY <2>1, <2>5, <2>8 DEF WriterInv
    <2>10. QueueInv' /\ Attend!AttentionKept'
      BY <1>0, <2>5, <2>6 DEF QueueInv, Attend!AttentionKept
    <2>11. QED
      BY <2>7, <2>9, <2>10 DEF AttentionInv
  <1>5. ASSUME Attend!Insert
        PROVE  AttentionInv'
    <2> DEFINE t == commands["enqueue"].target
               e == [target |-> t, place |-> commands["enqueue"].route]
    <2>1. /\ commands["enqueue"].pc = "insert"
          /\ commands' = [commands EXCEPT !["enqueue"] = Attend!NoCommand]
          /\ writer' = None /\ UNCHANGED <<registered, saved>>
      BY <1>5 DEF Attend!Insert, Attend!Doing, Attend!Finish
    <2>2. /\ writer = "enqueue"
          /\ \A d \in Attend!Commands : d # "enqueue" => commands[d].pc \in Resting
      BY <1>0, <2>1, OneWriter DEF Resting
    <2>3. CASE commands["enqueue"].route = None
      <3>1. UNCHANGED <<queued, owed>>
        BY <1>5, <2>3 DEF Attend!Insert
      <3>2. QED
        BY <1>0, <2>1, <2>2, <3>1, AttentionEnds
    <2>4. CASE commands["enqueue"].route # None
      <3>1. t \in Receivers /\ e \in Attend!Entries
        BY <1>0, <2>1, <2>4, CommandTypes DEF AttentionTypes, Attend!Entries, Attend!Routes
      <3>2. queued' = Append(Attend!Without(queued, e.target), e) /\ owed' = owed \cup {e.target}
        BY <1>5, <2>4 DEF Attend!Insert
      <3>3. queued \in Queues /\ OnePerTarget(queued) /\ owed \subseteq InQueue(queued)
        BY <1>0 DEF AttentionTypes, QueueInv, Attend!AttentionKept, InQueue
      <3> HIDE DEF e
      <3>4. queued' \in Queues /\ OnePerTarget(queued') /\ owed' \subseteq InQueue(queued')
        BY <3>1, <3>2, <3>3, Queued
      <3>5. /\ commands' \in [Attend!Commands -> CommandStates] /\ commands'["enqueue"].pc = "idle"
            /\ \A d \in Attend!Commands : d # "enqueue" => commands'[d] = commands[d]
        BY <1>0, <2>1, NothingInHand, Commanded
      <3>6. \A d \in Attend!Commands : commands'[d].pc \in Resting
        BY <2>2, <3>5 DEF Resting
      <3>7. AttentionTypes'
        BY <1>0, <2>1, <3>4, <3>5 DEF AttentionTypes, Resting
      <3>8. WriterInv'
        BY <3>6 DEF WriterInv
      <3>9. QueueInv' /\ Attend!AttentionKept'
        BY <1>0, <3>4, <3>6 DEF QueueInv, Attend!AttentionKept, Resting, Going, InQueue
      <3>10. QED
        BY <3>7, <3>8, <3>9 DEF AttentionInv
    <2>5. QED
      BY <2>3, <2>4
  <1>6. ASSUME Attend!Visit
        PROVE  AttentionInv'
    <2> DEFINE s == [Attend!NoCommand EXCEPT !.pc = "visit", !.rest = Attend!Reverse(queued),
                                             !.pending = queued, !.saved = saved]
    <2>1. /\ writer = None /\ writer' = "focus" /\ commands' = [commands EXCEPT !["focus"] = s]
          /\ UNCHANGED <<registered, queued, saved, owed>>
      BY <1>6 DEF Attend!Visit, Attend!Acquire
    <2>2. queued \in Queues /\ saved \in Attend!Routes /\ Attend!Reverse(queued) \in Queues
      BY <1>0, Turned DEF AttentionTypes
    <2>3. s \in CommandStates /\ s.pc = "visit" /\ s.pending = queued
      BY <2>2, NothingInHand DEF CommandStates, Going
    <2> HIDE DEF s
    <2>4. OnePerTarget(queued) /\ owed \subseteq InQueue(queued)
      BY <1>0 DEF QueueInv, Attend!AttentionKept, InQueue
    <2>5. \A d \in Attend!Commands : commands[d].pc \in Resting
      BY <1>0, <2>1, OneWriter
    <2>6. QED
      BY <2>1, <2>3, <2>4, <2>5, AttentionGoes DEF Going
  <1>7. ASSUME Attend!Discard
        PROVE  AttentionInv'
    <2>1. /\ commands["focus"].pc \in Going /\ commands["focus"].rest # <<>> /\ Attend!Skip(TRUE)
          /\ owed' = owed \ {Attend!Entry.target} /\ UNCHANGED <<registered, queued, saved,
                                                                 writer>>
      BY <1>7 DEF Attend!Discard, Attend!Doing, Going
    <2>2. QED
      BY <2>1, Skipped
  <1>8. ASSUME NEW origin \in Attend!Routes, Attend!Match(origin)
        PROVE  AttentionInv'
    <2> DEFINE f == commands["focus"]
               s == [f EXCEPT !.pc = "validate", !.route = Attend!Entry.place, !.origin = origin]
    <2>1. /\ f.pc = "visit"
          /\ f.rest # <<>>
          /\ UNCHANGED <<registered, queued, saved, writer, owed>>
      BY <1>8 DEF Attend!Match, Attend!Doing
    <2>2. /\ f \in CommandStates /\ f.rest \in Queues
          /\ OnePerTarget(f.pending) /\ owed \subseteq InQueue(f.pending)
      BY <1>0, <2>1, CommandTypes DEF QueueInv, Going
    <2>3. Attend!Entry \in Attend!Entries
      BY <2>1, <2>2 DEF Attend!Entry, Queues
    <2>4. Attend!Entry.place \in Attend!Routes
      BY <2>3 DEF Attend!Entries, Attend!Routes
    <2>5. commands' = [commands EXCEPT !["focus"] = s]
      BY <1>0, <1>8 DEF Attend!Match, AttentionTypes
    <2>6. s \in CommandStates /\ s.pc = "validate" /\ s.pending = f.pending /\ s.rest = f.rest
      BY <2>2, <2>4 DEF CommandStates, Going
    <2> HIDE DEF s
    <2>7. writer = "focus" /\ \A d \in Attend!Commands : d # "focus" => commands[d].pc \in Resting
      BY <1>0, <2>1, OneWriter DEF Resting
    <2>8. QED
      BY <2>1, <2>2, <2>5, <2>6, <2>7, AttentionGoes DEF Going
  <1>9. ASSUME Attend!Return
        PROVE  AttentionInv'
    <2> DEFINE s == [Attend!NoCommand EXCEPT !.pc = "validate", !.route = saved]
    <2>1. /\ writer = None /\ writer' = "return" /\ commands' = [commands EXCEPT !["return"] = s]
          /\ UNCHANGED <<registered, queued, saved, owed>>
      BY <1>9 DEF Attend!Return, Attend!Acquire
    <2>2. saved \in Attend!Routes
      BY <1>0 DEF AttentionTypes
    <2>3. s \in CommandStates /\ s.pc = "validate"
      BY <2>2, NothingInHand DEF CommandStates, Going
    <2> HIDE DEF s
    <2>4. \A d \in Attend!Commands : commands[d].pc \in Resting
      BY <1>0, <2>1, OneWriter
    <2>5. QED
      BY <2>1, <2>3, <2>4, AttentionGoes DEF Going
  <1>10. ASSUME NEW c \in {"focus", "return"}, Attend!Stale(c)
         PROVE  AttentionInv'
    <2>1. commands[c].pc = "validate" /\ UNCHANGED <<registered, queued, saved, writer>>
      BY <1>10 DEF Attend!Stale, Attend!Doing
    <2>2. CASE c = "focus"
      <3>1. Attend!Skip(TRUE) /\ owed' = owed \ {Attend!Entry.target}
        BY <1>10, <2>2 DEF Attend!Stale
      <3>2. commands["focus"].rest # <<>> /\ commands["focus"].pc \in Going
        BY <1>0, <2>1, <2>2 DEF AttentionTypes, Going
      <3>3. QED
        BY <2>1, <3>1, <3>2, Skipped
    <2>3. CASE c = "return"
      <3> DEFINE s == [commands["return"] EXCEPT !.pc = "commit", !.saved = None]
      <3>1. commands' = [commands EXCEPT !["return"] = s] /\ owed' = owed
        BY <1>0, <1>10, <2>3 DEF Attend!Stale, AttentionTypes
      <3>2. s \in CommandStates /\ s.pc = "commit"
        BY <1>0, CommandTypes DEF CommandStates, Going, Attend!Routes
      <3> HIDE DEF s
      <3>3. /\ writer = "return"
            /\ \A d \in Attend!Commands : d # "return" => commands[d].pc \in Resting
        BY <1>0, <2>1, <2>3, OneWriter DEF Resting
      <3>4. QED
        BY <2>1, <3>1, <3>2, <3>3, AttentionGoes DEF Going
    <2>4. QED
      BY <2>2, <2>3
  <1>11. ASSUME NEW c \in {"focus", "return"}, Attend!Retry(c)
         PROVE  AttentionInv'
    <2>1. commands[c].pc \in {"validate", "raise"} /\ UNCHANGED <<registered, queued, saved, owed>>
      BY <1>11 DEF Attend!Retry, Attend!Doing
    <2>2. CASE c = "focus"
      <3>1. Attend!Skip(FALSE) /\ writer' = writer
        BY <1>11, <2>2 DEF Attend!Retry
      <3>2. commands["focus"].rest # <<>> /\ commands["focus"].pc \in Going
        BY <1>0, <2>1, <2>2 DEF AttentionTypes, Going
      <3>3. QED
        BY <2>1, <3>1, <3>2, Skipped
    <2>3. CASE c = "return"
      <3>1. commands' = [commands EXCEPT !["return"] = Attend!NoCommand] /\ writer' = None
        BY <1>11, <2>3 DEF Attend!Retry, Attend!Finish
      <3>2. writer = "return"
        BY <1>0, <2>1, <2>3, OneWriter DEF Resting
      <3>3. QED
        BY <1>0, <2>1, <3>1, <3>2, AttentionEnds
    <2>4. QED
      BY <2>2, <2>3
  <1>12. ASSUME NEW c \in {"focus", "return"}, Attend!Select(c)
         PROVE  AttentionInv'
    <2> DEFINE f == commands[c]
               s == [f EXCEPT !.pc = "raise"]
    <2>1. f.pc = "validate" /\ UNCHANGED <<registered, queued, saved, writer, owed>>
      BY <1>12 DEF Attend!Select, Attend!Doing
    <2>2. c \in Attend!Commands
      BY <1>0
    <2>3. commands' = [commands EXCEPT ![c] = s]
      BY <1>12, <1>0, <2>2 DEF Attend!Select, AttentionTypes
    <2>4. s \in CommandStates /\ s.pc = "raise" /\ s.rest = f.rest /\ s.pending = f.pending
      BY <1>0, <2>2, CommandTypes DEF CommandStates, Going
    <2> HIDE DEF s
    <2>5. c = "focus" => /\ f.rest # <<>> /\ OnePerTarget(f.pending)
                         /\ owed \subseteq InQueue(f.pending)
      BY <1>0, <2>1 DEF AttentionTypes, QueueInv, Going
    <2>6. writer = c /\ \A d \in Attend!Commands : d # c => commands[d].pc \in Resting
      BY <1>0, <2>1, <2>2, OneWriter DEF Resting
    <2>7. QED
      BY <2>1, <2>3, <2>4, <2>5, <2>6, AttentionGoes DEF Going
  <1>13. ASSUME NEW c \in {"focus", "return"}, Attend!Raise(c)
         PROVE  AttentionInv'
    <2> DEFINE f == commands[c]
    <2>1. /\ f.pc = "raise"
          /\ UNCHANGED <<registered, queued, saved, writer>>
          /\ c \in Attend!Commands
      BY <1>0, <1>13 DEF Attend!Raise, Attend!Doing
    <2>2. writer = c /\ \A d \in Attend!Commands : d # c => commands[d].pc \in Resting
      BY <1>0, <2>1, OneWriter DEF Resting
    <2>3. CASE c = "focus"
      <3> DEFINE p == Attend!Without(f.pending, Attend!Entry.target)
                 s == [f EXCEPT !.pc = "commit", !.saved = f.origin, !.pending = p]
      <3>1. /\ f \in CommandStates /\ f.pending \in Queues /\ f.origin \in Attend!Routes
            /\ OnePerTarget(f.pending) /\ owed \subseteq InQueue(f.pending)
        BY <1>0, <2>1, <2>3, CommandTypes DEF QueueInv, Going
      <3>2. /\ commands' = [commands EXCEPT ![c] = s]
            /\ owed' = owed \ {Attend!Entry.target}
        BY <1>0, <1>13, <2>3 DEF Attend!Raise, AttentionTypes
      <3>3. /\ p \in Queues /\ OnePerTarget(p) /\ owed' \subseteq InQueue(p)
            /\ owed' \subseteq owed
        BY <3>1, <3>2, Forgotten
      <3> HIDE DEF p
      <3>4. s \in CommandStates /\ s.pc = "commit" /\ s.pending = p
        BY <3>1, <3>3 DEF CommandStates, Going
      <3> HIDE DEF s
      <3>5. QED
        BY <2>1, <2>2, <3>2, <3>3, <3>4, AttentionGoes DEF Going
    <2>4. CASE c = "return"
      <3> DEFINE s == [f EXCEPT !.pc = "commit", !.saved = None]
      <3>1. commands' = [commands EXCEPT ![c] = s] /\ owed' = owed
        BY <1>0, <1>13, <2>4 DEF Attend!Raise, AttentionTypes
      <3>2. s \in CommandStates /\ s.pc = "commit"
        BY <1>0, <2>1, CommandTypes DEF CommandStates, Going, Attend!Routes
      <3> HIDE DEF s
      <3>3. QED
        BY <2>1, <2>2, <2>4, <3>1, <3>2, AttentionGoes DEF Going
    <2>5. QED
      BY <2>3, <2>4
  <1>14. ASSUME NEW c \in {"focus", "return"}, Attend!Commit(c)
         PROVE  AttentionInv'
    <2>1. /\ commands[c].pc \in {"commit", "visit"} /\ c \in Attend!Commands
          /\ commands' = [commands EXCEPT ![c] = Attend!NoCommand] /\ writer' = None
          /\ UNCHANGED <<registered, owed>> /\ saved' = commands[c].saved
      BY <1>0, <1>14 DEF Attend!Commit, Attend!Doing, Attend!Finish
    <2>2. writer = c /\ \A d \in Attend!Commands : d # c => commands[d].pc \in Resting
      BY <1>0, <2>1, OneWriter DEF Resting
    <2>3. queued' = IF c = "focus" THEN commands[c].pending ELSE queued
      BY <1>14 DEF Attend!Commit
    <2>4. queued' \in Queues /\ OnePerTarget(queued') /\ owed' \subseteq InQueue(queued')
      <3>1. CASE c = "focus"
        BY <1>0, <2>1, <2>3, <3>1, CommandTypes DEF QueueInv, Going
      <3>2. CASE c = "return"
        BY <1>0, <2>1, <2>3, <3>2 DEF AttentionTypes, QueueInv, Attend!AttentionKept, InQueue
      <3>3. QED
        BY <3>1, <3>2
    <2>5. /\ commands' \in [Attend!Commands -> CommandStates] /\ commands'[c].pc = "idle"
          /\ \A d \in Attend!Commands : d # c => commands'[d] = commands[d]
      BY <1>0, <2>1, NothingInHand, Commanded
    <2>6. \A d \in Attend!Commands : commands'[d].pc \in Resting
      BY <2>2, <2>5 DEF Resting
    <2>7. saved' \in Attend!Routes
      BY <1>0, <2>1, CommandTypes
    <2>8. AttentionTypes'
      BY <1>0, <2>1, <2>4, <2>5, <2>7 DEF AttentionTypes, Resting
    <2>9. WriterInv'
      BY <2>6 DEF WriterInv
    <2>10. QueueInv' /\ Attend!AttentionKept'
      BY <1>0, <2>4, <2>6 DEF QueueInv, Attend!AttentionKept, Resting, Going, InQueue
    <2>11. QED
      BY <2>8, <2>9, <2>10 DEF AttentionInv
  <1>15. ASSUME NEW c \in Attend!Commands, Attend!Abort(c)
         PROVE  AttentionInv'
    <2>1. /\ commands' = [commands EXCEPT ![c] = Attend!NoCommand]
          /\ UNCHANGED <<registered, queued, saved, owed>>
          /\ writer' = writer \/ (writer = c /\ writer' = None)
      BY <1>15 DEF Attend!Abort
    <2>2. QED
      BY <2>1, AttentionEnds
  <1>16. CASE \E t \in Receivers, r \in Attend!Routes : Attend!Register(t, r)
    BY <1>1, <1>16
  <1>17. CASE \/ \E w \in Windows, p \in Panes : Attend!Work(w, p)
              \/ \E spot \in Attend!Places : Attend!ClosePane(spot)
              \/ \E w \in Windows : \/ Attend!CloseWindow(w)
                                    \/ \E n \in 0 .. 2 : Attend!Attach(w, n)
    BY <1>2, <1>17
       DEF Attend!Work, Attend!ClosePane, Attend!CloseWindow, Attend!Attach, Attend!queue
  <1>18. CASE \E c \in {"focus", "return"} : Attend!Navigating(c)
    BY <1>10, <1>11, <1>12, <1>13, <1>14, <1>18 DEF Attend!Navigating
  <1>19. QED
    BY <1>3, <1>4, <1>5, <1>6, <1>7, <1>8, <1>9, <1>15, <1>16, <1>17, <1>18 DEF Attend!Next

(* A notification that was queued waits until its place has been visited or *)
(* its route was found stale, whatever commands wait for the lock, are      *)
(* killed or fail to navigate.                                              *)
THEOREM AttentionWaits == WorkspaceSpec => []AttentionKept
  <1>1. WorkspaceInit => AttentionInv
    BY AttentionInit DEF WorkspaceInit
  <1>2. AttentionInv /\ [WorkspaceNext]_all => AttentionInv'
    <2> SUFFICES ASSUME AttentionInv, [WorkspaceNext]_all PROVE AttentionInv'
      OBVIOUS
    <2>1. CASE pick = "attention" /\ Attend!Next
      BY <2>1, AttentionStep
    <2>2. CASE UNCHANGED attention
      BY <2>2, AttentionStays DEF attention, AttentionInv, AttentionTypes
    <2>3. QED
      BY <2>1, <2>2 DEF WorkspaceNext, all
  <1>3. AttentionInv => AttentionKept
    BY DEF AttentionInv, AttentionKept
  <1>4. QED
    BY <1>1, <1>2, <1>3, PTL DEF WorkspaceSpec

-----------------------------------------------------------------------------
(* WorkspaceAdmission. *)

Seals == Nat \X Nat

Bindings ==
    [slot : Slots \cup {Association}, member : Members \cup Checkouts, primary : Checkouts,
     evidence : Seals]

Participants == [key : Checkouts, evidence : Seals]

Receipts == [destination : Checkouts, evidence : Seals]

Observations ==
    [member : Members \cup {None}, checkout : Checkouts, primary : Checkouts,
     evidence : Seals, base : Seals]

Attested ==
    [member : Members, checkout : Checkouts, primary : Checkouts, evidence : Seals, base : Seals]

Admitting == [selection : Slots, scope : Attested, retain : Checkouts \cup {None}]

Paired == [checkout : Checkouts, primary : Checkouts, evidence : Seals, base : Seals]

Scoped ==
    [caller : Checkouts, kind : {"associated", "integrated", "standalone"}, key : Checkouts,
     scope : Observations, selection : Slots \cup {None}, database : BOOLEAN]

CallerPoints == {"idle", "admit", "associate", "inspected", "rechecked", "authorized"}

CallerStates ==
    [pc : CallerPoints, context : Scoped \cup {None}, seen : Admitting \cup Paired \cup {None}]

Inspecting == {"inspected", "rechecked", "authorized"}

AdmissionTypes ==
    /\ attest \in [Checkouts -> [member : Members, primary : Checkouts]]
    /\ age \in [Checkouts -> Nat] /\ repository \in Nat
    /\ initialized \in BOOLEAN /\ acknowledged \in BOOLEAN
    /\ integration \in Slots \cup {None}
    /\ bound \in [Checkouts -> Bindings \cup {None}]
    /\ participant \in [Checkouts -> Participants \cup {None}]
    /\ former \in [Checkouts -> Receipts \cup {None}]
    /\ worked \in [Checkouts -> SUBSET Checkouts]
    /\ caller \in [Admission!Procs -> CallerStates]

(* What a command holds of what it has seen. *)
Seeing ==
    \A p \in Admission!Procs :
        /\ caller[p].pc = "admit" => caller[p].seen \in Admitting
        /\ caller[p].pc = "associate" => caller[p].seen \in Paired
        /\ caller[p].pc \in Inspecting =>
             /\ caller[p].context \in Scoped
             /\ caller[p].context.kind = "standalone" =>
                  caller[p].context.key = caller[p].context.caller
             /\ caller[p].context.kind = "integrated" =>
                  caller[p].context.scope.checkout = caller[p].context.caller

(* k is the namespace of c, or the one that c has left a receipt for. *)
Homely(c, k) ==
    \/ k = IF participant[c] # None THEN participant[c].key ELSE c
    \/ k = c /\ former[c] # None

(* Commands work in registered namespaces, and are authorized in them. *)
Entered ==
    /\ \A c \in Checkouts : worked[c] \subseteq namespaces
    /\ \A p \in Admission!Procs : caller[p].pc = "authorized" =>
        /\ caller[p].context.key \in namespaces
        /\ \/ caller[p].context.caller \in apart
           \/ Homely(caller[p].context.caller, caller[p].context.key)

AdmissionInv ==
    AdmissionTypes /\ Seeing /\ Admission!StoreReadable /\ Entered /\ Admission!HomeKept

(* What stands for none is no record of the store. *)
LEMMA NoReservation == None \notin Bindings /\ None \notin Participants /\ None \notin Receipts
  BY NoneIsNoReservation DEF Bindings, Participants, Receipts, Seals

(* The initial states. *)
LEMMA AdmissionInit == Admission!Init => AdmissionInv
  <1> SUFFICES ASSUME Admission!Init PROVE AdmissionInv
    OBVIOUS
  <1>1. AdmissionTypes
    BY MembersExist DEF Admission!Init, AdmissionTypes, CallerStates, CallerPoints,
       Admission!NoProc
  <1>2. Seeing /\ Entered
    BY DEF Admission!Init, Seeing, Entered, Admission!NoProc, Inspecting
  <1>3. Admission!StoreReadable
    BY DEF Admission!Init, Admission!StoreReadable
  <1>4. Admission!HomeKept
    BY DEF Admission!Init, Admission!HomeKept
  <1>5. QED
    BY <1>1, <1>2, <1>3, <1>4 DEF AdmissionInv

(* What the resolver's answer is. *)
LEMMA ResolutionTyped ==
    ASSUME AdmissionTypes, NEW c \in Checkouts
    PROVE  /\ Admission!Resolution(c) \in Attested
           /\ Admission!Resolution(c) \in Observations
           /\ Admission!Resolution(c).checkout = c
           /\ Admission!Evidence(c) \in Seals
  <1>1. \A d \in Checkouts : Admission!Evidence(d) \in Seals
    BY DEF AdmissionTypes, Admission!Evidence, Seals
  <1>2. QED
    BY <1>1 DEF AdmissionTypes, Admission!Resolution, Observations, Attested

(* What an inspection finds. *)
LEMMA ContextTyped ==
    ASSUME AdmissionTypes, NEW c \in Checkouts, NEW x \in Admission!Contexts(c)
    PROVE  /\ x \in Scoped
           /\ x.kind = "standalone" => x.key = x.caller
           /\ x.kind = "integrated" => x.scope.checkout = x.caller
  <1>1. \A d \in Checkouts : Admission!Evidence(d) \in Seals
    BY ResolutionTyped
  <1>2. Admission!Resolution(c) \in Observations /\ Admission!Resolution(c).checkout = c
    BY ResolutionTyped
  <1>3. ASSUME NEW k \in Checkouts
        PROVE  [member |-> None, checkout |-> c, primary |-> k,
                evidence |-> Admission!Evidence(c), base |-> Admission!Evidence(k)]
                  \in Observations
    BY <1>1 DEF Observations
  <1>4. Admission!Associated(c) => participant[c].key \in Checkouts
    BY DEF AdmissionTypes, Admission!Associated, Participants
  <1>5. Admission!Database \in BOOLEAN
    BY DEF AdmissionTypes, Admission!Database
  <1>6. ASSUME NEW kind \in {"associated", "integrated", "standalone"}, NEW k \in Checkouts,
               NEW r \in Observations
        PROVE  [caller |-> c, kind |-> kind, key |-> k, scope |-> r,
                selection |-> integration, database |-> Admission!Database] \in Scoped
    BY <1>5 DEF AdmissionTypes, Scoped
  <1>7. QED
    BY <1>2, <1>3, <1>4, <1>6 DEF Admission!Contexts


(* An admission. *)
LEMMA AdmitKeeps ==
    ASSUME AdmissionInv, NEW p \in Administrators, Admission!AdmitCommit(p)
    PROVE  AdmissionInv'
  <1> USE NoneIsNobody, NoReservation, AssociationIsHosts
  <1> DEFINE slot == caller[p].seen.selection
             r == caller[p].seen.scope
             roots == {r.checkout, r.primary}
             row(c, k) == [key |-> k, evidence |-> Admission!Evidence(c)]
  <1>1. p \in Admission!Procs /\ caller[p].pc = "admit" /\ caller[p].seen \in Admitting
    BY DEF AdmissionInv, Seeing, Admission!AdmitCommit, Admission!At, Admission!Procs
  <1>2. slot \in Slots /\ r \in Attested
    BY <1>1 DEF Admitting
  <1>3. /\ r.checkout \in Checkouts /\ r.primary \in Checkouts /\ r.member \in Members
        /\ r.evidence \in Seals /\ r.base \in Seals
    BY <1>2 DEF Attested
  <1>4. PICK k \in Checkouts :
          /\ Admission!AdmittedKey(slot, r, caller[p].seen.retain, k)
          /\ bound[k] # None => bound[k].slot = slot /\ bound[k].member = r.member
          /\ \A c \in roots : participant[c] # None => participant[c].key = k
          /\ Admission!CandidatesEmpty(k, roots)
          /\ namespaces' = namespaces \cup {k}
          /\ bound' = [bound EXCEPT ![k] =
               [slot |-> slot, member |-> r.member, primary |-> r.primary,
                evidence |-> r.base]]
          /\ participant' = [c \in Checkouts |->
               IF c \in roots THEN [key |-> k, evidence |-> Admission!Evidences(r)[c]]
               ELSE participant[c]]
    BY DEF Admission!AdmitCommit
  <1>5. /\ caller' = [caller EXCEPT ![p] = Admission!NoProc] /\ initialized
        /\ r.evidence = Admission!Evidence(r.checkout) /\ r.base = Admission!Evidence(r.primary)
        /\ UNCHANGED <<attest, age, repository, initialized, acknowledged, integration, former,
                       worked, apart>>
    BY DEF Admission!AdmitCommit, Admission!Unchanged, Admission!world, Admission!policy,
       Admission!history
  <1>6. /\ \A c \in roots : participant'[c] = row(c, k)
        /\ \A c \in Checkouts \ roots : participant'[c] = participant[c]
        /\ \A c \in roots : row(c, k) \in Participants
    BY <1>3, <1>4, <1>5 DEF Admission!Evidences, Participants
  <1>7. [slot |-> slot, member |-> r.member, primary |-> r.primary, evidence |-> r.base]
          \in Bindings
    BY <1>2, <1>3 DEF Bindings
  <1>8. /\ bound'[k] = [slot |-> slot, member |-> r.member, primary |-> r.primary,
                        evidence |-> Admission!Evidence(r.primary)]
        /\ bound'[k] \in Bindings /\ bound'[k] # None
        /\ \A j \in Checkouts \ {k} : bound'[j] = bound[j]
    BY <1>4, <1>5, <1>7 DEF AdmissionInv, AdmissionTypes
  <1>9. AdmissionTypes'
    <2>1. participant' \in [Checkouts -> Participants \cup {None}]
      BY ZenonT(30), <1>4, <1>6 DEF AdmissionInv, AdmissionTypes
    <2>2. bound' \in [Checkouts -> Bindings \cup {None}]
      BY <1>4, <1>8 DEF AdmissionInv, AdmissionTypes
    <2>3. caller' \in [Admission!Procs -> CallerStates]
      BY <1>5 DEF AdmissionInv, AdmissionTypes, CallerStates, CallerPoints, Admission!NoProc
    <2>4. QED
      BY <1>5, <2>1, <2>2, <2>3 DEF AdmissionInv, AdmissionTypes
  <1>10. Seeing'
    BY <1>5 DEF AdmissionInv, AdmissionTypes, Seeing, Inspecting, Admission!NoProc
  <1>11. \A c \in Checkouts : participant[c] # None =>
           participant'[c] # None /\ participant'[c].key = participant[c].key
    BY ZenonT(30), <1>4, <1>6
  <1>12. \A j \in Checkouts : former[j] # None =>
           j \notin roots /\ former[j].destination # k /\ former[j].destination \in Checkouts
    <2> SUFFICES ASSUME NEW j \in Checkouts, former[j] # None
                 PROVE  /\ j \notin roots /\ former[j].destination # k
                        /\ former[j].destination \in Checkouts
      OBVIOUS
    <2>1. /\ former[j].destination \in Checkouts /\ former[j].evidence \in Seals
      BY DEF AdmissionInv, AdmissionTypes, Receipts
    <2>2. /\ participant[j] = [key |-> former[j].destination, evidence |-> former[j].evidence]
          /\ bound[former[j].destination].slot = Association
      BY DEF AdmissionInv, Admission!StoreReadable
    <2>3. participant[j] # None /\ participant[j].key = former[j].destination
      <3>1. [key |-> former[j].destination, evidence |-> former[j].evidence] \in Participants
        BY <2>1 DEF Participants
      <3>2. QED
        BY <2>2, <3>1
    <2>4. bound[former[j].destination] # None
      BY <2>3 DEF AdmissionInv, Admission!StoreReadable
    <2>5. former[j].destination # k
      BY <1>2, <1>4, <2>2, <2>4
    <2>6. QED
      BY <1>4, <2>1, <2>3, <2>5
  <1>13. Admission!StoreReadable'
    <2>1. \A j \in Checkouts : bound[j] # None =>
            /\ j \in namespaces
            /\ participant[bound[j].primary] = [key |-> j, evidence |-> bound[j].evidence]
            /\ bound[j].slot = Association => bound[j].member = j /\ bound[j].primary = j
            /\ bound[j].primary \in Checkouts /\ bound[j].evidence \in Seals
      BY DEF AdmissionInv, Admission!StoreReadable, AdmissionTypes, Bindings
    <2>2. ASSUME NEW j \in Checkouts, bound'[j] # None
          PROVE  /\ j \in namespaces'
                 /\ participant'[bound'[j].primary] =
                      [key |-> j, evidence |-> bound'[j].evidence]
                 /\ bound'[j].slot = Association =>
                      bound'[j].member = j /\ bound'[j].primary = j
      <3>1. CASE j = k
        <4>1. /\ bound'[k].primary = r.primary /\ bound'[k].slot = slot
              /\ bound'[k].evidence = Admission!Evidence(r.primary)
          BY <1>8
        <4>2. participant'[r.primary] = row(r.primary, k) /\ k \in namespaces'
          BY <1>4, <1>6
        <4>3. QED
          BY <1>2, <3>1, <4>1, <4>2
      <3>2. CASE j # k
        <4>1. bound'[j] = bound[j] /\ bound[j] # None
          BY <1>8, <2>2, <3>2
        <4>2. participant[bound[j].primary] # None /\ participant[bound[j].primary].key = j
          <5>1. [key |-> j, evidence |-> bound[j].evidence] \in Participants
            BY <2>1, <4>1 DEF Participants
          <5>2. QED
            BY <2>1, <4>1, <5>1
        <4>3. bound[j].primary \notin roots
          BY <1>4, <3>2, <4>2
        <4>4. QED
          BY <1>4, <1>6, <2>1, <4>1, <4>3
      <3>3. QED
        BY <3>1, <3>2
    <2>3. ASSUME NEW c \in Checkouts, participant'[c] # None
          PROVE  bound'[participant'[c].key] # None
      <3>1. CASE c \in roots
        BY <1>6, <1>8, <3>1
      <3>2. CASE c \notin roots
        <4>1. participant'[c] = participant[c] /\ participant[c] \in Participants
          BY <1>6, <2>3, <3>2 DEF AdmissionInv, AdmissionTypes
        <4>2. bound[participant[c].key] # None /\ participant[c].key \in Checkouts
          BY <2>3, <4>1 DEF AdmissionInv, Admission!StoreReadable, Participants
        <4>3. QED
          BY <1>8, <4>1, <4>2
      <3>3. QED
        BY <3>1, <3>2
    <2>4. ASSUME NEW i \in Checkouts, NEW j \in Checkouts, i # j, bound'[i] # None,
                 bound'[j] # None
          PROVE  <<bound'[i].slot, bound'[i].member>> # <<bound'[j].slot, bound'[j].member>>
      <3>1. ASSUME NEW h \in Checkouts, h # k, bound[h] # None
            PROVE  <<bound[h].slot, bound[h].member>> # <<slot, r.member>>
        <4> SUFFICES ASSUME bound[h].slot = slot, bound[h].member = r.member PROVE FALSE
          OBVIOUS
        <4>1. bound[k] # None /\ bound[k].slot = slot /\ bound[k].member = r.member
          BY <1>4, <3>1 DEF Admission!AdmittedKey
        <4>2. QED
          BY <3>1, <4>1 DEF AdmissionInv, Admission!StoreReadable
      <3>2. CASE i # k /\ j # k
        BY <1>8, <2>4, <3>2 DEF AdmissionInv, Admission!StoreReadable
      <3>3. CASE i = k \/ j = k
        BY <1>8, <2>4, <3>1, <3>3
      <3>4. QED
        BY <3>2, <3>3
    <2>5. ASSUME NEW j \in Checkouts, former'[j] # None
          PROVE  /\ former'[j].destination # j
                 /\ participant'[j] =
                      [key |-> former'[j].destination, evidence |-> former'[j].evidence]
                 /\ bound'[former'[j].destination].slot = Association
      <3>1. former'[j] = former[j] /\ former[j] # None
        BY <1>5, <2>5
      <3>2. j \notin roots /\ former[j].destination # k /\ former[j].destination \in Checkouts
        BY <1>12, <3>1
      <3>3. /\ former[j].destination # j
            /\ participant[j] =
                 [key |-> former[j].destination, evidence |-> former[j].evidence]
            /\ bound[former[j].destination].slot = Association
        BY <3>1 DEF AdmissionInv, Admission!StoreReadable
      <3>4. /\ participant'[j] = participant[j]
            /\ bound'[former[j].destination] = bound[former[j].destination]
        BY <1>6, <1>8, <3>2
      <3>5. QED
        BY <3>1, <3>3, <3>4
    <2>6. QED
      BY <1>5, <2>2, <2>3, <2>4, <2>5 DEF Admission!StoreReadable
  <1>14. ASSUME NEW c \in Checkouts, NEW j \in namespaces, Homely(c, j)
         PROVE  Homely(c, j)'
    <2>1. CASE participant[c] # None
      BY <1>5, <1>11, <1>14, <2>1 DEF Homely
    <2>2. CASE c \notin roots
      BY <1>5, <1>6, <1>14, <2>2 DEF Homely
    <2>3. CASE participant[c] = None /\ c \in roots
      <3>1. j = c
        BY <1>14, <2>3 DEF Homely
      <3>2. c = k
        BY <1>4, <1>14, <2>3, <3>1 DEF Admission!CandidatesEmpty, Admission!Claimed
      <3>3. QED
        BY <1>6, <2>3, <3>1, <3>2 DEF Homely, Participants
    <2>4. QED
      BY <2>1, <2>2, <2>3
  <1>15. Entered'
    <2>1. \A c \in Checkouts : worked'[c] \subseteq namespaces'
      BY <1>4, <1>5 DEF AdmissionInv, Entered
    <2>2. ASSUME NEW q \in Admission!Procs, caller'[q].pc = "authorized"
          PROVE  /\ caller'[q].context.key \in namespaces'
                 /\ \/ caller'[q].context.caller \in apart'
                    \/ Homely(caller[q].context.caller, caller[q].context.key)'
      <3>1. caller'[q] = caller[q] /\ caller[q].pc = "authorized"
        BY <1>5, <2>2 DEF AdmissionInv, AdmissionTypes, Admission!NoProc
      <3>2. caller[q].context \in Scoped
        BY <3>1 DEF AdmissionInv, Seeing, Inspecting
      <3>3. caller[q].context.caller \in Checkouts
        BY <3>2 DEF Scoped
      <3>4. /\ caller[q].context.key \in namespaces
            /\ \/ caller[q].context.caller \in apart
               \/ Homely(caller[q].context.caller, caller[q].context.key)
        BY <3>1 DEF AdmissionInv, Entered
      <3>5. QED
        BY SMTT(20), <1>4, <1>5, <1>14, <3>1, <3>3, <3>4
    <2>3. QED
      BY <2>1, <2>2 DEF Entered
  <1>16. Admission!HomeKept'
    BY <1>5, <1>14 DEF AdmissionInv, Entered, Admission!HomeKept, Homely
  <1>17. QED
    BY <1>9, <1>10, <1>13, <1>15, <1>16 DEF AdmissionInv

(* An association. *)
LEMMA AssociateKeeps ==
    ASSUME AdmissionInv, NEW p \in Administrators, Admission!AssociateCommit(p)
    PROVE  AdmissionInv'
  <1> USE NoneIsNobody, NoReservation, AssociationIsHosts
  <1> DEFINE r == caller[p].seen
             k == r.primary
             roots == {r.checkout, k}
             row(c) == [key |-> k, evidence |-> Admission!Evidence(c)]
             host == [slot |-> Association, member |-> k, primary |-> k,
                      evidence |-> Admission!Evidence(k)]
             reserve == [destination |-> k, evidence |-> Admission!Evidence(r.checkout)]
  <1>1. p \in Admission!Procs /\ caller[p].pc = "associate" /\ r \in Paired
    BY DEF AdmissionInv, Seeing, Admission!AssociateCommit, Admission!At, Admission!Procs
  <1>2. r.checkout \in Checkouts /\ k \in Checkouts /\ r.evidence \in Seals /\ r.base \in Seals
    BY <1>1 DEF Paired
  <1>3. r.evidence = Admission!Evidence(r.checkout) /\ r.base = Admission!Evidence(k)
    BY DEF Admission!AssociateCommit, Admission!Unchanged
  <1>4. /\ initialized /\ k \in namespaces
        /\ \A c \in roots : participant[c] \in {None, row(c)}
        /\ bound[k] \in {None, host}
        /\ participant' = [c \in Checkouts |-> IF c \in roots THEN row(c) ELSE participant[c]]
        /\ bound' = [bound EXCEPT ![k] = host]
        /\ former' = [c \in Checkouts |->
             IF c = r.checkout /\ c # k THEN reserve ELSE former[c]]
    BY <1>3 DEF Admission!AssociateCommit, Admission!Evidences
  <1>5. /\ caller' = [caller EXCEPT ![p] = Admission!NoProc]
        /\ UNCHANGED <<attest, age, repository, initialized, acknowledged, integration,
                       namespaces, worked, apart>>
    BY DEF Admission!AssociateCommit, Admission!world, Admission!policy, Admission!history
  <1>6. /\ \A c \in roots : participant'[c] = row(c) /\ row(c) \in Participants
        /\ \A c \in Checkouts \ roots : participant'[c] = participant[c]
    BY <1>2, <1>3, <1>4 DEF Participants
  <1>7. host \in Bindings /\ reserve \in Receipts
    BY <1>2, <1>3 DEF Bindings, Receipts
  <1>8. /\ bound'[k] = host /\ host # None
        /\ \A j \in Checkouts \ {k} : bound'[j] = bound[j]
    BY <1>2, <1>4, <1>7 DEF AdmissionInv, AdmissionTypes
  <1>9. AdmissionTypes'
    <2>1. participant' \in [Checkouts -> Participants \cup {None}]
      BY <1>4, <1>6 DEF AdmissionInv, AdmissionTypes
    <2>2. bound' \in [Checkouts -> Bindings \cup {None}]
      BY <1>4, <1>7 DEF AdmissionInv, AdmissionTypes
    <2>3. former' \in [Checkouts -> Receipts \cup {None}]
      BY <1>4, <1>7 DEF AdmissionInv, AdmissionTypes
    <2>4. caller' \in [Admission!Procs -> CallerStates]
      BY <1>5 DEF AdmissionInv, AdmissionTypes, CallerStates, CallerPoints, Admission!NoProc
    <2>5. QED
      BY <1>5, <2>1, <2>2, <2>3, <2>4 DEF AdmissionInv, AdmissionTypes
  <1>10. Seeing'
    BY <1>5 DEF AdmissionInv, AdmissionTypes, Seeing, Inspecting, Admission!NoProc
  <1>11. \A c \in Checkouts : participant[c] # None =>
           participant'[c] # None /\ participant'[c].key = participant[c].key
    BY <1>4, <1>6
  <1>12. former[k] = None
    <2> SUFFICES ASSUME former[k] # None PROVE FALSE
      OBVIOUS
    <2>1. /\ former[k].destination # k /\ former[k] \in Receipts
          /\ participant[k] = [key |-> former[k].destination, evidence |-> former[k].evidence]
      BY <1>2 DEF AdmissionInv, AdmissionTypes, Admission!StoreReadable
    <2>2. participant[k] \in Participants
      BY <2>1 DEF Participants, Receipts
    <2>3. participant[k] = row(k)
      BY <1>4, <2>2
    <2>4. QED
      BY <2>1, <2>3
  <1>13. Admission!StoreReadable'
    <2>1. \A j \in Checkouts : bound[j] # None =>
            /\ j \in namespaces
            /\ participant[bound[j].primary] = [key |-> j, evidence |-> bound[j].evidence]
            /\ bound[j].slot = Association => bound[j].member = j /\ bound[j].primary = j
            /\ bound[j].primary \in Checkouts /\ bound[j].evidence \in Seals
      BY DEF AdmissionInv, Admission!StoreReadable, AdmissionTypes, Bindings
    <2>2. ASSUME NEW j \in Checkouts, bound'[j] # None
          PROVE  /\ j \in namespaces'
                 /\ participant'[bound'[j].primary] =
                      [key |-> j, evidence |-> bound'[j].evidence]
                 /\ bound'[j].slot = Association =>
                      bound'[j].member = j /\ bound'[j].primary = j
      <3>1. CASE j = k
        <4>1. /\ bound'[k].member = k /\ bound'[k].primary = k
              /\ bound'[k].evidence = Admission!Evidence(k)
          BY <1>8
        <4>2. k \in namespaces' /\ participant'[k] = row(k)
          BY <1>4, <1>5, <1>6
        <4>3. QED
          BY <3>1, <4>1, <4>2
      <3>2. CASE j # k
        <4>1. bound'[j] = bound[j] /\ bound[j] # None
          BY <1>8, <2>2, <3>2
        <4>2. participant[bound[j].primary] # None /\ participant[bound[j].primary].key = j
          <5>1. [key |-> j, evidence |-> bound[j].evidence] \in Participants
            BY <2>1, <4>1 DEF Participants
          <5>2. QED
            BY <2>1, <4>1, <5>1
        <4>3. bound[j].primary \notin roots
          BY <1>4, <3>2, <4>2
        <4>4. QED
          BY <1>5, <1>6, <2>1, <4>1, <4>3
      <3>3. QED
        BY <3>1, <3>2
    <2>3. ASSUME NEW c \in Checkouts, participant'[c] # None
          PROVE  bound'[participant'[c].key] # None
      <3>1. CASE c \in roots
        BY <1>6, <1>8, <3>1
      <3>2. CASE c \notin roots
        <4>1. participant'[c] = participant[c] /\ participant[c] \in Participants
          BY <1>6, <2>3, <3>2 DEF AdmissionInv, AdmissionTypes
        <4>2. bound[participant[c].key] # None /\ participant[c].key \in Checkouts
          BY <2>3, <4>1 DEF AdmissionInv, Admission!StoreReadable, Participants
        <4>3. QED
          BY <1>8, <4>1, <4>2
      <3>3. QED
        BY <3>1, <3>2
    <2>4. ASSUME NEW i \in Checkouts, NEW j \in Checkouts, i # j, bound'[i] # None,
                 bound'[j] # None
          PROVE  <<bound'[i].slot, bound'[i].member>> # <<bound'[j].slot, bound'[j].member>>
      <3>1. ASSUME NEW h \in Checkouts, h # k, bound[h] # None
            PROVE  <<bound[h].slot, bound[h].member>> # <<Association, k>>
        BY <2>1, <3>1
      <3>2. CASE i # k /\ j # k
        BY <1>8, <2>4, <3>2 DEF AdmissionInv, Admission!StoreReadable
      <3>3. CASE i = k \/ j = k
        BY <1>8, <2>4, <3>1, <3>3
      <3>4. QED
        BY <3>2, <3>3
    <2>5. ASSUME NEW j \in Checkouts, former'[j] # None
          PROVE  /\ former'[j].destination # j
                 /\ participant'[j] =
                      [key |-> former'[j].destination, evidence |-> former'[j].evidence]
                 /\ bound'[former'[j].destination].slot = Association
      <3>1. CASE j = r.checkout /\ j # k
        <4>1. former'[j] = reserve /\ participant'[j] = row(j)
          BY <1>4, <1>6, <3>1
        <4>2. QED
          BY <1>8, <3>1, <4>1
      <3>2. CASE ~(j = r.checkout /\ j # k)
        <4>1. former'[j] = former[j] /\ j \notin roots
          BY <1>4, <1>12, <2>5, <3>2
        <4>2. /\ former[j] \in Receipts /\ former[j].destination # j
              /\ participant[j] =
                   [key |-> former[j].destination, evidence |-> former[j].evidence]
              /\ bound[former[j].destination].slot = Association
          BY <2>5, <4>1 DEF AdmissionInv, AdmissionTypes, Admission!StoreReadable
        <4>3. former[j].destination \in Checkouts
          BY <4>2 DEF Receipts
        <4>4. bound'[former[j].destination].slot = Association
          BY <1>8, <4>2, <4>3
        <4>5. QED
          BY <1>6, <4>1, <4>2, <4>4
      <3>3. QED
        BY <3>1, <3>2
    <2>6. initialized'
      BY <1>4, <1>5
    <2>7. \A j \in Checkouts : bound'[j] # None =>
            /\ j \in namespaces'
            /\ participant'[bound'[j].primary] = [key |-> j, evidence |-> bound'[j].evidence]
            /\ bound'[j].slot = Association => bound'[j].member = j /\ bound'[j].primary = j
      BY <2>2
    <2>8. \A j \in Checkouts : former'[j] # None =>
            /\ former'[j].destination # j
            /\ participant'[j] =
                 [key |-> former'[j].destination, evidence |-> former'[j].evidence]
            /\ bound'[former'[j].destination].slot = Association
      BY <2>5
    <2>9. \A i, j \in Checkouts : i # j /\ bound'[i] # None /\ bound'[j] # None =>
            <<bound'[i].slot, bound'[i].member>> # <<bound'[j].slot, bound'[j].member>>
      BY <2>4
    <2>10. QED
      BY <2>3, <2>6, <2>7, <2>8, <2>9 DEF Admission!StoreReadable
  <1>14. ASSUME NEW c \in Checkouts, NEW j \in namespaces, Homely(c, j)
         PROVE  Homely(c, j)'
    <2>1. former[c] # None => former'[c] # None
      BY <1>4, <1>7
    <2>2. CASE participant[c] # None
      BY <1>11, <1>14, <2>1, <2>2 DEF Homely
    <2>3. CASE c \notin roots
      BY <1>6, <1>14, <2>1, <2>3 DEF Homely
    <2>4. CASE participant[c] = None /\ c \in roots
      <3>1. j = c
        BY <1>14, <2>4 DEF Homely
      <3>2. CASE c = k
        <4>1. participant'[c] # None /\ participant'[c].key = c
          BY <1>6, <3>2
        <4>2. QED
          BY <3>1, <4>1 DEF Homely
      <3>3. CASE c # k
        BY <1>4, <1>7, <2>4, <3>1, <3>3 DEF Homely
      <3>4. QED
        BY <3>2, <3>3
    <2>5. QED
      BY <2>2, <2>3, <2>4
  <1>15. Entered'
    <2>1. \A c \in Checkouts : worked'[c] \subseteq namespaces'
      BY <1>5 DEF AdmissionInv, Entered
    <2>2. ASSUME NEW q \in Admission!Procs, caller'[q].pc = "authorized"
          PROVE  /\ caller'[q].context.key \in namespaces'
                 /\ \/ caller'[q].context.caller \in apart'
                    \/ Homely(caller[q].context.caller, caller[q].context.key)'
      <3>1. caller'[q] = caller[q] /\ caller[q].pc = "authorized"
        BY <1>5, <2>2 DEF AdmissionInv, AdmissionTypes, Admission!NoProc
      <3>2. caller[q].context \in Scoped
        BY <3>1 DEF AdmissionInv, Seeing, Inspecting
      <3>3. caller[q].context.caller \in Checkouts
        BY <3>2 DEF Scoped
      <3>4. /\ caller[q].context.key \in namespaces
            /\ \/ caller[q].context.caller \in apart
               \/ Homely(caller[q].context.caller, caller[q].context.key)
        BY <3>1 DEF AdmissionInv, Entered
      <3>5. QED
        BY <1>5, <1>14, <3>1, <3>3, <3>4
    <2>3. QED
      BY <2>1, <2>2 DEF Entered
  <1>16. Admission!HomeKept'
    BY <1>5, <1>14 DEF AdmissionInv, Entered, Admission!HomeKept, Homely
  <1>17. QED
    BY <1>9, <1>10, <1>13, <1>15, <1>16 DEF AdmissionInv
(* One step. *)
LEMMA AdmissionStep == AdmissionInv /\ Admission!Next => AdmissionInv'
  <1> SUFFICES ASSUME AdmissionInv, Admission!Next PROVE AdmissionInv'
    OBVIOUS
  <1> USE NoneIsNobody, NoReservation, AssociationIsHosts
  <1>1. ASSUME Admission!Initialize
        PROVE  AdmissionInv'
    <2>1. AdmissionTypes'
      BY <1>1 DEF AdmissionInv, AdmissionTypes, CallerStates, CallerPoints,
         Admission!Initialize, Admission!world, Admission!policy, Admission!namespaces,
         Admission!history, Admission!Procs, Admission!At
    <2>2. Seeing'
      BY <1>1 DEF AdmissionInv, Seeing, Inspecting, Admission!Initialize, Admission!world,
         Admission!policy, Admission!namespaces, Admission!history, Admission!Procs, Admission!At
    <2>3. Admission!StoreReadable'
      BY <1>1 DEF AdmissionInv, Admission!StoreReadable, Admission!Initialize, Admission!world,
         Admission!policy, Admission!namespaces, Admission!history, Admission!Procs, Admission!At
    <2>4. Entered'
      BY <1>1 DEF AdmissionInv, Entered, Homely, Inspecting, Admission!Initialize,
         Admission!world, Admission!policy, Admission!namespaces, Admission!history,
         Admission!Procs, Admission!At
    <2>5. Admission!HomeKept'
      BY <1>1 DEF AdmissionInv, Admission!HomeKept, Admission!Initialize, Admission!world,
         Admission!policy, Admission!namespaces, Admission!history, Admission!Procs, Admission!At
    <2>6. QED
      BY <2>1, <2>2, <2>3, <2>4, <2>5 DEF AdmissionInv
  <1>2. ASSUME Admission!Acknowledge
        PROVE  AdmissionInv'
    <2>1. AdmissionTypes'
      BY <1>2 DEF AdmissionInv, AdmissionTypes, CallerStates, CallerPoints,
         Admission!Acknowledge, Admission!world, Admission!policy, Admission!namespaces,
         Admission!history, Admission!Procs, Admission!At
    <2>2. Seeing'
      BY <1>2 DEF AdmissionInv, Seeing, Inspecting, Admission!Acknowledge, Admission!world,
         Admission!policy, Admission!namespaces, Admission!history, Admission!Procs, Admission!At
    <2>3. Admission!StoreReadable'
      BY <1>2 DEF AdmissionInv, Admission!StoreReadable, Admission!Acknowledge, Admission!world,
         Admission!policy, Admission!namespaces, Admission!history, Admission!Procs, Admission!At
    <2>4. Entered'
      BY <1>2 DEF AdmissionInv, Entered, Homely, Inspecting, Admission!Acknowledge,
         Admission!world, Admission!policy, Admission!namespaces, Admission!history,
         Admission!Procs, Admission!At
    <2>5. Admission!HomeKept'
      BY <1>2 DEF AdmissionInv, Admission!HomeKept, Admission!Acknowledge, Admission!world,
         Admission!policy, Admission!namespaces, Admission!history, Admission!Procs, Admission!At
    <2>6. QED
      BY <2>1, <2>2, <2>3, <2>4, <2>5 DEF AdmissionInv
  <1>3. ASSUME Admission!Disable
        PROVE  AdmissionInv'
    <2>1. AdmissionTypes'
      BY <1>3 DEF AdmissionInv, AdmissionTypes, CallerStates, CallerPoints, Admission!Disable,
         Admission!world, Admission!policy, Admission!namespaces, Admission!history,
         Admission!Procs, Admission!At
    <2>2. Seeing'
      BY <1>3 DEF AdmissionInv, Seeing, Inspecting, Admission!Disable, Admission!world,
         Admission!policy, Admission!namespaces, Admission!history, Admission!Procs, Admission!At
    <2>3. Admission!StoreReadable'
      BY <1>3 DEF AdmissionInv, Admission!StoreReadable, Admission!Disable, Admission!world,
         Admission!policy, Admission!namespaces, Admission!history, Admission!Procs, Admission!At
    <2>4. Entered'
      BY <1>3 DEF AdmissionInv, Entered, Homely, Inspecting, Admission!Disable, Admission!world,
         Admission!policy, Admission!namespaces, Admission!history, Admission!Procs, Admission!At
    <2>5. Admission!HomeKept'
      BY <1>3 DEF AdmissionInv, Admission!HomeKept, Admission!Disable, Admission!world,
         Admission!policy, Admission!namespaces, Admission!history, Admission!Procs, Admission!At
    <2>6. QED
      BY <2>1, <2>2, <2>3, <2>4, <2>5 DEF AdmissionInv
  <1>4. ASSUME Admission!ReplaceRepository
        PROVE  AdmissionInv'
    <2>1. AdmissionTypes'
      BY <1>4 DEF AdmissionInv, AdmissionTypes, CallerStates, CallerPoints,
         Admission!ReplaceRepository, Admission!Changes, Admission!world, Admission!policy,
         Admission!namespaces, Admission!history, Admission!Procs, Admission!At
    <2>2. Seeing'
      BY <1>4 DEF AdmissionInv, Seeing, Inspecting, Admission!ReplaceRepository,
         Admission!Changes, Admission!world, Admission!policy, Admission!namespaces,
         Admission!history, Admission!Procs, Admission!At
    <2>3. Admission!StoreReadable'
      BY <1>4 DEF AdmissionInv, Admission!StoreReadable, Admission!ReplaceRepository,
         Admission!Changes, Admission!world, Admission!policy, Admission!namespaces,
         Admission!history, Admission!Procs, Admission!At
    <2>4. Entered'
      BY <1>4 DEF AdmissionInv, Entered, Homely, Inspecting, Admission!ReplaceRepository,
         Admission!Changes, Admission!world, Admission!policy, Admission!namespaces,
         Admission!history, Admission!Procs, Admission!At
    <2>5. Admission!HomeKept'
      BY <1>4 DEF AdmissionInv, Admission!HomeKept, Admission!ReplaceRepository,
         Admission!Changes, Admission!world, Admission!policy, Admission!namespaces,
         Admission!history, Admission!Procs, Admission!At
    <2>6. QED
      BY <2>1, <2>2, <2>3, <2>4, <2>5 DEF AdmissionInv
  <1>5. ASSUME NEW slot \in Slots, Admission!SelectIntegration(slot)
        PROVE  AdmissionInv'
    <2>1. AdmissionTypes'
      BY <1>5 DEF AdmissionInv, AdmissionTypes, CallerStates, CallerPoints,
         Admission!SelectIntegration, Admission!world, Admission!policy, Admission!namespaces,
         Admission!history, Admission!Procs, Admission!At
    <2>2. Seeing'
      BY <1>5 DEF AdmissionInv, Seeing, Inspecting, Admission!SelectIntegration,
         Admission!world, Admission!policy, Admission!namespaces, Admission!history,
         Admission!Procs, Admission!At
    <2>3. Admission!StoreReadable'
      BY <1>5 DEF AdmissionInv, Admission!StoreReadable, Admission!SelectIntegration,
         Admission!world, Admission!policy, Admission!namespaces, Admission!history,
         Admission!Procs, Admission!At
    <2>4. Entered'
      BY <1>5 DEF AdmissionInv, Entered, Homely, Inspecting, Admission!SelectIntegration,
         Admission!world, Admission!policy, Admission!namespaces, Admission!history,
         Admission!Procs, Admission!At
    <2>5. Admission!HomeKept'
      BY <1>5 DEF AdmissionInv, Admission!HomeKept, Admission!SelectIntegration,
         Admission!world, Admission!policy, Admission!namespaces, Admission!history,
         Admission!Procs, Admission!At
    <2>6. QED
      BY <2>1, <2>2, <2>3, <2>4, <2>5 DEF AdmissionInv
  <1>6. ASSUME NEW c \in Checkouts, Admission!ImportNative(c)
        PROVE  AdmissionInv'
    <2>1. AdmissionTypes'
      BY <1>6 DEF AdmissionInv, AdmissionTypes, CallerStates, CallerPoints,
         Admission!ImportNative, Admission!world, Admission!policy, Admission!namespaces,
         Admission!history, Admission!Procs, Admission!At
    <2>2. Seeing'
      BY <1>6 DEF AdmissionInv, Seeing, Inspecting, Admission!ImportNative, Admission!world,
         Admission!policy, Admission!namespaces, Admission!history, Admission!Procs, Admission!At
    <2>3. Admission!StoreReadable'
      BY <1>6 DEF AdmissionInv, Admission!StoreReadable, Admission!ImportNative,
         Admission!world, Admission!policy, Admission!namespaces, Admission!history,
         Admission!Procs, Admission!At
    <2>4. Entered'
      BY <1>6 DEF AdmissionInv, Entered, Homely, Inspecting, Admission!ImportNative,
         Admission!world, Admission!policy, Admission!namespaces, Admission!history,
         Admission!Procs, Admission!At
    <2>5. Admission!HomeKept'
      BY <1>6 DEF AdmissionInv, Admission!HomeKept, Admission!ImportNative, Admission!world,
         Admission!policy, Admission!namespaces, Admission!history, Admission!Procs, Admission!At
    <2>6. QED
      BY <2>1, <2>2, <2>3, <2>4, <2>5 DEF AdmissionInv
  <1>7. ASSUME NEW c \in Checkouts, Admission!Replace(c)
        PROVE  AdmissionInv'
    <2>1. AdmissionTypes'
      BY <1>7 DEF AdmissionInv, AdmissionTypes, CallerStates, CallerPoints, Admission!Replace,
         Admission!Changes, Admission!world, Admission!policy, Admission!namespaces,
         Admission!history, Admission!Procs, Admission!At
    <2>2. Seeing'
      BY <1>7 DEF AdmissionInv, Seeing, Inspecting, Admission!Replace, Admission!Changes,
         Admission!world, Admission!policy, Admission!namespaces, Admission!history,
         Admission!Procs, Admission!At
    <2>3. Admission!StoreReadable'
      BY <1>7 DEF AdmissionInv, Admission!StoreReadable, Admission!Replace, Admission!Changes,
         Admission!world, Admission!policy, Admission!namespaces, Admission!history,
         Admission!Procs, Admission!At
    <2>4. Entered'
      BY <1>7 DEF AdmissionInv, Entered, Homely, Inspecting, Admission!Replace,
         Admission!Changes, Admission!world, Admission!policy, Admission!namespaces,
         Admission!history, Admission!Procs, Admission!At
    <2>5. Admission!HomeKept'
      BY <1>7 DEF AdmissionInv, Admission!HomeKept, Admission!Replace, Admission!Changes,
         Admission!world, Admission!policy, Admission!namespaces, Admission!history,
         Admission!Procs, Admission!At
    <2>6. QED
      BY <2>1, <2>2, <2>3, <2>4, <2>5 DEF AdmissionInv
  <1>8. ASSUME NEW c \in Checkouts, NEW primary \in Checkouts, NEW m \in Members,
               Admission!Reattest(c, m, primary)
        PROVE  AdmissionInv'
    <2>1. AdmissionTypes'
      BY <1>8 DEF AdmissionInv, AdmissionTypes, CallerStates, CallerPoints, Admission!Reattest,
         Admission!Changes, Admission!world, Admission!policy, Admission!namespaces,
         Admission!history, Admission!Procs, Admission!At
    <2>2. Seeing'
      BY <1>8 DEF AdmissionInv, Seeing, Inspecting, Admission!Reattest, Admission!Changes,
         Admission!world, Admission!policy, Admission!namespaces, Admission!history,
         Admission!Procs, Admission!At
    <2>3. Admission!StoreReadable'
      BY <1>8 DEF AdmissionInv, Admission!StoreReadable, Admission!Reattest, Admission!Changes,
         Admission!world, Admission!policy, Admission!namespaces, Admission!history,
         Admission!Procs, Admission!At
    <2>4. Entered'
      BY <1>8 DEF AdmissionInv, Entered, Homely, Inspecting, Admission!Reattest,
         Admission!Changes, Admission!world, Admission!policy, Admission!namespaces,
         Admission!history, Admission!Procs, Admission!At
    <2>5. Admission!HomeKept'
      BY <1>8 DEF AdmissionInv, Admission!HomeKept, Admission!Reattest, Admission!Changes,
         Admission!world, Admission!policy, Admission!namespaces, Admission!history,
         Admission!Procs, Admission!At
    <2>6. QED
      BY <2>1, <2>2, <2>3, <2>4, <2>5 DEF AdmissionInv
  <1>9. ASSUME NEW p \in Admission!Procs, Admission!Ends(p)
        PROVE  AdmissionInv'
    <2>1. AdmissionTypes'
      BY <1>9 DEF AdmissionInv, AdmissionTypes, CallerStates, CallerPoints, Admission!Ends,
         Admission!NoProc, Admission!world, Admission!policy, Admission!namespaces,
         Admission!history, Admission!Procs, Admission!At
    <2>2. Seeing'
      BY <1>9 DEF AdmissionInv, Seeing, Inspecting, Admission!Ends, Admission!NoProc,
         Admission!world, Admission!policy, Admission!namespaces, Admission!history,
         Admission!Procs, Admission!At
    <2>3. Admission!StoreReadable'
      BY <1>9 DEF AdmissionInv, Admission!StoreReadable, Admission!Ends, Admission!NoProc,
         Admission!world, Admission!policy, Admission!namespaces, Admission!history,
         Admission!Procs, Admission!At
    <2>4. Entered'
      BY <1>9 DEF AdmissionInv, Entered, Homely, Inspecting, Admission!Ends, Admission!NoProc,
         Admission!world, Admission!policy, Admission!namespaces, Admission!history,
         Admission!Procs, Admission!At
    <2>5. Admission!HomeKept'
      BY <1>9 DEF AdmissionInv, Admission!HomeKept, Admission!Ends, Admission!NoProc,
         Admission!world, Admission!policy, Admission!namespaces, Admission!history,
         Admission!Procs, Admission!At
    <2>6. QED
      BY <2>1, <2>2, <2>3, <2>4, <2>5 DEF AdmissionInv
  <1>10. ASSUME NEW p \in Administrators, Admission!AdmitCommit(p)
        PROVE  AdmissionInv'
    <2>1. AdmissionTypes'
      BY <1>10, AdmitKeeps DEF AdmissionInv
    <2>2. Seeing'
      BY <1>10, AdmitKeeps DEF AdmissionInv
    <2>3. Admission!StoreReadable'
      BY <1>10, AdmitKeeps DEF AdmissionInv
    <2>4. Entered'
      BY <1>10, AdmitKeeps DEF AdmissionInv
    <2>5. Admission!HomeKept'
      BY <1>10, AdmitKeeps DEF AdmissionInv
    <2>6. QED
      BY <2>1, <2>2, <2>3, <2>4, <2>5 DEF AdmissionInv
  <1>11. ASSUME NEW p \in Administrators, Admission!AssociateCommit(p)
        PROVE  AdmissionInv'
    <2>1. AdmissionTypes'
      BY <1>11, AssociateKeeps DEF AdmissionInv
    <2>2. Seeing'
      BY <1>11, AssociateKeeps DEF AdmissionInv
    <2>3. Admission!StoreReadable'
      BY <1>11, AssociateKeeps DEF AdmissionInv
    <2>4. Entered'
      BY <1>11, AssociateKeeps DEF AdmissionInv
    <2>5. Admission!HomeKept'
      BY <1>11, AssociateKeeps DEF AdmissionInv
    <2>6. QED
      BY <2>1, <2>2, <2>3, <2>4, <2>5 DEF AdmissionInv
  <1>12. ASSUME NEW p \in Administrators, NEW c \in Checkouts, NEW k \in Checkouts \cup {None},
                Admission!AdmitBegin(p, c, k)
        PROVE  AdmissionInv'
    <2>1. AdmissionTypes'
      <3>1. [selection |-> integration, scope |-> Admission!Resolution(c),
             retain |-> k] \in Admitting
        BY <1>12, ResolutionTyped DEF AdmissionInv, AdmissionTypes, Admitting, Admission!AdmitBegin
      <3>2. caller' \in [Admission!Procs -> CallerStates]
        BY <1>12, <3>1 DEF AdmissionInv, AdmissionTypes, CallerStates, CallerPoints,
           Admission!AdmitBegin, Admission!NoProc
      <3>3. QED
        BY <1>12, <3>2 DEF AdmissionInv, AdmissionTypes, Admission!AdmitBegin, Admission!world,
           Admission!policy, Admission!namespaces, Admission!history
    <2>2. Seeing'
      <3>1. [selection |-> integration, scope |-> Admission!Resolution(c),
             retain |-> k] \in Admitting
        BY <1>12, ResolutionTyped DEF AdmissionInv, AdmissionTypes, Admitting, Admission!AdmitBegin
      <3>2. QED
        BY <1>12, <3>1 DEF AdmissionInv, AdmissionTypes, Seeing, Inspecting, Admission!AdmitBegin,
           Admission!NoProc
    <2>3. Admission!StoreReadable'
      BY <1>12 DEF AdmissionInv, Admission!StoreReadable, Admission!AdmitBegin,
         Admission!NoProc, Admission!world, Admission!policy, Admission!namespaces,
         Admission!history, Admission!Procs, Admission!At
    <2>4. Entered'
      BY <1>12 DEF AdmissionInv, Entered, Homely, Inspecting, Admission!AdmitBegin,
         Admission!NoProc, Admission!world, Admission!policy, Admission!namespaces,
         Admission!history, Admission!Procs, Admission!At
    <2>5. Admission!HomeKept'
      BY <1>12 DEF AdmissionInv, Admission!HomeKept, Admission!AdmitBegin, Admission!NoProc,
         Admission!world, Admission!policy, Admission!namespaces, Admission!history,
         Admission!Procs, Admission!At
    <2>6. QED
      BY <2>1, <2>2, <2>3, <2>4, <2>5 DEF AdmissionInv
  <1>13. ASSUME NEW p \in Administrators, NEW c \in Checkouts, NEW k \in Checkouts,
                Admission!AssociateBegin(p, k, c)
        PROVE  AdmissionInv'
    <2>1. AdmissionTypes'
      <3>1. [checkout |-> c, primary |-> k, evidence |-> Admission!Evidence(c),
             base |-> Admission!Evidence(k)] \in Paired
        BY <1>13, ResolutionTyped DEF AdmissionInv, AdmissionTypes, Paired,
           Admission!AssociateBegin
      <3>2. caller' \in [Admission!Procs -> CallerStates]
        BY <1>13, <3>1 DEF AdmissionInv, AdmissionTypes, CallerStates, CallerPoints,
           Admission!AssociateBegin, Admission!NoProc
      <3>3. QED
        BY <1>13, <3>2 DEF AdmissionInv, AdmissionTypes, Admission!AssociateBegin, Admission!world,
           Admission!policy, Admission!namespaces, Admission!history
    <2>2. Seeing'
      <3>1. [checkout |-> c, primary |-> k, evidence |-> Admission!Evidence(c),
             base |-> Admission!Evidence(k)] \in Paired
        BY <1>13, ResolutionTyped DEF AdmissionInv, AdmissionTypes, Paired,
           Admission!AssociateBegin
      <3>2. QED
        BY <1>13, <3>1 DEF AdmissionInv, AdmissionTypes, Seeing, Inspecting,
           Admission!AssociateBegin,
           Admission!NoProc
    <2>3. Admission!StoreReadable'
      BY <1>13 DEF AdmissionInv, Admission!StoreReadable, Admission!AssociateBegin,
         Admission!NoProc, Admission!world, Admission!policy, Admission!namespaces,
         Admission!history, Admission!Procs, Admission!At
    <2>4. Entered'
      BY <1>13 DEF AdmissionInv, Entered, Homely, Inspecting, Admission!AssociateBegin,
         Admission!NoProc, Admission!world, Admission!policy, Admission!namespaces,
         Admission!history, Admission!Procs, Admission!At
    <2>5. Admission!HomeKept'
      BY <1>13 DEF AdmissionInv, Admission!HomeKept, Admission!AssociateBegin, Admission!NoProc,
         Admission!world, Admission!policy, Admission!namespaces, Admission!history,
         Admission!Procs, Admission!At
    <2>6. QED
      BY <2>1, <2>2, <2>3, <2>4, <2>5 DEF AdmissionInv
  <1>14. ASSUME NEW p \in Starters, NEW c \in Checkouts, Admission!Inspect(p, c)
        PROVE  AdmissionInv'
    <2>1. AdmissionTypes'
      <3>1. PICK x \in Admission!Contexts(c) :
              caller' = [caller EXCEPT ![p] =
                [Admission!NoProc EXCEPT !.pc = "inspected", !.context = x]]
        BY <1>14 DEF Admission!Inspect
      <3>2. /\ x \in Scoped
            /\ x.kind = "standalone" => x.key = x.caller
            /\ x.kind = "integrated" => x.scope.checkout = x.caller
        BY ContextTyped DEF AdmissionInv
      <3>3. caller' \in [Admission!Procs -> CallerStates]
        BY <3>1, <3>2 DEF AdmissionInv, AdmissionTypes, CallerStates, CallerPoints,
           Admission!NoProc
      <3>4. QED
        BY <1>14, <3>3 DEF AdmissionInv, AdmissionTypes, Admission!Inspect, Admission!world,
           Admission!policy, Admission!namespaces, Admission!history
    <2>2. Seeing'
      <3>1. PICK x \in Admission!Contexts(c) :
              caller' = [caller EXCEPT ![p] =
                [Admission!NoProc EXCEPT !.pc = "inspected", !.context = x]]
        BY <1>14 DEF Admission!Inspect
      <3>2. /\ x \in Scoped
            /\ x.kind = "standalone" => x.key = x.caller
            /\ x.kind = "integrated" => x.scope.checkout = x.caller
        BY ContextTyped DEF AdmissionInv
      <3>3. QED
        BY <1>14, <3>1, <3>2 DEF AdmissionInv, AdmissionTypes, Seeing, Inspecting, Admission!NoProc
    <2>3. Admission!StoreReadable'
      BY <1>14 DEF AdmissionInv, Admission!StoreReadable, Admission!Inspect, Admission!NoProc,
         Admission!world, Admission!policy, Admission!namespaces, Admission!history,
         Admission!Procs, Admission!At
    <2>4. Entered'
      BY <1>14 DEF AdmissionInv, Entered, Homely, Inspecting, Admission!Inspect,
         Admission!NoProc, Admission!world, Admission!policy, Admission!namespaces,
         Admission!history, Admission!Procs, Admission!At
    <2>5. Admission!HomeKept'
      BY <1>14 DEF AdmissionInv, Admission!HomeKept, Admission!Inspect, Admission!NoProc,
         Admission!world, Admission!policy, Admission!namespaces, Admission!history,
         Admission!Procs, Admission!At
    <2>6. QED
      BY <2>1, <2>2, <2>3, <2>4, <2>5 DEF AdmissionInv
  <1>15. ASSUME NEW p \in Starters, Admission!Recheck(p)
        PROVE  AdmissionInv'
    <2>1. AdmissionTypes'
      BY <1>15 DEF AdmissionInv, AdmissionTypes, CallerStates, CallerPoints, Admission!Recheck,
         Admission!Become, Admission!world, Admission!policy, Admission!namespaces,
         Admission!history, Admission!Procs, Admission!At
    <2>2. Seeing'
      BY <1>15 DEF AdmissionInv, Seeing, Inspecting, Admission!Recheck, Admission!Become,
         Admission!world, Admission!policy, Admission!namespaces, Admission!history,
         Admission!Procs, Admission!At
    <2>3. Admission!StoreReadable'
      BY <1>15 DEF AdmissionInv, Admission!StoreReadable, Admission!Recheck, Admission!Become,
         Admission!world, Admission!policy, Admission!namespaces, Admission!history,
         Admission!Procs, Admission!At
    <2>4. Entered'
      BY <1>15 DEF AdmissionInv, Entered, Homely, Inspecting, Admission!Recheck,
         Admission!Become, Admission!world, Admission!policy, Admission!namespaces,
         Admission!history, Admission!Procs, Admission!At
    <2>5. Admission!HomeKept'
      BY <1>15 DEF AdmissionInv, Admission!HomeKept, Admission!Recheck, Admission!Become,
         Admission!world, Admission!policy, Admission!namespaces, Admission!history,
         Admission!Procs, Admission!At
    <2>6. QED
      BY <2>1, <2>2, <2>3, <2>4, <2>5 DEF AdmissionInv
  <1>16. ASSUME NEW p \in Starters, Admission!Authorize(p)
        PROVE  AdmissionInv'
    <2>1. AdmissionTypes'
      BY <1>16 DEF AdmissionInv, AdmissionTypes, CallerStates, CallerPoints,
         Admission!Authorize, Admission!Become, Admission!world, Admission!policy,
         Admission!namespaces, Admission!history, Admission!Procs, Admission!At
    <2>2. Seeing'
      BY <1>16 DEF AdmissionInv, Seeing, Inspecting, Admission!Authorize, Admission!Become,
         Admission!world, Admission!policy, Admission!namespaces, Admission!history,
         Admission!Procs, Admission!At
    <2>3. Admission!StoreReadable'
      BY <1>16 DEF AdmissionInv, Admission!StoreReadable, Admission!Authorize, Admission!Become,
         Admission!world, Admission!policy, Admission!namespaces, Admission!history,
         Admission!Procs, Admission!At
    <2>4. Entered'
      <3> DEFINE x == caller[p].context
      <3>1. /\ p \in Admission!Procs /\ caller[p].pc = "rechecked" /\ Admission!Current(x)
            /\ namespaces' = namespaces \cup {x.key}
            /\ caller' = [caller EXCEPT ![p].pc = "authorized"]
            /\ apart' = IF x.kind = "standalone" /\ participant[x.caller] # None
                        THEN apart \cup {x.caller} ELSE apart
            /\ UNCHANGED <<participant, former, worked>>
        BY <1>16 DEF Admission!Authorize, Admission!At, Admission!Become, Admission!Procs
      <3>2. /\ x \in Scoped
            /\ x.kind = "standalone" => x.key = x.caller
            /\ x.kind = "integrated" => x.scope.checkout = x.caller
        BY <3>1 DEF AdmissionInv, Seeing, Inspecting
      <3>3. /\ x.caller \in Checkouts /\ x.key \in Checkouts /\ x.scope \in Observations
            /\ x.kind \in {"associated", "integrated", "standalone"}
        BY <3>2 DEF Scoped
      <3>4. x.scope.evidence \in Seals
        BY <3>3 DEF Observations
      <3>5. x.caller \in apart' \/ Homely(x.caller, x.key)
        <4>1. CASE x.kind = "associated"
          BY <3>1, <4>1 DEF Admission!Current, Admission!Associated, Homely
        <4>2. CASE x.kind = "integrated"
          <5>1. participant[x.caller] = [key |-> x.key, evidence |-> x.scope.evidence]
            BY <3>1, <3>2, <4>2 DEF Admission!Current, Admission!Admitted
          <5>2. [key |-> x.key, evidence |-> x.scope.evidence] \in Participants
            BY <3>3, <3>4 DEF Participants
          <5>3. QED
            BY <5>1, <5>2 DEF Homely
        <4>3. CASE x.kind = "standalone"
          BY <3>1, <3>2, <4>3 DEF Homely
        <4>4. QED
          BY <3>3, <4>1, <4>2, <4>3
      <3>6. ASSUME NEW q \in Admission!Procs, caller'[q].pc = "authorized"
            PROVE  /\ caller'[q].context.key \in namespaces'
                   /\ \/ caller'[q].context.caller \in apart'
                      \/ Homely(caller[q].context.caller, caller[q].context.key)'
        <4>1. CASE q = p
          <5>1. caller'[q].context = x
            BY <3>1, <4>1 DEF AdmissionInv, AdmissionTypes, CallerStates
          <5>2. QED
            BY <3>1, <3>5, <5>1 DEF Homely
        <4>2. CASE q # p
          <5>1. caller'[q] = caller[q]
            BY <3>1, <4>2 DEF AdmissionInv, AdmissionTypes
          <5>2. apart \subseteq apart' /\ namespaces \subseteq namespaces'
            BY <3>1
          <5>3. QED
            BY <3>1, <3>6, <5>1, <5>2 DEF AdmissionInv, Entered, Homely
        <4>3. QED
          BY <4>1, <4>2
      <3>7. QED
        BY <3>1, <3>6 DEF AdmissionInv, Entered
    <2>5. Admission!HomeKept'
      BY <1>16 DEF AdmissionInv, Admission!HomeKept, Admission!Authorize, Admission!Become,
         Admission!world, Admission!policy, Admission!namespaces, Admission!history,
         Admission!Procs, Admission!At
    <2>6. QED
      BY <2>1, <2>2, <2>3, <2>4, <2>5 DEF AdmissionInv
  <1>17. ASSUME NEW p \in Starters, Admission!Work(p)
        PROVE  AdmissionInv'
    <2>1. AdmissionTypes'
      <3>1. caller[p].context \in Scoped
        BY <1>17 DEF AdmissionInv, Seeing, Inspecting, Admission!Work, Admission!At,
           Admission!Procs
      <3>2. caller[p].context.key \in Checkouts /\ caller[p].context.caller \in Checkouts
        BY <3>1 DEF Scoped
      <3>3. QED
        BY <1>17, <3>2 DEF AdmissionInv, AdmissionTypes, Admission!Work, Admission!policy,
           Admission!namespaces
    <2>2. Seeing'
      BY <1>17 DEF AdmissionInv, Seeing, Inspecting, Admission!Work, Admission!world,
         Admission!policy, Admission!namespaces, Admission!history, Admission!Procs, Admission!At
    <2>3. Admission!StoreReadable'
      BY <1>17 DEF AdmissionInv, Admission!StoreReadable, Admission!Work, Admission!world,
         Admission!policy, Admission!namespaces, Admission!history, Admission!Procs, Admission!At
    <2>4. Entered'
      BY <1>17 DEF AdmissionInv, Entered, Homely, Inspecting, Admission!Work, Admission!world,
         Admission!policy, Admission!namespaces, Admission!history, Admission!Procs, Admission!At
    <2>5. Admission!HomeKept'
      <3> SUFFICES ASSUME NEW c \in Checkouts \ apart, NEW k \in worked'[c] PROVE Homely(c, k)
        BY <1>17 DEF Admission!HomeKept, Homely, Admission!Work, Admission!namespaces
      <3>1. CASE k \in worked[c]
        BY <3>1 DEF AdmissionInv, Admission!HomeKept, Homely
      <3>2. CASE k \notin worked[c]
        <4>1. c = caller[p].context.caller /\ k = caller[p].context.key
          BY <1>17, <3>2 DEF AdmissionInv, AdmissionTypes, Admission!Work
        <4>2. QED
          BY <1>17, <4>1 DEF AdmissionInv, Entered, Admission!Work, Admission!At, Admission!Procs
      <3>3. QED
        BY <3>1, <3>2
    <2>6. QED
      BY <2>1, <2>2, <2>3, <2>4, <2>5 DEF AdmissionInv
  <1>18. QED
    BY <1>1, <1>2, <1>3, <1>4, <1>5, <1>6, <1>7, <1>8, <1>9, <1>10, <1>11, <1>12, <1>13, <1>14,
       <1>15, <1>16, <1>17 DEF Admission!Next, Admission!Procs

(* The inductive invariant. *)
LEMMA AdmissionInvariant == WorkspaceSpec => []AdmissionInv
  <1>1. WorkspaceInit => AdmissionInv
    BY AdmissionInit DEF WorkspaceInit
  <1>2. AdmissionInv /\ [WorkspaceNext]_all => AdmissionInv'
    <2> SUFFICES ASSUME AdmissionInv, [WorkspaceNext]_all PROVE AdmissionInv'
      OBVIOUS
    <2>1. CASE pick = "admission" /\ Admission!Next
      BY <2>1, AdmissionStep
    <2>2. CASE UNCHANGED admission
      BY <2>2 DEF admission, AdmissionInv, AdmissionTypes, Seeing, Admission!StoreReadable,
         Entered, Admission!HomeKept, Homely, Admission!Evidence
    <2>3. QED
      BY <2>1, <2>2 DEF WorkspaceNext, all
  <1>3. QED
    BY <1>1, <1>2, PTL DEF WorkspaceSpec

(* No sequence of admissions, associations, imports and moves writes a      *)
(* store that every later open refuses.                                     *)
THEOREM StoreStaysReadable == WorkspaceSpec => []StoreReadable
  <1>1. AdmissionInv => StoreReadable
    BY DEF AdmissionInv, StoreReadable
  <1>2. QED
    BY <1>1, AdmissionInvariant, PTL

(* The namespace in which a checkout's commands worked stays the one that   *)
(* the store gives it, or the one that an association left a receipt for.   *)
THEOREM HomesKept == WorkspaceSpec => []HomeKept
  <1>1. AdmissionInv => HomeKept
    BY DEF AdmissionInv, HomeKept
  <1>2. QED
    BY <1>1, AdmissionInvariant, PTL

-----------------------------------------------------------------------------
(* BackendOwner. *)

Services == Hosts \cup Workspaces

Cells == [id : Identities, running : BOOLEAN]

Renamings == [from : Hosts, to : Hosts, id : Identities \cup {None}]

Cutovers == [entries : [Services -> Identities \cup {None}], authorized : BOOLEAN]

BackendOps == {"prepare", "quiesced", "recover", "start", "rename", "migrate"}

BackendPoints ==
    {"idle", "lock", "candidate", "create", "restart", "ready", "commit", "clear", "ensured",
     "finish", "rename", "renamed", "persist", "unfence", "next", "verify", "verified"}

Processes ==
    [op : BackendOps \cup {None}, pc : BackendPoints, name : Hosts \cup {None},
     workspace : Workspaces \cup {None}, todo : SUBSET Workspaces]

BackendTypes ==
    /\ owner \in Hosts \cup {None} /\ prepared \in Hosts \cup {None}
    /\ renaming \in Renamings \cup {None}
    /\ containers \in [Services -> Cells \cup {None}]
    /\ cutover \in Cutovers \cup {None}
    /\ restart \in [Backend!Agents -> Processes]

(* A command that works on the backend has the host's lock. *)
Preparing ==
    {"candidate", "create", "restart", "ready", "commit", "clear"}

Finishing == {"finish", "rename", "renamed", "persist", "unfence"}

Holding ==
    \A p \in Backend!Agents :
        restart[p].pc \in Preparing \cup Finishing \cup {"ensured"} => ownerLock = p

(* The records name only the backend that a command prepares. *)
Prepared ==
    \A p \in Backend!Agents : restart[p].pc \in Preparing =>
        /\ renaming = None
        /\ restart[p].name \in Hosts
        /\ owner \in {None, restart[p].name} /\ prepared \in {None, restart[p].name}
        /\ restart[p].pc \in {"candidate", "create"} => \A n \in Hosts : containers[n] = None
        /\ restart[p].pc \in {"create", "commit"} => prepared = restart[p].name
        /\ restart[p].pc = "clear" => owner = restart[p].name

(* A rename has an owner to rename, and ends when the old name is free. *)
Renames ==
    /\ renaming # None => owner \in {renaming.from, renaming.to} /\ prepared = None
    /\ \A p \in Backend!Agents :
         /\ restart[p].pc \in Finishing => renaming # None
         /\ restart[p].pc \in {"persist", "unfence"} => containers[renaming.from] = None
         /\ restart[p].pc = "unfence" => owner = renaming.to

(* What a command was asked for. *)
Asked ==
    \A p \in Backend!Agents :
        /\ restart[p].op = "rename" /\ restart[p].pc = "lock" => restart[p].name \in Hosts
        /\ restart[p].workspace # None => restart[p].op \in {"start", "migrate"}
        /\ restart[p].pc \in {"next", "verify", "verified"} => restart[p].op = "migrate"

(* A migration has still to visit what it has not taken over. *)
Visited ==
    \A p \in Backend!Agents : restart[p].op = "migrate" =>
        /\ restart[p].pc \in {"next", "verified"} => restart[p].workspace = None
        /\ restart[p].pc = "verify" => restart[p].workspace \in adopted
        /\ restart[p].pc = "verified" => restart[p].todo = {}
        /\ \A w \in Backend!Listed :
             \/ w \in restart[p].todo \/ w = restart[p].workspace
             \/ w \in adopted /\ w \notin sources \ recurred

BackendInv ==
    /\ BackendTypes /\ Holding /\ Prepared /\ Renames /\ Backend!OneBackend
    /\ Asked /\ Visited

(* None names nothing. *)
LEMMA BackendApart ==
    /\ None \notin Hosts /\ None \notin Workspaces /\ None \notin Backend!Agents
    /\ None \notin Cells /\ None \notin Renamings
    /\ None # "start" /\ None # "rename" /\ None # "quiesced" /\ None # "migrate"
    /\ Hosts \cap Workspaces = {} /\ Default \in Hosts
  BY NoneIsNobody, NoneIsNoWord, NoneIsNoContainer, HostsApart
     DEF Backend!Agents, Cells, Renamings

(* The initial states. *)
LEMMA BackendInit == Backend!Init => BackendInv
  <1> SUFFICES ASSUME Backend!Init PROVE BackendInv
    OBVIOUS
  <1> USE BackendApart
  <1>1. BackendTypes
    <2>1. Backend!First \in [Workspaces -> Identities]
      BY IdentitiesDistinct DEF Backend!First
    <2>2. containers \in [Services -> Cells \cup {None}]
      BY <2>1 DEF Backend!Init, Services, Cells
    <2>3. Backend!NoProc \in Processes
      BY DEF Backend!NoProc, Processes, BackendPoints
    <2>4. QED
      BY <2>2, <2>3 DEF Backend!Init, BackendTypes
  <1>2. \A p \in Backend!Agents :
          restart[p].pc = "idle" /\ restart[p].op = None /\ restart[p].workspace = None
    BY DEF Backend!Init, Backend!NoProc
  <1>3. Holding /\ Prepared /\ Renames /\ Asked /\ Visited
    BY <1>2 DEF Backend!Init, Holding, Prepared, Renames, Asked, Visited, Preparing, Finishing
  <1>4. Backend!OneBackend
    BY DEF Backend!Init, Backend!OneBackend
  <1>5. QED
    BY <1>1, <1>3, <1>4 DEF BackendInv

(* What a container that starts, stops or is made is. *)
LEMMA CellRuns ==
    ASSUME BackendTypes, NEW n \in Services, containers[n] # None
    PROVE  /\ [containers[n] EXCEPT !.running = TRUE] \in Cells
           /\ [containers[n] EXCEPT !.running = FALSE] \in Cells
  <1>1. containers[n] \in Cells
    BY DEF BackendTypes
  <1>2. QED
    BY <1>1 DEF Cells

LEMMA CellStarts ==
    ASSUME BackendTypes, NEW n \in Services, Backend!Starts(n)
    PROVE  containers' \in [Services -> Cells \cup {None}]
  <1>1. /\ containers[n] # None
        /\ containers' = [containers EXCEPT ![n].running = TRUE]
    BY DEF Backend!Starts, Backend!Status
  <1>2. [containers[n] EXCEPT !.running = TRUE] \in Cells
    BY <1>1, CellRuns
  <1>3. QED
    BY <1>1, <1>2 DEF BackendTypes

LEMMA CellMade ==
    ASSUME BackendTypes, NEW n \in Services, Backend!Creates(n)
    PROVE  containers' \in [Services -> Cells \cup {None}]
  <1> DEFINE i == CHOOSE i \in Identities \ Backend!Known : TRUE
  <1>1. Identities \ Backend!Known # {}
    BY DEF Backend!Creates
  <1>2. i \in Identities
    BY <1>1
  <1>3. containers' = [containers EXCEPT ![n] = [id |-> i, running |-> TRUE]]
    BY DEF Backend!Creates
  <1> HIDE DEF i
  <1>4. [id |-> i, running |-> TRUE] \in Cells
    BY <1>2 DEF Cells
  <1>5. QED
    BY <1>3, <1>4 DEF BackendTypes

(* The journal of a rename that begins, or that is resumed. *)
LEMMA RenameTyped ==
    ASSUME BackendInv, NEW p \in Backend!Agents, Backend!Rename(p)
    PROVE  renaming' \in Renamings
  <1> USE BackendApart
  <1> DEFINE n == restart[p].name
             id == IF Backend!Status(owner) = "Stopped" THEN containers[owner].id ELSE None
  <1>1. owner \in Hosts /\ n \in Hosts
    BY DEF BackendInv, BackendTypes, Asked, Backend!Rename, Backend!Goto
  <1>2. id \in Identities \cup {None}
    <2>1. CASE Backend!Status(owner) = "Stopped"
      <3>1. containers[owner] \in Cells
        BY <1>1, <2>1 DEF BackendInv, BackendTypes, Services, Backend!Status
      <3>2. QED
        BY <2>1, <3>1 DEF Cells
    <2>2. CASE Backend!Status(owner) # "Stopped"
      BY <2>2
    <2>3. QED
      BY <2>1, <2>2
  <1>3. \/ renaming # None /\ renaming' = renaming
        \/ renaming' = [from |-> owner, to |-> n, id |-> id]
    BY DEF Backend!Rename
  <1> HIDE DEF id
  <1>4. [from |-> owner, to |-> n, id |-> id] \in Renamings
    BY <1>1, <1>2 DEF Renamings
  <1>5. QED
    BY <1>3, <1>4 DEF BackendInv, BackendTypes

(* How a migration begins. *)
LEMMA MigrationBegins ==
    ASSUME BackendInv, NEW p \in Backend!Agents, Backend!Quiesced(p)
    PROVE  /\ restart[p].op = "quiesced" /\ restart[p].pc = "lock"
           /\ restart' \in [Backend!Agents -> Processes]
           /\ restart'[p].op = "migrate" /\ restart'[p].pc \in {"lock", "next"}
           /\ restart'[p].name = restart[p].name
           /\ restart'[p].workspace = restart[p].workspace
           /\ restart'[p].todo = Backend!Listed /\ Backend!Listed' = Backend!Listed
           /\ \A q \in Backend!Agents \ {p} : restart'[q] = restart[q] /\ restart[q].op # "migrate"
           /\ cutover' \in Cutovers
           /\ UNCHANGED <<owner, prepared, renaming, managed, containers, sources, adopted,
                          ownerLock>>
  <1> USE BackendApart
  <1> DEFINE t == IF Backend!Status(owner) # "Running" THEN "lock" ELSE "next"
             s == [[[restart[p] EXCEPT !.op = "migrate"] EXCEPT !.todo = Backend!Listed]
                    EXCEPT !.pc = t]
  <1>1. /\ restart[p].op = "quiesced"
        /\ restart[p].pc = "lock"
        /\ Backend!Alone
        /\ Backend!AdmitCutover
        /\ cutover' = [cutover EXCEPT !.authorized = TRUE]
        /\ restart' = [restart EXCEPT ![p].op = "migrate", ![p].todo = Backend!Listed, ![p].pc = t]
        /\ UNCHANGED <<owner, prepared, renaming, managed, containers, sources, adopted,
                       ownerLock>>
    BY DEF Backend!Quiesced, Backend!records
  <1>2. Backend!Listed \subseteq Workspaces /\ cutover \in Cutovers
    BY <1>1 DEF BackendInv, BackendTypes, Backend!AdmitCutover
  <1>3. t \in {"lock", "next"}
    OBVIOUS
  <1> HIDE DEF t
  <1>4. restart[p] \in Processes
    BY DEF BackendInv, BackendTypes
  <1>5. /\ s \in Processes /\ s.op = "migrate" /\ s.todo = Backend!Listed /\ s.pc = t
        /\ s.name = restart[p].name /\ s.workspace = restart[p].workspace
    BY <1>2, <1>3, <1>4 DEF Processes, BackendOps, BackendPoints
  <1>6. restart' = [restart EXCEPT ![p] = s]
    BY <1>1
  <1> HIDE DEF s
  <1>7. /\ restart' \in [Backend!Agents -> Processes] /\ restart'[p] = s
        /\ \A q \in Backend!Agents \ {p} : restart'[q] = restart[q]
    BY <1>5, <1>6 DEF BackendInv, BackendTypes
  <1>8. cutover' \in Cutovers /\ cutover'.entries = cutover.entries
    BY <1>1, <1>2 DEF Cutovers
  <1>9. Backend!Listed' = Backend!Listed
    BY <1>1, <1>8 DEF Backend!Listed
  <1>10. \A q \in Backend!Agents \ {p} : restart[q].op # "migrate"
    BY <1>1 DEF Backend!Alone
  <1>11. QED
    BY <1>1, <1>3, <1>5, <1>7, <1>8, <1>9, <1>10

(* One step. *)
LEMMA BackendStep == BackendInv /\ Backend!Next => BackendInv'
  <1> SUFFICES ASSUME BackendInv, Backend!Next PROVE BackendInv'
    OBVIOUS
  <1> USE BackendApart
  <1>1. ASSUME NEW p \in Backend!Agents, NEW k \in BackendOps \ {"migrate"},
               NEW w \in Workspaces \cup {None}, NEW n \in Hosts \cup {None},
               w # None => k = "start", k = "rename" => n \in Hosts, Backend!Begin(p, k, w, n)
        PROVE  BackendInv'
    <2>1. BackendTypes'
      BY <1>1 DEF BackendInv, BackendTypes, Processes, Services, BackendPoints, Backend!Begin,
         Backend!NoProc, Backend!records, Backend!world, Backend!migration
    <2>2. Holding'
      BY <1>1 DEF BackendInv, Holding, BackendTypes, Processes, Preparing, Finishing,
         Backend!Begin, Backend!NoProc, Backend!records, Backend!world, Backend!migration
    <2>3. Prepared'
      BY <1>1 DEF BackendInv, Prepared, BackendTypes, Processes, Preparing, Finishing, Holding,
         Services, Renames, Renamings, Backend!Begin, Backend!NoProc, Backend!records,
         Backend!world, Backend!migration
    <2>4. Renames'
      BY <1>1 DEF BackendInv, Renames, BackendTypes, Processes, Renamings, Finishing, Preparing,
         Prepared, Holding, Services, Backend!Begin, Backend!NoProc, Backend!records,
         Backend!world, Backend!migration
    <2>5. Backend!OneBackend'
      BY <1>1 DEF BackendInv, Backend!OneBackend, BackendTypes, Processes, Services, Prepared,
         Renames, Preparing, Finishing, Backend!Begin, Backend!NoProc, Backend!records,
         Backend!world, Backend!migration
    <2>6. Asked'
      BY <1>1 DEF BackendInv, Asked, BackendTypes, Processes, BackendOps, Backend!Begin,
         Backend!NoProc, Backend!records, Backend!world, Backend!migration
    <2>7. Visited'
      BY <1>1 DEF BackendInv, Visited, BackendTypes, Processes, Asked, Backend!Listed, Services,
         Backend!Begin, Backend!NoProc, Backend!records, Backend!world, Backend!migration
    <2>8. QED
      BY <2>1, <2>2, <2>3, <2>4, <2>5, <2>6, <2>7 DEF BackendInv
  <1>2. ASSUME NEW p \in Backend!Agents, Backend!End(p)
        PROVE  BackendInv'
    <2>1. BackendTypes'
      BY <1>2 DEF BackendInv, BackendTypes, Processes, Services, BackendPoints, Backend!End,
         Backend!NoProc, Backend!records, Backend!world, Backend!migration
    <2>2. Holding'
      BY <1>2 DEF BackendInv, Holding, BackendTypes, Processes, Preparing, Finishing,
         Backend!End, Backend!NoProc, Backend!records, Backend!world, Backend!migration
    <2>3. Prepared'
      BY <1>2 DEF BackendInv, Prepared, BackendTypes, Processes, Preparing, Finishing, Holding,
         Services, Renames, Renamings, Backend!End, Backend!NoProc, Backend!records, Backend!world,
         Backend!migration
    <2>4. Renames'
      BY <1>2 DEF BackendInv, Renames, BackendTypes, Processes, Renamings, Finishing, Preparing,
         Prepared, Holding, Services, Backend!End, Backend!NoProc, Backend!records, Backend!world,
         Backend!migration
    <2>5. Backend!OneBackend'
      BY <1>2 DEF BackendInv, Backend!OneBackend, BackendTypes, Processes, Services, Prepared,
         Renames, Preparing, Finishing, Backend!End, Backend!NoProc, Backend!records,
         Backend!world, Backend!migration
    <2>6. Asked'
      BY <1>2 DEF BackendInv, Asked, BackendTypes, Processes, BackendOps, Backend!End,
         Backend!NoProc, Backend!records, Backend!world, Backend!migration
    <2>7. Visited'
      BY <1>2 DEF BackendInv, Visited, BackendTypes, Processes, Asked, Backend!Listed, Services,
         Backend!End, Backend!NoProc, Backend!records, Backend!world, Backend!migration
    <2>8. QED
      BY <2>1, <2>2, <2>3, <2>4, <2>5, <2>6, <2>7 DEF BackendInv
  <1>3. ASSUME NEW p \in Backend!Agents, Backend!Ensure(p)
        PROVE  BackendInv'
    <2>1. BackendTypes'
      BY <1>3 DEF BackendInv, BackendTypes, Processes, Services, BackendPoints, Backend!Ensure,
         Backend!Selects, Backend!Status, Backend!Acquire, Backend!records, Backend!world,
         Backend!migration
    <2>2. Holding'
      BY <1>3 DEF BackendInv, Holding, BackendTypes, Processes, Preparing, Finishing,
         Backend!Ensure, Backend!Selects, Backend!Status, Backend!Acquire, Backend!records,
         Backend!world, Backend!migration
    <2>3. Prepared'
      BY <1>3 DEF BackendInv, Prepared, BackendTypes, Processes, Preparing, Finishing, Holding,
         Services, Renames, Renamings, Backend!Ensure, Backend!Selects, Backend!Status,
         Backend!Acquire, Backend!records, Backend!world, Backend!migration
    <2>4. Renames'
      BY <1>3 DEF BackendInv, Renames, BackendTypes, Processes, Renamings, Finishing, Preparing,
         Prepared, Holding, Services, Backend!Ensure, Backend!Selects, Backend!Status,
         Backend!Acquire, Backend!records, Backend!world, Backend!migration
    <2>5. Backend!OneBackend'
      BY <1>3 DEF BackendInv, Backend!OneBackend, BackendTypes, Processes, Services, Prepared,
         Renames, Preparing, Finishing, Backend!Ensure, Backend!Selects, Backend!Status,
         Backend!Acquire, Backend!records, Backend!world, Backend!migration
    <2>6. Asked'
      BY <1>3 DEF BackendInv, Asked, BackendTypes, Processes, BackendOps, Backend!Ensure,
         Backend!Selects, Backend!Status, Backend!Acquire, Backend!records, Backend!world,
         Backend!migration
    <2>7. Visited'
      BY <1>3 DEF BackendInv, Visited, BackendTypes, Processes, Asked, Backend!Listed, Services,
         Backend!Ensure, Backend!Selects, Backend!Status, Backend!Acquire, Backend!records,
         Backend!world, Backend!migration
    <2>8. QED
      BY <2>1, <2>2, <2>3, <2>4, <2>5, <2>6, <2>7 DEF BackendInv
  <1>4. ASSUME NEW p \in Backend!Agents, Backend!Restart(p)
        PROVE  BackendInv'
    <2>1. BackendTypes'
      <3>1. containers' \in [Services -> Cells \cup {None}]
        <4>1. restart[p].name \in Services
          BY <1>4 DEF BackendInv, Prepared, Preparing, Services, Backend!Restart, Backend!Goto,
             Backend!Starts, Backend!Status, Backend!records, Backend!world, Backend!migration
        <4>2. QED
          BY <1>4, <4>1, CellStarts DEF BackendInv, Backend!Restart
      <3>2. UNCHANGED <<owner, prepared, renaming, cutover>>
        BY <1>4 DEF Backend!Restart, Backend!Goto, Backend!Starts, Backend!Status,
           Backend!records, Backend!world, Backend!migration
      <3>3. restart' \in [Backend!Agents -> Processes]
        BY <1>4 DEF BackendInv, BackendTypes, Processes, BackendPoints, Backend!Restart,
           Backend!Goto, Backend!Starts, Backend!Status, Backend!records, Backend!world,
           Backend!migration
      <3>4. QED
        BY <3>1, <3>2, <3>3 DEF BackendInv, BackendTypes
    <2>2. Holding'
      BY <1>4 DEF BackendInv, Holding, BackendTypes, Processes, Preparing, Finishing,
         Backend!Restart, Backend!Goto, Backend!Starts, Backend!Status, Backend!records,
         Backend!world, Backend!migration
    <2>3. Prepared'
      BY <1>4 DEF BackendInv, Prepared, BackendTypes, Processes, Preparing, Finishing, Holding,
         Services, Renames, Renamings, Backend!Restart, Backend!Goto, Backend!Starts,
         Backend!Status, Backend!records, Backend!world, Backend!migration
    <2>4. Renames'
      BY <1>4 DEF BackendInv, Renames, BackendTypes, Processes, Renamings, Finishing, Preparing,
         Prepared, Holding, Services, Backend!Restart, Backend!Goto, Backend!Starts,
         Backend!Status, Backend!records, Backend!world, Backend!migration
    <2>5. Backend!OneBackend'
      BY <1>4 DEF BackendInv, Backend!OneBackend, BackendTypes, Processes, Services, Prepared,
         Renames, Preparing, Finishing, Backend!Restart, Backend!Goto, Backend!Starts,
         Backend!Status, Backend!records, Backend!world, Backend!migration
    <2>6. Asked'
      BY <1>4 DEF BackendInv, Asked, BackendTypes, Processes, BackendOps, Backend!Restart,
         Backend!Goto, Backend!Starts, Backend!Status, Backend!records, Backend!world,
         Backend!migration
    <2>7. Visited'
      BY <1>4 DEF BackendInv, Visited, BackendTypes, Processes, Asked, Backend!Listed, Services,
         Backend!Restart, Backend!Goto, Backend!Starts, Backend!Status, Backend!records,
         Backend!world, Backend!migration
    <2>8. QED
      BY <2>1, <2>2, <2>3, <2>4, <2>5, <2>6, <2>7 DEF BackendInv
  <1>5. ASSUME NEW p \in Backend!Agents, Backend!Candidate(p)
        PROVE  BackendInv'
    <2>1. BackendTypes'
      BY <1>5 DEF BackendInv, BackendTypes, Processes, Services, BackendPoints,
         Backend!Candidate, Backend!Goto, Backend!records, Backend!world, Backend!migration
    <2>2. Holding'
      BY <1>5 DEF BackendInv, Holding, BackendTypes, Processes, Preparing, Finishing,
         Backend!Candidate, Backend!Goto, Backend!records, Backend!world, Backend!migration
    <2>3. Prepared'
      BY <1>5 DEF BackendInv, Prepared, BackendTypes, Processes, Preparing, Finishing, Holding,
         Services, Renames, Renamings, Backend!Candidate, Backend!Goto, Backend!records,
         Backend!world, Backend!migration
    <2>4. Renames'
      BY <1>5 DEF BackendInv, Renames, BackendTypes, Processes, Renamings, Finishing, Preparing,
         Prepared, Holding, Services, Backend!Candidate, Backend!Goto, Backend!records,
         Backend!world, Backend!migration
    <2>5. Backend!OneBackend'
      BY <1>5 DEF BackendInv, Backend!OneBackend, BackendTypes, Processes, Services, Prepared,
         Renames, Preparing, Finishing, Backend!Candidate, Backend!Goto, Backend!records,
         Backend!world, Backend!migration
    <2>6. Asked'
      BY <1>5 DEF BackendInv, Asked, BackendTypes, Processes, BackendOps, Backend!Candidate,
         Backend!Goto, Backend!records, Backend!world, Backend!migration
    <2>7. Visited'
      BY <1>5 DEF BackendInv, Visited, BackendTypes, Processes, Asked, Backend!Listed, Services,
         Backend!Candidate, Backend!Goto, Backend!records, Backend!world, Backend!migration
    <2>8. QED
      BY <2>1, <2>2, <2>3, <2>4, <2>5, <2>6, <2>7 DEF BackendInv
  <1>6. ASSUME NEW p \in Backend!Agents, Backend!Create(p)
        PROVE  BackendInv'
    <2>1. BackendTypes'
      <3>1. containers' \in [Services -> Cells \cup {None}]
        <4>1. restart[p].name \in Services
          BY <1>6 DEF BackendInv, Prepared, Preparing, Services, Backend!Create, Backend!Goto,
             Backend!Creates, Backend!Status, Backend!records, Backend!world, Backend!migration
        <4>2. QED
          BY <1>6, <4>1, CellMade DEF BackendInv, Backend!Create
      <3>2. UNCHANGED <<owner, prepared, renaming, cutover>>
        BY <1>6 DEF Backend!Create, Backend!Goto, Backend!Creates, Backend!Status,
           Backend!records, Backend!world, Backend!migration
      <3>3. restart' \in [Backend!Agents -> Processes]
        BY <1>6 DEF BackendInv, BackendTypes, Processes, BackendPoints, Backend!Create,
           Backend!Goto, Backend!Creates, Backend!Status, Backend!records, Backend!world,
           Backend!migration
      <3>4. QED
        BY <3>1, <3>2, <3>3 DEF BackendInv, BackendTypes
    <2>2. Holding'
      BY <1>6 DEF BackendInv, Holding, BackendTypes, Processes, Preparing, Finishing,
         Backend!Create, Backend!Goto, Backend!Creates, Backend!Status, Backend!records,
         Backend!world, Backend!migration
    <2>3. Prepared'
      BY <1>6 DEF BackendInv, Prepared, BackendTypes, Processes, Preparing, Finishing, Holding,
         Services, Renames, Renamings, Backend!Create, Backend!Goto, Backend!Creates,
         Backend!Status, Backend!records, Backend!world, Backend!migration
    <2>4. Renames'
      BY <1>6 DEF BackendInv, Renames, BackendTypes, Processes, Renamings, Finishing, Preparing,
         Prepared, Holding, Services, Backend!Create, Backend!Goto, Backend!Creates,
         Backend!Status, Backend!records, Backend!world, Backend!migration
    <2>5. Backend!OneBackend'
      BY <1>6 DEF BackendInv, Backend!OneBackend, BackendTypes, Processes, Services, Prepared,
         Renames, Preparing, Finishing, Backend!Create, Backend!Goto, Backend!Creates,
         Backend!Status, Backend!records, Backend!world, Backend!migration
    <2>6. Asked'
      BY <1>6 DEF BackendInv, Asked, BackendTypes, Processes, BackendOps, Backend!Create,
         Backend!Goto, Backend!Creates, Backend!Status, Backend!records, Backend!world,
         Backend!migration
    <2>7. Visited'
      BY <1>6 DEF BackendInv, Visited, BackendTypes, Processes, Asked, Backend!Listed, Services,
         Backend!Create, Backend!Goto, Backend!Creates, Backend!Status, Backend!records,
         Backend!world, Backend!migration
    <2>8. QED
      BY <2>1, <2>2, <2>3, <2>4, <2>5, <2>6, <2>7 DEF BackendInv
  <1>7. ASSUME NEW p \in Backend!Agents, Backend!Reopen(p)
        PROVE  BackendInv'
    <2>1. BackendTypes'
      <3>1. containers' \in [Services -> Cells \cup {None}]
        <4> DEFINE x == [containers[restart[p].name] EXCEPT !.running = FALSE]
        <4>1. restart[p].name \in Services /\ containers[restart[p].name] # None
          BY <1>7 DEF BackendInv, Prepared, Preparing, Services, Backend!Reopen, Backend!Goto,
             Backend!Status, Backend!records, Backend!world, Backend!migration
        <4>2. x \in Cells
          BY <4>1, CellRuns DEF BackendInv
        <4>3. containers' = [containers EXCEPT ![restart[p].name] = x]
          BY <1>7 DEF Backend!Reopen
        <4> HIDE DEF x
        <4>4. QED
          BY <4>2, <4>3 DEF BackendInv, BackendTypes
      <3>2. UNCHANGED <<owner, prepared, renaming, cutover>>
        BY <1>7 DEF Backend!Reopen, Backend!Goto, Backend!Status, Backend!records,
           Backend!world, Backend!migration
      <3>3. restart' \in [Backend!Agents -> Processes]
        BY <1>7 DEF BackendInv, BackendTypes, Processes, BackendPoints, Backend!Reopen,
           Backend!Goto, Backend!Status, Backend!records, Backend!world, Backend!migration
      <3>4. QED
        BY <3>1, <3>2, <3>3 DEF BackendInv, BackendTypes
    <2>2. Holding'
      BY <1>7 DEF BackendInv, Holding, BackendTypes, Processes, Preparing, Finishing,
         Backend!Reopen, Backend!Goto, Backend!Status, Backend!records, Backend!world,
         Backend!migration
    <2>3. Prepared'
      BY <1>7 DEF BackendInv, Prepared, BackendTypes, Processes, Preparing, Finishing, Holding,
         Services, Renames, Renamings, Backend!Reopen, Backend!Goto, Backend!Status,
         Backend!records, Backend!world, Backend!migration
    <2>4. Renames'
      BY <1>7 DEF BackendInv, Renames, BackendTypes, Processes, Renamings, Finishing, Preparing,
         Prepared, Holding, Services, Backend!Reopen, Backend!Goto, Backend!Status,
         Backend!records, Backend!world, Backend!migration
    <2>5. Backend!OneBackend'
      BY <1>7 DEF BackendInv, Backend!OneBackend, BackendTypes, Processes, Services, Prepared,
         Renames, Preparing, Finishing, Backend!Reopen, Backend!Goto, Backend!Status,
         Backend!records, Backend!world, Backend!migration
    <2>6. Asked'
      BY <1>7 DEF BackendInv, Asked, BackendTypes, Processes, BackendOps, Backend!Reopen,
         Backend!Goto, Backend!Status, Backend!records, Backend!world, Backend!migration
    <2>7. Visited'
      BY <1>7 DEF BackendInv, Visited, BackendTypes, Processes, Asked, Backend!Listed, Services,
         Backend!Reopen, Backend!Goto, Backend!Status, Backend!records, Backend!world,
         Backend!migration
    <2>8. QED
      BY <2>1, <2>2, <2>3, <2>4, <2>5, <2>6, <2>7 DEF BackendInv
  <1>8. ASSUME NEW p \in Backend!Agents, Backend!Ready(p)
        PROVE  BackendInv'
    <2>1. BackendTypes'
      BY <1>8 DEF BackendInv, BackendTypes, Processes, Services, BackendPoints, Backend!Ready,
         Backend!Goto, Backend!Status, Backend!records, Backend!world, Backend!migration
    <2>2. Holding'
      BY <1>8 DEF BackendInv, Holding, BackendTypes, Processes, Preparing, Finishing,
         Backend!Ready, Backend!Goto, Backend!Status, Backend!records, Backend!world,
         Backend!migration
    <2>3. Prepared'
      BY <1>8 DEF BackendInv, Prepared, BackendTypes, Processes, Preparing, Finishing, Holding,
         Services, Renames, Renamings, Backend!Ready, Backend!Goto, Backend!Status,
         Backend!records, Backend!world, Backend!migration
    <2>4. Renames'
      BY <1>8 DEF BackendInv, Renames, BackendTypes, Processes, Renamings, Finishing, Preparing,
         Prepared, Holding, Services, Backend!Ready, Backend!Goto, Backend!Status, Backend!records,
         Backend!world, Backend!migration
    <2>5. Backend!OneBackend'
      BY <1>8 DEF BackendInv, Backend!OneBackend, BackendTypes, Processes, Services, Prepared,
         Renames, Preparing, Finishing, Backend!Ready, Backend!Goto, Backend!Status,
         Backend!records, Backend!world, Backend!migration
    <2>6. Asked'
      BY <1>8 DEF BackendInv, Asked, BackendTypes, Processes, BackendOps, Backend!Ready,
         Backend!Goto, Backend!Status, Backend!records, Backend!world, Backend!migration
    <2>7. Visited'
      BY <1>8 DEF BackendInv, Visited, BackendTypes, Processes, Asked, Backend!Listed, Services,
         Backend!Ready, Backend!Goto, Backend!Status, Backend!records, Backend!world,
         Backend!migration
    <2>8. QED
      BY <2>1, <2>2, <2>3, <2>4, <2>5, <2>6, <2>7 DEF BackendInv
  <1>9. ASSUME NEW p \in Backend!Agents, Backend!Commit(p)
        PROVE  BackendInv'
    <2>1. BackendTypes'
      BY <1>9 DEF BackendInv, BackendTypes, Processes, Services, BackendPoints, Backend!Commit,
         Backend!Goto, Backend!records, Backend!world, Backend!migration
    <2>2. Holding'
      BY <1>9 DEF BackendInv, Holding, BackendTypes, Processes, Preparing, Finishing,
         Backend!Commit, Backend!Goto, Backend!records, Backend!world, Backend!migration
    <2>3. Prepared'
      BY <1>9 DEF BackendInv, Prepared, BackendTypes, Processes, Preparing, Finishing, Holding,
         Services, Renames, Renamings, Backend!Commit, Backend!Goto, Backend!records,
         Backend!world, Backend!migration
    <2>4. Renames'
      BY <1>9 DEF BackendInv, Renames, BackendTypes, Processes, Renamings, Finishing, Preparing,
         Prepared, Holding, Services, Backend!Commit, Backend!Goto, Backend!records, Backend!world,
         Backend!migration
    <2>5. Backend!OneBackend'
      BY <1>9 DEF BackendInv, Backend!OneBackend, BackendTypes, Processes, Services, Prepared,
         Renames, Preparing, Finishing, Backend!Commit, Backend!Goto, Backend!records,
         Backend!world, Backend!migration
    <2>6. Asked'
      BY <1>9 DEF BackendInv, Asked, BackendTypes, Processes, BackendOps, Backend!Commit,
         Backend!Goto, Backend!records, Backend!world, Backend!migration
    <2>7. Visited'
      BY <1>9 DEF BackendInv, Visited, BackendTypes, Processes, Asked, Backend!Listed, Services,
         Backend!Commit, Backend!Goto, Backend!records, Backend!world, Backend!migration
    <2>8. QED
      BY <2>1, <2>2, <2>3, <2>4, <2>5, <2>6, <2>7 DEF BackendInv
  <1>10. ASSUME NEW p \in Backend!Agents, Backend!Clear(p)
        PROVE  BackendInv'
    <2>1. BackendTypes'
      BY <1>10 DEF BackendInv, BackendTypes, Processes, Services, BackendPoints, Backend!Clear,
         Backend!Goto, Backend!records, Backend!world, Backend!migration
    <2>2. Holding'
      BY <1>10 DEF BackendInv, Holding, BackendTypes, Processes, Preparing, Finishing,
         Backend!Clear, Backend!Goto, Backend!records, Backend!world, Backend!migration
    <2>3. Prepared'
      BY <1>10 DEF BackendInv, Prepared, BackendTypes, Processes, Preparing, Finishing, Holding,
         Services, Renames, Renamings, Backend!Clear, Backend!Goto, Backend!records, Backend!world,
         Backend!migration
    <2>4. Renames'
      BY <1>10 DEF BackendInv, Renames, BackendTypes, Processes, Renamings, Finishing,
         Preparing, Prepared, Holding, Services, Backend!Clear, Backend!Goto, Backend!records,
         Backend!world, Backend!migration
    <2>5. Backend!OneBackend'
      BY <1>10 DEF BackendInv, Backend!OneBackend, BackendTypes, Processes, Services, Prepared,
         Renames, Preparing, Finishing, Backend!Clear, Backend!Goto, Backend!records,
         Backend!world, Backend!migration
    <2>6. Asked'
      BY <1>10 DEF BackendInv, Asked, BackendTypes, Processes, BackendOps, Backend!Clear,
         Backend!Goto, Backend!records, Backend!world, Backend!migration
    <2>7. Visited'
      BY <1>10 DEF BackendInv, Visited, BackendTypes, Processes, Asked, Backend!Listed,
         Services, Backend!Clear, Backend!Goto, Backend!records, Backend!world, Backend!migration
    <2>8. QED
      BY <2>1, <2>2, <2>3, <2>4, <2>5, <2>6, <2>7 DEF BackendInv
  <1>11. ASSUME NEW p \in Backend!Agents, Backend!Recovered(p)
        PROVE  BackendInv'
    <2>1. BackendTypes'
      BY <1>11 DEF BackendInv, BackendTypes, Processes, Services, BackendPoints,
         Backend!Recovered, Backend!Done, Backend!Goto, Backend!Free, Backend!NoProc,
         Backend!records, Backend!world, Backend!migration
    <2>2. Holding'
      BY <1>11 DEF BackendInv, Holding, BackendTypes, Processes, Preparing, Finishing,
         Backend!Recovered, Backend!Done, Backend!Goto, Backend!Free, Backend!NoProc,
         Backend!records, Backend!world, Backend!migration
    <2>3. Prepared'
      BY <1>11 DEF BackendInv, Prepared, BackendTypes, Processes, Preparing, Finishing, Holding,
         Services, Renames, Renamings, Backend!Recovered, Backend!Done, Backend!Goto, Backend!Free,
         Backend!NoProc, Backend!records, Backend!world, Backend!migration
    <2>4. Renames'
      BY <1>11 DEF BackendInv, Renames, BackendTypes, Processes, Renamings, Finishing,
         Preparing, Prepared, Holding, Services, Backend!Recovered, Backend!Done, Backend!Goto,
         Backend!Free, Backend!NoProc, Backend!records, Backend!world, Backend!migration
    <2>5. Backend!OneBackend'
      BY <1>11 DEF BackendInv, Backend!OneBackend, BackendTypes, Processes, Services, Prepared,
         Renames, Preparing, Finishing, Backend!Recovered, Backend!Done, Backend!Goto,
         Backend!Free, Backend!NoProc, Backend!records, Backend!world, Backend!migration
    <2>6. Asked'
      BY <1>11 DEF BackendInv, Asked, BackendTypes, Processes, BackendOps, Backend!Recovered,
         Backend!Done, Backend!Goto, Backend!Free, Backend!NoProc, Backend!records, Backend!world,
         Backend!migration
    <2>7. Visited'
      BY <1>11 DEF BackendInv, Visited, BackendTypes, Processes, Asked, Backend!Listed,
         Services, Backend!Recovered, Backend!Done, Backend!Goto, Backend!Free, Backend!NoProc,
         Backend!records, Backend!world, Backend!migration
    <2>8. QED
      BY <2>1, <2>2, <2>3, <2>4, <2>5, <2>6, <2>7 DEF BackendInv
  <1>12. ASSUME NEW p \in Backend!Agents, Backend!Register(p)
        PROVE  BackendInv'
    <2>1. BackendTypes'
      BY <1>12 DEF BackendInv, BackendTypes, Processes, Services, BackendPoints,
         Backend!Register, Backend!Done, Backend!Goto, Backend!Free, Backend!NoProc,
         Backend!records, Backend!world, Backend!migration
    <2>2. Holding'
      BY <1>12 DEF BackendInv, Holding, BackendTypes, Processes, Preparing, Finishing,
         Backend!Register, Backend!Done, Backend!Goto, Backend!Free, Backend!NoProc,
         Backend!records, Backend!world, Backend!migration
    <2>3. Prepared'
      BY <1>12 DEF BackendInv, Prepared, BackendTypes, Processes, Preparing, Finishing, Holding,
         Services, Renames, Renamings, Backend!Register, Backend!Done, Backend!Goto, Backend!Free,
         Backend!NoProc, Backend!records, Backend!world, Backend!migration
    <2>4. Renames'
      BY <1>12 DEF BackendInv, Renames, BackendTypes, Processes, Renamings, Finishing,
         Preparing, Prepared, Holding, Services, Backend!Register, Backend!Done, Backend!Goto,
         Backend!Free, Backend!NoProc, Backend!records, Backend!world, Backend!migration
    <2>5. Backend!OneBackend'
      BY <1>12 DEF BackendInv, Backend!OneBackend, BackendTypes, Processes, Services, Prepared,
         Renames, Preparing, Finishing, Backend!Register, Backend!Done, Backend!Goto, Backend!Free,
         Backend!NoProc, Backend!records, Backend!world, Backend!migration
    <2>6. Asked'
      BY <1>12 DEF BackendInv, Asked, BackendTypes, Processes, BackendOps, Backend!Register,
         Backend!Done, Backend!Goto, Backend!Free, Backend!NoProc, Backend!records, Backend!world,
         Backend!migration
    <2>7. Visited'
      BY <1>12 DEF BackendInv, Visited, BackendTypes, Processes, Asked, Backend!Listed,
         Services, Backend!Register, Backend!Done, Backend!Goto, Backend!Free, Backend!NoProc,
         Backend!records, Backend!world, Backend!migration
    <2>8. QED
      BY <2>1, <2>2, <2>3, <2>4, <2>5, <2>6, <2>7 DEF BackendInv
  <1>13. ASSUME NEW p \in Backend!Agents, Backend!Rename(p)
        PROVE  BackendInv'
    <2>1. BackendTypes'
      <3>1. renaming' \in Renamings
        BY <1>13, RenameTyped
      <3>2. restart' \in [Backend!Agents -> Processes]
        BY <1>13 DEF BackendInv, BackendTypes, Processes, BackendPoints, Backend!Rename,
           Backend!Goto
      <3>3. QED
        BY <1>13, <3>1, <3>2 DEF BackendInv, BackendTypes, Backend!Rename, Backend!world,
           Backend!migration
    <2>2. Holding'
      BY <1>13 DEF BackendInv, Holding, BackendTypes, Processes, Preparing, Finishing,
         Backend!Rename, Backend!Goto, Backend!Acquire, Backend!Status, Backend!records,
         Backend!world, Backend!migration
    <2>3. Prepared'
      BY <1>13 DEF BackendInv, Prepared, BackendTypes, Processes, Preparing, Finishing, Holding,
         Services, Renames, Renamings, Backend!Rename, Backend!Goto, Backend!Acquire,
         Backend!Status, Backend!records, Backend!world, Backend!migration
    <2>4. Renames'
      <3>1. renaming' \in Renamings /\ renaming' # None
        BY <1>13, RenameTyped
      <3>2. owner \in {renaming'.from, renaming'.to} /\ UNCHANGED <<owner, prepared, containers>>
            /\ prepared = None /\ ownerLock = None
        BY <1>13 DEF Backend!Rename, Backend!world, Backend!Acquire
      <3>3. restart'[p].pc = "finish" /\ \A q \in Backend!Agents \ {p} : restart'[q] = restart[q]
        BY <1>13 DEF BackendInv, BackendTypes, Processes, Backend!Rename, Backend!Goto
      <3>4. \A q \in Backend!Agents : restart[q].pc \notin Finishing
        BY <3>2 DEF BackendInv, Holding
      <3>5. QED
        BY <3>1, <3>2, <3>3, <3>4 DEF BackendInv, Renames, Finishing
    <2>5. Backend!OneBackend'
      BY <1>13 DEF BackendInv, Backend!OneBackend, BackendTypes, Processes, Services, Prepared,
         Renames, Preparing, Finishing, Backend!Rename, Backend!Goto, Backend!Acquire,
         Backend!Status, Backend!records, Backend!world, Backend!migration
    <2>6. Asked'
      BY <1>13 DEF BackendInv, Asked, BackendTypes, Processes, BackendOps, Backend!Rename,
         Backend!Goto, Backend!Acquire, Backend!Status, Backend!records, Backend!world,
         Backend!migration
    <2>7. Visited'
      BY <1>13 DEF BackendInv, Visited, BackendTypes, Processes, Asked, Backend!Listed,
         Services, Backend!Rename, Backend!Goto, Backend!Acquire, Backend!Status, Backend!records,
         Backend!world, Backend!migration
    <2>8. QED
      BY <2>1, <2>2, <2>3, <2>4, <2>5, <2>6, <2>7 DEF BackendInv
  <1>14. ASSUME NEW p \in Backend!Agents, Backend!Finish(p)
        PROVE  BackendInv'
    <2>1. BackendTypes'
      BY <1>14 DEF BackendInv, BackendTypes, Processes, Services, BackendPoints, Backend!Finish,
         Backend!Goto, Backend!Status, Backend!Is, Backend!records, Backend!world,
         Backend!migration
    <2>2. Holding'
      BY <1>14 DEF BackendInv, Holding, BackendTypes, Processes, Preparing, Finishing,
         Backend!Finish, Backend!Goto, Backend!Status, Backend!Is, Backend!records, Backend!world,
         Backend!migration
    <2>3. Prepared'
      BY <1>14 DEF BackendInv, Prepared, BackendTypes, Processes, Preparing, Finishing, Holding,
         Services, Renames, Renamings, Backend!Finish, Backend!Goto, Backend!Status, Backend!Is,
         Backend!records, Backend!world, Backend!migration
    <2>4. Renames'
      BY <1>14 DEF BackendInv, Renames, BackendTypes, Processes, Renamings, Finishing,
         Preparing, Prepared, Holding, Services, Backend!Finish, Backend!Goto, Backend!Status,
         Backend!Is, Backend!records, Backend!world, Backend!migration
    <2>5. Backend!OneBackend'
      BY <1>14 DEF BackendInv, Backend!OneBackend, BackendTypes, Processes, Services, Prepared,
         Renames, Preparing, Finishing, Backend!Finish, Backend!Goto, Backend!Status, Backend!Is,
         Backend!records, Backend!world, Backend!migration
    <2>6. Asked'
      BY <1>14 DEF BackendInv, Asked, BackendTypes, Processes, BackendOps, Backend!Finish,
         Backend!Goto, Backend!Status, Backend!Is, Backend!records, Backend!world,
         Backend!migration
    <2>7. Visited'
      BY <1>14 DEF BackendInv, Visited, BackendTypes, Processes, Asked, Backend!Listed,
         Services, Backend!Finish, Backend!Goto, Backend!Status, Backend!Is, Backend!records,
         Backend!world, Backend!migration
    <2>8. QED
      BY <2>1, <2>2, <2>3, <2>4, <2>5, <2>6, <2>7 DEF BackendInv
  <1>15. ASSUME NEW p \in Backend!Agents, Backend!RenameContainer(p)
        PROVE  BackendInv'
    <2>1. BackendTypes'
      <3>1. containers' \in [Services -> Cells \cup {None}]
        <4>1. /\ renaming \in Renamings
              /\ containers' = [containers EXCEPT ![renaming.to] = containers[renaming.from],
                                                  ![renaming.from] = None]
          BY <1>15 DEF BackendInv, BackendTypes, Renames, Finishing, Backend!RenameContainer,
             Backend!Goto
        <4>2. QED
          BY <4>1 DEF BackendInv, BackendTypes, Renamings, Services
      <3>2. UNCHANGED <<owner, prepared, renaming, cutover>>
        BY <1>15 DEF Backend!RenameContainer, Backend!Goto, Backend!Status, Backend!records,
           Backend!world, Backend!migration
      <3>3. restart' \in [Backend!Agents -> Processes]
        BY <1>15 DEF BackendInv, BackendTypes, Processes, BackendPoints,
           Backend!RenameContainer, Backend!Goto, Backend!Status, Backend!records, Backend!world,
           Backend!migration
      <3>4. QED
        BY <3>1, <3>2, <3>3 DEF BackendInv, BackendTypes
    <2>2. Holding'
      BY <1>15 DEF BackendInv, Holding, BackendTypes, Processes, Preparing, Finishing,
         Backend!RenameContainer, Backend!Goto, Backend!Status, Backend!records, Backend!world,
         Backend!migration
    <2>3. Prepared'
      BY <1>15 DEF BackendInv, Prepared, BackendTypes, Processes, Preparing, Finishing, Holding,
         Services, Renames, Renamings, Backend!RenameContainer, Backend!Goto, Backend!Status,
         Backend!records, Backend!world, Backend!migration
    <2>4. Renames'
      BY <1>15 DEF BackendInv, Renames, BackendTypes, Processes, Renamings, Finishing,
         Preparing, Prepared, Holding, Services, Backend!RenameContainer, Backend!Goto,
         Backend!Status, Backend!records, Backend!world, Backend!migration
    <2>5. Backend!OneBackend'
      BY <1>15 DEF BackendInv, Backend!OneBackend, BackendTypes, Processes, Services, Prepared,
         Renames, Preparing, Finishing, Backend!RenameContainer, Backend!Goto, Backend!Status,
         Backend!records, Backend!world, Backend!migration
    <2>6. Asked'
      BY <1>15 DEF BackendInv, Asked, BackendTypes, Processes, BackendOps,
         Backend!RenameContainer, Backend!Goto, Backend!Status, Backend!records, Backend!world,
         Backend!migration
    <2>7. Visited'
      BY <1>15 DEF BackendInv, Visited, BackendTypes, Processes, Asked, Backend!Listed,
         Services, Backend!RenameContainer, Backend!Goto, Backend!Status, Backend!records,
         Backend!world, Backend!migration
    <2>8. QED
      BY <2>1, <2>2, <2>3, <2>4, <2>5, <2>6, <2>7 DEF BackendInv
  <1>16. ASSUME NEW p \in Backend!Agents, Backend!Renamed(p)
        PROVE  BackendInv'
    <2>1. BackendTypes'
      BY <1>16 DEF BackendInv, BackendTypes, Processes, Services, BackendPoints,
         Backend!Renamed, Backend!Goto, Backend!Status, Backend!Is, Backend!records, Backend!world,
         Backend!migration
    <2>2. Holding'
      BY <1>16 DEF BackendInv, Holding, BackendTypes, Processes, Preparing, Finishing,
         Backend!Renamed, Backend!Goto, Backend!Status, Backend!Is, Backend!records, Backend!world,
         Backend!migration
    <2>3. Prepared'
      BY <1>16 DEF BackendInv, Prepared, BackendTypes, Processes, Preparing, Finishing, Holding,
         Services, Renames, Renamings, Backend!Renamed, Backend!Goto, Backend!Status, Backend!Is,
         Backend!records, Backend!world, Backend!migration
    <2>4. Renames'
      BY <1>16 DEF BackendInv, Renames, BackendTypes, Processes, Renamings, Finishing,
         Preparing, Prepared, Holding, Services, Backend!Renamed, Backend!Goto, Backend!Status,
         Backend!Is, Backend!records, Backend!world, Backend!migration
    <2>5. Backend!OneBackend'
      BY <1>16 DEF BackendInv, Backend!OneBackend, BackendTypes, Processes, Services, Prepared,
         Renames, Preparing, Finishing, Backend!Renamed, Backend!Goto, Backend!Status, Backend!Is,
         Backend!records, Backend!world, Backend!migration
    <2>6. Asked'
      BY <1>16 DEF BackendInv, Asked, BackendTypes, Processes, BackendOps, Backend!Renamed,
         Backend!Goto, Backend!Status, Backend!Is, Backend!records, Backend!world,
         Backend!migration
    <2>7. Visited'
      BY <1>16 DEF BackendInv, Visited, BackendTypes, Processes, Asked, Backend!Listed,
         Services, Backend!Renamed, Backend!Goto, Backend!Status, Backend!Is, Backend!records,
         Backend!world, Backend!migration
    <2>8. QED
      BY <2>1, <2>2, <2>3, <2>4, <2>5, <2>6, <2>7 DEF BackendInv
  <1>17. ASSUME NEW p \in Backend!Agents, Backend!Persist(p)
        PROVE  BackendInv'
    <2>1. BackendTypes'
      <3>1. owner' \in Hosts
        BY <1>17 DEF BackendInv, BackendTypes, Renames, Renamings, Finishing, Backend!Persist,
           Backend!Goto
      <3>2. restart' \in [Backend!Agents -> Processes]
        BY <1>17 DEF BackendInv, BackendTypes, Processes, BackendPoints, Backend!Persist,
           Backend!Goto
      <3>3. QED
        BY <1>17, <3>1, <3>2 DEF BackendInv, BackendTypes, Backend!Persist, Backend!world,
           Backend!migration
    <2>2. Holding'
      BY <1>17 DEF BackendInv, Holding, BackendTypes, Processes, Preparing, Finishing,
         Backend!Persist, Backend!Goto, Backend!records, Backend!world, Backend!migration
    <2>3. Prepared'
      BY <1>17 DEF BackendInv, Prepared, BackendTypes, Processes, Preparing, Finishing, Holding,
         Services, Renames, Renamings, Backend!Persist, Backend!Goto, Backend!records,
         Backend!world, Backend!migration
    <2>4. Renames'
      BY <1>17 DEF BackendInv, Renames, BackendTypes, Processes, Renamings, Finishing,
         Preparing, Prepared, Holding, Services, Backend!Persist, Backend!Goto, Backend!records,
         Backend!world, Backend!migration
    <2>5. Backend!OneBackend'
      BY <1>17 DEF BackendInv, Backend!OneBackend, BackendTypes, Processes, Services, Prepared,
         Renames, Preparing, Finishing, Backend!Persist, Backend!Goto, Backend!records,
         Backend!world, Backend!migration
    <2>6. Asked'
      BY <1>17 DEF BackendInv, Asked, BackendTypes, Processes, BackendOps, Backend!Persist,
         Backend!Goto, Backend!records, Backend!world, Backend!migration
    <2>7. Visited'
      BY <1>17 DEF BackendInv, Visited, BackendTypes, Processes, Asked, Backend!Listed,
         Services, Backend!Persist, Backend!Goto, Backend!records, Backend!world, Backend!migration
    <2>8. QED
      BY <2>1, <2>2, <2>3, <2>4, <2>5, <2>6, <2>7 DEF BackendInv
  <1>18. ASSUME NEW p \in Backend!Agents, Backend!Unfence(p)
        PROVE  BackendInv'
    <2>1. BackendTypes'
      BY <1>18 DEF BackendInv, BackendTypes, Processes, Services, BackendPoints,
         Backend!Unfence, Backend!Done, Backend!Free, Backend!NoProc, Backend!records,
         Backend!world, Backend!migration
    <2>2. Holding'
      BY <1>18 DEF BackendInv, Holding, BackendTypes, Processes, Preparing, Finishing,
         Backend!Unfence, Backend!Done, Backend!Free, Backend!NoProc, Backend!records,
         Backend!world, Backend!migration
    <2>3. Prepared'
      BY <1>18 DEF BackendInv, Prepared, BackendTypes, Processes, Preparing, Finishing, Holding,
         Services, Renames, Renamings, Backend!Unfence, Backend!Done, Backend!Free, Backend!NoProc,
         Backend!records, Backend!world, Backend!migration
    <2>4. Renames'
      BY <1>18 DEF BackendInv, Renames, BackendTypes, Processes, Renamings, Finishing,
         Preparing, Prepared, Holding, Services, Backend!Unfence, Backend!Done, Backend!Free,
         Backend!NoProc, Backend!records, Backend!world, Backend!migration
    <2>5. Backend!OneBackend'
      BY <1>18 DEF BackendInv, Backend!OneBackend, BackendTypes, Processes, Services, Prepared,
         Renames, Preparing, Finishing, Backend!Unfence, Backend!Done, Backend!Free,
         Backend!NoProc, Backend!records, Backend!world, Backend!migration
    <2>6. Asked'
      BY <1>18 DEF BackendInv, Asked, BackendTypes, Processes, BackendOps, Backend!Unfence,
         Backend!Done, Backend!Free, Backend!NoProc, Backend!records, Backend!world,
         Backend!migration
    <2>7. Visited'
      BY <1>18 DEF BackendInv, Visited, BackendTypes, Processes, Asked, Backend!Listed,
         Services, Backend!Unfence, Backend!Done, Backend!Free, Backend!NoProc, Backend!records,
         Backend!world, Backend!migration
    <2>8. QED
      BY <2>1, <2>2, <2>3, <2>4, <2>5, <2>6, <2>7 DEF BackendInv
  <1>19. ASSUME NEW p \in Backend!Agents, Backend!Prepare(p)
        PROVE  BackendInv'
    <2>1. BackendTypes'
      <3>1. Backend!Inventory \in [Services -> Identities \cup {None}]
        BY DEF BackendInv, BackendTypes, Cells, Backend!Inventory
      <3>2. cutover' \in Cutovers \cup {None}
        <4>1. [entries |-> Backend!Inventory, authorized |-> FALSE] \in Cutovers
          BY <3>1 DEF Cutovers
        <4>2. cutover' = cutover \/ cutover' = [entries |-> Backend!Inventory,
                                                authorized |-> FALSE]
          BY <1>19 DEF Backend!Prepare
        <4>3. QED
          BY <4>1, <4>2 DEF BackendInv, BackendTypes
      <3>3. UNCHANGED <<owner, prepared, renaming, containers>>
        BY <1>19 DEF Backend!Prepare, Backend!Done, Backend!NoProc, Backend!Alone,
           Backend!Inventory, Backend!records, Backend!world, Backend!migration
      <3>4. restart' \in [Backend!Agents -> Processes]
        BY <1>19 DEF BackendInv, BackendTypes, Processes, BackendPoints, Backend!Prepare,
           Backend!Done, Backend!NoProc
      <3>5. QED
        BY <3>2, <3>3, <3>4 DEF BackendInv, BackendTypes
    <2>2. Holding'
      BY <1>19 DEF BackendInv, Holding, BackendTypes, Processes, Preparing, Finishing,
         Backend!Prepare, Backend!Done, Backend!NoProc, Backend!Alone, Backend!Inventory,
         Backend!records, Backend!world, Backend!migration
    <2>3. Prepared'
      BY <1>19 DEF BackendInv, Prepared, BackendTypes, Processes, Preparing, Finishing, Holding,
         Services, Renames, Renamings, Backend!Prepare, Backend!Done, Backend!NoProc,
         Backend!Alone, Backend!Inventory, Backend!records, Backend!world, Backend!migration
    <2>4. Renames'
      BY <1>19 DEF BackendInv, Renames, BackendTypes, Processes, Renamings, Finishing,
         Preparing, Prepared, Holding, Services, Backend!Prepare, Backend!Done, Backend!NoProc,
         Backend!Alone, Backend!Inventory, Backend!records, Backend!world, Backend!migration
    <2>5. Backend!OneBackend'
      BY <1>19 DEF BackendInv, Backend!OneBackend, BackendTypes, Processes, Services, Prepared,
         Renames, Preparing, Finishing, Backend!Prepare, Backend!Done, Backend!NoProc,
         Backend!Alone, Backend!Inventory, Backend!records, Backend!world, Backend!migration
    <2>6. Asked'
      BY <1>19 DEF BackendInv, Asked, BackendTypes, Processes, BackendOps, Backend!Prepare,
         Backend!Done, Backend!NoProc, Backend!Alone, Backend!Inventory, Backend!records,
         Backend!world, Backend!migration
    <2>7. Visited'
      BY <1>19 DEF BackendInv, Visited, BackendTypes, Processes, Asked, Backend!Listed,
         Services, Backend!Prepare, Backend!Done, Backend!NoProc, Backend!Alone, Backend!Inventory,
         Backend!records, Backend!world, Backend!migration
    <2>8. QED
      BY <2>1, <2>2, <2>3, <2>4, <2>5, <2>6, <2>7 DEF BackendInv
  <1>20. ASSUME NEW p \in Backend!Agents, Backend!Quiesced(p)
        PROVE  BackendInv'
    <2>1. BackendTypes'
      BY <1>20, MigrationBegins DEF BackendInv, BackendTypes
    <2>2. Holding'
      BY <1>20, MigrationBegins DEF BackendInv, Holding, Preparing, Finishing
    <2>3. Prepared'
      BY <1>20, MigrationBegins DEF BackendInv, Prepared, Preparing, Finishing
    <2>4. Renames'
      BY <1>20, MigrationBegins DEF BackendInv, Renames, Preparing, Finishing
    <2>5. Backend!OneBackend'
      BY <1>20 DEF BackendInv, Backend!OneBackend, BackendTypes, Processes, Services, Prepared,
         Renames, Preparing, Finishing, Backend!Quiesced, Backend!Alone, Backend!AdmitCutover,
         Backend!Listed, Backend!records, Backend!world, Backend!migration
    <2>6. Asked'
      BY <1>20, MigrationBegins DEF BackendInv, Asked, Preparing, Finishing
    <2>7. Visited'
      <3>1. restart[p].workspace = None
        BY <1>20, MigrationBegins DEF BackendInv, Asked
      <3>2. restart'[p].pc \in {"lock", "next"} /\ restart'[p].workspace = None
            /\ restart'[p].todo = Backend!Listed'
        BY <1>20, <3>1, MigrationBegins
      <3>3. \A q \in Backend!Agents \ {p} : restart'[q].op # "migrate"
        BY <1>20, MigrationBegins
      <3>4. QED
        BY <3>2, <3>3 DEF Visited
    <2>8. QED
      BY <2>1, <2>2, <2>3, <2>4, <2>5, <2>6, <2>7 DEF BackendInv
  <1>21. ASSUME NEW p \in Backend!Agents, Backend!Turn(p)
        PROVE  BackendInv'
    <2>1. BackendTypes'
      BY <1>21 DEF BackendInv, BackendTypes, Processes, Services, BackendPoints, Backend!Turn,
         Backend!records, Backend!world, Backend!migration
    <2>2. Holding'
      BY <1>21 DEF BackendInv, Holding, BackendTypes, Processes, Preparing, Finishing,
         Backend!Turn, Backend!records, Backend!world, Backend!migration
    <2>3. Prepared'
      BY <1>21 DEF BackendInv, Prepared, BackendTypes, Processes, Preparing, Finishing, Holding,
         Services, Renames, Renamings, Backend!Turn, Backend!records, Backend!world,
         Backend!migration
    <2>4. Renames'
      BY <1>21 DEF BackendInv, Renames, BackendTypes, Processes, Renamings, Finishing,
         Preparing, Prepared, Holding, Services, Backend!Turn, Backend!records, Backend!world,
         Backend!migration
    <2>5. Backend!OneBackend'
      BY <1>21 DEF BackendInv, Backend!OneBackend, BackendTypes, Processes, Services, Prepared,
         Renames, Preparing, Finishing, Backend!Turn, Backend!records, Backend!world,
         Backend!migration
    <2>6. Asked'
      BY <1>21 DEF BackendInv, Asked, BackendTypes, Processes, BackendOps, Backend!Turn,
         Backend!records, Backend!world, Backend!migration
    <2>7. Visited'
      BY <1>21 DEF BackendInv, Visited, BackendTypes, Processes, Asked, Backend!Listed,
         Services, Backend!Turn, Backend!records, Backend!world, Backend!migration
    <2>8. QED
      BY <2>1, <2>2, <2>3, <2>4, <2>5, <2>6, <2>7 DEF BackendInv
  <1>22. ASSUME NEW p \in Backend!Agents, Backend!Verify(p)
        PROVE  BackendInv'
    <2>1. BackendTypes'
      <3>1. containers' \in [Services -> Cells \cup {None}]
        BY <1>22 DEF BackendInv, BackendTypes, Backend!Verify, Backend!world
      <3>2. UNCHANGED <<owner, prepared, renaming, cutover>>
        BY <1>22 DEF Backend!Verify, Backend!records, Backend!world, Backend!migration
      <3>3. restart' \in [Backend!Agents -> Processes]
        <4> DEFINE s == [[restart[p] EXCEPT !.pc = "next"] EXCEPT !.workspace = None]
        <4>1. restart[p] \in Processes
          BY DEF BackendInv, BackendTypes
        <4>2. s \in Processes
          BY <4>1 DEF Processes, BackendPoints
        <4>3. restart' = [restart EXCEPT ![p] = s]
          BY <1>22 DEF Backend!Verify
        <4> HIDE DEF s
        <4>4. QED
          BY <4>2, <4>3 DEF BackendInv, BackendTypes
      <3>4. QED
        BY <3>1, <3>2, <3>3 DEF BackendInv, BackendTypes
    <2>2. Holding'
      BY <1>22 DEF BackendInv, Holding, BackendTypes, Processes, Preparing, Finishing,
         Backend!Verify, Backend!records, Backend!world, Backend!migration
    <2>3. Prepared'
      BY <1>22 DEF BackendInv, Prepared, BackendTypes, Processes, Preparing, Finishing, Holding,
         Services, Renames, Renamings, Backend!Verify, Backend!records, Backend!world,
         Backend!migration
    <2>4. Renames'
      BY <1>22 DEF BackendInv, Renames, BackendTypes, Processes, Renamings, Finishing,
         Preparing, Prepared, Holding, Services, Backend!Verify, Backend!records, Backend!world,
         Backend!migration
    <2>5. Backend!OneBackend'
      BY <1>22 DEF BackendInv, Backend!OneBackend, BackendTypes, Processes, Services, Prepared,
         Renames, Preparing, Finishing, Backend!Verify, Backend!records, Backend!world,
         Backend!migration
    <2>6. Asked'
      BY <1>22 DEF BackendInv, Asked, BackendTypes, Processes, BackendOps, Backend!Verify,
         Backend!records, Backend!world, Backend!migration
    <2>7. Visited'
      BY <1>22 DEF BackendInv, Visited, BackendTypes, Processes, Asked, Backend!Listed,
         Services, Backend!Verify, Backend!records, Backend!world, Backend!migration
    <2>8. QED
      BY <2>1, <2>2, <2>3, <2>4, <2>5, <2>6, <2>7 DEF BackendInv
  <1>23. ASSUME NEW p \in Backend!Agents, Backend!Verified(p)
        PROVE  BackendInv'
    <2>1. BackendTypes'
      BY <1>23 DEF BackendInv, BackendTypes, Processes, Services, BackendPoints,
         Backend!Verified, Backend!Goto, Backend!records, Backend!world, Backend!migration
    <2>2. Holding'
      BY <1>23 DEF BackendInv, Holding, BackendTypes, Processes, Preparing, Finishing,
         Backend!Verified, Backend!Goto, Backend!records, Backend!world, Backend!migration
    <2>3. Prepared'
      BY <1>23 DEF BackendInv, Prepared, BackendTypes, Processes, Preparing, Finishing, Holding,
         Services, Renames, Renamings, Backend!Verified, Backend!Goto, Backend!records,
         Backend!world, Backend!migration
    <2>4. Renames'
      BY <1>23 DEF BackendInv, Renames, BackendTypes, Processes, Renamings, Finishing,
         Preparing, Prepared, Holding, Services, Backend!Verified, Backend!Goto, Backend!records,
         Backend!world, Backend!migration
    <2>5. Backend!OneBackend'
      BY <1>23 DEF BackendInv, Backend!OneBackend, BackendTypes, Processes, Services, Prepared,
         Renames, Preparing, Finishing, Backend!Verified, Backend!Goto, Backend!records,
         Backend!world, Backend!migration
    <2>6. Asked'
      BY <1>23 DEF BackendInv, Asked, BackendTypes, Processes, BackendOps, Backend!Verified,
         Backend!Goto, Backend!records, Backend!world, Backend!migration
    <2>7. Visited'
      BY <1>23 DEF BackendInv, Visited, BackendTypes, Processes, Asked, Backend!Listed,
         Services, Backend!Verified, Backend!Goto, Backend!records, Backend!world,
         Backend!migration
    <2>8. QED
      BY <2>1, <2>2, <2>3, <2>4, <2>5, <2>6, <2>7 DEF BackendInv
  <1>24. ASSUME NEW n \in DOMAIN containers, Backend!Stop(n)
        PROVE  BackendInv'
    <2>1. BackendTypes'
      <3>1. containers' \in [Services -> Cells \cup {None}]
        <4> DEFINE x == [containers[n] EXCEPT !.running = FALSE]
        <4>1. n \in Services /\ containers[n] # None
          BY <1>24 DEF BackendInv, BackendTypes, Backend!Stop, Backend!Status
        <4>2. x \in Cells
          BY <4>1, CellRuns DEF BackendInv
        <4>3. containers' = [containers EXCEPT ![n] = x]
          BY <1>24 DEF Backend!Stop
        <4> HIDE DEF x
        <4>4. QED
          BY <4>2, <4>3 DEF BackendInv, BackendTypes
      <3>2. UNCHANGED <<owner, prepared, renaming, cutover>>
        BY <1>24 DEF Backend!Stop, Backend!Status, Backend!records, Backend!world,
           Backend!migration
      <3>3. restart' \in [Backend!Agents -> Processes]
        BY <1>24 DEF BackendInv, BackendTypes, Processes, BackendPoints, Backend!Stop,
           Backend!Status, Backend!records, Backend!world, Backend!migration
      <3>4. QED
        BY <3>1, <3>2, <3>3 DEF BackendInv, BackendTypes
    <2>2. Holding'
      BY <1>24 DEF BackendInv, Holding, BackendTypes, Processes, Preparing, Finishing,
         Backend!Stop, Backend!Status, Backend!records, Backend!world, Backend!migration
    <2>3. Prepared'
      BY <1>24 DEF BackendInv, Prepared, BackendTypes, Processes, Preparing, Finishing, Holding,
         Services, Renames, Renamings, Backend!Stop, Backend!Status, Backend!records,
         Backend!world, Backend!migration
    <2>4. Renames'
      BY <1>24 DEF BackendInv, Renames, BackendTypes, Processes, Renamings, Finishing,
         Preparing, Prepared, Holding, Services, Backend!Stop, Backend!Status, Backend!records,
         Backend!world, Backend!migration
    <2>5. Backend!OneBackend'
      BY <1>24 DEF BackendInv, Backend!OneBackend, BackendTypes, Processes, Services, Prepared,
         Renames, Preparing, Finishing, Backend!Stop, Backend!Status, Backend!records,
         Backend!world, Backend!migration
    <2>6. Asked'
      BY <1>24 DEF BackendInv, Asked, BackendTypes, Processes, BackendOps, Backend!Stop,
         Backend!Status, Backend!records, Backend!world, Backend!migration
    <2>7. Visited'
      BY <1>24 DEF BackendInv, Visited, BackendTypes, Processes, Asked, Backend!Listed,
         Services, Backend!Stop, Backend!Status, Backend!records, Backend!world, Backend!migration
    <2>8. QED
      BY <2>1, <2>2, <2>3, <2>4, <2>5, <2>6, <2>7 DEF BackendInv
  <1>25. ASSUME NEW n \in DOMAIN containers, Backend!Remove(n)
        PROVE  BackendInv'
    <2>1. BackendTypes'
      BY <1>25 DEF BackendInv, BackendTypes, Processes, Services, BackendPoints, Backend!Remove,
         Backend!Status, Backend!records, Backend!world, Backend!migration
    <2>2. Holding'
      BY <1>25 DEF BackendInv, Holding, BackendTypes, Processes, Preparing, Finishing,
         Backend!Remove, Backend!Status, Backend!records, Backend!world, Backend!migration
    <2>3. Prepared'
      BY <1>25 DEF BackendInv, Prepared, BackendTypes, Processes, Preparing, Finishing, Holding,
         Services, Renames, Renamings, Backend!Remove, Backend!Status, Backend!records,
         Backend!world, Backend!migration
    <2>4. Renames'
      BY <1>25 DEF BackendInv, Renames, BackendTypes, Processes, Renamings, Finishing,
         Preparing, Prepared, Holding, Services, Backend!Remove, Backend!Status, Backend!records,
         Backend!world, Backend!migration
    <2>5. Backend!OneBackend'
      BY <1>25 DEF BackendInv, Backend!OneBackend, BackendTypes, Processes, Services, Prepared,
         Renames, Preparing, Finishing, Backend!Remove, Backend!Status, Backend!records,
         Backend!world, Backend!migration
    <2>6. Asked'
      BY <1>25 DEF BackendInv, Asked, BackendTypes, Processes, BackendOps, Backend!Remove,
         Backend!Status, Backend!records, Backend!world, Backend!migration
    <2>7. Visited'
      BY <1>25 DEF BackendInv, Visited, BackendTypes, Processes, Asked, Backend!Listed,
         Services, Backend!Remove, Backend!Status, Backend!records, Backend!world,
         Backend!migration
    <2>8. QED
      BY <2>1, <2>2, <2>3, <2>4, <2>5, <2>6, <2>7 DEF BackendInv
  <1>26. ASSUME NEW n \in DOMAIN containers, Backend!Start(n)
        PROVE  BackendInv'
    <2>1. BackendTypes'
      <3>1. containers' \in [Services -> Cells \cup {None}]
        BY <1>26, CellStarts DEF BackendInv, BackendTypes, Backend!Start
      <3>2. UNCHANGED <<owner, prepared, renaming, cutover>>
        BY <1>26 DEF Backend!Start, Backend!Starts, Backend!Status, Backend!records,
           Backend!world, Backend!migration
      <3>3. restart' \in [Backend!Agents -> Processes]
        BY <1>26 DEF BackendInv, BackendTypes, Processes, BackendPoints, Backend!Start,
           Backend!Starts, Backend!Status, Backend!records, Backend!world, Backend!migration
      <3>4. QED
        BY <3>1, <3>2, <3>3 DEF BackendInv, BackendTypes
    <2>2. Holding'
      BY <1>26 DEF BackendInv, Holding, BackendTypes, Processes, Preparing, Finishing,
         Backend!Start, Backend!Starts, Backend!Status, Backend!records, Backend!world,
         Backend!migration
    <2>3. Prepared'
      BY <1>26 DEF BackendInv, Prepared, BackendTypes, Processes, Preparing, Finishing, Holding,
         Services, Renames, Renamings, Backend!Start, Backend!Starts, Backend!Status,
         Backend!records, Backend!world, Backend!migration
    <2>4. Renames'
      BY <1>26 DEF BackendInv, Renames, BackendTypes, Processes, Renamings, Finishing,
         Preparing, Prepared, Holding, Services, Backend!Start, Backend!Starts, Backend!Status,
         Backend!records, Backend!world, Backend!migration
    <2>5. Backend!OneBackend'
      BY <1>26 DEF BackendInv, Backend!OneBackend, BackendTypes, Processes, Services, Prepared,
         Renames, Preparing, Finishing, Backend!Start, Backend!Starts, Backend!Status,
         Backend!records, Backend!world, Backend!migration
    <2>6. Asked'
      BY <1>26 DEF BackendInv, Asked, BackendTypes, Processes, BackendOps, Backend!Start,
         Backend!Starts, Backend!Status, Backend!records, Backend!world, Backend!migration
    <2>7. Visited'
      BY <1>26 DEF BackendInv, Visited, BackendTypes, Processes, Asked, Backend!Listed,
         Services, Backend!Start, Backend!Starts, Backend!Status, Backend!records, Backend!world,
         Backend!migration
    <2>8. QED
      BY <2>1, <2>2, <2>3, <2>4, <2>5, <2>6, <2>7 DEF BackendInv
  <1>27. ASSUME NEW w \in Workspaces, Backend!Launch(w)
        PROVE  BackendInv'
    <2>1. BackendTypes'
      <3>1. containers' \in [Services -> Cells \cup {None}]
        BY <1>27, CellStarts, CellMade DEF BackendInv, Services, Backend!Launch
      <3>2. UNCHANGED <<owner, prepared, renaming, cutover>>
        BY <1>27 DEF Backend!Launch, Backend!Starts, Backend!Status, Backend!Creates,
           Backend!records, Backend!world, Backend!migration
      <3>3. restart' \in [Backend!Agents -> Processes]
        BY <1>27 DEF BackendInv, BackendTypes, Processes, BackendPoints, Backend!Launch,
           Backend!Starts, Backend!Status, Backend!Creates, Backend!records, Backend!world,
           Backend!migration
      <3>4. QED
        BY <3>1, <3>2, <3>3 DEF BackendInv, BackendTypes
    <2>2. Holding'
      BY <1>27 DEF BackendInv, Holding, BackendTypes, Processes, Preparing, Finishing,
         Backend!Launch, Backend!Starts, Backend!Status, Backend!Creates, Backend!records,
         Backend!world, Backend!migration
    <2>3. Prepared'
      BY <1>27 DEF BackendInv, Prepared, BackendTypes, Processes, Preparing, Finishing, Holding,
         Services, Renames, Renamings, Backend!Launch, Backend!Starts, Backend!Status,
         Backend!Creates, Backend!records, Backend!world, Backend!migration
    <2>4. Renames'
      BY <1>27 DEF BackendInv, Renames, BackendTypes, Processes, Renamings, Finishing,
         Preparing, Prepared, Holding, Services, Backend!Launch, Backend!Starts, Backend!Status,
         Backend!Creates, Backend!records, Backend!world, Backend!migration
    <2>5. Backend!OneBackend'
      BY <1>27 DEF BackendInv, Backend!OneBackend, BackendTypes, Processes, Services, Prepared,
         Renames, Preparing, Finishing, Backend!Launch, Backend!Starts, Backend!Status,
         Backend!Creates, Backend!records, Backend!world, Backend!migration
    <2>6. Asked'
      BY <1>27 DEF BackendInv, Asked, BackendTypes, Processes, BackendOps, Backend!Launch,
         Backend!Starts, Backend!Status, Backend!Creates, Backend!records, Backend!world,
         Backend!migration
    <2>7. Visited'
      BY <1>27 DEF BackendInv, Visited, BackendTypes, Processes, Asked, Backend!Listed,
         Services, Backend!Launch, Backend!Starts, Backend!Status, Backend!Creates,
         Backend!records, Backend!world, Backend!migration
    <2>8. QED
      BY <2>1, <2>2, <2>3, <2>4, <2>5, <2>6, <2>7 DEF BackendInv
  <1>28. QED
    BY <1>1, <1>2, <1>3, <1>4, <1>5, <1>6, <1>7, <1>8, <1>9, <1>10, <1>11, <1>12, <1>13, <1>14,
       <1>15, <1>16, <1>17, <1>18, <1>19, <1>20, <1>21, <1>22, <1>23, <1>24, <1>25, <1>26, <1>27
       DEF Backend!Next, Backend!Command, Backend!Agents, BackendOps

(* The invariant holds in every reachable state. *)
LEMMA BackendHolds == WorkspaceSpec => []BackendInv
  <1>1. WorkspaceInit => BackendInv
    BY BackendInit DEF WorkspaceInit
  <1>2. BackendInv /\ [WorkspaceNext]_all => BackendInv'
    <2> SUFFICES ASSUME BackendInv, [WorkspaceNext]_all PROVE BackendInv'
      OBVIOUS
    <2>1. CASE pick = "backend" /\ Backend!Next
      BY <2>1, BackendStep
    <2>2. CASE UNCHANGED backend
      <3>1. BackendTypes' /\ Holding' /\ Prepared' /\ Renames'
        BY <2>2 DEF backend, BackendInv, BackendTypes, Holding, Prepared, Renames
      <3>2. Backend!OneBackend' /\ Asked' /\ Visited'
        BY <2>2 DEF backend, BackendInv, Backend!OneBackend, Asked, Visited, Backend!Listed
      <3>3. QED
        BY <3>1, <3>2 DEF BackendInv
    <2>3. QED
      BY <2>1, <2>2 DEF WorkspaceNext, all
  <1>3. QED
    BY <1>1, <1>2, PTL DEF WorkspaceSpec

(* The host's data never has two containers, and a record names the one it  *)
(* has, wherever a command was killed and whatever the user did meanwhile.  *)
THEOREM BackendIsOne == WorkspaceSpec => []OneBackend
  <1>1. BackendInv => OneBackend
    BY DEF BackendInv, OneBackend
  <1>2. QED
    BY <1>1, BackendHolds, PTL

(* A cutover that reports success has taken over every workspace it lists.  *)
THEOREM CutoverIsComplete == WorkspaceSpec => []CutoverComplete
  <1>1. BackendInv => CutoverComplete
    <2> SUFFICES ASSUME BackendInv, NEW p \in Backend!Agents, restart[p].pc = "verified",
                        NEW w \in Backend!Listed
                 PROVE  w \in adopted /\ w \notin sources \ recurred
      BY DEF CutoverComplete, Backend!CutoverComplete
    <2>1. restart[p].op = "migrate"
      BY DEF BackendInv, Asked
    <2>2. restart[p].workspace = None /\ restart[p].todo = {}
      BY <2>1 DEF BackendInv, Visited
    <2>3. w # None
      BY BackendApart DEF Backend!Listed, BackendInv, BackendTypes, Services
    <2>4. QED
      BY <2>1, <2>2, <2>3 DEF BackendInv, Visited
  <1>2. QED
    BY <1>1, BackendHolds, PTL
=============================================================================
