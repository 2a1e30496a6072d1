------------------------------- MODULE Images -------------------------------
(* The images the containers of one platform run with                         *)
(* (services/platform_runtime_image_service.py and its routes).  An             *)
(* administrator publishes or names a base image; on it the server builds, for    *)
(* each version of the skills a workspace has pinned, an image of its own, and     *)
(* after a build removes the older ones that no container uses.  Every call of      *)
(* docker is awaited, so that the creations of several containers, and the          *)
(* publications, run between each other's steps.                                    *)
EXTENDS Naturals, FiniteSets, SequencesExt

CONSTANTS
  Places,           \* the workspaces of the platform
  Skills,           \* the versions of the skills a workspace may have pinned
  Bases, Default,   \* the names of base images, and the one of the server
  MaxLoads,         \* bound: base images that were uploaded
  MaxChoices        \* bound: names that were set or cleared without an upload, and
                    \*        creations cut off after their build

ASSUME ImagesAssumption ==
  /\ Default \in Bases /\ IsFiniteSet(Places) /\ MaxLoads \in Nat /\ MaxChoices \in Nat

VARIABLES
  base,       \* [Bases -> which upload the name stands for, 0 when docker has none]
  custom,     \* the base the platform has chosen, Default when none
  built,      \* the images the server has built, the oldest first
  making,     \* [Places -> the container that is being created]
  inside,     \* [Places -> what its container runs]
  upload,     \* the publication under way
  misnamed,   \* ghost: bases an administrator named that docker does not have, or chose
              \*        while a publication was about to remove them
  abandoned,  \* ghost: creations that were cut off between their build and its cleaning
  spared,     \* ghost: images the last cleaning has found in use
  loads, choices

imagesVars == <<base, custom, built, making, inside, upload, misnamed, abandoned, spared, loads,
               choices>>

NotMaking == [at |-> "rest"]
NotRunning == [skills |-> "none", on |-> Default, from |-> Default, of |-> 0]
NoUpload == [at |-> "rest"]

ImagesInit ==
  /\ base = [b \in Bases |-> IF b = Default THEN 1 ELSE 0] /\ custom = Default
  /\ built = <<>>
  /\ making = [w \in Places |-> NotMaking] /\ inside = [w \in Places |-> NotRunning]
  /\ upload = NoUpload /\ misnamed = {} /\ abandoned = 0 /\ spared = {} /\ loads = 0 /\ choices = 0

\* The tag of an image is a hash of the skills and of the name of the base.
Tag(i) == [skills |-> i.skills, on |-> i.on]
Tagged(c) == {i \in ToSet(built) : Tag(i) = Tag(c)}
InUse == {inside[w] : w \in Places}
\* What docker lists besides: a tag names one image.
Others(c) ==
  IF Tagged(c) = {} THEN built ELSE RemoveAt(built, CHOOSE k \in DOMAIN built : built[k] \in Tagged(c))
Making(w, c) == making' = [making EXCEPT ![w] = c]
NoCreation == UNCHANGED <<built, making, inside, abandoned, spared>>
NoAdministration == UNCHANGED <<base, custom, upload, misnamed, loads, choices>>

-----------------------------------------------------------------------------
(* The creation of a container. *)

\* ensure_workspace_runtime_image reads the row of the platform once.
Resolve(w, s) ==
  /\ making[w] = NotMaking /\ inside[w] = NotRunning
  /\ Making(w, [at |-> "look", skills |-> s, on |-> custom])
  /\ UNCHANGED <<built, inside, abandoned, spared>> /\ NoAdministration

Look(w) ==
  /\ making[w].at = "look"
  /\ Making(w, IF Tagged(making[w]) # {} THEN [making[w] EXCEPT !.at = "run"]
               ELSE IF base[making[w].on] > 0 THEN [making[w] EXCEPT !.at = "build"]
               ELSE NotMaking)
  /\ UNCHANGED <<built, inside, abandoned, spared>> /\ NoAdministration

\* mutant: the image is built on what the platform has now
From_Now(c) == custom
From(c) == c.on
\* An image that was built before is the same one; a base that was loaded again makes another.
Build(w) ==
  /\ making[w].at = "build"
  /\ LET c == making[w]
         new == [skills |-> c.skills, on |-> c.on, from |-> From(c), of |-> base[From(c)]]
     IN IF base[From(c)] = 0 THEN Making(w, NotMaking) /\ UNCHANGED built
        ELSE /\ built' = IF new \in ToSet(built) THEN built ELSE Append(Others(c), new)
             /\ Making(w, [c EXCEPT !.at = "list"])
  /\ UNCHANGED <<inside, abandoned, spared>> /\ NoAdministration

\* mutant: the cleaning begins with the fourth image
Outdated_Fourth(c) == {Tag(i) : i \in {j \in ToSet(built) \ Tagged(c) : Len(built) > 3 /\ j # Last(built)}}
\* All but the image just built and the latest of the others.
Outdated(c) == IF Len(built) <= 2 THEN {} ELSE {Tag(i) : i \in ToSet(Others(c)) \ {Last(Others(c))}}

List(w) ==
  /\ making[w].at = "list"
  /\ Making(w, IF Tagged(making[w]) = {} THEN NotMaking
               ELSE [at |-> "prune", skills |-> making[w].skills, on |-> making[w].on,
                     stale |-> Outdated(making[w])])
  /\ UNCHANGED <<built, inside, abandoned, spared>> /\ NoAdministration

\* Whatever has the tag by now goes; docker keeps an image that a container uses.
Prune(w) ==
  /\ making[w].at = "prune"
  /\ \/ \E t \in making[w].stale :
          /\ built' = IF Tagged(t) \cap InUse = {} THEN Others(t) ELSE built
          /\ spared' = (spared \ Tagged(t)) \cup (Tagged(t) \cap InUse)
          /\ Making(w, [making[w] EXCEPT !.stale = @ \ {t}])
     \/ /\ making[w].stale = {} /\ UNCHANGED <<built, spared>>
        /\ Making(w, [at |-> "run", skills |-> making[w].skills, on |-> making[w].on])
  /\ UNCHANGED <<inside, abandoned>> /\ NoAdministration

\* The creation fails when another one has removed the image meanwhile.
Run(w) ==
  /\ making[w].at = "run"
  /\ IF Tagged(making[w]) = {} THEN UNCHANGED inside
     ELSE \E i \in Tagged(making[w]) : inside' = [inside EXCEPT ![w] = i]
  /\ Making(w, NotMaking) /\ UNCHANGED <<built, abandoned, spared>> /\ NoAdministration

\* The command that wanted the container is cancelled.
Abandon(w) ==
  /\ \/ /\ making[w].at \in {"look", "build"} /\ UNCHANGED <<abandoned, choices>>
     \/ /\ making[w].at \in {"list", "prune"} /\ choices < MaxChoices
        /\ abandoned' = abandoned + 1 /\ choices' = choices + 1
  /\ Making(w, NotMaking)
  /\ UNCHANGED <<built, inside, spared, base, custom, upload, misnamed, loads>>

\* The container ends: idle, too old, of another configuration.
End(w) ==
  /\ inside[w] # NotRunning /\ making[w] = NotMaking
  /\ inside' = [inside EXCEPT ![w] = NotRunning]
  /\ UNCHANGED <<built, making, abandoned, spared>> /\ NoAdministration

-----------------------------------------------------------------------------
(* The administrator. *)

Doomed == IF upload.at \in {"load", "clean"} THEN {upload.previous} ELSE {}

\* update_image and clear_image: the name is not looked up.
Choose(b) ==
  /\ choices < MaxChoices /\ choices' = choices + 1
  /\ custom' = b
  /\ misnamed' = IF base[b] = 0 \/ b \in Doomed \ {Default} THEN misnamed \cup {b} ELSE misnamed
  /\ UNCHANGED <<base, upload, loads>> /\ NoCreation

BeginUpload ==
  /\ upload = NoUpload /\ loads < MaxLoads
  /\ upload' = [at |-> "load", previous |-> custom]
  /\ UNCHANGED <<base, custom, misnamed, loads, choices>> /\ NoCreation

\* docker load, and the platform takes the name the archive has
Publish(b) ==
  /\ upload.at = "load" /\ b # Default
  /\ base' = [base EXCEPT ![b] = loads + 2] /\ loads' = loads + 1
  /\ custom' = b /\ misnamed' = misnamed \ {b}
  /\ upload' = [at |-> "clean", previous |-> upload.previous, now |-> b]
  /\ UNCHANGED choices /\ NoCreation

\* mutant: the image is removed although it was loaded again under its name
Replaced_Always(u) == u.previous # Default
Replaced(u) == u.previous # Default /\ u.previous # u.now

\* After the containers of the platform have been collected.
CleanUp ==
  /\ upload.at = "clean"
  /\ base' = IF Replaced(upload) THEN [base EXCEPT ![upload.previous] = 0] ELSE base
  /\ upload' = NoUpload
  /\ UNCHANGED <<custom, misnamed, loads, choices>> /\ NoCreation

ImagesNext ==
  \/ \E w \in Places :
       \/ \E s \in Skills : Resolve(w, s)
       \/ Look(w) \/ Build(w) \/ List(w) \/ Prune(w) \/ Run(w) \/ Abandon(w) \/ End(w)
  \/ \E b \in Bases : Choose(b) \/ Publish(b)
  \/ BeginUpload \/ CleanUp

BuiltImages == [skills : Skills, on : Bases, from : Bases, of : 1..(MaxLoads + 1)]
ImagesTypeOK ==
  /\ base \in [Bases -> 0..(MaxLoads + 1)] /\ custom \in Bases
  /\ built \in Seq(BuiltImages) /\ \A w \in Places : inside[w] \in BuiltImages \cup {NotRunning}
  /\ misnamed \subseteq Bases

-----------------------------------------------------------------------------
\* An image is what its tag says, whatever the administrator changes while it is built.
TagsAreTrue == \A i \in ToSet(built) \cup (InUse \ {NotRunning}) : i.from = i.on /\ i.of > 0

\* Images do not pile up (platform_runtime_image_service.py:264): what is neither being built,
\* nor the latest, nor the one before it is removed, but for images that were in use at the
\* last cleaning, and creations that were cut off before theirs.
ImagesAreBounded ==
  Cardinality(ToSet(built) \ spared)
    <= 2 + abandoned + Cardinality({w \in Places : making[w].at \in {"list", "prune"}})

\* The base the platform has chosen by an upload is there.
BaseIsThere == base[custom] > 0 \/ custom \in misnamed

ImagesAreSound == TagsAreTrue /\ ImagesAreBounded /\ BaseIsThere
=============================================================================
