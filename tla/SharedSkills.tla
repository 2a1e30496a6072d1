----------------------------- MODULE SharedSkills -----------------------------
(* The content-addressed packages that workspaces share                       *)
(* (services/shared_skill_service.py), with the fork that copies a            *)
(* workspace's metadata in a request thread (services/timeline_service.py)    *)
(* and the garbage collection in another (workspace_runtime_service.py).      *)
(* The event loop publishes and records under the store's lock; it pins a     *)
(* baseline, and a fork copies, without it.                                   *)
EXTENDS FiniteSets, Naturals
CONSTANTS Digests, Spaces, NoDigest, MaxRepublished
ASSUME SkillsAssumption == NoDigest \notin Digests \cup Spaces
VARIABLES baseline,  \* the content of the shared directory, NoDigest once it is gone
          packages,  \* published: digest -> whether it is older than the grace period
          known,     \* the workspaces with a metadata directory
          gone,      \* those that were deleted: no id is used again
          manifest,  \* metadata/shared_skills.json
          snapshot0, \* metadata/baseline_snapshot.json
          holder,    \* who has the store lock: "none", "publisher" or "collector"
          publisher, \* [box, digest, pin, step]: the reference being made
          scan,      \* [left, seen]: the manifests the collector has still to read
          fork,      \* [from, to, left]: the files still to be copied
          copies,    \* ghost: <<a, c>> when c was forked, itself or over others, from a since
                     \*        the scan began
          torn,      \* ghost: copies that another step of their source overtook, and their copies
          edits
skillsVars == <<baseline, packages, known, manifest, snapshot0, holder, publisher,
                scan, fork, copies, torn, edits, gone>>

NoPublisher == [box |-> NoDigest, digest |-> NoDigest, pin |-> FALSE, step |-> "none"]
NoScan == [left |-> {}, seen |-> {}]
NoFork == [from |-> NoDigest, to |-> NoDigest, left |-> {}]
Files == {"manifest", "snapshot"}

SkillsTypeOK ==
  /\ baseline \in Digests \cup {NoDigest}
  /\ DOMAIN packages \subseteq Digests /\ \A d \in DOMAIN packages : packages[d] \in BOOLEAN
  /\ known \subseteq Spaces /\ gone \subseteq Spaces
  /\ manifest \in [Spaces -> SUBSET Digests]
  /\ snapshot0 \in [Spaces -> Digests \cup {NoDigest}]
  /\ holder \in {"none", "publisher", "collector"}
  /\ publisher.step \in {"none", "record", "pin"}
  /\ scan.left \subseteq Spaces /\ scan.seen \subseteq Digests
  /\ fork.left \subseteq Files

SkillsInit ==
  /\ baseline \in Digests /\ packages = << >> /\ \E b \in Spaces : known = {b}
  /\ manifest = [b \in Spaces |-> {}] /\ snapshot0 = [b \in Spaces |-> NoDigest]
  /\ holder = "none" /\ publisher = NoPublisher /\ scan = NoScan /\ fork = NoFork
  /\ copies = {} /\ torn = {} /\ edits = 0 /\ gone = {}

-------------------------------------------------------------------------------
\* mutant: the lock is given back once the package is there
PublishPackage_Unlocked(b, pin) ==
  /\ holder = "none" /\ publisher = NoPublisher /\ b \in known \ (gone \cup {fork.to}) /\ baseline # NoDigest
  /\ packages' = [d \in DOMAIN packages \cup {baseline} |->
                    IF d \in DOMAIN packages THEN packages[d] ELSE FALSE]
  /\ publisher' = [box |-> b, digest |-> baseline, pin |-> pin, step |-> "record"]
  /\ UNCHANGED <<baseline, known, manifest, snapshot0, holder, scan, fork, copies, torn, edits, gone>>

\* reference: the digest of the source, and the package unless there is one
PublishPackage(b, pin) ==
  /\ holder = "none" /\ publisher = NoPublisher /\ b \in known \ (gone \cup {fork.to}) /\ baseline # NoDigest
  /\ packages' = [d \in DOMAIN packages \cup {baseline} |->
                    IF d \in DOMAIN packages THEN packages[d] ELSE FALSE]
  /\ holder' = "publisher"
  /\ publisher' = [box |-> b, digest |-> baseline, pin |-> pin, step |-> "record"]
  /\ UNCHANGED <<baseline, known, manifest, snapshot0, scan, fork, copies, torn, edits, gone>>

\* the copies a write to the metadata of a workspace falls in the middle of
Overtaken(b) == IF fork.from = b THEN {fork.to} ELSE {}

\* the end of reference: the manifest is replaced and the lock given back.  A
\* workspace removed in the meantime gets a metadata directory again.
Record ==
  /\ publisher.step = "record"
  /\ manifest' = [manifest EXCEPT ![publisher.box] = @ \cup {publisher.digest}]
  /\ known' = known \cup {publisher.box}
  /\ holder' = "none"
  /\ publisher' = IF publisher.pin THEN [publisher EXCEPT !.step = "pin"] ELSE NoPublisher
  /\ torn' = torn \cup Overtaken(publisher.box)
  /\ UNCHANGED <<baseline, packages, snapshot0, scan, fork, copies, edits, gone>>

\* pin_baseline: only what is already recorded is named as the baseline; the
\* directory of a workspace removed since then is made again for it
Pin ==
  /\ publisher.step = "pin"
  /\ snapshot0' = [snapshot0 EXCEPT ![publisher.box] = publisher.digest]
  /\ known' = known \cup {publisher.box}
  /\ publisher' = NoPublisher
  /\ torn' = torn \cup Overtaken(publisher.box)
  /\ UNCHANGED <<baseline, packages, manifest, holder, scan, fork, copies, edits, gone>>

-------------------------------------------------------------------------------
\* fork_from_message: a new workspace, and then the metadata file by file, in
\* whatever order the directory lists them
Fork(b, c) ==
  /\ fork = NoFork /\ b \in known \ gone /\ c \in Spaces \ (known \cup gone)
  /\ known' = known \cup {c}
  /\ fork' = [from |-> b, to |-> c, left |-> Files]
  /\ copies' = copies \cup {<<b, c>>} \cup {<<p[1], c>> : p \in {q \in copies : q[2] = b}}
  /\ torn' = IF b \in torn THEN torn \cup {c} ELSE torn
  /\ UNCHANGED <<baseline, packages, manifest, snapshot0, holder, publisher, scan, edits, gone>>

CopyFile(f) ==
  /\ f \in fork.left /\ fork.from \in known
  /\ manifest' = IF f = "manifest" THEN [manifest EXCEPT ![fork.to] = manifest[fork.from]] ELSE manifest
  /\ snapshot0' = IF f = "snapshot" THEN [snapshot0 EXCEPT ![fork.to] = snapshot0[fork.from]] ELSE snapshot0
  /\ fork' = IF fork.left = {f} THEN NoFork ELSE [fork EXCEPT !.left = @ \ {f}]
  /\ UNCHANGED <<baseline, packages, known, holder, publisher, scan, copies, torn, edits, gone>>

\* the source is gone: the request fails, with the new workspace half made
ForkFails ==
  /\ fork # NoFork /\ fork.from \notin known
  /\ fork' = NoFork /\ torn' = torn \cup {fork.to}
  /\ UNCHANGED <<baseline, packages, known, manifest, snapshot0, holder, publisher, scan, copies, edits, gone>>

\* the conversation of a workspace is deleted, and its directory with it
Discard(b) ==
  /\ b \in known \ {fork.to} /\ known' = known \ {b} /\ gone' = gone \cup {b}
  /\ manifest' = [manifest EXCEPT ![b] = {}] /\ snapshot0' = [snapshot0 EXCEPT ![b] = NoDigest]
  /\ torn' = (torn \cup {p[2] : p \in {q \in copies : q[1] = b /\ holder = "collector"}}) \ {b}
  /\ UNCHANGED <<baseline, packages, holder, publisher, scan, fork, copies, edits>>

-------------------------------------------------------------------------------
\* collect_garbage: under the lock, the manifests one by one, then the packages
\* that none of them names and that are older than the grace period
StartScan ==
  /\ holder = "none" /\ DOMAIN packages # {} /\ holder' = "collector"
  /\ scan' = [left |-> known, seen |-> {}]
  /\ copies' = IF fork = NoFork THEN {} ELSE {<<fork.from, fork.to>>}
  /\ UNCHANGED <<baseline, packages, known, manifest, snapshot0, publisher, fork, torn, edits, gone>>

ReadManifest(b) ==
  /\ holder = "collector" /\ b \in scan.left
  /\ scan' = [left |-> scan.left \ {b}, seen |-> scan.seen \cup manifest[b]]
  /\ UNCHANGED <<baseline, packages, known, manifest, snapshot0, holder, publisher, fork, copies, torn, edits, gone>>

DropUnreferenced ==
  /\ holder = "collector" /\ scan.left = {}
  /\ packages' = [d \in {e \in DOMAIN packages : e \in scan.seen \/ ~packages[e]} |-> packages[d]]
  /\ holder' = "none" /\ scan' = NoScan
  /\ UNCHANGED <<baseline, known, manifest, snapshot0, publisher, fork, copies, torn, edits, gone>>

-------------------------------------------------------------------------------
\* the grace period of a package ends
Grows(d) ==
  /\ d \in DOMAIN packages /\ ~packages[d] /\ packages' = [packages EXCEPT ![d] = TRUE]
  /\ UNCHANGED <<baseline, known, manifest, snapshot0, holder, publisher, scan, fork, copies, torn, edits, gone>>

\* the owner of the shared directory changes or removes it
Republish(d) ==
  /\ d # baseline /\ edits < MaxRepublished /\ baseline' = d /\ edits' = edits + 1
  /\ UNCHANGED <<packages, known, manifest, snapshot0, holder, publisher, scan, fork, copies, torn, gone>>

\* the process ends: the lock of the file system is gone with it
Halt ==
  /\ publisher # NoPublisher \/ holder # "none" \/ fork # NoFork
  /\ holder' = "none" /\ publisher' = NoPublisher /\ scan' = NoScan /\ fork' = NoFork
  /\ torn' = IF fork = NoFork THEN torn ELSE torn \cup {fork.to}
  /\ UNCHANGED <<baseline, packages, known, manifest, snapshot0, copies, edits, gone>>

SkillsNext ==
  \/ \E b \in Spaces, pin \in BOOLEAN : PublishPackage(b, pin)
  \/ Record \/ Pin
  \/ \E b, c \in Spaces : Fork(b, c)
  \/ \E f \in Files : CopyFile(f)
  \/ ForkFails
  \/ \E b \in Spaces : Discard(b) \/ ReadManifest(b)
  \/ StartScan \/ DropUnreferenced \/ Halt
  \/ \E d \in Digests : Grows(d)
  \/ \E d \in Digests \cup {NoDigest} : Republish(d)

-------------------------------------------------------------------------------
\* A version that a workspace refers to is in the store, whatever is collected,
\* republished or interrupted meanwhile: mounts and baseline_root refuse to
\* replace it by another one, so the sandbox of that workspace would never start
\* again (shared_skill_service.py:178-180).  The copies that something overtook
\* are the exception the code makes possible.
ReferencedIsThere ==
  \A b \in known \ torn : manifest[b] \subseteq DOMAIN packages

\* What baseline_snapshot.json names is in the manifest: the collector looks at
\* the manifest only, and baseline_root fails for a digest that is not in it.  A
\* deletion that comes between the manifest and the pin leaves a directory with
\* the pin alone, of a workspace that nothing opens any more.
PinnedIsReferenced ==
  \A b \in known \ (torn \cup gone) :
    snapshot0[b] # NoDigest /\ b # fork.to => snapshot0[b] \in manifest[b]

SharedSkillsAreKept == ReferencedIsThere /\ PinnedIsReferenced
===============================================================================
