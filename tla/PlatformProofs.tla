----------------------------- MODULE PlatformProofs -----------------------------
(* Proofs about what belongs to a platform.  Its files: WorkspaceSync, what a        *)
(* command deletes stays deleted; Migration, no directory of an old session goes    *)
(* before its files do; SharedSkills, the versions that workspaces refer to are     *)
(* there.  Its users and what they choose: Accounts, ModelConfig, Extensions, and   *)
(* the Images its containers run with.  And, with SessionsProofs, about MCSessions: *)
(* a behaviour of the whole is one of each part, which either moves or rests.       *)
EXTENDS MCSessions, SessionsProofs

-----------------------------------------------------------------------------
(* WorkspaceSync                                                             *)

\* What a command has deleted is gone on the host and in the tombstones, until somebody writes
\* it; the container has lost it too, or has not been hydrated yet.
ErasedStayGone ==
  \A p \in erased :
    /\ host[p] = Gone /\ p \in tombstones
    /\ phase \in {"running", "unsynced"} => box[p] = Gone
    /\ phase = "idle" => box[p] = Gone \/ checkpoint = NoCheckpoint

SyncInv == SyncTypeOK /\ ErasedStayGone

USE SyncAssumption

LEMMA SyncStart == SyncInit => SyncInv
BY DEF SyncInit, SyncInv, SyncTypeOK, ErasedStayGone, NoFiles, NoCheckpoint, FileStates, Gone

LEMMA SyncInvStep == SyncInv /\ [SyncNext]_syncVars => SyncInv'
<1> SUFFICES ASSUME SyncInv, [SyncNext]_syncVars PROVE SyncInv'
  OBVIOUS
<1> USE DEF SyncInv, SyncTypeOK, ErasedStayGone, FileStates, Gone, Original
<1>1. CASE Provide
  BY <1>1 DEF Provide, Image, NoCheckpoint, NoFiles
<1>2. CASE BeginCommand
  <2>1. Hydrated \in [Paths -> FileStates]
    BY DEF Hydrated
  <2>2. \A p \in erased : Hydrated[p] = Gone
    BY <1>2 DEF BeginCommand, Hydrated, NoCheckpoint
  <2> QED
    BY <1>2, <2>1, <2>2 DEF BeginCommand
<1>3. CASE CaptureDelta
  <2>1. host' \in [Paths -> FileStates] /\ Removed \subseteq BasePaths
    BY <1>3 DEF CaptureDelta, Removed
  <2>2. \A p \in erased : p \in Removed
    BY <1>3 DEF CaptureDelta, Removed
  <2>3. \A p \in Removed : host'[p] = Gone /\ box[p] = Gone
    BY <1>3 DEF CaptureDelta, Removed, Exports, Altered
  <2>4. SyncTypeOK'
    BY <1>3, <2>1 DEF CaptureDelta
  <2> QED
    BY <1>3, <2>1, <2>2, <2>3, <2>4 DEF CaptureDelta
<1>4. CASE FailToSync \/ Collect
  BY <1>4 DEF FailToSync, Collect, NoFiles
<1>5. ASSUME NEW p \in Paths, NEW v \in FileStates, RunCommand(p, v) PROVE SyncInv'
  BY <1>5 DEF RunCommand
<1>6. ASSUME NEW p \in Paths, NEW v \in FileStates, HostChange(p, v) PROVE SyncInv'
  BY <1>6 DEF HostChange
<1>7. CASE UNCHANGED syncVars
  BY <1>7 DEF syncVars
<1> QED
  BY <1>1, <1>2, <1>3, <1>4, <1>5, <1>6, <1>7 DEF SyncNext

\* What a command has deleted is in no container that a later command works in, through
\* hydrations, captures that fail and containers that are replaced, until it is written again.
THEOREM DeletionsStay == SyncInit /\ [][SyncNext]_syncVars => []DeletionsLast
<1>1. SyncInv => DeletionsLast
  BY DEF SyncInv, ErasedStayGone, DeletionsLast
<1> QED
  BY <1>1, SyncStart, SyncInvStep, PTL

LEMMA SyncTypesAlways == SyncInit /\ [][SyncNext]_syncVars => []SyncTypeOK
<1>1. SyncInv => SyncTypeOK
  BY DEF SyncInv
<1> QED
  BY <1>1, SyncStart, SyncInvStep, PTL

HIDE SyncAssumption

-----------------------------------------------------------------------------
(* Migration                                                                 *)

\* The entry in hand, if there is one.
InHand ==
  /\ at \in [session : Legacy \cup {Meta}, step : {"none", "state", "writing", "files", "clear", "close"}]
  /\ at.step = "none" <=> at = NoEntry
  /\ at # NoEntry => at.session \in Legacy /\ boot = "moving"

\* Nothing is moved before the session's state is safe, and an entry is closed when nothing
\* is left to move.
MovesInOrder ==
  /\ at.step = "writing" =>
       kept[at.session] = "torn" \/ (kept[at.session] = "none" /\ at.session \in rewritten)
  /\ at.step \in {"files", "clear", "close"} => kept[at.session] = "whole" \/ at.session \in rewritten
  /\ at.step \in {"clear", "close"} => ~present[at.session]

\* A directory that is there will be looked at, or has a pending entry.
IsPlanned ==
  \A s \in Legacy : present[s] =>
    /\ boot = "planning" => s \in toPlan \/ journal[s] = "pending"
    /\ boot = "moving" => journal[s] = "pending"

MigrationInv == MigrationTypeOK /\ InHand /\ MovesInOrder /\ IsPlanned /\ LegacyIsKept

USE MergedAssumption

LEMMA MigrationStart == MigrationInit => MigrationInv
BY DEF MigrationInit, MigrationInv, MigrationTypeOK, InHand, MovesInOrder, IsPlanned, LegacyIsKept, NoEntry, Meta

LEMMA MigrationInvStep == MigrationInv /\ [MigrationNext]_migrationVars => MigrationInv'
<1> SUFFICES ASSUME MigrationInv, [MigrationNext]_migrationVars PROVE MigrationInv'
  OBVIOUS
<1> USE DEF MigrationInv, MigrationTypeOK, InHand, MovesInOrder, IsPlanned, LegacyIsKept, NoEntry
<1>1. ASSUME NEW s \in Legacy, Adopt(s) PROVE MigrationInv'
  BY <1>1 DEF Adopt
<1>2. ASSUME NEW s \in Legacy, PlanEntry(s) PROVE MigrationInv'
  BY <1>2 DEF PlanEntry
<1>3. ASSUME NEW s \in Legacy, Open(s) PROVE MigrationInv'
  BY <1>3 DEF Open
<1>4. CASE Truncate
  BY <1>4 DEF Truncate, Payload
<1>5. CASE WriteState
  BY <1>5 DEF WriteState
<1>6. ASSUME NEW f \in Things \cup {Meta}, MoveItem(f) PROVE MigrationInv'
  BY <1>6 DEF MoveItem
<1>7. CASE Moved
  BY <1>7 DEF Moved
<1>8. CASE Clear
  BY <1>8 DEF Clear
<1>9. CASE Close
  BY <1>9 DEF Close
<1>10. CASE Fails \/ Killed
  BY <1>10 DEF Fails, Killed
<1>11. CASE BootAgain \/ Serve
  BY <1>11 DEF BootAgain, Serve
<1>12. CASE UNCHANGED migrationVars
  BY <1>12 DEF migrationVars
<1> QED
  BY <1>1, <1>2, <1>3, <1>4, <1>5, <1>6, <1>7, <1>8, <1>9, <1>10, <1>11, <1>12 DEF MigrationNext

\* The directory of an old session goes only when what was in it is elsewhere or was given
\* up, whatever attempt of the migration fails or is killed (Migration.tla).
THEOREM MigrationsKeep == MigrationInit /\ [][MigrationNext]_migrationVars => []LegacyIsKept
<1>1. MigrationInv => LegacyIsKept
  BY DEF MigrationInv
<1> QED
  BY <1>1, MigrationStart, MigrationInvStep, PTL

LEMMA MigrationTypesAlways == MigrationInit /\ [][MigrationNext]_migrationVars => []MigrationTypeOK
<1>1. MigrationInv => MigrationTypeOK
  BY DEF MigrationInv
<1> QED
  BY <1>1, MigrationStart, MigrationInvStep, PTL

HIDE MergedAssumption

-----------------------------------------------------------------------------
(* SharedSkills                                                              *)

Publishers == [box : Spaces \cup {NoDigest}, digest : Digests \cup {NoDigest}, pin : BOOLEAN,
               step : {"none", "record", "pin"}]
Forking == fork # NoFork

\* The lock is the publisher's while a package waits to be recorded; what it has in hand is
\* in the store, and then in the manifest it is about to pin.
PublisherHolds ==
  /\ publisher \in Publishers
  /\ publisher.step = "none" <=> publisher = NoPublisher
  /\ publisher.step = "record" <=> holder = "publisher"
  /\ publisher.step # "none" =>
       publisher.box \in known \cup gone /\ publisher.box \in Spaces /\ publisher.digest \in Digests
  /\ publisher.step = "record" => publisher.digest \in DOMAIN packages
  /\ publisher.step = "pin" /\ publisher.box \in known => publisher.digest \in manifest[publisher.box]
  /\ publisher.step = "pin" /\ publisher.box \notin known => publisher.box \in gone

\* The copy is nobody else's, and what it has of its source is what the source has, unless
\* something overtook it.
ForkFollows ==
  /\ fork \in [from : Spaces \cup {NoDigest}, to : Spaces \cup {NoDigest}, left : SUBSET Files]
  /\ Forking <=> fork.to \in Spaces
  /\ Forking <=> fork.left # {}
  /\ Forking =>
       /\ fork.from \in Spaces /\ fork.from # fork.to /\ fork.to \in known \ gone
       /\ fork.from \in known \cup gone
       /\ publisher.step # "none" => publisher.box # fork.to
       /\ \A a \in Spaces : <<a, fork.from>> \in copies => <<a, fork.to>> \in copies
       /\ fork.from \in torn \cup (known \cap gone) => fork.to \in torn
       /\ "manifest" \in fork.left => manifest[fork.to] = {}
       /\ fork.to \notin torn /\ fork.from \in known =>
            /\ "manifest" \notin fork.left => manifest[fork.to] = manifest[fork.from]
            /\ "snapshot" \notin fork.left => snapshot0[fork.to] = snapshot0[fork.from]

AbsentIsEmpty == \A b \in Spaces \ known : manifest[b] = {} /\ snapshot0[b] = NoDigest

\* What a workspace refers to was seen by the scan, or will be: in its own manifest, or in
\* one it was copied from.
ScanCovers ==
  holder = "collector" =>
    /\ Forking => <<fork.from, fork.to>> \in copies
    /\ \A b \in known \ torn : \A d \in manifest[b] :
         d \in scan.seen \/ \E a \in scan.left : d \in manifest[a] /\ (a = b \/ <<a, b>> \in copies)

SkillsInv ==
  /\ SkillsTypeOK /\ copies \subseteq Spaces \X Spaces
  /\ PublisherHolds /\ ForkFollows /\ AbsentIsEmpty /\ ScanCovers /\ SharedSkillsAreKept

USE SkillsAssumption

LEMMA SkillsStart == SkillsInit => SkillsInv
BY DEF SkillsInit, SkillsInv, SkillsTypeOK, PublisherHolds, ForkFollows, AbsentIsEmpty, ScanCovers,
       SharedSkillsAreKept, ReferencedIsThere, PinnedIsReferenced, Publishers, Forking, NoPublisher,
       NoFork, NoScan, Files

LEMMA SkillsInvStep == SkillsInv /\ [SkillsNext]_skillsVars => SkillsInv'
<1> SUFFICES ASSUME SkillsInv, [SkillsNext]_skillsVars PROVE SkillsInv'
  OBVIOUS
<1> USE DEF SkillsInv, SkillsTypeOK, PublisherHolds, ForkFollows, AbsentIsEmpty, ScanCovers,
            SharedSkillsAreKept, ReferencedIsThere, PinnedIsReferenced, Publishers, Forking, NoPublisher,
            NoFork, Files
<1>1. ASSUME NEW b \in Spaces, NEW pin \in BOOLEAN, PublishPackage(b, pin) PROVE SkillsInv'
  <2>1. (SkillsTypeOK /\ copies \subseteq Spaces \X Spaces)'
    <3>1. /\ DOMAIN packages' = DOMAIN packages \cup {baseline}
          /\ \A d \in DOMAIN packages : packages'[d] = packages[d]
          /\ baseline \notin DOMAIN packages => packages'[baseline] = FALSE
      BY <1>1 DEF PublishPackage
    <3>2. \A d \in DOMAIN packages' : packages'[d] \in BOOLEAN
      BY <3>1
    <3>3. baseline \in Digests /\ publisher'.step = "record" /\ holder' = "publisher"
          /\ UNCHANGED <<baseline, known, gone, manifest, snapshot0, scan, fork, copies>>
      BY <1>1 DEF PublishPackage
    <3> QED
      BY <3>1, <3>2, <3>3
  <2>2. PublisherHolds'
    BY <1>1 DEF PublishPackage
  <2>3. ForkFollows'
    BY <1>1 DEF PublishPackage
  <2>4. AbsentIsEmpty'
    BY <1>1 DEF PublishPackage
  <2>5. ScanCovers'
    BY <1>1 DEF PublishPackage
  <2>6. SharedSkillsAreKept'
    BY <1>1 DEF PublishPackage
  <2> HIDE DEF SkillsTypeOK, PublisherHolds, ForkFollows, AbsentIsEmpty, ScanCovers, SharedSkillsAreKept
  <2> QED
    BY <2>1, <2>2, <2>3, <2>4, <2>5, <2>6
<1>2. CASE Record
  BY <1>2 DEF Record, Overtaken
<1>3. CASE Pin
  <2>1. (SkillsTypeOK /\ copies \subseteq Spaces \X Spaces)'
    BY <1>3 DEF Pin, Overtaken
  <2>2. PublisherHolds'
    BY <1>3 DEF Pin, Overtaken
  <2>3. ForkFollows'
    BY <1>3 DEF Pin, Overtaken
  <2>4. AbsentIsEmpty'
    BY <1>3 DEF Pin, Overtaken
  <2>5. ScanCovers'
    <3>1. /\ UNCHANGED <<manifest, scan, copies, holder, fork>> /\ torn \subseteq torn'
          /\ \A b \in known' : b \in known \/ manifest[b] = {}
      BY <1>3 DEF Pin
    <3> SUFFICES ASSUME holder = "collector", NEW b \in known' \ torn', NEW d \in manifest[b]
                 PROVE  d \in scan.seen \/ \E a \in scan.left : d \in manifest[a] /\ (a = b \/ <<a, b>> \in copies)
      BY <3>1
    <3> QED
      BY <3>1
  <2>6. SharedSkillsAreKept'
    BY <1>3 DEF Pin, Overtaken
  <2> HIDE DEF SkillsTypeOK, PublisherHolds, ForkFollows, AbsentIsEmpty, ScanCovers, SharedSkillsAreKept
  <2> QED
    BY <2>1, <2>2, <2>3, <2>4, <2>5, <2>6
<1>4. ASSUME NEW b \in Spaces, NEW c \in Spaces, Fork(b, c) PROVE SkillsInv'
  <2>1. (SkillsTypeOK /\ copies \subseteq Spaces \X Spaces)'
    BY <1>4 DEF Fork
  <2>2. PublisherHolds'
    BY <1>4 DEF Fork
  <2>3. ForkFollows'
    BY <1>4 DEF Fork
  <2>4. AbsentIsEmpty'
    BY <1>4 DEF Fork
  <2>5. ScanCovers'
    BY ZenonT(40), <1>4 DEF Fork
  <2>6. SharedSkillsAreKept'
    BY <1>4 DEF Fork
  <2> HIDE DEF SkillsTypeOK, PublisherHolds, ForkFollows, AbsentIsEmpty, ScanCovers, SharedSkillsAreKept
  <2> QED
    BY <2>1, <2>2, <2>3, <2>4, <2>5, <2>6
<1>5. ASSUME NEW f \in Files, CopyFile(f) PROVE SkillsInv'
  <2>1. (SkillsTypeOK /\ copies \subseteq Spaces \X Spaces)'
    BY <1>5 DEF CopyFile
  <2>2. PublisherHolds'
    BY <1>5 DEF CopyFile
  <2>3. ForkFollows'
    BY <1>5 DEF CopyFile
  <2>4. AbsentIsEmpty'
    BY <1>5 DEF CopyFile
  <2>5. ScanCovers'
    <3>0. /\ UNCHANGED <<known, torn, copies, scan, holder>>
          /\ Forking /\ (Forking' => fork'.from = fork.from /\ fork'.to = fork.to)
      BY <1>5 DEF CopyFile
    <3>4. holder = "collector" => (Forking => <<fork.from, fork.to>> \in copies)'
      BY <3>0
    <3> SUFFICES ASSUME holder' = "collector", NEW b \in known' \ torn', NEW d \in manifest'[b]
                 PROVE  d \in scan'.seen \/ \E a \in scan'.left : d \in manifest'[a] /\ (a = b \/ <<a, b>> \in copies')
      BY <3>0, <3>4
    <3>5. holder = "collector" /\ b \in known \ torn
      BY <3>0
    <3>1. /\ UNCHANGED <<known, torn, copies, scan>> /\ Forking /\ fork.from \in known
          /\ \A a \in Spaces \ {fork.to} : manifest'[a] = manifest[a]
          /\ manifest'[fork.to] = manifest[fork.to] \/ manifest'[fork.to] = manifest[fork.from]
          /\ f # "manifest" => manifest' = manifest
          /\ f = "manifest" => manifest[fork.to] = {}
      BY <1>5 DEF CopyFile
    <3>2. CASE f # "manifest" \/ b # fork.to
      <4>1. manifest'[b] = manifest[b]
        BY <3>1, <3>2
      <4>2. d \in scan.seen \/ \E a \in scan.left : d \in manifest[a] /\ (a = b \/ <<a, b>> \in copies)
        BY <3>1, <3>5, <4>1
      <4> QED
        BY <3>5, <3>1, <4>2
    <3>3. CASE f = "manifest" /\ b = fork.to
      <4>1. d \in manifest[fork.from] /\ fork.from \notin torn
        BY <3>1, <3>3
      <4>2. d \in scan.seen \/ \E a \in scan.left : d \in manifest[a] /\ (a = fork.from \/ <<a, fork.from>> \in copies)
        BY <3>5, <3>1, <4>1
      <4>3. ASSUME NEW a \in scan.left, d \in manifest[a], a = fork.from \/ <<a, fork.from>> \in copies
            PROVE  <<a, fork.to>> \in copies /\ d \in manifest'[a]
        BY <3>5, <3>1, <3>3, <4>3
      <4> QED
        BY <3>1, <3>5, <4>2, <4>3, <3>3
    <3> QED
      BY <3>2, <3>3
  <2>6. SharedSkillsAreKept'
    BY <1>5 DEF CopyFile
  <2> HIDE DEF SkillsTypeOK, PublisherHolds, ForkFollows, AbsentIsEmpty, ScanCovers, SharedSkillsAreKept
  <2> QED
    BY <2>1, <2>2, <2>3, <2>4, <2>5, <2>6
<1>6. CASE ForkFails
  BY ZenonT(40), <1>6 DEF ForkFails
<1>7. ASSUME NEW b \in Spaces, Discard(b) PROVE SkillsInv'
  <2>1. (SkillsTypeOK /\ copies \subseteq Spaces \X Spaces)'
    BY <1>7 DEF Discard
  <2>2. PublisherHolds'
    BY <1>7 DEF Discard
  <2>0. /\ \A c \in Spaces : c \in torn' <=>
               c # b /\ (c \in torn \/ (<<b, c>> \in copies /\ holder = "collector"))
        /\ known' = known \ {b} /\ \A c \in Spaces \ {b} : manifest'[c] = manifest[c] /\ snapshot0'[c] = snapshot0[c]
        /\ manifest'[b] = {} /\ UNCHANGED <<fork, copies, publisher, scan, holder>> /\ b # fork.to
        /\ gone' = gone \cup {b}
    <3>1. \A c \in Spaces : c \in {p[2] : p \in {q \in copies : q[1] = b /\ holder = "collector"}} <=>
                           <<b, c>> \in copies /\ holder = "collector"
      OBVIOUS
    <3> QED
      BY <1>7, <3>1 DEF Discard
  <2>3. ForkFollows'
    BY ZenonT(40), <2>0
  <2>4. AbsentIsEmpty'
    BY <1>7 DEF Discard
  <2>5. ScanCovers'
    <3> SUFFICES ASSUME holder = "collector", NEW c \in known' \ torn', NEW d \in manifest'[c]
                 PROVE  d \in scan.seen \/ \E a \in scan.left : d \in manifest'[a] /\ (a = c \/ <<a, c>> \in copies)
      BY <2>0
    <3>1. c # b /\ c \in known \ torn /\ d \in manifest[c] /\ <<b, c>> \notin copies
      BY <2>0
    <3>2. d \in scan.seen \/ \E a \in scan.left : d \in manifest[a] /\ (a = c \/ <<a, c>> \in copies)
      BY <3>1
    <3> QED
      BY <2>0, <3>1, <3>2
  <2>6. SharedSkillsAreKept'
    BY <1>7 DEF Discard
  <2> HIDE DEF SkillsTypeOK, PublisherHolds, ForkFollows, AbsentIsEmpty, ScanCovers, SharedSkillsAreKept
  <2> QED
    BY <2>1, <2>2, <2>3, <2>4, <2>5, <2>6
<1>8. ASSUME NEW b \in Spaces, ReadManifest(b) PROVE SkillsInv'
  <2>1. (SkillsTypeOK /\ copies \subseteq Spaces \X Spaces)'
    BY <1>8 DEF ReadManifest
  <2>2. PublisherHolds'
    BY <1>8 DEF ReadManifest
  <2>3. ForkFollows'
    BY <1>8 DEF ReadManifest
  <2>4. AbsentIsEmpty'
    BY <1>8 DEF ReadManifest
  <2>5. ScanCovers'
    BY <1>8 DEF ReadManifest
  <2>6. SharedSkillsAreKept'
    BY <1>8 DEF ReadManifest
  <2> HIDE DEF SkillsTypeOK, PublisherHolds, ForkFollows, AbsentIsEmpty, ScanCovers, SharedSkillsAreKept
  <2> QED
    BY <2>1, <2>2, <2>3, <2>4, <2>5, <2>6
<1>9. CASE StartScan
  BY <1>9 DEF StartScan
<1>10. CASE DropUnreferenced
  BY <1>10 DEF DropUnreferenced, NoScan
<1>11. CASE Halt
  BY <1>11 DEF Halt, NoScan
<1>12. ASSUME NEW d \in Digests, Grows(d) PROVE SkillsInv'
  <2>1. (SkillsTypeOK /\ copies \subseteq Spaces \X Spaces)'
    BY <1>12 DEF Grows
  <2>2. PublisherHolds'
    BY <1>12 DEF Grows
  <2>3. ForkFollows'
    BY <1>12 DEF Grows
  <2>4. AbsentIsEmpty'
    BY <1>12 DEF Grows
  <2>5. ScanCovers'
    BY ZenonT(40), <1>12 DEF Grows
  <2>6. SharedSkillsAreKept'
    BY <1>12 DEF Grows
  <2> HIDE DEF SkillsTypeOK, PublisherHolds, ForkFollows, AbsentIsEmpty, ScanCovers, SharedSkillsAreKept
  <2> QED
    BY <2>1, <2>2, <2>3, <2>4, <2>5, <2>6
<1>13. ASSUME NEW d \in Digests \cup {NoDigest}, Republish(d) PROVE SkillsInv'
  <2>1. (SkillsTypeOK /\ copies \subseteq Spaces \X Spaces)'
    BY <1>13 DEF Republish
  <2>2. PublisherHolds'
    BY <1>13 DEF Republish
  <2>3. ForkFollows'
    BY <1>13 DEF Republish
  <2>4. AbsentIsEmpty'
    BY <1>13 DEF Republish
  <2>5. ScanCovers'
    BY ZenonT(40), <1>13 DEF Republish
  <2>6. SharedSkillsAreKept'
    BY <1>13 DEF Republish
  <2> HIDE DEF SkillsTypeOK, PublisherHolds, ForkFollows, AbsentIsEmpty, ScanCovers, SharedSkillsAreKept
  <2> QED
    BY <2>1, <2>2, <2>3, <2>4, <2>5, <2>6
<1>14. CASE UNCHANGED skillsVars
  <2>1. (SkillsTypeOK /\ copies \subseteq Spaces \X Spaces)'
    BY <1>14 DEF skillsVars
  <2>2. PublisherHolds'
    BY <1>14 DEF skillsVars
  <2>3. ForkFollows'
    BY <1>14 DEF skillsVars
  <2>4. AbsentIsEmpty'
    BY <1>14 DEF skillsVars
  <2>5. ScanCovers'
    BY ZenonT(40), <1>14 DEF skillsVars
  <2>6. SharedSkillsAreKept'
    BY <1>14 DEF skillsVars
  <2> HIDE DEF SkillsTypeOK, PublisherHolds, ForkFollows, AbsentIsEmpty, ScanCovers, SharedSkillsAreKept
  <2> QED
    BY <2>1, <2>2, <2>3, <2>4, <2>5, <2>6
<1> HIDE DEF SkillsInv, Files
<1> QED
  BY <1>1, <1>2, <1>3, <1>4, <1>5, <1>6, <1>7, <1>8, <1>9, <1>10, <1>11, <1>12, <1>13, <1>14 DEF SkillsNext

\* A version that a workspace refers to is in the store, and one that a user pinned is
\* referred to, whatever publications, forks, deletions and collections do meanwhile.
THEOREM SkillsAreKept == SkillsInit /\ [][SkillsNext]_skillsVars => []SharedSkillsAreKept
<1>1. SkillsInv => SharedSkillsAreKept
  BY DEF SkillsInv
<1> QED
  BY <1>1, SkillsStart, SkillsInvStep, PTL

LEMMA SkillsTypesAlways == SkillsInit /\ [][SkillsNext]_skillsVars => []SkillsTypeOK
<1>1. SkillsInv => SkillsTypeOK
  BY DEF SkillsInv
<1> QED
  BY <1>1, SkillsStart, SkillsInvStep, PTL

-----------------------------------------------------------------------------
(* Accounts                                                                  *)

Roles == {"none", "user", "system_admin"}
Platforms == [owner : People, admins : SUBSET People, primary : SUBSET People,
              from : Filings \cup {"none", "page", "boot"}]
FilingRows == [key : Keys, by : People, status : {"none", "pending", "approved", "rejected"}]
RoleCalls == [op : {"role"}, user : People, new : {"user", "system_admin"}, seen : Roles,
              at : {"count", "write"}]
RemoveCalls == [op : {"remove"}, key : Keys, user : People]
FileCalls == [op : {"file"}, key : Keys]
ReviewCalls == [op : {"approve", "reject"}, of : Filings, at : {"checked", "created", "added"}]
Calls == {NoAct} \cup RoleCalls \cup RemoveCalls \cup FileCalls \cup ReviewCalls
AccountsTypes ==
  /\ AccountsTypeOK
  /\ platform \in [Keys -> Platforms] /\ filing \in [Filings -> FilingRows]
  /\ act \in [People -> Calls]

\* One change of a role at a time knows the role it changes, and takes it from nobody who is
\* the last to have it.
RolesFollow ==
  "roles" \notin overlaps => \A a \in Changing :
    /\ role[act[a].user] # "none" /\ \A b \in Changing : a = b
    /\ act[a].at = "count" => role[act[a].user] = act[a].seen
    /\ act[a].at = "write" /\ role[act[a].user] = "system_admin" /\ act[a].new # "system_admin" =>
         \E v \in Admins : v # act[a].user

\* Who is about to remove an administrator does not remove the owner, and who approves a
\* request has created the platform for its applicant.
OwnersFollow ==
  \A a \in People :
    /\ act[a].op = "remove" =>
         /\ platform[act[a].key].from # "none"
         /\ act[a].key \notin overlaps => act[a].user # platform[act[a].key].owner
    /\ act[a].op \in {"approve", "reject"} => filing[act[a].of].status # "none"
    /\ act[a].op = "approve" /\ act[a].at # "checked" =>
         LET k == filing[act[a].of].key
         IN /\ platform[k].from = act[a].of
            /\ k \notin overlaps => platform[k].owner = filing[act[a].of].by

\* A platform has its first administrator from the start.
PlatformsBegin ==
  /\ platform[Standalone].from # "none"
  /\ \A k \in Keys : platform[k].admins # {} => platform[k].from # "none"

\* A key has one request, and a request one review, which finds it pending.
ReviewsFollow ==
  /\ \A k \in Keys : \A f, g \in Taken(k) : f = g
  /\ \A f \in Filings \ overlaps : \A a \in Reviews(f) :
       filing[f].status = "pending" /\ \A b \in Reviews(f) : a = b

AccountsInv ==
  AccountsTypes /\ RolesFollow /\ PlatformsBegin /\ OwnersFollow /\ ReviewsFollow /\ AccountsAreSound


USE AccountsAssumption DEF Exists, Admins, Known, Changing, Reviews, Taken, Approving

LEMMA AccountsStart == AccountsInit => AccountsInv
BY DEF AccountsInit, AccountsInv, AccountsTypes, AccountsTypeOK, RolesFollow, OwnersFollow, PlatformsBegin,
       ReviewsFollow, AccountsAreSound, AdminRemains, PlatformsAreOwned, RequestsAreSettled,
       Calls, Roles, Platforms, FilingRows, RoleCalls, NoAct, NoFiling, NoPlatform, Owned

LEMMA SentinelsApart ==
  /\ \A f \in Filings : f \notin {"roles", "none", "page", "boot"}
  /\ \A k \in Keys : k \notin {"roles", "none", "page", "boot"}
  OBVIOUS

\* One user's call goes on, and what the fields of calls, platforms and requests are.
LEMMA CallMoves ==
  ASSUME AccountsTypes, NEW a \in People, NEW c \in Calls, Doing(a, c)
  PROVE  /\ act' \in [People -> Calls] /\ act'[a] = c
         /\ \A b \in People \ {a} : act'[b] = act[b]
BY DEF AccountsTypes, Doing

LEMMA CallFields ==
  ASSUME AccountsTypes, NEW a \in People
  PROVE  /\ act[a].op = "role" => act[a] \in RoleCalls
         /\ act[a].op = "remove" => act[a].key \in Keys /\ act[a].user \in People
         /\ act[a].op = "file" => act[a].key \in Keys
         /\ act[a].op \in {"approve", "reject"} =>
              act[a].of \in Filings /\ act[a] \in ReviewCalls
BY DEF AccountsTypes, Calls, NoAct, RoleCalls, RemoveCalls, FileCalls, ReviewCalls

LEMMA RowFields ==
  ASSUME AccountsTypes
  PROVE  /\ \A k \in Keys : platform[k] \in Platforms /\ platform[k].owner \in People
                           /\ platform[k].admins \subseteq People /\ platform[k].primary \subseteq platform[k].admins
                           /\ platform[k].from \in Filings \cup {"none", "page", "boot"}
         /\ \A f \in Filings : /\ filing[f].key \in Keys /\ filing[f].by \in People
                              /\ filing[f].status \in {"none", "pending", "approved", "rejected"}
BY DEF AccountsTypes, AccountsTypeOK, Platforms, FilingRows

\* A platform is created.
LEMMA PlatformMade ==
  ASSUME AccountsTypes, NEW k \in Keys, NEW u \in People, NEW from \in Filings \cup {"page"},
         platform' = [platform EXCEPT ![k] = Owned(u, from)]
  PROVE  /\ platform' \in [Keys -> Platforms] /\ \A q \in Keys \ {k} : platform'[q] = platform[q]
         /\ platform'[k].owner = u /\ platform'[k].from = from
         /\ platform'[k].admins = {u} /\ platform'[k].primary = {u}
BY DEF AccountsTypes, Platforms, Owned

\* What a call knows of owners stays so when a call ends that changes no owner, or an approval
\* that has its platform goes on.
LEMMA OwnersStay ==
  ASSUME AccountsInv, NEW a \in People, \A b \in People \ {a} : act'[b] = act[b],
         \/ act'[a] = NoAct
         \/ /\ act[a].op = "approve" /\ act[a].at # "checked"
            /\ act'[a].op = "approve" /\ act'[a].of = act[a].of,
         overlaps' = overlaps,
         \A k \in Keys : platform'[k].owner = platform[k].owner /\ platform'[k].from = platform[k].from,
         \A f \in Filings : /\ filing'[f].key = filing[f].key /\ filing'[f].by = filing[f].by
                            /\ filing[f].status # "none" => filing'[f].status # "none"
  PROVE  OwnersFollow'
<1> SUFFICES ASSUME NEW b \in People
             PROVE  /\ act'[b].op = "remove" =>
                         /\ platform'[act'[b].key].from # "none"
                         /\ act'[b].key \notin overlaps => act'[b].user # platform'[act'[b].key].owner
                    /\ act'[b].op \in {"approve", "reject"} => filing'[act'[b].of].status # "none"
                    /\ act'[b].op = "approve" /\ act'[b].at # "checked" =>
                         LET k == filing'[act'[b].of].key
                         IN /\ platform'[k].from = act'[b].of
                            /\ k \notin overlaps => platform'[k].owner = filing'[act'[b].of].by
  BY DEF OwnersFollow
<1>1. CASE act'[b] = NoAct
  BY <1>1 DEF NoAct
<1>3. CASE b = a /\ act[a].op = "approve" /\ act[a].at # "checked" /\ act'[a].op = "approve" /\ act'[a].of = act[a].of
  <2>1. act[b].of \in Filings /\ filing[act[b].of].key \in Keys
    BY <1>3, CallFields, RowFields DEF AccountsInv
  <2> QED
    BY <1>3, <2>1 DEF AccountsInv, OwnersFollow
<1>2. CASE b # a
  <2>1. act'[b] = act[b]
    BY <1>2
  <2>2. CASE act[b].op = "remove"
    BY <2>1, <2>2, CallFields DEF AccountsInv, OwnersFollow
  <2>3. CASE act[b].op \in {"approve", "reject"}
    <3>1. act[b].of \in Filings /\ filing[act[b].of].key \in Keys
      BY <2>3, CallFields, RowFields DEF AccountsInv
    <3> QED
      BY <2>1, <2>3, <3>1 DEF AccountsInv, OwnersFollow
  <2> QED
    BY <2>1, <2>2, <2>3
<1> QED
  BY <1>1, <1>2, <1>3

LEMMA AccountsBeginRole ==
  ASSUME AccountsInv, NEW a \in People, NEW u \in People, NEW new \in {"user", "system_admin"}, BeginRole(a, u, new)
  PROVE  AccountsInv'
<1> DEFINE c == [op |-> "role", user |-> u, new |-> new, seen |-> role[u], at |-> "count"]
<1> USE DEF AccountsInv, AccountsAreSound
<1>0. /\ UNCHANGED <<role, platform, filing>> /\ act[a] = NoAct /\ role[u] # "none" /\ Doing(a, c)
      /\ overlaps' = IF Changing = {} THEN overlaps ELSE overlaps \cup {"roles"}
  BY DEF BeginRole, Starts
<1>1. c \in RoleCalls /\ c \in Calls /\ c.op = "role" /\ c.at = "count" /\ c.user = u /\ c.seen = role[u]
  <2>1. role[u] \in Roles \ {"none"}
    BY <1>0 DEF AccountsTypes, AccountsTypeOK, Roles
  <2> QED
    BY <2>1 DEF RoleCalls, Roles, Calls
<1> HIDE DEF c
<1>2. act' \in [People -> Calls] /\ act'[a] = c /\ \A b \in People \ {a} : act'[b] = act[b]
  BY <1>0, <1>1, CallMoves
<1>3. overlaps \subseteq overlaps' /\ \A f \in Filings \cup Keys : f \in overlaps' => f \in overlaps
  BY <1>0, SentinelsApart
<1>4. AccountsTypes'
  BY <1>0, <1>2 DEF AccountsTypes, AccountsTypeOK
<1>5. RolesFollow'
  BY <1>0, <1>1, <1>2 DEF RolesFollow
<1>6. PlatformsBegin' /\ AdminRemains' /\ PlatformsAreOwned'
  BY <1>0, <1>3 DEF PlatformsBegin, AdminRemains, PlatformsAreOwned
<1>7. OwnersFollow'
  BY <1>0, <1>1, <1>2, <1>3 DEF OwnersFollow
<1>8. ReviewsFollow'
  BY <1>0, <1>1, <1>2, <1>3 DEF ReviewsFollow
<1>9. RequestsAreSettled'
  <2>1. \A f \in Filings : Approving(f)' = Approving(f)
    BY <1>0, <1>1, <1>2 DEF NoAct
  <2> QED
    BY <1>0, <1>3, <2>1 DEF RequestsAreSettled
<1> QED
  BY <1>4, <1>5, <1>6, <1>7, <1>8, <1>9

LEMMA AccountsCountAdmins ==
  ASSUME AccountsInv, NEW a \in People, CountAdmins(a)
  PROVE  AccountsInv'
<1> USE DEF AccountsInv, AccountsAreSound
<1>0. /\ act[a] \in RoleCalls /\ act[a].at = "count" /\ UNCHANGED <<role, platform, filing, overlaps>>
  BY CallFields DEF CountAdmins
<1>1. CASE IsLastAdmin(act[a])
  <2>1. /\ act' \in [People -> Calls] /\ act'[a] = NoAct /\ \A b \in People \ {a} : act'[b] = act[b]
    BY <1>1, CallMoves DEF CountAdmins, Ends, Calls
  <2>2. AccountsTypes'
    BY <1>0, <2>1 DEF AccountsTypes, AccountsTypeOK
  <2>3. RolesFollow' /\ AdminRemains' /\ PlatformsBegin' /\ PlatformsAreOwned'
    BY <1>0, <2>1 DEF RolesFollow, AdminRemains, PlatformsBegin, PlatformsAreOwned, NoAct
  <2>4. OwnersFollow' /\ ReviewsFollow'
    BY <1>0, <2>1 DEF OwnersFollow, ReviewsFollow, NoAct, RoleCalls
  <2>5. RequestsAreSettled'
    BY <1>0, <2>1 DEF RequestsAreSettled, NoAct, RoleCalls
  <2> QED
    BY <2>2, <2>3, <2>4, <2>5
<1>2. CASE ~IsLastAdmin(act[a])
  <2>1. /\ act' \in [People -> Calls] /\ \A b \in People \ {a} : act'[b] = act[b]
        /\ act'[a].op = "role" /\ act'[a].at = "write" /\ act'[a].user = act[a].user /\ act'[a].new = act[a].new
    <3>1. [act[a] EXCEPT !.at = "write"] \in Calls
      BY <1>0 DEF RoleCalls, Calls
    <3>2. act' \in [People -> Calls] /\ act'[a] = [act[a] EXCEPT !.at = "write"]
      BY <1>2, <3>1, CallMoves DEF CountAdmins
    <3>3. \A b \in People \ {a} : act'[b] = act[b]
      BY <1>2, <3>1, CallMoves DEF CountAdmins
    <3> QED
      BY <1>0, <3>2, <3>3 DEF RoleCalls
  <2>2. AccountsTypes'
    BY <1>0, <2>1 DEF AccountsTypes, AccountsTypeOK
  <2>3. AdminRemains' /\ PlatformsBegin' /\ PlatformsAreOwned'
    BY <1>0, <2>1 DEF AdminRemains, PlatformsBegin, PlatformsAreOwned
  <2>4. OwnersFollow' /\ ReviewsFollow'
    BY SMTT(40), <1>0, <2>1 DEF OwnersFollow, ReviewsFollow, RoleCalls
  <2>5. RequestsAreSettled'
    BY <1>0, <2>1 DEF RequestsAreSettled, RoleCalls
  <2>6. act[a].seen = "system_admin" /\ act[a].new # "system_admin" /\ act[a].user \in Admins =>
          \E v \in Admins : v # act[a].user
    <3>1. Cardinality({act[a].user}) = 1
      BY FS_Singleton
    <3> QED
      BY <1>2, <3>1 DEF IsLastAdmin
  <2>7. RolesFollow'
    BY <1>0, <2>1, <2>6 DEF RolesFollow, RoleCalls
  <2> QED
    BY <2>2, <2>3, <2>4, <2>5, <2>6, <2>7
<1> QED
  BY <1>1, <1>2

LEMMA AccountsWriteRole ==
  ASSUME AccountsInv, NEW a \in People, WriteRole(a)
  PROVE  AccountsInv'
<1> USE DEF AccountsInv, AccountsAreSound, WriteRole, Starts, Stays, Doing, Ends, NoAct
<1>1. AccountsTypes'
  BY DEF AccountsTypes, AccountsTypeOK, Calls, Roles, Platforms, FilingRows, RoleCalls, RemoveCalls, FileCalls, ReviewCalls
<1>2. RolesFollow'
  BY DEF RolesFollow, AccountsTypes, AccountsTypeOK, Calls, Roles, Platforms, FilingRows, RoleCalls, RemoveCalls, FileCalls, ReviewCalls
<1>3. PlatformsBegin'
  BY DEF PlatformsBegin, AccountsTypes, AccountsTypeOK, Calls, Roles, Platforms, FilingRows, RoleCalls, RemoveCalls, FileCalls, ReviewCalls
<1>4. OwnersFollow'
  BY DEF OwnersFollow, AccountsTypes, AccountsTypeOK, Calls, Roles, Platforms, FilingRows, RoleCalls, RemoveCalls, FileCalls, ReviewCalls
<1>5. ReviewsFollow'
  BY DEF ReviewsFollow, AccountsTypes, AccountsTypeOK, Calls, Roles, Platforms, FilingRows, RoleCalls, RemoveCalls, FileCalls, ReviewCalls
<1>6. AdminRemains'
  <2> SUFFICES ASSUME "roles" \notin overlaps PROVE \E v \in People : role'[v] = "system_admin"
    BY DEF AdminRemains
  <2>1. /\ act[a] \in RoleCalls /\ role \in [People -> Roles]
        /\ role' = [role EXCEPT ![act[a].user] = act[a].new]
    BY CallFields DEF AccountsTypes, AccountsTypeOK, Roles
  <2>2. PICK v \in People : role[v] = "system_admin"
    BY DEF AdminRemains
  <2>3. CASE act[a].new = "system_admin"
    BY <2>1, <2>3 DEF RoleCalls
  <2>4. CASE act[a].new # "system_admin" /\ v # act[a].user
    BY <2>1, <2>2, <2>4 DEF RoleCalls
  <2>5. CASE act[a].new # "system_admin" /\ v = act[a].user
    <3>1. \E w \in Admins : w # act[a].user
      BY <2>2, <2>5 DEF RolesFollow
    <3> QED
      BY <2>1, <3>1 DEF RoleCalls
  <2> QED
    BY <2>3, <2>4, <2>5
<1>7. PlatformsAreOwned'
  BY DEF PlatformsAreOwned, AccountsTypes, AccountsTypeOK, Calls, Roles, Platforms, FilingRows, RoleCalls, RemoveCalls, FileCalls, ReviewCalls
<1>8. RequestsAreSettled'
  BY DEF RequestsAreSettled, AccountsTypes, AccountsTypeOK, Calls, Roles, Platforms, FilingRows, RoleCalls, RemoveCalls, FileCalls, ReviewCalls
<1> QED
  BY <1>1, <1>2, <1>3, <1>4, <1>5, <1>6, <1>7, <1>8

LEMMA AccountsFirstLogin ==
  ASSUME AccountsInv, NEW a \in People, FirstLogin(a)
  PROVE  AccountsInv'
<1> USE DEF AccountsInv, AccountsAreSound, FirstLogin, Starts, Stays, Doing, Ends, NoAct
<1>1. AccountsTypes'
  BY DEF AccountsTypes, AccountsTypeOK, Calls, Roles, Platforms, FilingRows, RoleCalls, RemoveCalls, FileCalls, ReviewCalls
<1>2. RolesFollow'
  <2>1. Admins' = Admins /\ \A v \in People : role[v] # "none" => role'[v] = role[v]
    BY DEF AccountsTypes, AccountsTypeOK
  <2> QED
    BY <2>1, CallFields DEF RolesFollow, RoleCalls
<1>3. PlatformsBegin'
  BY DEF PlatformsBegin, AccountsTypes, AccountsTypeOK, Calls, Roles, Platforms, FilingRows, RoleCalls, RemoveCalls, FileCalls, ReviewCalls
<1>4. OwnersFollow'
  BY DEF OwnersFollow, AccountsTypes, AccountsTypeOK, Calls, Roles, Platforms, FilingRows, RoleCalls, RemoveCalls, FileCalls, ReviewCalls
<1>5. ReviewsFollow'
  BY DEF ReviewsFollow, AccountsTypes, AccountsTypeOK, Calls, Roles, Platforms, FilingRows, RoleCalls, RemoveCalls, FileCalls, ReviewCalls
<1>6. AdminRemains'
  BY DEF AdminRemains, AccountsTypes, AccountsTypeOK, Calls, Roles, Platforms, FilingRows, RoleCalls, RemoveCalls, FileCalls, ReviewCalls
<1>7. PlatformsAreOwned'
  BY DEF PlatformsAreOwned, AccountsTypes, AccountsTypeOK, Calls, Roles, Platforms, FilingRows, RoleCalls, RemoveCalls, FileCalls, ReviewCalls
<1>8. RequestsAreSettled'
  BY DEF RequestsAreSettled, AccountsTypes, AccountsTypeOK, Calls, Roles, Platforms, FilingRows, RoleCalls, RemoveCalls, FileCalls, ReviewCalls
<1> QED
  BY <1>1, <1>2, <1>3, <1>4, <1>5, <1>6, <1>7, <1>8

LEMMA AccountsLaterLogin ==
  ASSUME AccountsInv, NEW a \in People, LaterLogin(a)
  PROVE  AccountsInv'
<1> USE DEF AccountsInv, AccountsAreSound, LaterLogin, Starts, Stays, Doing, Ends, NoAct
<1>1. AccountsTypes'
  BY DEF AccountsTypes, AccountsTypeOK, Calls, Roles, Platforms, FilingRows, RoleCalls, RemoveCalls, FileCalls, ReviewCalls
<1>2. RolesFollow'
  BY DEF RolesFollow, AccountsTypes, AccountsTypeOK, Calls, Roles, Platforms, FilingRows, RoleCalls, RemoveCalls, FileCalls, ReviewCalls
<1>3. PlatformsBegin'
  BY DEF PlatformsBegin, AccountsTypes, AccountsTypeOK, Calls, Roles, Platforms, FilingRows, RoleCalls, RemoveCalls, FileCalls, ReviewCalls
<1>4. OwnersFollow'
  BY DEF OwnersFollow, AccountsTypes, AccountsTypeOK, Calls, Roles, Platforms, FilingRows, RoleCalls, RemoveCalls, FileCalls, ReviewCalls
<1>5. ReviewsFollow'
  BY DEF ReviewsFollow, AccountsTypes, AccountsTypeOK, Calls, Roles, Platforms, FilingRows, RoleCalls, RemoveCalls, FileCalls, ReviewCalls
<1>6. AdminRemains'
  BY DEF AdminRemains, AccountsTypes, AccountsTypeOK, Calls, Roles, Platforms, FilingRows, RoleCalls, RemoveCalls, FileCalls, ReviewCalls
<1>7. PlatformsAreOwned'
  BY DEF PlatformsAreOwned, AccountsTypes, AccountsTypeOK, Calls, Roles, Platforms, FilingRows, RoleCalls, RemoveCalls, FileCalls, ReviewCalls
<1>8. RequestsAreSettled'
  BY DEF RequestsAreSettled, AccountsTypes, AccountsTypeOK, Calls, Roles, Platforms, FilingRows, RoleCalls, RemoveCalls, FileCalls, ReviewCalls
<1> QED
  BY <1>1, <1>2, <1>3, <1>4, <1>5, <1>6, <1>7, <1>8

LEMMA AccountsRemoveAdmin ==
  ASSUME AccountsInv, NEW a \in People, RemoveAdmin(a)
  PROVE  AccountsInv'
<1> DEFINE k == act[a].key  u == act[a].user
<1> USE DEF AccountsInv, AccountsAreSound
<1>0. /\ k \in Keys /\ u \in People /\ act[a].op = "remove" /\ UNCHANGED <<role, filing, overlaps>>
      /\ act' \in [People -> Calls] /\ act'[a] = NoAct /\ \A b \in People \ {a} : act'[b] = act[b]
  BY CallFields, CallMoves DEF RemoveAdmin, Ends, Calls
<1>1. /\ platform' \in [Keys -> Platforms] /\ \A q \in Keys \ {k} : platform'[q] = platform[q]
      /\ platform'[k].owner = platform[k].owner /\ platform'[k].from = platform[k].from
      /\ platform'[k].admins = platform[k].admins \ {u} /\ platform'[k].primary = platform[k].primary \ {u}
  <2> DEFINE less == [platform[k] EXCEPT !.admins = @ \ {u}, !.primary = @ \ {u}]
  <2>0. platform[k] \in Platforms
    BY <1>0, RowFields
  <2>2. platform' = [platform EXCEPT ![k] = less]
    BY <1>0 DEF RemoveAdmin, AccountsTypes
  <2> HIDE DEF k, u
  <2>1. /\ less \in Platforms /\ less.owner = platform[k].owner /\ less.from = platform[k].from
        /\ less.admins = platform[k].admins \ {u} /\ less.primary = platform[k].primary \ {u}
    BY <2>0 DEF Platforms
  <2> HIDE DEF less
  <2> QED
    BY <1>0, <2>1, <2>2 DEF AccountsTypes
<1>2. AccountsTypes'
  BY <1>0, <1>1 DEF AccountsTypes, AccountsTypeOK
<1>3. RolesFollow' /\ AdminRemains'
  BY <1>0 DEF RolesFollow, AdminRemains, NoAct
<1>8. \A q \in Keys : platform'[q].owner = platform[q].owner /\ platform'[q].from = platform[q].from
  BY <1>0, <1>1
<1>9. \A q \in Keys : platform'[q].admins \subseteq platform[q].admins
  BY <1>0, <1>1
<1>4. PlatformsBegin' /\ OwnersFollow'
  <2>1. OwnersFollow'
    BY <1>0, <1>8, OwnersStay
  <2>2. PlatformsBegin'
    BY <1>8, <1>9 DEF PlatformsBegin
  <2> QED
    BY <2>1, <2>2
<1>5. ReviewsFollow'
  BY <1>0 DEF ReviewsFollow, NoAct
<1>6. PlatformsAreOwned'
  BY SMTT(60), <1>0, <1>1, RowFields DEF PlatformsAreOwned, PlatformsBegin, OwnersFollow
<1>7. RequestsAreSettled'
  BY <1>0, <1>1, RowFields DEF RequestsAreSettled, NoAct
<1> QED
  BY <1>2, <1>3, <1>4, <1>5, <1>6, <1>7

LEMMA AccountsFileRequest ==
  ASSUME AccountsInv, NEW a \in People, FileRequest(a)
  PROVE  AccountsInv'
<1> USE DEF AccountsInv, AccountsAreSound
<1>0. /\ act[a].op = "file" /\ act[a].key \in Keys /\ UNCHANGED <<role, platform, overlaps>>
      /\ act' \in [People -> Calls] /\ act'[a] = NoAct /\ \A b \in People \ {a} : act'[b] = act[b]
  BY CallFields, CallMoves DEF FileRequest, Ends, Calls
<1>1. RolesFollow' /\ AdminRemains' /\ PlatformsBegin' /\ PlatformsAreOwned'
  BY <1>0 DEF RolesFollow, AdminRemains, PlatformsBegin, PlatformsAreOwned, NoAct
<1>2. \A f \in Filings : Reviews(f)' = Reviews(f) /\ Approving(f)' = Approving(f)
  BY <1>0 DEF NoAct
<1>3. CASE UNCHANGED filing
  <2>1. AccountsTypes' /\ OwnersFollow'
    BY <1>0, <1>3 DEF AccountsTypes, AccountsTypeOK, OwnersFollow, NoAct
  <2>2. ReviewsFollow' /\ RequestsAreSettled'
    BY <1>0, <1>2, <1>3 DEF ReviewsFollow, RequestsAreSettled, NoAct
  <2> QED
    BY <1>1, <2>1, <2>2
<1>4. ASSUME NEW f \in Filings, filing[f] = NoFiling, Taken(act[a].key) = {},
             filing' = [filing EXCEPT ![f] = [key |-> act[a].key, by |-> a, status |-> "pending"]]
      PROVE  AccountsInv'
  <2>1. /\ filing' \in [Filings -> FilingRows] /\ \A g \in Filings \ {f} : filing'[g] = filing[g]
        /\ filing'[f].key = act[a].key /\ filing'[f].status = "pending" /\ filing[f].status = "none"
    BY <1>0, <1>4 DEF AccountsTypes, FilingRows, NoFiling
  <2>2. Reviews(f) = {}
    BY <2>1 DEF OwnersFollow
  <2>3. AccountsTypes'
    BY <1>0, <2>1 DEF AccountsTypes, AccountsTypeOK, FilingRows
  <2>4. OwnersFollow'
    <3>1. \A b \in People : act'[b].op \in {"remove", "approve", "reject"} => act'[b] = act[b]
      BY <1>0 DEF NoAct
    <3>2. \A b \in People : act'[b].op \in {"approve", "reject"} => filing'[act[b].of] = filing[act[b].of]
      BY <2>1, <2>2, <3>1, CallFields
    <3> QED
      BY <1>0, <3>1, <3>2 DEF OwnersFollow
  <2>5. ReviewsFollow'
    BY <1>0, <1>2, <1>4, <2>1, <2>2 DEF ReviewsFollow
  <2>6. RequestsAreSettled'
    BY <1>0, <1>2, <2>1, <2>2 DEF RequestsAreSettled
  <2> QED
    BY <1>1, <2>3, <2>4, <2>5, <2>6
<1> QED
  BY <1>3, <1>4 DEF FileRequest

LEMMA AccountsCreateApproved ==
  ASSUME AccountsInv, NEW a \in People, CreateApproved(a)
  PROVE  AccountsInv'
<1> USE DEF AccountsInv, AccountsAreSound
<1>0. PICK f \in Filings, k \in Keys :
      /\ f = act[a].of /\ k = filing[f].key /\ act[a].op = "approve" /\ act[a].at = "checked"
      /\ act[a] \in ReviewCalls /\ UNCHANGED <<role, filing, overlaps>> /\ filing[f].by \in People
  BY CallFields, RowFields DEF CreateApproved
<1>1. CASE Exists(k)
  <2>1. /\ act' \in [People -> Calls] /\ act'[a] = NoAct /\ \A b \in People \ {a} : act'[b] = act[b]
        /\ UNCHANGED platform
    BY <1>0, <1>1, CallMoves DEF CreateApproved, Ends, Calls
  <2>2. AccountsTypes'
    BY <1>0, <2>1 DEF AccountsTypes, AccountsTypeOK
  <2>3. RolesFollow' /\ AdminRemains' /\ PlatformsBegin' /\ OwnersFollow'
    BY SMTT(40), <1>0, <2>1 DEF RolesFollow, AdminRemains, PlatformsBegin, OwnersFollow, NoAct
  <2>4. ReviewsFollow' /\ PlatformsAreOwned'
    BY <1>0, <2>1 DEF ReviewsFollow, PlatformsAreOwned, NoAct
  <2>5. \A g \in Filings : Approving(g)' = Approving(g)
    BY <1>0, <2>1 DEF NoAct
  <2> QED
    BY <1>0, <2>1, <2>2, <2>3, <2>4, <2>5 DEF RequestsAreSettled
<1>2. CASE ~Exists(k)
  <2>1. /\ act' \in [People -> Calls] /\ \A b \in People \ {a} : act'[b] = act[b]
        /\ act'[a].op = "approve" /\ act'[a].of = f /\ act'[a].at = "created"
    <3>1. [act[a] EXCEPT !.at = "created"] \in Calls
      BY <1>0 DEF ReviewCalls, Calls
    <3>2. act' \in [People -> Calls] /\ act'[a] = [act[a] EXCEPT !.at = "created"]
      BY <1>0, <1>2, <3>1, CallMoves DEF CreateApproved
    <3>3. \A b \in People \ {a} : act'[b] = act[b]
      BY <1>0, <1>2, <3>1, CallMoves DEF CreateApproved
    <3> QED
      BY <1>0, <3>2, <3>3 DEF ReviewCalls
  <2>2. /\ platform' \in [Keys -> Platforms] /\ \A q \in Keys \ {k} : platform'[q] = platform[q]
        /\ platform'[k].owner = filing[f].by /\ platform'[k].from = f
        /\ platform'[k].admins = {filing[f].by} /\ platform'[k].primary = {filing[f].by}
    <3>1. platform' = [platform EXCEPT ![k] = Owned(filing[f].by, f)]
      BY <1>0, <1>2 DEF CreateApproved
    <3> QED
      BY SMTT(40), <1>0, <3>1 DEF Owned, AccountsTypes, Platforms
  <2>3. AccountsTypes'
    BY <1>0, <2>1, <2>2 DEF AccountsTypes, AccountsTypeOK
  <2>4. RolesFollow' /\ AdminRemains'
    BY <1>0, <2>1 DEF RolesFollow, AdminRemains
  <2>5. PlatformsBegin'
    BY <1>0, <2>2 DEF PlatformsBegin
  <2>9. \A b \in People \ {a} : act[b].op = "approve" /\ act[b].at # "checked" => filing[act[b].of].key # k
    <3> SUFFICES ASSUME NEW b \in People \ {a}, act[b].op = "approve", act[b].at # "checked",
                        filing[act[b].of].key = k
                 PROVE  FALSE
      OBVIOUS
    <3>1. act[b].of \in Filings /\ platform[k].from = act[b].of
      BY CallFields DEF OwnersFollow
    <3> QED
      BY <1>2, <3>1, SentinelsApart
  <2>6. OwnersFollow'
    <3> SUFFICES ASSUME NEW b \in People
                 PROVE  /\ act'[b].op = "remove" =>
                             /\ platform'[act'[b].key].from # "none"
                             /\ act'[b].key \notin overlaps => act'[b].user # platform'[act'[b].key].owner
                        /\ act'[b].op \in {"approve", "reject"} => filing[act'[b].of].status # "none"
                        /\ act'[b].op = "approve" /\ act'[b].at # "checked" =>
                             LET q == filing[act'[b].of].key
                             IN /\ platform'[q].from = act'[b].of
                                /\ q \notin overlaps => platform'[q].owner = filing[act'[b].of].by
      BY <1>0 DEF OwnersFollow
    <3>1. CASE b = a
      <4>1. filing[f].status # "none"
        BY <1>0 DEF OwnersFollow
      <4> QED
        BY <1>0, <2>1, <2>2, <3>1, <4>1
    <3>2. CASE b # a
      <4>1. act'[b] = act[b]
        BY <2>1, <3>2
      <4>2. CASE act[b].op = "remove"
        <5>1. act[b].key \in Keys \ {k} /\ platform'[act[b].key] = platform[act[b].key]
          BY <1>2, <2>2, <4>2, CallFields DEF OwnersFollow
        <5> QED
          BY <4>1, <4>2, <5>1 DEF OwnersFollow
      <4>3. CASE act[b].op # "remove"
        BY SMTT(40), <2>2, <2>9, <3>2, <4>1, <4>3, CallFields, RowFields DEF OwnersFollow
      <4> QED
        BY <4>2, <4>3
    <3> QED
      BY <3>1, <3>2
  <2>7. ReviewsFollow'
    BY <1>0, <2>1 DEF ReviewsFollow
  <2>10. PlatformsAreOwned'
    <3> SUFFICES ASSUME NEW q \in Keys \ overlaps, Exists(q)'
                 PROVE  /\ platform'[q].owner \in platform'[q].primary
                        /\ platform'[q].primary \subseteq
                             {platform'[q].owner} \cup (IF q = Standalone THEN {Seed} ELSE {})
      BY <1>0 DEF PlatformsAreOwned
    <3>1. CASE q = k
      BY <2>2, <3>1
    <3>2. CASE q # k
      BY <2>2, <3>2 DEF PlatformsAreOwned
    <3> QED
      BY <3>1, <3>2
  <2>11. \A g \in Filings : Approving(g) \subseteq Approving(g)'
    BY <1>0, <2>1
  <2>12. a \in Approving(f)' /\ platform[k].from = "none"
    BY <1>0, <1>2, <2>1
  <2>8. RequestsAreSettled'
    <3>1. \A g \in Filings : Approving(g) # {} => Approving(g)' # {}
      BY <2>11
    <3>2. \A g \in Filings : (\E q \in Keys : platform'[q].from = g) => g = f \/ \E q \in Keys : platform[q].from = g
      BY <2>2
    <3>3. \A g \in Filings : filing[g].status = "approved" /\ platform[filing[g].key].from = g => filing[g].key # k
      BY <2>12, SentinelsApart
    <3>4. ASSUME NEW g \in Filings \ overlaps, NEW q \in Keys, platform'[q].from = g
          PROVE  filing[g].status = "approved" \/ Approving(g)' # {}
      BY <2>2, <2>12, <3>1, <3>2, <3>4 DEF RequestsAreSettled
    <3>5. ASSUME NEW g \in Filings \ overlaps, filing[g].status = "approved"
          PROVE  platform'[filing[g].key].from = g
      BY <2>2, <3>3, <3>5, RowFields DEF RequestsAreSettled
    <3> QED
      BY <1>0, <3>4, <3>5 DEF RequestsAreSettled
  <2> QED
    BY <2>3, <2>4, <2>5, <2>6, <2>7, <2>8, <2>10
<1> QED
  BY <1>1, <1>2

LEMMA AccountsAddApplicant ==
  ASSUME AccountsInv, NEW a \in People, AddApplicant(a)
  PROVE  AccountsInv'
<1> USE DEF AccountsInv, AccountsAreSound
<1>0. PICK f \in Filings, k \in Keys, u \in People :
      /\ f = act[a].of /\ k = filing[f].key /\ u = filing[f].by /\ act[a].op = "approve" /\ act[a].at = "created"
      /\ act[a] \in ReviewCalls /\ UNCHANGED <<role, filing, overlaps>>
      /\ platform[k].from = f /\ (k \notin overlaps => platform[k].owner = u)
  BY CallFields, RowFields DEF AddApplicant, OwnersFollow
<1>1. /\ act' \in [People -> Calls] /\ \A b \in People \ {a} : act'[b] = act[b]
      /\ act'[a].op = "approve" /\ act'[a].of = f /\ act'[a].at = "added"
  <2>1. [act[a] EXCEPT !.at = "added"] \in Calls
    BY <1>0 DEF ReviewCalls, Calls
  <2>2. act' \in [People -> Calls] /\ act'[a] = [act[a] EXCEPT !.at = "added"]
    BY <2>1, CallMoves DEF AddApplicant
  <2>3. \A b \in People \ {a} : act'[b] = act[b]
    BY <2>1, CallMoves DEF AddApplicant
  <2> QED
    BY <1>0, <2>2, <2>3 DEF ReviewCalls
<1>2. /\ platform' \in [Keys -> Platforms] /\ \A q \in Keys \ {k} : platform'[q] = platform[q]
      /\ platform'[k].owner = platform[k].owner /\ platform'[k].from = platform[k].from
      /\ platform'[k].admins = platform[k].admins \cup {u} /\ platform'[k].primary = platform[k].primary \cup {u}
  <2>1. platform' = [platform EXCEPT ![k].admins = @ \cup {u}, ![k].primary = @ \cup {u}]
    BY <1>0 DEF AddApplicant
  <2> QED
    <3>1. platform[k] \in Platforms /\ u \in People
      BY <1>0 DEF AccountsTypes
    <3>2. platform' = [platform EXCEPT ![k] = [platform[k] EXCEPT !.admins = @ \cup {u}, !.primary = @ \cup {u}]]
      BY <2>1, <3>1 DEF Platforms
    <3>3. /\ [platform[k] EXCEPT !.admins = @ \cup {u}, !.primary = @ \cup {u}] \in Platforms
          /\ [platform[k] EXCEPT !.admins = @ \cup {u}, !.primary = @ \cup {u}].admins = platform[k].admins \cup {u}
          /\ [platform[k] EXCEPT !.admins = @ \cup {u}, !.primary = @ \cup {u}].primary = platform[k].primary \cup {u}
          /\ [platform[k] EXCEPT !.admins = @ \cup {u}, !.primary = @ \cup {u}].owner = platform[k].owner
          /\ [platform[k] EXCEPT !.admins = @ \cup {u}, !.primary = @ \cup {u}].from = platform[k].from
      BY <3>1 DEF Platforms
    <3> QED
      BY <1>0, <3>1, <3>2, <3>3 DEF AccountsTypes
<1>3. AccountsTypes'
  BY ZenonT(40), <1>0, <1>1, <1>2 DEF AccountsTypes, AccountsTypeOK
<1>4. RolesFollow' /\ AdminRemains'
  BY <1>0, <1>1 DEF RolesFollow, AdminRemains
<1>9. \A q \in Keys : platform'[q].owner = platform[q].owner /\ platform'[q].from = platform[q].from
  BY <1>0, <1>2
<1>10. PlatformsBegin'
  <2>1. platform'[k].from # "none"
    BY <1>0, <1>9, SentinelsApart
  <2>2. \A q \in Keys \ {k} : platform'[q].admins = platform[q].admins
    BY <1>2
  <2> QED
    BY <1>9, <2>1, <2>2 DEF PlatformsBegin
<1>5. OwnersFollow'
  BY <1>0, <1>1, <1>9, OwnersStay
<1>6. ReviewsFollow'
  BY <1>0, <1>1 DEF ReviewsFollow
<1>7. PlatformsAreOwned'
  <2> SUFFICES ASSUME NEW q \in Keys \ overlaps, Exists(q)'
               PROVE  /\ platform'[q].owner \in platform'[q].primary
                      /\ platform'[q].primary \subseteq
                           {platform'[q].owner} \cup (IF q = Standalone THEN {Seed} ELSE {})
    BY <1>0 DEF PlatformsAreOwned
  <2>1. Exists(q)
    BY ZenonT(40), <1>0, <1>2, <1>9, SentinelsApart
  <2>2. CASE q = k
    BY <1>0, <1>2, <2>1, <2>2 DEF PlatformsAreOwned
  <2>3. CASE q # k
    BY <1>2, <2>1, <2>3 DEF PlatformsAreOwned
  <2> QED
    BY <2>2, <2>3
<1>11. \A g \in Filings : Approving(g)' = Approving(g)
  BY <1>0, <1>1
<1>8. RequestsAreSettled'
  BY <1>0, <1>9, <1>11, RowFields DEF RequestsAreSettled
<1> QED
  BY <1>3, <1>4, <1>5, <1>6, <1>7, <1>8, <1>10

LEMMA AccountsApprove ==
  ASSUME AccountsInv, NEW a \in People, Approve(a)
  PROVE  AccountsInv'
<1> DEFINE f == act[a].of
<1> USE DEF AccountsInv, AccountsAreSound
<1>0. /\ f \in Filings /\ act[a].op = "approve" /\ act[a].at = "added" /\ a \in Reviews(f) /\ UNCHANGED <<role, platform, overlaps>>
      /\ act' \in [People -> Calls] /\ act'[a] = NoAct /\ \A b \in People \ {a} : act'[b] = act[b]
  BY CallFields, CallMoves DEF Approve, Ends, Calls
<1>1. filing' \in [Filings -> FilingRows] /\ \A g \in Filings \ {f} : filing'[g] = filing[g]
  BY <1>0 DEF Approve, AccountsTypes, FilingRows
<1>2. /\ filing'[f].key = filing[f].key /\ filing'[f].by = filing[f].by
      /\ filing'[f].status = IF Taken(filing[f].key) \subseteq {f} THEN "approved" ELSE filing[f].status
  BY <1>0 DEF Approve, AccountsTypes, FilingRows
<1>3. AccountsTypes'
  BY <1>0, <1>1 DEF AccountsTypes, AccountsTypeOK, FilingRows
<1>4. RolesFollow' /\ AdminRemains' /\ PlatformsBegin' /\ PlatformsAreOwned'
  BY <1>0 DEF RolesFollow, AdminRemains, PlatformsBegin, PlatformsAreOwned, NoAct
<1>5. OwnersFollow'
  <2>1. \A g \in Filings : /\ filing'[g].key = filing[g].key /\ filing'[g].by = filing[g].by
                           /\ filing[g].status # "none" => filing'[g].status # "none"
    BY <1>0, <1>1, <1>2
  <2> QED
    BY <1>0, <2>1, OwnersStay
<1>6. ReviewsFollow'
  <2>1. \A k \in Keys : \A g, h \in Taken(k)' : g = h
    BY <1>0, <1>1, <1>2, RowFields DEF ReviewsFollow
  <2>2. \A g \in Filings \ overlaps : \A b \in Reviews(g)' : b \in Reviews(g) /\ b # a
    BY <1>0 DEF NoAct
  <2>3. \A g \in Filings \ overlaps : \A b \in Reviews(g)' : g # f
    BY <1>0, <2>2 DEF ReviewsFollow
  <2> QED
    BY <1>0, <1>1, <2>1, <2>2, <2>3 DEF ReviewsFollow
<1>7. RequestsAreSettled'
  <2> SUFFICES ASSUME NEW g \in Filings \ overlaps
               PROVE  /\ (\E k \in Keys : platform[k].from = g) => filing'[g].status = "approved" \/ Approving(g)' # {}
                      /\ filing'[g].status = "approved" => platform[filing'[g].key].from = g
    BY <1>0 DEF RequestsAreSettled
  <2>1. CASE g # f
    <3>1. filing'[g] = filing[g] /\ Approving(g)' = Approving(g)
      BY <1>0, <1>1, <2>1 DEF NoAct
    <3> QED
      BY <3>1 DEF RequestsAreSettled
  <2>2. CASE g = f
    <3>1. filing[f].status = "pending" /\ \A b \in Reviews(f) : b = a
      BY <1>0, <2>2 DEF ReviewsFollow
    <3>2. Taken(filing[f].key) \subseteq {f}
      BY <1>0, <3>1, RowFields DEF ReviewsFollow
    <3>3. platform[filing[f].key].from = f
      BY <1>0 DEF OwnersFollow
    <3> QED
      BY <1>2, <2>2, <3>2, <3>3
  <2> QED
    BY <2>1, <2>2
<1> QED
  BY <1>3, <1>4, <1>5, <1>6, <1>7

LEMMA AccountsReject ==
  ASSUME AccountsInv, NEW a \in People, Reject(a)
  PROVE  AccountsInv'
<1> DEFINE f == act[a].of
<1> USE DEF AccountsInv, AccountsAreSound
<1>0. /\ f \in Filings /\ act[a].op = "reject" /\ a \in Reviews(f) /\ UNCHANGED <<role, platform, overlaps>>
      /\ act' \in [People -> Calls] /\ act'[a] = NoAct /\ \A b \in People \ {a} : act'[b] = act[b]
  BY CallFields, CallMoves DEF Reject, Ends, Calls
<1>1. filing' \in [Filings -> FilingRows] /\ \A g \in Filings \ {f} : filing'[g] = filing[g]
  BY <1>0 DEF Reject, AccountsTypes, FilingRows
<1>2. /\ filing'[f].key = filing[f].key /\ filing'[f].by = filing[f].by
      /\ filing'[f].status = "rejected"
  BY <1>0 DEF Reject, AccountsTypes, FilingRows
<1>3. AccountsTypes'
  BY <1>0, <1>1 DEF AccountsTypes, AccountsTypeOK, FilingRows
<1>4. RolesFollow' /\ AdminRemains' /\ PlatformsBegin' /\ PlatformsAreOwned'
  BY <1>0 DEF RolesFollow, AdminRemains, PlatformsBegin, PlatformsAreOwned, NoAct
<1>5. OwnersFollow'
  <2>1. \A g \in Filings : /\ filing'[g].key = filing[g].key /\ filing'[g].by = filing[g].by
                           /\ filing[g].status # "none" => filing'[g].status # "none"
    BY <1>0, <1>1, <1>2
  <2> QED
    BY <1>0, <2>1, OwnersStay
<1>6. ReviewsFollow'
  <2>1. \A k \in Keys : \A g, h \in Taken(k)' : g = h
    BY <1>0, <1>1, <1>2, RowFields DEF ReviewsFollow
  <2>2. \A g \in Filings \ overlaps : \A b \in Reviews(g)' : b \in Reviews(g) /\ b # a
    BY <1>0 DEF NoAct
  <2>3. \A g \in Filings \ overlaps : \A b \in Reviews(g)' : g # f
    BY <1>0, <2>2 DEF ReviewsFollow
  <2> QED
    BY <1>0, <1>1, <2>1, <2>2, <2>3 DEF ReviewsFollow
<1>7. RequestsAreSettled'
  <2> SUFFICES ASSUME NEW g \in Filings \ overlaps
               PROVE  /\ (\E k \in Keys : platform[k].from = g) => filing'[g].status = "approved" \/ Approving(g)' # {}
                      /\ filing'[g].status = "approved" => platform[filing'[g].key].from = g
    BY <1>0 DEF RequestsAreSettled
  <2>1. CASE g # f
    <3>1. filing'[g] = filing[g] /\ Approving(g)' = Approving(g)
      BY <1>0, <1>1, <2>1 DEF NoAct
    <3> QED
      BY <3>1 DEF RequestsAreSettled
  <2>2. CASE g = f
    <3>1. filing[f].status = "pending" /\ \A b \in Reviews(f) : b = a
      BY <1>0, <2>2 DEF ReviewsFollow
    <3>2. Approving(f) = {}
      BY <1>0, <3>1
    <3>3. ~\E k \in Keys : platform[k].from = f
      BY <1>0, <2>2, <3>1, <3>2 DEF RequestsAreSettled
    <3> QED
      BY <1>2, <2>2, <3>3
  <2> QED
    BY <2>1, <2>2
<1> QED
  BY <1>3, <1>4, <1>5, <1>6, <1>7

LEMMA AccountsCreatePlatform ==
  ASSUME AccountsInv, NEW a \in People, NEW u \in People, NEW k \in Keys, CreatePlatform(a, k, u)
  PROVE  AccountsInv'
<1> USE DEF AccountsInv, AccountsAreSound, CreatePlatform, Starts, Stays, Doing, Ends, NoAct, Owned
<1>1. AccountsTypes'
  BY DEF AccountsTypes, AccountsTypeOK, Calls, Roles, Platforms, FilingRows, RoleCalls, RemoveCalls, FileCalls, ReviewCalls
<1>2. RolesFollow'
  BY DEF RolesFollow, AccountsTypes, AccountsTypeOK, Calls, Roles, Platforms, FilingRows, RoleCalls, RemoveCalls, FileCalls, ReviewCalls
<1>3. PlatformsBegin'
  BY DEF PlatformsBegin, AccountsTypes, AccountsTypeOK, Calls, Roles, Platforms, FilingRows, RoleCalls, RemoveCalls, FileCalls, ReviewCalls
<1>4. OwnersFollow'
  <2>1. /\ \A q \in Keys \ {k} : platform'[q] = platform[q]
        /\ UNCHANGED <<filing, act, overlaps>> /\ ~Exists(k)
    BY PlatformMade DEF CreatePlatform
  <2>2. platform[k].from = "none"
    OBVIOUS
  <2> QED
    BY SMTT(40), <2>1, <2>2, SentinelsApart, CallFields, RowFields DEF OwnersFollow
<1>5. ReviewsFollow'
  BY DEF ReviewsFollow, AccountsTypes, AccountsTypeOK, Calls, Roles, Platforms, FilingRows, RoleCalls, RemoveCalls, FileCalls, ReviewCalls
<1>6. AdminRemains'
  BY DEF AdminRemains, AccountsTypes, AccountsTypeOK, Calls, Roles, Platforms, FilingRows, RoleCalls, RemoveCalls, FileCalls, ReviewCalls
<1>7. PlatformsAreOwned'
  BY DEF PlatformsAreOwned, AccountsTypes, AccountsTypeOK, Calls, Roles, Platforms, FilingRows, RoleCalls, RemoveCalls, FileCalls, ReviewCalls
<1>8. RequestsAreSettled'
  BY DEF RequestsAreSettled, AccountsTypes, AccountsTypeOK, Calls, Roles, Platforms, FilingRows, RoleCalls, RemoveCalls, FileCalls, ReviewCalls
<1> QED
  BY <1>1, <1>2, <1>3, <1>4, <1>5, <1>6, <1>7, <1>8

LEMMA AccountsAssignAdmin ==
  ASSUME AccountsInv, NEW a \in People, NEW u \in People, NEW k \in Keys, AssignAdmin(a, k, u)
  PROVE  AccountsInv'
<1> USE DEF AccountsInv, AccountsAreSound, AssignAdmin, Starts, Stays, Doing, Ends, NoAct
<1>1. AccountsTypes'
  BY DEF AccountsTypes, AccountsTypeOK, Calls, Roles, Platforms, FilingRows, RoleCalls, RemoveCalls, FileCalls, ReviewCalls
<1>2. RolesFollow'
  BY DEF RolesFollow, AccountsTypes, AccountsTypeOK, Calls, Roles, Platforms, FilingRows, RoleCalls, RemoveCalls, FileCalls, ReviewCalls
<1>3. PlatformsBegin'
  BY DEF PlatformsBegin, AccountsTypes, AccountsTypeOK, Calls, Roles, Platforms, FilingRows, RoleCalls, RemoveCalls, FileCalls, ReviewCalls
<1>4. OwnersFollow'
  BY DEF OwnersFollow, AccountsTypes, AccountsTypeOK, Calls, Roles, Platforms, FilingRows, RoleCalls, RemoveCalls, FileCalls, ReviewCalls
<1>5. ReviewsFollow'
  BY DEF ReviewsFollow, AccountsTypes, AccountsTypeOK, Calls, Roles, Platforms, FilingRows, RoleCalls, RemoveCalls, FileCalls, ReviewCalls
<1>6. AdminRemains'
  BY DEF AdminRemains, AccountsTypes, AccountsTypeOK, Calls, Roles, Platforms, FilingRows, RoleCalls, RemoveCalls, FileCalls, ReviewCalls
<1>7. PlatformsAreOwned'
  BY DEF PlatformsAreOwned, AccountsTypes, AccountsTypeOK, Calls, Roles, Platforms, FilingRows, RoleCalls, RemoveCalls, FileCalls, ReviewCalls
<1>8. RequestsAreSettled'
  BY DEF RequestsAreSettled, AccountsTypes, AccountsTypeOK, Calls, Roles, Platforms, FilingRows, RoleCalls, RemoveCalls, FileCalls, ReviewCalls
<1> QED
  BY <1>1, <1>2, <1>3, <1>4, <1>5, <1>6, <1>7, <1>8

LEMMA AccountsBeginRemove ==
  ASSUME AccountsInv, NEW a \in People, NEW u \in People, NEW k \in Keys, BeginRemove(a, k, u)
  PROVE  AccountsInv'
<1> USE DEF AccountsInv, AccountsAreSound, BeginRemove, Starts, Stays, Doing, Ends, NoAct, MayRemove
<1>1. AccountsTypes'
  BY DEF AccountsTypes, AccountsTypeOK, Calls, Roles, Platforms, FilingRows, RoleCalls, RemoveCalls, FileCalls, ReviewCalls
<1>2. RolesFollow'
  BY DEF RolesFollow, AccountsTypes, AccountsTypeOK, Calls, Roles, Platforms, FilingRows, RoleCalls, RemoveCalls, FileCalls, ReviewCalls
<1>3. PlatformsBegin'
  BY DEF PlatformsBegin, AccountsTypes, AccountsTypeOK, Calls, Roles, Platforms, FilingRows, RoleCalls, RemoveCalls, FileCalls, ReviewCalls
<1>4. OwnersFollow'
  BY DEF OwnersFollow, PlatformsBegin, AccountsTypes, AccountsTypeOK, Calls, Roles, Platforms, FilingRows, RoleCalls, RemoveCalls, FileCalls, ReviewCalls
<1>5. ReviewsFollow'
  BY DEF ReviewsFollow, AccountsTypes, AccountsTypeOK, Calls, Roles, Platforms, FilingRows, RoleCalls, RemoveCalls, FileCalls, ReviewCalls
<1>6. AdminRemains'
  BY DEF AdminRemains, AccountsTypes, AccountsTypeOK, Calls, Roles, Platforms, FilingRows, RoleCalls, RemoveCalls, FileCalls, ReviewCalls
<1>7. PlatformsAreOwned'
  BY DEF PlatformsAreOwned, AccountsTypes, AccountsTypeOK, Calls, Roles, Platforms, FilingRows, RoleCalls, RemoveCalls, FileCalls, ReviewCalls
<1>8. RequestsAreSettled'
  BY DEF RequestsAreSettled, AccountsTypes, AccountsTypeOK, Calls, Roles, Platforms, FilingRows, RoleCalls, RemoveCalls, FileCalls, ReviewCalls
<1> QED
  BY <1>1, <1>2, <1>3, <1>4, <1>5, <1>6, <1>7, <1>8

LEMMA AccountsSetOwner ==
  ASSUME AccountsInv, NEW a \in People, NEW u \in People, NEW k \in Keys, SetOwner(a, k, u)
  PROVE  AccountsInv'
<1> USE DEF AccountsInv, AccountsAreSound
<1>0. /\ platform[k].from # "none" /\ UNCHANGED <<role, filing, act>>
      /\ overlaps' = IF Rests(k) = {} THEN overlaps ELSE overlaps \cup {k}
  BY DEF SetOwner, PlatformsBegin
<1>1. /\ platform' \in [Keys -> Platforms] /\ \A q \in Keys \ {k} : platform'[q] = platform[q]
      /\ platform'[k].owner = u /\ platform'[k].from = platform[k].from
      /\ platform'[k].admins = platform[k].admins \cup {u} /\ platform'[k].primary = {u}
  BY ZenonT(40) DEF SetOwner, NewOwner, AccountsTypes, Platforms
<1>2. AccountsTypes'
  BY <1>0, <1>1 DEF AccountsTypes, AccountsTypeOK
<1>3. RolesFollow' /\ AdminRemains'
  BY <1>0 DEF RolesFollow, AdminRemains
<1>4. PlatformsBegin' /\ OwnersFollow'
  <2>1. \A b \in People : act[b].op = "remove" /\ act[b].key = k => k \in overlaps'
    BY <1>0 DEF Rests
  <2>2. \A b \in People : act[b].op = "approve" /\ filing[act[b].of].key = k => k \in overlaps'
    BY <1>0 DEF Rests
  <2> QED
    BY SMTT(60), <1>0, <1>1, <2>1, <2>2, CallFields, RowFields DEF PlatformsBegin, OwnersFollow
<1>5. ReviewsFollow'
  BY <1>0 DEF ReviewsFollow
<1>6. PlatformsAreOwned'
  BY <1>0, <1>1, RowFields DEF PlatformsAreOwned, PlatformsBegin
<1>7. RequestsAreSettled'
  BY <1>0, <1>1, RowFields DEF RequestsAreSettled
<1> QED
  BY <1>2, <1>3, <1>4, <1>5, <1>6, <1>7

LEMMA AccountsBeginFile ==
  ASSUME AccountsInv, NEW a \in People, NEW k \in Keys, BeginFile(a, k)
  PROVE  AccountsInv'
<1> USE DEF AccountsInv, AccountsAreSound, BeginFile, Starts, Stays, Doing, Ends, NoAct
<1>1. AccountsTypes'
  BY DEF AccountsTypes, AccountsTypeOK, Calls, Roles, Platforms, FilingRows, RoleCalls, RemoveCalls, FileCalls, ReviewCalls
<1>2. RolesFollow'
  BY DEF RolesFollow, AccountsTypes, AccountsTypeOK, Calls, Roles, Platforms, FilingRows, RoleCalls, RemoveCalls, FileCalls, ReviewCalls
<1>3. PlatformsBegin'
  BY DEF PlatformsBegin, AccountsTypes, AccountsTypeOK, Calls, Roles, Platforms, FilingRows, RoleCalls, RemoveCalls, FileCalls, ReviewCalls
<1>4. OwnersFollow'
  BY DEF OwnersFollow, AccountsTypes, AccountsTypeOK, Calls, Roles, Platforms, FilingRows, RoleCalls, RemoveCalls, FileCalls, ReviewCalls
<1>5. ReviewsFollow'
  BY DEF ReviewsFollow, AccountsTypes, AccountsTypeOK, Calls, Roles, Platforms, FilingRows, RoleCalls, RemoveCalls, FileCalls, ReviewCalls
<1>6. AdminRemains'
  BY DEF AdminRemains, AccountsTypes, AccountsTypeOK, Calls, Roles, Platforms, FilingRows, RoleCalls, RemoveCalls, FileCalls, ReviewCalls
<1>7. PlatformsAreOwned'
  BY DEF PlatformsAreOwned, AccountsTypes, AccountsTypeOK, Calls, Roles, Platforms, FilingRows, RoleCalls, RemoveCalls, FileCalls, ReviewCalls
<1>8. RequestsAreSettled'
  BY DEF RequestsAreSettled, AccountsTypes, AccountsTypeOK, Calls, Roles, Platforms, FilingRows, RoleCalls, RemoveCalls, FileCalls, ReviewCalls
<1> QED
  BY <1>1, <1>2, <1>3, <1>4, <1>5, <1>6, <1>7, <1>8

LEMMA AccountsBeginReview ==
  ASSUME AccountsInv, NEW a \in People, NEW f \in Filings, NEW op \in {"approve", "reject"}, BeginReview(a, f, op)
  PROVE  AccountsInv'
<1> USE DEF AccountsInv, AccountsAreSound, BeginReview, Starts, Stays, Doing, Ends, NoAct, IsOpen
<1>1. AccountsTypes'
  BY DEF AccountsTypes, AccountsTypeOK, Calls, Roles, Platforms, FilingRows, RoleCalls, RemoveCalls, FileCalls, ReviewCalls
<1>2. RolesFollow'
  BY DEF RolesFollow, AccountsTypes, AccountsTypeOK, Calls, Roles, Platforms, FilingRows, RoleCalls, RemoveCalls, FileCalls, ReviewCalls
<1>3. PlatformsBegin'
  BY DEF PlatformsBegin, AccountsTypes, AccountsTypeOK, Calls, Roles, Platforms, FilingRows, RoleCalls, RemoveCalls, FileCalls, ReviewCalls
<1>4. OwnersFollow'
  BY DEF OwnersFollow, AccountsTypes, AccountsTypeOK, Calls, Roles, Platforms, FilingRows, RoleCalls, RemoveCalls, FileCalls, ReviewCalls
<1>5. ReviewsFollow'
  BY DEF ReviewsFollow, AccountsTypes, AccountsTypeOK, Calls, Roles, Platforms, FilingRows, RoleCalls, RemoveCalls, FileCalls, ReviewCalls
<1>6. AdminRemains'
  BY DEF AdminRemains, AccountsTypes, AccountsTypeOK, Calls, Roles, Platforms, FilingRows, RoleCalls, RemoveCalls, FileCalls, ReviewCalls
<1>7. PlatformsAreOwned'
  BY DEF PlatformsAreOwned, AccountsTypes, AccountsTypeOK, Calls, Roles, Platforms, FilingRows, RoleCalls, RemoveCalls, FileCalls, ReviewCalls
<1>8. RequestsAreSettled'
  BY DEF RequestsAreSettled, AccountsTypes, AccountsTypeOK, Calls, Roles, Platforms, FilingRows, RoleCalls, RemoveCalls, FileCalls, ReviewCalls
<1> QED
  BY <1>1, <1>2, <1>3, <1>4, <1>5, <1>6, <1>7, <1>8

LEMMA AccountsReboot ==
  ASSUME AccountsInv, Reboot
  PROVE  AccountsInv'
<1> USE DEF AccountsInv, AccountsAreSound
<1>0. /\ UNCHANGED filing /\ \A a \in People : act'[a] = NoAct
      /\ act' \in [People -> Calls] /\ role' = [role EXCEPT ![Seed] = "system_admin"]
      /\ overlaps' = overlaps \cup {f \in Filings : Approving(f) # {}}
  BY DEF Reboot, Calls
<1>1. /\ platform' \in [Keys -> Platforms]
      /\ \A k \in Keys :
           /\ platform'[k].owner = platform[k].owner /\ platform'[k].from = platform[k].from
           /\ platform'[k].admins = platform[k].admins \cup (IF k = Standalone THEN {Seed} ELSE {})
           /\ platform'[k].primary = platform[k].primary \cup ({platform[k].owner} \cap platform[k].admins)
                                       \cup (IF k = Standalone THEN {Seed} ELSE {})
  <2>1. ASSUME NEW k \in Keys
        PROVE  /\ platform'[k] \in Platforms
               /\ platform'[k].owner = platform[k].owner /\ platform'[k].from = platform[k].from
               /\ platform'[k].admins = platform[k].admins \cup (IF k = Standalone THEN {Seed} ELSE {})
               /\ platform'[k].primary = platform[k].primary \cup ({platform[k].owner} \cap platform[k].admins)
                                           \cup (IF k = Standalone THEN {Seed} ELSE {})
    <3> DEFINE seeded == IF k = Standalone THEN {Seed} ELSE {}
               remain == platform[k].primary \cup ({platform[k].owner} \cap platform[k].admins) \cup seeded
    <3>1. platform[k] \in Platforms /\ seeded \subseteq People /\ remain \subseteq People
      BY RowFields
    <3>2. platform'[k] = [platform[k] EXCEPT !.admins = @ \cup seeded, !.primary = remain]
      BY DEF Reboot
    <3> HIDE DEF seeded, remain
    <3>3. /\ platform'[k] \in Platforms /\ platform'[k].owner = platform[k].owner
          /\ platform'[k].from = platform[k].from
          /\ platform'[k].admins = platform[k].admins \cup seeded /\ platform'[k].primary = remain
      BY <3>1, <3>2 DEF Platforms
    <3> QED
      BY <3>3 DEF seeded, remain
  <2>2. platform' = [k \in Keys |-> platform'[k]]
    BY DEF Reboot
  <2> QED
    BY <2>1, <2>2
<1>2. AccountsTypes'
  BY <1>0, <1>1, RowFields DEF AccountsTypes, AccountsTypeOK, Roles
<1>3. RolesFollow' /\ AdminRemains'
  BY <1>0 DEF RolesFollow, AdminRemains, NoAct, AccountsTypes, AccountsTypeOK
<1>4. PlatformsBegin' /\ OwnersFollow' /\ ReviewsFollow'
  BY SMTT(60), <1>0, <1>1, RowFields DEF PlatformsBegin, OwnersFollow, ReviewsFollow, NoAct
<1>5. PlatformsAreOwned'
  BY <1>0, <1>1, RowFields DEF PlatformsAreOwned, PlatformsBegin
<1>6. RequestsAreSettled'
  BY <1>0, <1>1, RowFields DEF RequestsAreSettled
<1> QED
  BY <1>2, <1>3, <1>4, <1>5, <1>6

LEMMA AccountsInvStep == AccountsInv /\ [AccountsNext]_accountsVars => AccountsInv'
<1> SUFFICES ASSUME AccountsInv, [AccountsNext]_accountsVars PROVE AccountsInv'
  OBVIOUS
<1>1. CASE AccountsNext
  <2>1. ASSUME NEW a \in People, NEW u \in People, NEW new \in {"user", "system_admin"}, BeginRole(a, u, new)
        PROVE  AccountsInv'
    BY <2>1, AccountsBeginRole
  <2>2. ASSUME NEW a \in People, \/ CountAdmins(a) \/ WriteRole(a) \/ FirstLogin(a) \/ LaterLogin(a)
                                 \/ RemoveAdmin(a) \/ FileRequest(a) \/ CreateApproved(a)
                                 \/ AddApplicant(a) \/ Approve(a) \/ Reject(a)
        PROVE  AccountsInv'
    BY <2>2, AccountsCountAdmins, AccountsWriteRole, AccountsFirstLogin, AccountsLaterLogin,
       AccountsRemoveAdmin, AccountsFileRequest, AccountsCreateApproved, AccountsAddApplicant,
       AccountsApprove, AccountsReject
  <2>3. ASSUME NEW a \in People, NEW u \in People, NEW k \in Keys,
               \/ CreatePlatform(a, k, u) \/ AssignAdmin(a, k, u) \/ BeginRemove(a, k, u) \/ SetOwner(a, k, u)
        PROVE  AccountsInv'
    BY <2>3, AccountsCreatePlatform, AccountsAssignAdmin, AccountsBeginRemove, AccountsSetOwner
  <2>4. ASSUME NEW u \in People, NEW k \in Keys, BeginFile(u, k) PROVE AccountsInv'
    BY <2>4, AccountsBeginFile
  <2>5. ASSUME NEW a \in People, NEW f \in Filings, NEW op \in {"approve", "reject"}, BeginReview(a, f, op)
        PROVE  AccountsInv'
    BY <2>5, AccountsBeginReview
  <2>6. CASE Reboot
    BY <2>6, AccountsReboot
  <2> QED
    BY <1>1, <2>1, <2>2, <2>3, <2>4, <2>5, <2>6 DEF AccountsNext
<1>2. CASE UNCHANGED accountsVars
  BY SMTT(40), <1>2 DEF accountsVars, AccountsInv, AccountsTypes, AccountsTypeOK, RolesFollow, PlatformsBegin,
     OwnersFollow, ReviewsFollow, AccountsAreSound, AdminRemains, PlatformsAreOwned, RequestsAreSettled
<1> QED
  BY <1>1, <1>2

\* Whatever the accounts do one after another or together, the system keeps an administrator, a
\* platform its owner and a settled request its platform, but for the calls that overlapped.
THEOREM AccountsStaySound == AccountsInit /\ [][AccountsNext]_accountsVars => []AccountsAreSound
<1>1. AccountsInv => AccountsAreSound
  BY DEF AccountsInv
<1> QED
  BY <1>1, AccountsStart, AccountsInvStep, PTL

LEMMA AccountsTypesAlways == AccountsInit /\ [][AccountsNext]_accountsVars => []AccountsTypeOK
<1>1. AccountsInv => AccountsTypeOK
  BY DEF AccountsInv, AccountsTypes
<1> QED
  BY <1>1, AccountsStart, AccountsInvStep, PTL

HIDE AccountsAssumption DEF Exists, Admins, Known, Changing, Reviews, Taken, Approving

-----------------------------------------------------------------------------
(* ModelConfig                                                               *)

\* A save that nobody has overtaken holds the key that was asked for last.
SavesKeep == overtaken \/ (secret = wanted /\ (saving # "nothing" => saving = wanted))
ConfigInv == ConfigTypeOK /\ saving \in ApiKeys \cup {"none", "nothing"} /\ SavesKeep

LEMMA ConfigStart == ConfigInit => ConfigInv
BY DEF ConfigInit, ConfigInv, ConfigTypeOK, SavesKeep

LEMMA ConfigInvStep == ConfigInv /\ [ConfigNext]_configVars => ConfigInv'
<1> SUFFICES ASSUME ConfigInv, [ConfigNext]_configVars PROVE ConfigInv'
  OBVIOUS
<1> USE DEF ConfigInv, ConfigTypeOK, SavesKeep, Layers
<1>1. ASSUME NEW s \in Settings, SavePlatform(s) PROVE ConfigInv'
  BY <1>1 DEF SavePlatform
<1>2. ASSUME NEW s \in Settings, EndKeep(s) PROVE ConfigInv'
  BY <1>2 DEF EndKeep, Kept
<1>3. ASSUME NEW s \in Settings, NEW k \in ApiKeys \cup {"none"}, SaveUser(s, k) PROVE ConfigInv'
  BY <1>3 DEF SaveUser, Crosses
<1>4. CASE BeginKeep
  BY <1>4 DEF BeginKeep
<1>5. CASE DeletePlatform
  BY <1>5 DEF DeletePlatform
<1>6. CASE DeleteUser
  BY <1>6 DEF DeleteUser, Crosses
<1>7. CASE UNCHANGED configVars
  BY <1>7 DEF configVars
<1> QED
  BY <1>1, <1>2, <1>3, <1>4, <1>5, <1>6, <1>7 DEF ConfigNext

\* What a row is, as far as the layers look at it.
LEMMA ConfigRows ==
  ASSUME ConfigInv, NEW l \in Layers
  PROVE  IF Enabled(l)
         THEN /\ config[l].deployment \in Deployments
              /\ config[l].parameter \in {"unset", "value", "default"}
              /\ config[l].revision \in Revisions \cup {"none"}
         ELSE config[l].state # "enabled"
BY DEF ConfigInv, ConfigTypeOK, Settings, Enabled, NoConfig, Disabled

LEMMA SamplingIsShown == ASSUME ConfigInv PROVE ShownSampling = Sampling
<1>1. CASE Enabled("user")
  BY <1>1 DEF ShownSampling, Sampling, Winner, Inherits
<1>2. CASE ~Enabled("user") /\ Enabled("platform")
  BY <1>2 DEF ShownSampling, Sampling, Winner, Inherits
<1>3. CASE ~Enabled("user") /\ ~Enabled("platform")
  BY <1>3 DEF ShownSampling, Sampling, Winner
<1> QED
  BY <1>1, <1>2, <1>3

LEMMA SamplingIsLabelled ==
  ASSUME ConfigInv
  PROVE  LET deployment == IF Winner = "global" THEN Own ELSE config[Winner].deployment
             label == Label(Sampling, deployment)
         IN /\ Sampling.value = (IF label.what = "value" THEN label.layer ELSE "none")
            /\ Sampling.value \in Layers =>
                 LET used == config[Sampling.value]
                 IN /\ used.deployment = deployment
                    /\ used.revision \in {"none", Sampling.revision}
            /\ Sampling.value = "global" => deployment = Own
<1> USE DEF Global, Merge, Label, SameDeployment, Layers
<1>1. CASE Enabled("user") /\ Inherits
  BY ZenonT(40), <1>1, ConfigRows, ConfigAssumption DEF Sampling, Winner, Inherits
<1>2. CASE Enabled("user") /\ ~Inherits
  BY <1>2, ConfigRows, ConfigAssumption DEF Sampling, Winner, Inherits
<1>3. CASE ~Enabled("user") /\ Enabled("platform")
  BY <1>3, ConfigRows, ConfigAssumption DEF Sampling, Winner, Inherits
<1>4. CASE ~Enabled("user") /\ ~Enabled("platform")
  BY <1>4, ConfigRows, ConfigAssumption DEF Sampling, Winner, Inherits
<1> QED
  BY <1>1, <1>2, <1>3, <1>4

\* The settings page shows the sampling the next request uses, from the layer it names, and the
\* key that was saved last is the one in use, but for saves that overtook one another.
THEOREM ConfigsAreShown == ConfigInit /\ [][ConfigNext]_configVars => []ConfigIsWhatIsShown
<1>1. ConfigInv => ConfigIsWhatIsShown
  BY SamplingIsShown, SamplingIsLabelled DEF ConfigIsWhatIsShown, ConfigInv, SavesKeep
<1> QED
  BY <1>1, ConfigStart, ConfigInvStep, PTL

LEMMA ConfigTypesAlways == ConfigInit /\ [][ConfigNext]_configVars => []ConfigTypeOK
<1>1. ConfigInv => ConfigTypeOK
  BY DEF ConfigInv
<1> QED
  BY <1>1, ConfigStart, ConfigInvStep, PTL

-----------------------------------------------------------------------------
(* Extensions                                                                *)

\* The changes of one kind among the first n, and the latest of them.
Kinds(op, n) == {i \in 1 .. n : trail[i].op = op}
LatestOf(s) == CHOOSE i \in s : \A j \in s : j <= i

LatestIsThere ==
  \A op \in {"publish", "manage"}, n \in 0 .. Len(trail) :
    Kinds(op, n) # {} => LatestOf(Kinds(op, n)) \in Kinds(op, n)

\* The row is what the trail says of the entry.
ShelfFollows ==
  /\ shelf = NoExtension <=> Len(trail) = 0
  /\ shelf # NoExtension =>
       /\ trail[1].op = "publish" /\ shelf.author = trail[1].by
       /\ shelf.policy = PolicyAfter(Len(trail)) /\ shelf.status = StatusAfter(Len(trail))
       /\ shelf.current = trail[LatestOf(Kinds("publish", Len(trail)))].label

\* Before there is an entry, what was composed creates it.
FormsFollow ==
  shelf = NoExtension => \A m \in Makers : form[m] # NoExtension =>
    form[m].op = "publish" /\ form[m].expected = 0 /\ form[m].base = NoExtension

\* What ExtensionsAreSound says of one change.
SoundAt(i) ==
  LET q == trail[i]
      before == Kinds("publish", i - 1)
  IN  /\ q.expected = i - 1
      /\ i > 1 /\ q.by # trail[1].by => q.op = "publish" /\ PolicyAfter(i - 1) = "platform_members"
      /\ q.op = "publish" =>
           /\ StatusAfter(i - 1) = "active"
           /\ release[q.label] # NoExtension /\ release[q.label].form = q /\ disk[q.label] = q.bundle
           /\ IF before = {} THEN q.base = NoExtension
              ELSE q.base = trail[LatestOf(before)].label

ExtensionsInv ==
  ExtensionsTypeOK /\ LatestIsThere /\ ShelfFollows /\ FormsFollow /\ ExtensionsAreSound

USE ExtensionsAssumption

LEMMA ExtensionsStart == ExtensionsInit => ExtensionsInv
BY DEF ExtensionsInit, ExtensionsInv, ExtensionsTypeOK, LatestIsThere, Kinds, ShelfFollows, FormsFollow, ExtensionsAreSound

\* What a change in the trail is.
LEMMA Changes ==
  ASSUME NEW q \in Publication \cup Administration
  PROVE  /\ q # NoExtension /\ q.by \in Makers /\ q.op \in {"publish", "manage"} /\ q.expected \in 0 .. MaxTrail
         /\ q.op = "publish" => q \in Publication /\ q.label \in Labels /\ q.bundle \in Bundles
         /\ q.op = "manage" => q \in Administration /\ q.policy \in Policies /\ q.status \in {"active", "unlisted"}
BY DEF Publication, Administration

LEMMA LatestIsNew ==
  ASSUME NEW n \in Nat, NEW s \in SUBSET (1 .. n)
  PROVE  LatestOf(s \cup {n + 1}) = n + 1
<1> DEFINE all == s \cup {n + 1}
<1>1. n + 1 \in Nat /\ n + 1 \in all
  OBVIOUS
<1>5. \A j \in all : j \in Nat
  OBVIOUS
<1>2. \A j \in all : j <= n + 1
  OBVIOUS
<1> HIDE DEF all
<1>3. LatestOf(all) \in all /\ \A j \in all : j <= LatestOf(all)
  BY <1>1, <1>2, Zenon DEF LatestOf
<1>4. LatestOf(all) = n + 1
  BY <1>1, <1>2, <1>3, <1>5
<1> QED
  BY <1>4 DEF all

\* What the trail says of the entry, by the latest change of one kind.
LEMMA AfterIs ==
  ASSUME NEW k
  PROVE  /\ PolicyAfter(k) = IF Kinds("manage", k) = {} THEN "creator_only"
                            ELSE trail[LatestOf(Kinds("manage", k))].policy
         /\ StatusAfter(k) = IF Kinds("manage", k) = {} THEN "active"
                            ELSE trail[LatestOf(Kinds("manage", k))].status
         /\ PolicyAfter(k)' = IF Kinds("manage", k)' = {} THEN "creator_only"
                             ELSE trail'[LatestOf(Kinds("manage", k)')].policy
         /\ StatusAfter(k)' = IF Kinds("manage", k)' = {} THEN "active"
                             ELSE trail'[LatestOf(Kinds("manage", k)')].status
BY Zenon DEF PolicyAfter, StatusAfter, Kinds, LatestOf

\* What a change adds to the trail, and that it keeps what was there.
LEMMA TrailGrows ==
  ASSUME ExtensionsTypeOK, LatestIsThere, NEW q \in Publication \cup Administration,
         trail' = Append(trail, q), NEW n \in Nat, n = Len(trail)
  PROVE  /\ trail' \in Seq(Publication \cup Administration) /\ Len(trail') = n + 1
         /\ trail'[n + 1] = q /\ \A i \in 1 .. n : trail'[i] = trail[i]
         /\ \A op \in {"publish", "manage"}, k \in 0 .. n : Kinds(op, k)' = Kinds(op, k)
         /\ \A op \in {"publish", "manage"} :
              Kinds(op, n + 1)' = Kinds(op, n) \cup (IF q.op = op THEN {n + 1} ELSE {})
<1> USE DEF ExtensionsTypeOK
<1>1. /\ trail' \in Seq(Publication \cup Administration) /\ Len(trail') = n + 1
      /\ trail'[n + 1] = q /\ \A i \in 1 .. n : trail'[i] = trail[i]
  OBVIOUS
<1>2. \A op \in {"publish", "manage"}, k \in 0 .. n : Kinds(op, k)' = Kinds(op, k)
  BY <1>1 DEF Kinds
<1>3. \A op \in {"publish", "manage"} :
         Kinds(op, n + 1)' = Kinds(op, n) \cup (IF q.op = op THEN {n + 1} ELSE {})
  BY <1>1 DEF Kinds
<1> QED
  BY <1>1, <1>2, <1>3

LEMMA TrailKeeps ==
  ASSUME ExtensionsTypeOK, LatestIsThere, NEW q \in Publication \cup Administration,
         trail' = Append(trail, q), NEW n \in Nat, n = Len(trail)
  PROVE  /\ LatestIsThere'
         /\ \A k \in 0 .. n : PolicyAfter(k)' = PolicyAfter(k) /\ StatusAfter(k)' = StatusAfter(k)
         /\ q.op = "manage" => PolicyAfter(n + 1)' = q.policy /\ StatusAfter(n + 1)' = q.status
         /\ q.op = "publish" => PolicyAfter(n + 1)' = PolicyAfter(n) /\ StatusAfter(n + 1)' = StatusAfter(n)
<1>0. n \in Nat /\ Len(trail') = n + 1 /\ q.op \in {"publish", "manage"}
  BY TrailGrows, Changes
<1>1. /\ trail'[n + 1] = q /\ \A i \in 1 .. n : trail'[i] = trail[i]
      /\ \A op \in {"publish", "manage"}, k \in 0 .. n : Kinds(op, k)' = Kinds(op, k)
      /\ \A op \in {"publish", "manage"} :
           Kinds(op, n + 1)' = Kinds(op, n) \cup (IF q.op = op THEN {n + 1} ELSE {})
  BY TrailGrows
<1>2. \A op \in {"publish", "manage"}, k \in 0 .. n : Kinds(op, k) \in SUBSET (1 .. n)
  BY <1>0 DEF Kinds
<1>3. \A op \in {"publish", "manage"}, k \in 0 .. n :
         Kinds(op, k) # {} => LatestOf(Kinds(op, k)) \in 1 .. n /\ LatestOf(Kinds(op, k)) \in Kinds(op, k)
  BY <1>2 DEF LatestIsThere
<1>4. Kinds(q.op, n + 1)' = Kinds(q.op, n) \cup {n + 1} /\ LatestOf(Kinds(q.op, n + 1)') = n + 1
  <2>1. Kinds(q.op, n + 1)' = Kinds(q.op, n) \cup {n + 1} /\ Kinds(q.op, n) \in SUBSET (1 .. n)
    BY <1>0, <1>1, <1>2
  <2> QED
    BY <1>0, <2>1, LatestIsNew
<1>5. \A op \in {"publish", "manage"} : op # q.op => Kinds(op, n + 1)' = Kinds(op, n)
  BY <1>1
<1>6. LatestIsThere'
  <2> SUFFICES ASSUME NEW op \in {"publish", "manage"}, NEW k \in 0 .. n + 1, Kinds(op, k)' # {}
               PROVE  LatestOf(Kinds(op, k)') \in Kinds(op, k)'
    BY <1>0 DEF LatestIsThere, LatestOf
  <2>1. CASE k \in 0 .. n
    BY <1>1, <1>3, <2>1
  <2>2. CASE k = n + 1 /\ op = q.op
    BY <1>4, <2>2
  <2>3. CASE k = n + 1 /\ op # q.op
    <3>1. Kinds(op, n + 1)' = Kinds(op, n) /\ n \in 0 .. n
      BY <1>0, <1>5, <2>3
    <3> QED
      BY <1>3, <2>3, <3>1
  <2> QED
    BY <1>0, <2>1, <2>2, <2>3
<1>7. ASSUME NEW k \in 0 .. n
      PROVE  PolicyAfter(k)' = PolicyAfter(k) /\ StatusAfter(k)' = StatusAfter(k)
  <2>1. Kinds("manage", k)' = Kinds("manage", k)
    BY <1>1
  <2>2. Kinds("manage", k) # {} =>
          trail'[LatestOf(Kinds("manage", k))] = trail[LatestOf(Kinds("manage", k))]
    BY <1>1, <1>3
  <2> QED
    BY <2>1, <2>2, AfterIs
<1>8. CASE q.op = "manage"
  <2>1. PolicyAfter(n + 1)' = trail'[LatestOf(Kinds("manage", n + 1)')].policy
    BY <1>4, <1>8, AfterIs
  <2>2. StatusAfter(n + 1)' = trail'[LatestOf(Kinds("manage", n + 1)')].status
    BY <1>4, <1>8, AfterIs
  <2> QED
    BY <1>1, <1>4, <1>6, <1>7, <1>8, <2>1, <2>2
<1>9. CASE q.op = "publish"
  <2>1. Kinds("manage", n + 1)' = Kinds("manage", n)' /\ n \in 0 .. n
    BY <1>0, <1>1, <1>5, <1>9
  <2>2. PolicyAfter(n + 1)' = PolicyAfter(n)' /\ StatusAfter(n + 1)' = StatusAfter(n)'
    BY <2>1, AfterIs
  <2> QED
    BY <1>6, <1>7, <1>9, <2>1, <2>2
<1> QED
  BY <1>0, <1>8, <1>9

LEMMA SoundAtEach ==
  /\ ExtensionsAreSound <=> /\ \A i \in DOMAIN trail : SoundAt(i)
                            /\ shelf # NoExtension => shelf.revision = Len(trail)
  /\ ExtensionsAreSound' <=> /\ \A i \in DOMAIN trail' : SoundAt(i)'
                             /\ shelf' # NoExtension => shelf'.revision = Len(trail')
BY Zenon DEF ExtensionsAreSound, SoundAt, Kinds, LatestOf

\* The change after the first k, by what was there; and the same after a step.
ChangeFollows(k, q) ==
  /\ q.expected = k
  /\ k > 0 /\ q.by # trail[1].by => q.op = "publish" /\ PolicyAfter(k) = "platform_members"
  /\ q.op = "publish" =>
       /\ StatusAfter(k) = "active"
       /\ release[q.label] # NoExtension /\ release[q.label].form = q /\ disk[q.label] = q.bundle
       /\ IF Kinds("publish", k) = {} THEN q.base = NoExtension
          ELSE q.base = trail[LatestOf(Kinds("publish", k))].label

LEMMA SoundFollows ==
  ASSUME NEW k \in Nat
  PROVE  /\ SoundAt(k + 1) <=> ChangeFollows(k, trail[k + 1])
         /\ SoundAt(k + 1)' <=> ChangeFollows(k, trail[k + 1])'
<1>1. k + 1 - 1 = k /\ (k + 1 > 1 <=> k > 0)
  OBVIOUS
<1>2. SoundAt(k + 1) <=> ChangeFollows(k, trail[k + 1])
  BY <1>1 DEF SoundAt, ChangeFollows
<1>3. SoundAt(k + 1)' <=> ChangeFollows(k, trail[k + 1])'
  BY <1>1 DEF SoundAt, ChangeFollows
<1> QED
  BY <1>2, <1>3

\* A change stays as sound as it was when another is added.
LEMMA BeforeKeeps ==
  ASSUME ExtensionsInv, NEW q \in Publication \cup Administration,
         trail' = Append(trail, q), NEW n \in Nat, n = Len(trail),
         \A i \in 1 .. n : trail[i].op = "publish" =>
           release'[trail[i].label] = release[trail[i].label] /\ disk'[trail[i].label] = disk[trail[i].label],
         NEW i \in 1 .. n
  PROVE  SoundAt(i)'
<1> USE DEF ExtensionsInv
<1>0. PICK k \in 0 .. n : k \in Nat /\ i = k + 1
  <2>1. i - 1 \in 0 .. n /\ i - 1 \in Nat /\ i = i - 1 + 1
    OBVIOUS
  <2> QED
    BY <2>1
<1> DEFINE before == Kinds("publish", k)
<1>1. /\ trail'[i] = trail[i] /\ trail'[1] = trail[1] /\ i \in DOMAIN trail
      /\ PolicyAfter(k)' = PolicyAfter(k) /\ StatusAfter(k)' = StatusAfter(k)
      /\ trail[i] \in Publication \cup Administration
  BY TrailGrows, TrailKeeps DEF ExtensionsTypeOK
<1>2. Kinds("publish", k)' = before
  BY TrailGrows
<1>3. before # {} => trail'[LatestOf(before)] = trail[LatestOf(before)]
  <2>1. before # {} => LatestOf(before) \in before
    BY DEF LatestIsThere
  <2>2. \A j \in before : trail'[j] = trail[j]
    BY <1>0, TrailGrows DEF Kinds
  <2> QED
    BY <2>1, <2>2
<1>4. SoundAt(i)
  BY <1>1, SoundAtEach
<1>5. ChangeFollows(k, trail[i])
  BY <1>0, <1>4, SoundFollows
<1>6. (ChangeFollows(k, trail[i]))'
  <2>1. trail[i].op = "publish" =>
          /\ release'[trail[i].label] = release[trail[i].label] /\ disk'[trail[i].label] = disk[trail[i].label]
          /\ IF before = {} THEN trail[i].base = NoExtension
             ELSE trail[i].base = trail'[LatestOf(before)].label
    BY <1>3, <1>5 DEF ChangeFollows
  <2> HIDE DEF before
  <2> QED
    BY <1>1, <1>2, <1>5, <2>1 DEF ChangeFollows
<1> QED
  BY <1>0, <1>6, SoundFollows

\* A version that is accepted is the latest, made from the one before it.
LEMMA VersionAccepted ==
  ASSUME ExtensionsInv, NEW q \in Publication, May(q), UpToDate(q), Len(trail) < MaxTrail, Accept(q),
         shelf = NoExtension => q.expected = 0 /\ q.base = NoExtension
  PROVE  /\ shelf' \in Entry /\ release' \in [Labels -> [form : Publication, policy : Policies] \cup {NoExtension}]
         /\ disk' \in [Labels -> Bundles \cup {NoExtension}] /\ trail' \in Seq(Publication \cup Administration)
         /\ LatestIsThere' /\ ShelfFollows' /\ ExtensionsAreSound'
<1> USE DEF ExtensionsInv
<1>1. PICK n \in Nat : n = Len(trail) /\ n < MaxTrail
  BY DEF ExtensionsTypeOK
<1>2. /\ trail' = Append(trail, q) /\ q \in Publication \cup Administration /\ q.op = "publish"
      /\ q.label \in Labels /\ q.bundle \in Bundles /\ q.by \in Makers
  BY DEF Accept, Publication
<1>3. /\ shelf'.author = (IF n = 0 THEN q.by ELSE trail[1].by)
      /\ shelf'.policy = PolicyAfter(n) /\ shelf'.status = StatusAfter(n) /\ StatusAfter(n) = "active"
      /\ shelf'.revision = n + 1 /\ shelf'.current = q.label /\ shelf' \in Entry
      /\ q.expected = n
  <2>1. CASE shelf = NoExtension
    <3>1. n = 0 /\ shelf' = [author |-> q.by, policy |-> "creator_only", status |-> "active",
                             revision |-> 1, current |-> q.label]
      BY <1>1, <2>1 DEF ShelfFollows, Accept
    <3>2. Kinds("manage", 0) = {}
      BY DEF Kinds
    <3> QED
      BY <1>1, <1>2, <2>1, <3>1, <3>2, AfterIs DEF Entry, Policies
  <2>2. CASE shelf # NoExtension
    <3>1. /\ shelf' = [shelf EXCEPT !.revision = @ + 1, !.current = q.label]
          /\ shelf \in Entry /\ shelf.revision = n /\ n # 0
          /\ shelf.author = trail[1].by /\ shelf.policy = PolicyAfter(n) /\ shelf.status = StatusAfter(n)
          /\ shelf.status = "active" /\ q.expected = n
      BY <1>1, <2>2 DEF ShelfFollows, Accept, ExtensionsTypeOK, ExtensionsAreSound, May, UpToDate
    <3> QED
      <4>1. n + 1 \in 1 .. MaxTrail
        BY <1>1
      <4>2. /\ shelf' \in Entry /\ shelf'.revision = n + 1 /\ shelf'.current = q.label
            /\ shelf'.author = shelf.author /\ shelf'.policy = shelf.policy /\ shelf'.status = shelf.status
        BY <1>2, <3>1, <4>1 DEF Entry
      <4> QED
        BY <3>1, <4>2
  <2> QED
    BY <2>1, <2>2
<1>4. /\ release' \in [Labels -> [form : Publication, policy : Policies] \cup {NoExtension}]
      /\ disk' \in [Labels -> Bundles \cup {NoExtension}]
      /\ release'[q.label].form = q /\ release'[q.label] # NoExtension /\ disk'[q.label] = q.bundle
      /\ \A v \in Labels \ {q.label} : release'[v] = release[v] /\ disk'[v] = disk[v]
  <2>1. /\ release' = [release EXCEPT ![q.label] = [form |-> q, policy |-> shelf'.policy]]
        /\ disk' = [disk EXCEPT ![q.label] = q.bundle] /\ shelf'.policy \in Policies
    BY <1>3 DEF Accept, Entry
  <2>2. [form |-> q, policy |-> shelf'.policy] \in [form : Publication, policy : Policies]
    BY <2>1
  <2> QED
    BY <1>2, <2>1, <2>2 DEF ExtensionsTypeOK
<1>5. \A i \in 1 .. n : trail[i].op = "publish" =>
         release'[trail[i].label] = release[trail[i].label] /\ disk'[trail[i].label] = disk[trail[i].label]
  <2> SUFFICES ASSUME NEW i \in 1 .. n, trail[i].op = "publish"
               PROVE  trail[i].label \in Labels \ {q.label}
    BY <1>4
  <2>1. trail[i] \in Publication \cup Administration /\ i \in DOMAIN trail
    BY <1>1 DEF ExtensionsTypeOK
  <2>2. release[trail[i].label] # NoExtension /\ trail[i].label \in Labels
    BY <2>1, Changes DEF ExtensionsAreSound
  <2> QED
    BY <2>2 DEF UpToDate
<1>6. /\ Len(trail') = n + 1 /\ trail'[n + 1] = q /\ \A i \in 1 .. n : trail'[i] = trail[i]
      /\ trail' \in Seq(Publication \cup Administration) /\ LatestIsThere'
      /\ PolicyAfter(n)' = PolicyAfter(n) /\ StatusAfter(n)' = StatusAfter(n)
      /\ PolicyAfter(n + 1)' = PolicyAfter(n) /\ StatusAfter(n + 1)' = StatusAfter(n)
      /\ Kinds("publish", n)' = Kinds("publish", n)
      /\ Kinds("publish", n + 1)' = Kinds("publish", n) \cup {n + 1}
  BY <1>1, <1>2, TrailGrows, TrailKeeps
<1>7. n > 0 => /\ Kinds("publish", n) # {} /\ q.base = trail[LatestOf(Kinds("publish", n))].label
               /\ q.by # trail[1].by => PolicyAfter(n) = "platform_members"
               /\ LatestOf(Kinds("publish", n)) \in 1 .. n /\ trail[1].op = "publish"
  <2> SUFFICES ASSUME n > 0 PROVE <1>7!2
    OBVIOUS
  <2>1. shelf # NoExtension
    BY <1>1 DEF ShelfFollows
  <2>2. trail[1].op = "publish" /\ 1 \in Kinds("publish", n)
    BY <1>1, <2>1 DEF ShelfFollows, Kinds
  <2>3. LatestOf(Kinds("publish", n)) \in Kinds("publish", n)
    BY <1>1, <2>2 DEF LatestIsThere
  <2> QED
    BY <1>1, <2>1, <2>2, <2>3 DEF ShelfFollows, May, UpToDate, Kinds
<1>8. n = 0 => Kinds("publish", n) = {} /\ q.base = NoExtension
  BY <1>1 DEF ShelfFollows, Kinds
<1>9. IF Kinds("publish", n) = {} THEN q.base = NoExtension
      ELSE q.base = trail'[LatestOf(Kinds("publish", n))].label
  BY <1>6, <1>7, <1>8
<1>10. ExtensionsAreSound'
  <2>1. \A i \in 1 .. n : SoundAt(i)'
    BY <1>1, <1>2, <1>5, BeforeKeeps
  <2>3. SoundAt(n + 1)'
    <3>1. (ChangeFollows(n, trail[n + 1]))'
      <4>1. /\ trail'[n + 1] = q /\ Kinds("publish", n)' = Kinds("publish", n)
            /\ StatusAfter(n)' = "active" /\ PolicyAfter(n)' = PolicyAfter(n)
            /\ n > 0 => trail'[1] = trail[1]
        BY <1>3, <1>6
      <4> QED
        BY <1>2, <1>3, <1>4, <1>7, <1>9, <4>1 DEF ChangeFollows
    <3> QED
      BY <3>1, SoundFollows
  <2>4. DOMAIN trail' = 1 .. n + 1 /\ \A i \in 1 .. n + 1 : i \in 1 .. n \/ i = n + 1
    BY <1>6
  <2> QED
    BY <1>3, <1>6, <2>1, <2>3, <2>4, SoundAtEach
<1>11. ShelfFollows'
  <2>1. LatestOf(Kinds("publish", n + 1)') = n + 1
    BY <1>6, LatestIsNew DEF Kinds
  <2>2. shelf' # NoExtension /\ trail'[1].op = "publish" /\ shelf'.author = trail'[1].by
    BY <1>1, <1>2, <1>3, <1>6, <1>7
  <2>3. shelf'.current = trail'[LatestOf(Kinds("publish", n + 1)')].label
    BY <1>3, <1>6, <2>1
  <2>4. Len(trail)' = n + 1 /\ \A k : k = n + 1 => LatestOf(Kinds("publish", k))' = LatestOf(Kinds("publish", k)')
    BY <1>6, Zenon DEF LatestOf
  <2> QED
    BY <1>3, <1>6, <2>2, <2>3, <2>4 DEF ShelfFollows
<1> QED
  BY <1>3, <1>4, <1>6, <1>10, <1>11

\* What the author changes of the entry is the latest that was said of it.
LEMMA EntryManaged ==
  ASSUME ExtensionsInv, NEW q \in Administration, shelf # NoExtension, q.by = shelf.author,
         q.expected = shelf.revision, Len(trail) < MaxTrail, UNCHANGED <<release, disk>>,
         shelf' = [shelf EXCEPT !.policy = q.policy, !.status = q.status, !.revision = @ + 1],
         trail' = Append(trail, q)
  PROVE  /\ shelf' \in Entry /\ trail' \in Seq(Publication \cup Administration)
         /\ LatestIsThere' /\ ShelfFollows' /\ ExtensionsAreSound'
<1> USE DEF ExtensionsInv
<1>1. PICK n \in Nat : n = Len(trail) /\ n < MaxTrail
  BY DEF ExtensionsTypeOK
<1>2. /\ q \in Publication \cup Administration /\ q.op = "manage"
      /\ q.policy \in Policies /\ q.status \in {"active", "unlisted"}
  BY DEF Administration
<1>3. /\ shelf \in Entry /\ shelf.revision = n /\ n > 0 /\ shelf.author = trail[1].by
      /\ trail[1].op = "publish" /\ shelf.current = trail[LatestOf(Kinds("publish", n))].label
  BY <1>1 DEF ShelfFollows, ExtensionsTypeOK, ExtensionsAreSound
<1>4. /\ shelf' \in Entry /\ shelf'.policy = q.policy /\ shelf'.status = q.status /\ shelf'.revision = n + 1
      /\ shelf'.author = shelf.author /\ shelf'.current = shelf.current /\ shelf' # NoExtension
  <2>1. n + 1 \in 1 .. MaxTrail
    BY <1>1
  <2> QED
    BY <1>2, <1>3, <2>1 DEF Entry
<1>5. /\ Len(trail') = n + 1 /\ trail'[n + 1] = q /\ \A i \in 1 .. n : trail'[i] = trail[i]
      /\ trail' \in Seq(Publication \cup Administration) /\ LatestIsThere'
      /\ PolicyAfter(n + 1)' = q.policy /\ StatusAfter(n + 1)' = q.status
      /\ Kinds("publish", n)' = Kinds("publish", n) /\ Kinds("publish", n + 1)' = Kinds("publish", n)
  <2>1. Kinds("publish", n + 1)' = Kinds("publish", n) \cup {}
    BY <1>1, <1>2, TrailGrows
  <2> QED
    BY <1>1, <1>2, <2>1, TrailGrows, TrailKeeps
<1>6. ExtensionsAreSound'
  <2>1. \A i \in 1 .. n : SoundAt(i)'
    BY <1>1, <1>2, BeforeKeeps
  <2>2. SoundAt(n + 1)'
    <3>1. (ChangeFollows(n, trail[n + 1]))'
      BY <1>2, <1>3, <1>5 DEF ChangeFollows
    <3> QED
      BY <3>1, SoundFollows
  <2>3. DOMAIN trail' = 1 .. n + 1 /\ \A i \in 1 .. n + 1 : i \in 1 .. n \/ i = n + 1
    BY <1>5
  <2> QED
    BY <1>4, <1>5, <2>1, <2>2, <2>3, SoundAtEach
<1>7. ShelfFollows'
  <2>1. LatestOf(Kinds("publish", n)) \in 1 .. n
    <3>1. 1 \in Kinds("publish", n)
      BY <1>3 DEF Kinds
    <3> QED
      <4>1. LatestOf(Kinds("publish", n)) \in Kinds("publish", n)
        BY <1>1, <3>1 DEF LatestIsThere
      <4> QED
        BY <4>1 DEF Kinds
  <2>2. shelf'.current = trail'[LatestOf(Kinds("publish", n + 1)')].label
    BY <1>3, <1>4, <1>5, <2>1
  <2>3. Len(trail)' = n + 1 /\ \A k : k = n + 1 => LatestOf(Kinds("publish", k))' = LatestOf(Kinds("publish", k)')
    BY <1>5, Zenon DEF LatestOf
  <2>4. trail'[1].op = "publish" /\ shelf'.author = trail'[1].by
    BY <1>3, <1>4, <1>5
  <2>5. shelf'.policy = PolicyAfter(n + 1)' /\ shelf'.status = StatusAfter(n + 1)' /\ n + 1 # 0
    BY <1>4, <1>5
  <2> QED
    BY <1>4, <1>5, <2>2, <2>3, <2>4, <2>5 DEF ShelfFollows
<1> QED
  BY <1>4, <1>5, <1>6, <1>7

\* What a step that changes neither the row nor the trail keeps: versions and their artifacts.
LEMMA EntryRests ==
  ASSUME ExtensionsInv, UNCHANGED <<shelf, release, trail>>, disk' \in [Labels -> Bundles \cup {NoExtension}],
         \A v \in Labels : release[v] # NoExtension => disk'[v] = disk[v],
         form' \in [Makers -> Publication \cup Administration \cup {NoExtension}], FormsFollow'
  PROVE  ExtensionsInv'
<1> USE DEF ExtensionsInv
<1>1. ExtensionsTypeOK'
  BY DEF ExtensionsTypeOK
<1>2. /\ \A op, k : Kinds(op, k)' = Kinds(op, k) /\ LatestOf(Kinds(op, k))' = LatestOf(Kinds(op, k))
      /\ \A k : PolicyAfter(k)' = PolicyAfter(k) /\ StatusAfter(k)' = StatusAfter(k)
  <2>1. \A op, k : Kinds(op, k)' = Kinds(op, k)
    BY DEF Kinds
  <2>2. \A op, k : LatestOf(Kinds(op, k))' = LatestOf(Kinds(op, k)')
    BY Zenon DEF LatestOf
  <2> QED
    BY <2>1, <2>2, AfterIs
<1>4. LatestIsThere'
  BY <1>2 DEF LatestIsThere
<1>5. ShelfFollows'
  BY <1>2 DEF ShelfFollows
<1>3. ExtensionsAreSound'
  <2>1. \A i \in DOMAIN trail : SoundAt(i)'
    <3> SUFFICES ASSUME NEW i \in DOMAIN trail PROVE SoundAt(i)'
      OBVIOUS
    <3>1. SoundAt(i)
      BY SoundAtEach
    <3>2. trail[i].op = "publish" => disk'[trail[i].label] = disk[trail[i].label]
      BY <3>1, Changes DEF SoundAt, ExtensionsTypeOK
    <3>3. /\ PolicyAfter(i - 1)' = PolicyAfter(i - 1) /\ StatusAfter(i - 1)' = StatusAfter(i - 1)
          /\ Kinds("publish", i - 1)' = Kinds("publish", i - 1)
      BY DEF PolicyAfter, StatusAfter, Kinds
    <3> QED
      BY <3>1, <3>2, <3>3 DEF SoundAt
  <2>2. shelf # NoExtension => shelf.revision = Len(trail)
    BY SoundAtEach
  <2> QED
    BY <2>1, <2>2, SoundAtEach
<1> QED
  BY <1>1, <1>3, <1>4, <1>5

LEMMA ExtensionsInvStep == ExtensionsInv /\ [ExtensionsNext]_extensionsVars => ExtensionsInv'
<1> SUFFICES ASSUME ExtensionsInv, [ExtensionsNext]_extensionsVars PROVE ExtensionsInv'
  OBVIOUS
<1> USE DEF ExtensionsInv
<1>1. ASSUME NEW m \in Makers, ComposePublication(m) PROVE ExtensionsInv'
  <2>1. PICK q \in Publication : /\ form' = [form EXCEPT ![m] = q]
                                 /\ q.op = "publish" /\ (shelf = NoExtension => q.expected = 0 /\ q.base = NoExtension)
    <3>1. PICK label \in Labels, bundle \in Bundles, token \in Tokens :
            form' = [form EXCEPT ![m] =
              [op |-> "publish", by |-> m, label |-> label, bundle |-> bundle, token |-> token,
               expected |-> IF shelf = NoExtension THEN 0 ELSE shelf.revision,
               base |-> IF shelf = NoExtension THEN NoExtension ELSE shelf.current]]
      BY <1>1 DEF ComposePublication
    <3> DEFINE q == [op |-> "publish", by |-> m, label |-> label, bundle |-> bundle, token |-> token,
                     expected |-> IF shelf = NoExtension THEN 0 ELSE shelf.revision,
                     base |-> IF shelf = NoExtension THEN NoExtension ELSE shelf.current]
    <3>2. q \in Publication /\ q.op = "publish" /\ (shelf = NoExtension => q.expected = 0 /\ q.base = NoExtension)
      BY DEF Publication, ExtensionsTypeOK, Entry
    <3> QED
      BY <3>1, <3>2
  <2>2. /\ form' \in [Makers -> Publication \cup Administration \cup {NoExtension}] /\ FormsFollow'
        /\ UNCHANGED <<shelf, release, disk, trail>>
    BY <1>1, <2>1 DEF ComposePublication, FormsFollow, ExtensionsTypeOK
  <2> QED
    BY <2>2, EntryRests DEF ExtensionsTypeOK
<1>2. ASSUME NEW m \in Makers, ComposeAdministration(m) PROVE ExtensionsInv'
  <2>1. /\ form' \in [Makers -> Publication \cup Administration \cup {NoExtension}]
        /\ UNCHANGED <<shelf, release, disk, trail>> /\ shelf # NoExtension
    BY <1>2 DEF ComposeAdministration, Administration, ExtensionsTypeOK, Entry
  <2> QED
    BY <2>1, EntryRests DEF ExtensionsTypeOK, FormsFollow
<1>3. ASSUME NEW m \in Makers, PublishVersion(m) PROVE ExtensionsInv'
  <2>1. PICK q \in Publication : q = form[m] /\ (shelf = NoExtension => q.expected = 0 /\ q.base = NoExtension)
    BY <1>3 DEF PublishVersion, ExtensionsTypeOK, FormsFollow, Administration
  <2>2. q.label \in Labels /\ q.bundle \in Bundles
    BY Changes DEF Publication
  <2>3. CASE Reply(q) /\ UNCHANGED <<shelf, release, disk, trail>>
    BY <2>3, EntryRests DEF Reply, FormsFollow, ExtensionsTypeOK
  <2>4. CASE May(q) /\ UpToDate(q) /\ Len(trail) < MaxTrail /\ Accept(q) /\ Reply(q)
    <3>1. form' \in [Makers -> Publication \cup Administration \cup {NoExtension}]
      BY <2>4 DEF Reply, ExtensionsTypeOK
    <3>2. shelf' \in Entry /\ shelf' # NoExtension
      BY <2>1, <2>4, VersionAccepted
    <3> QED
      BY <2>1, <2>4, <3>1, <3>2, VersionAccepted DEF ExtensionsTypeOK, FormsFollow
  <2>5. CASE UpToDate(q) /\ disk' = [disk EXCEPT ![q.label] = q.bundle] /\ UNCHANGED <<shelf, release, form, trail>>
    BY <2>2, <2>5, EntryRests DEF UpToDate, FormsFollow, ExtensionsTypeOK
  <2>6. CASE form' = [form EXCEPT ![m] = NoExtension] /\ UNCHANGED <<shelf, release, disk, trail>>
    BY <2>6, EntryRests DEF FormsFollow, ExtensionsTypeOK
  <2> QED
    BY <1>3, <2>1, <2>3, <2>4, <2>5, <2>6 DEF PublishVersion
<1>4. ASSUME NEW m \in Makers, Manage(m) PROVE ExtensionsInv'
  <2>1. PICK q \in Administration : q = form[m]
    BY <1>4 DEF Manage, ExtensionsTypeOK, Publication
  <2>2. shelf # NoExtension /\ UNCHANGED <<release, disk>>
    BY <1>4 DEF Manage, FormsFollow
  <2>3. CASE form' = [form EXCEPT ![m] = NoExtension] /\ UNCHANGED <<shelf, trail>>
    BY <2>2, <2>3, EntryRests DEF FormsFollow, ExtensionsTypeOK
  <2>4. CASE /\ q.by = shelf.author /\ q.expected = shelf.revision /\ Len(trail) < MaxTrail
             /\ shelf' = [shelf EXCEPT !.policy = q.policy, !.status = q.status, !.revision = @ + 1]
             /\ trail' = Append(trail, q) /\ Reply(q)
    <3>1. form' \in [Makers -> Publication \cup Administration \cup {NoExtension}]
      BY <2>4 DEF Reply, ExtensionsTypeOK
    <3>2. shelf' \in Entry /\ shelf' # NoExtension
      BY <2>2, <2>4, EntryManaged
    <3> QED
      BY <2>2, <2>4, <3>1, <3>2, EntryManaged DEF ExtensionsTypeOK, FormsFollow
  <2> QED
    BY <1>4, <2>1, <2>3, <2>4 DEF Manage
<1>5. CASE UNCHANGED extensionsVars
  BY <1>5, EntryRests DEF extensionsVars, ExtensionsTypeOK, FormsFollow
<1> QED
  BY <1>1, <1>2, <1>3, <1>4, <1>5 DEF ExtensionsNext

\* Nobody's version is lost or changed, whatever two authors publish and manage from what they
\* have read and however often a request is sent (ExtensionStoreService).
THEOREM ExtensionsStaySound == ExtensionsInit /\ [][ExtensionsNext]_extensionsVars => []ExtensionsAreSound
<1>1. ExtensionsInv => ExtensionsAreSound
  BY DEF ExtensionsInv
<1> QED
  BY <1>1, ExtensionsStart, ExtensionsInvStep, PTL

LEMMA ExtensionsTypesAlways == ExtensionsInit /\ [][ExtensionsNext]_extensionsVars => []ExtensionsTypeOK
<1>1. ExtensionsInv => ExtensionsTypeOK
  BY DEF ExtensionsInv
<1> QED
  BY <1>1, ExtensionsStart, ExtensionsInvStep, PTL

HIDE ExtensionsAssumption

-----------------------------------------------------------------------------
(* Images                                                                    *)

Listing == {w \in Places : making[w].at = "list"}
Pruning == {w \in Places : making[w].at = "prune"}
\* The images a cleaning is still to take: those of the creations of ws that prune, and the
\* ones whose creation has yet to look at the others.
Claimed(ws) ==
  {i \in ToSet(built) : \/ \E w \in Listing : Tag(making[w]) = Tag(i)
                        \/ \E w \in ws : Tag(i) \in making[w].stale}
Left(ws) == ToSet(built) \ (spared \cup Claimed(ws))

OneImagePerTag == \A k, l \in DOMAIN built : Tag(built[k]) = Tag(built[l]) => k = l

\* Whichever of the cleanings are through: what is left then.
CleaningsSuffice ==
  \A ws \in SUBSET Pruning : Cardinality(Left(ws)) <= 2 + abandoned + Cardinality(Pruning \ ws)

ReplacedIsKnown ==
  upload.at = "clean" /\ Replaced(upload) /\ custom = upload.previous => custom \in misnamed

Creations ==
  [at : {"rest"}] \cup [at : {"look", "build", "list", "run"}, skills : Skills, on : Bases]
    \cup [at : {"prune"}, skills : Skills, on : Bases, stale : SUBSET [skills : Skills, on : Bases]]
Uploads ==
  [at : {"rest"}] \cup [at : {"load"}, previous : Bases] \cup [at : {"clean"}, previous : Bases, now : Bases]
StoreTypeOK ==
  /\ making \in [Places -> Creations] /\ upload \in Uploads
  /\ abandoned \in Nat /\ loads \in 0 .. MaxLoads /\ (upload.at = "load" => loads < MaxLoads)
  /\ spared \subseteq BuiltImages
  /\ inside \in [Places -> BuiltImages \cup {NotRunning}]

ImagesInv ==
  /\ ImagesTypeOK /\ StoreTypeOK /\ OneImagePerTag /\ CleaningsSuffice
  /\ TagsAreTrue /\ BaseIsThere /\ ReplacedIsKnown

-----------------------------------------------------------------------------
\* What is left of a sequence without its k-th element.
LEMMA RemoveAtIs ==
  ASSUME NEW S, NEW s \in Seq(S), NEW k \in 1 .. Len(s)
  PROVE  /\ RemoveAt(s, k) \in Seq(S) /\ Len(RemoveAt(s, k)) = Len(s) - 1
         /\ \A i \in 1 .. Len(s) - 1 : RemoveAt(s, k)[i] = IF i < k THEN s[i] ELSE s[i + 1]
<1> DEFINE a == SubSeq(s, 1, k - 1)
           b == SubSeq(s, k + 1, Len(s))
<1>1. a \in Seq(S) /\ Len(a) = k - 1 /\ \A i \in 1 .. k - 1 : a[i] = s[i]
  OBVIOUS
<1>2. b \in Seq(S) /\ Len(b) = Len(s) - k /\ \A i \in 1 .. Len(s) - k : b[i] = s[k + i]
  OBVIOUS
<1>3. RemoveAt(s, k) = a \o b
  BY DEF RemoveAt
<1> HIDE DEF a, b
<1>4. a \o b \in Seq(S) /\ Len(a \o b) = Len(s) - 1
  <2>1. a \in Seq(S) /\ b \in Seq(S)
    BY <1>1, <1>2
  <2>2. a \o b \in Seq(S)
    BY <2>1
  <2>3. Len(a \o b) = Len(a) + Len(b)
    BY <2>1
  <2> QED
    BY <1>1, <1>2, <2>2, <2>3
<1>5. ASSUME NEW i \in 1 .. Len(s) - 1 PROVE (a \o b)[i] = IF i < k THEN s[i] ELSE s[i + 1]
  <2>1. CASE i < k
    BY <1>1, <1>2, <2>1
  <2>2. CASE ~(i < k)
    <3>1. i - (k - 1) \in 1 .. Len(s) - k /\ (a \o b)[i] = b[i - (k - 1)]
      BY SMTT(20), <1>1, <1>2, <2>2
    <3>2. b[i - (k - 1)] = s[k + (i - (k - 1))] /\ k + (i - (k - 1)) = i + 1
      BY <1>2, <3>1
    <3> QED
      BY <2>2, <3>1, <3>2
  <2> QED
    BY <2>1, <2>2
<1> QED
  BY <1>3, <1>4, <1>5

\* The others are the images of other tags, in their order.
LEMMA OthersAre ==
  ASSUME ImagesTypeOK, OneImagePerTag, NEW c
  PROVE  /\ Others(c) \in Seq(BuiltImages) /\ ToSet(Others(c)) = ToSet(built) \ Tagged(c)
         /\ \A k, l \in DOMAIN Others(c) : Tag(Others(c)[k]) = Tag(Others(c)[l]) => k = l
<1>0. built \in Seq(BuiltImages)
  BY DEF ImagesTypeOK
<1>1. CASE Tagged(c) = {}
  BY <1>0, <1>1 DEF Others, OneImagePerTag
<1>2. CASE Tagged(c) # {}
  <2> DEFINE n == CHOOSE k \in DOMAIN built : built[k] \in Tagged(c)
  <2>1. n \in 1 .. Len(built) /\ built[n] \in Tagged(c)
    <3>1. \E k \in DOMAIN built : built[k] \in Tagged(c)
      BY <1>2 DEF Tagged, ToSet
    <3>2. n \in DOMAIN built /\ built[n] \in Tagged(c)
      BY <3>1
    <3> QED
      BY <1>0, <3>2
  <2>2. Others(c) = RemoveAt(built, n)
    BY <1>2 DEF Others
  <2> HIDE DEF n
  <2>3. /\ Others(c) \in Seq(BuiltImages) /\ Len(Others(c)) = Len(built) - 1
        /\ \A i \in 1 .. Len(built) - 1 : Others(c)[i] = IF i < n THEN built[i] ELSE built[i + 1]
    BY <1>0, <2>1, <2>2, RemoveAtIs
  <2>4. \A k \in DOMAIN built : built[k] \in Tagged(c) <=> k = n
    <3>1. ASSUME NEW k \in DOMAIN built, built[k] \in Tagged(c) PROVE k = n
      BY <1>0, <2>1, <3>1 DEF Tagged, OneImagePerTag
    <3> QED
      BY <2>1, <3>1
  <2>5. ToSet(Others(c)) = ToSet(built) \ Tagged(c)
    <3>1. ASSUME NEW i \in ToSet(Others(c)) PROVE i \in ToSet(built) \ Tagged(c)
      <4>1. PICK k \in 1 .. Len(built) - 1 : i = Others(c)[k]
        BY <2>3, <3>1 DEF ToSet
      <4>2. PICK l \in 1 .. Len(built) : i = built[l] /\ l # n
        BY <1>0, <2>1, <2>3, <4>1
      <4> QED
        BY <1>0, <2>4, <4>2 DEF ToSet
    <3>2. ASSUME NEW i \in ToSet(built) \ Tagged(c) PROVE i \in ToSet(Others(c))
      <4>1. PICK l \in 1 .. Len(built) : i = built[l]
        BY <1>0, <3>2 DEF ToSet
      <4>2. l # n
        BY <2>1, <3>2, <4>1
      <4>3. PICK k \in 1 .. Len(built) - 1 : i = Others(c)[k]
        <5>1. CASE l < n
          BY <1>0, <2>1, <2>3, <4>1, <5>1
        <5>2. CASE l > n
          <6>1. l - 1 \in 1 .. Len(built) - 1 /\ ~(l - 1 < n) /\ (l - 1) + 1 = l
            BY <1>0, <2>1, <5>2
          <6> QED
            BY <2>3, <4>1, <6>1
        <5> QED
          BY <1>0, <2>1, <4>2, <5>1, <5>2
      <4> QED
        BY <2>3, <4>3 DEF ToSet
    <3> QED
      BY <3>1, <3>2
  <2>6. ASSUME NEW k \in DOMAIN Others(c), NEW l \in DOMAIN Others(c), Tag(Others(c)[k]) = Tag(Others(c)[l])
        PROVE  k = l
    <3> DEFINE p(i) == IF i < n THEN i ELSE i + 1
    <3>1. k \in 1 .. Len(built) - 1 /\ l \in 1 .. Len(built) - 1
      BY <2>3
    <3>2. /\ p(k) \in DOMAIN built /\ p(l) \in DOMAIN built
          /\ Others(c)[k] = built[p(k)] /\ Others(c)[l] = built[p(l)]
      BY <1>0, <2>1, <2>3, <3>1
    <3>3. p(k) = p(l)
      BY <2>6, <3>2 DEF OneImagePerTag
    <3> QED
      BY <1>0, <2>1, <3>1, <3>3
  <2> QED
    BY <2>3, <2>5, <2>6
<1> QED
  BY <1>1, <1>2

\* There are finitely many images, and a tag names at most one.
LEMMA ImagesAreFew ==
  ASSUME ImagesTypeOK, OneImagePerTag
  PROVE  /\ IsFiniteSet(ToSet(built)) /\ ToSet(built) \subseteq BuiltImages
         /\ \A i, j \in ToSet(built) : Tag(i) = Tag(j) => i = j
         /\ Len(built) <= 2 => Cardinality(ToSet(built)) <= 2
<1>1. built \in Seq(BuiltImages) /\ DOMAIN built = 1 .. Len(built)
  BY DEF ImagesTypeOK
<1>2. IsFiniteSet(1 .. Len(built)) /\ Cardinality(1 .. Len(built)) = Len(built)
  BY <1>1, FS_Interval
<1> DEFINE f == [k \in 1 .. Len(built) |-> built[k]]
<1>3. f \in Surjection(1 .. Len(built), ToSet(built))
  BY <1>1 DEF Surjection, ToSet
<1>4. IsFiniteSet(ToSet(built)) /\ Cardinality(ToSet(built)) <= Len(built)
  <2> HIDE DEF f
  <2> QED
    BY <1>2, <1>3, FS_Surjection
<1>5. Cardinality(ToSet(built)) \in Nat
  BY <1>4, FS_CardinalityType
<1> QED
  BY <1>1, <1>4, <1>5 DEF ToSet, OneImagePerTag

LEMMA ImagesStart == ImagesInit => ImagesInv
<1> SUFFICES ASSUME ImagesInit PROVE ImagesInv
  OBVIOUS
<1>1. ToSet(built) = {} /\ Pruning = {}
  BY DEF ImagesInit, ToSet, Pruning, NotMaking
<1>2. CleaningsSuffice
  <2>1. \A ws : Left(ws) = {}
    BY <1>1 DEF Left
  <2> QED
    <3>1. \A ws \in SUBSET Pruning : Left(ws) = {} /\ Pruning \ ws = {}
      BY <1>1, <2>1
    <3>2. Cardinality({}) = 0 /\ abandoned = 0
      BY FS_EmptySet DEF ImagesInit
    <3> QED
      BY <3>1, <3>2 DEF CleaningsSuffice
<1>3. ImagesTypeOK /\ StoreTypeOK
  BY ImagesAssumption DEF ImagesInit, ImagesTypeOK, StoreTypeOK, NotMaking, NoUpload, Creations, Uploads, NotRunning
<1>4. OneImagePerTag
  BY DEF ImagesInit, OneImagePerTag
<1>5. TagsAreTrue
  BY <1>1 DEF TagsAreTrue, ImagesInit, InUse
<1>6. BaseIsThere /\ ReplacedIsKnown
  BY ImagesAssumption DEF BaseIsThere, ReplacedIsKnown, ImagesInit, NoUpload
<1> QED
  BY <1>2, <1>3, <1>4, <1>5, <1>6 DEF ImagesInv

\* The bound follows: each creation that lists holds one image back.
LEMMA ImagesStayBounded == ImagesInv => ImagesAreBounded
<1> SUFFICES ASSUME ImagesInv PROVE ImagesAreBounded
  OBVIOUS
<1>0. ImagesTypeOK /\ OneImagePerTag /\ CleaningsSuffice /\ abandoned \in Nat
  BY DEF ImagesInv, StoreTypeOK
<1>1. /\ IsFiniteSet(ToSet(built))
      /\ \A i, j \in ToSet(built) : Tag(i) = Tag(j) => i = j
  BY <1>0, ImagesAreFew
<1> DEFINE held == {i \in ToSet(built) : \E w \in Listing : Tag(making[w]) = Tag(i)}
           f == [i \in held |-> CHOOSE w \in Listing : Tag(making[w]) = Tag(i)]
<1>2. IsFiniteSet(Listing) /\ IsFiniteSet(Pruning)
  BY ImagesAssumption, FS_Subset DEF Listing, Pruning
<1>3. f \in Injection(held, Listing)
  <2>1. \A i \in held : f[i] \in Listing /\ Tag(making[f[i]]) = Tag(i)
    OBVIOUS
  <2> QED
    <3>1. \A i, j \in held : f[i] = f[j] => Tag(i) = Tag(j)
      BY <2>1
    <3>2. \A i, j \in held : f[i] = f[j] => i = j
      BY <1>1, <3>1
    <3>3. f \in [held -> Listing]
      BY <2>1
    <3> HIDE DEF f, held
    <3> QED
      BY <3>2, <3>3 DEF Injection, IsInjective
<1>4. IsFiniteSet(held) /\ Cardinality(held) <= Cardinality(Listing)
  <2> HIDE DEF f, held
  <2> QED
    BY <1>2, <1>3, FS_Injection
<1>5. Cardinality(Left({})) <= 2 + abandoned + Cardinality(Pruning)
  <2>1. {} \in SUBSET Pruning /\ Pruning \ {} = Pruning
    OBVIOUS
  <2> QED
    BY <1>0, <2>1 DEF CleaningsSuffice
<1>6. IsFiniteSet(Left({}))
  BY <1>1, FS_Difference DEF Left
<1>7. ToSet(built) \ spared \subseteq Left({}) \cup held
  BY DEF Left, Claimed
<1>8. /\ IsFiniteSet(Left({}) \cup held)
      /\ Cardinality(Left({}) \cup held) <= Cardinality(Left({})) + Cardinality(held)
  <2> HIDE DEF held
  <2>1. IsFiniteSet(Left({}) \cap held)
    BY <1>6, FS_Intersection
  <2> QED
    <3>1. /\ IsFiniteSet(Left({}) \cup held)
          /\ Cardinality(Left({}) \cup held)
               = Cardinality(Left({})) + Cardinality(held) - Cardinality(Left({}) \cap held)
      BY <1>4, <1>6, FS_Union
    <3>2. /\ Cardinality(Left({})) \in Nat /\ Cardinality(held) \in Nat
          /\ Cardinality(Left({}) \cap held) \in Nat
      BY <1>4, <1>6, <2>1, FS_CardinalityType
    <3> QED
      BY <3>1, <3>2
<1>9. Cardinality(ToSet(built) \ spared) <= Cardinality(Left({})) + Cardinality(held)
  <2> HIDE DEF held
  <2>1. IsFiniteSet(ToSet(built) \ spared)
    BY <1>1, FS_Difference
  <2> QED
    BY <1>4, <1>6, <1>7, <1>8, <2>1, FS_Subset, FS_CardinalityType
<1>10. {w \in Places : making[w].at \in {"list", "prune"}} = Listing \cup Pruning
  BY DEF Listing, Pruning
<1>11. Cardinality(Listing \cup Pruning) = Cardinality(Listing) + Cardinality(Pruning)
  <2>1. Listing \cap Pruning = {}
    BY DEF Listing, Pruning
  <2> QED
    <3>1. Cardinality(Listing \cup Pruning)
            = Cardinality(Listing) + Cardinality(Pruning) - Cardinality(Listing \cap Pruning)
      BY <1>2, FS_Union
    <3>2. /\ Cardinality(Listing) \in Nat /\ Cardinality(Pruning) \in Nat
          /\ Cardinality(Listing \cap Pruning) = 0
      BY <1>2, <2>1, FS_EmptySet, FS_CardinalityType
    <3> QED
      BY <3>1, <3>2
<1> HIDE DEF held
<1>12. /\ Cardinality(ToSet(built) \ spared) \in Nat /\ Cardinality(Left({})) \in Nat
       /\ Cardinality(held) \in Nat /\ Cardinality(Listing) \in Nat /\ Cardinality(Pruning) \in Nat
  BY <1>1, <1>2, <1>4, <1>6, FS_CardinalityType, FS_Difference
<1>13. Cardinality(ToSet(built) \ spared) <= 2 + abandoned + Cardinality(Listing \cup Pruning)
  BY <1>0, <1>4, <1>5, <1>9, <1>11, <1>12
<1> QED
  BY <1>10, <1>13 DEF ImagesAreBounded

-----------------------------------------------------------------------------
\* A creation has what its stage needs.
LEMMA CreationHas ==
  ASSUME StoreTypeOK, NEW w \in Places
  PROVE  /\ making[w] \in Creations
         /\ making[w].at \in {"look", "build", "list", "run"} =>
              making[w] \in [at : {"look", "build", "list", "run"}, skills : Skills, on : Bases]
         /\ making[w].at = "prune" =>
              making[w] \in [at : {"prune"}, skills : Skills, on : Bases, stale : SUBSET [skills : Skills, on : Bases]]
BY DEF StoreTypeOK, Creations

\* What a cleaning leaves does not grow beyond what was left before.
LEMMA LeftIsLess ==
  ASSUME ImagesTypeOK, StoreTypeOK, OneImagePerTag, CleaningsSuffice, NEW ws \in SUBSET Pruning,
         NEW new, new \subseteq Left(ws), NEW n \in Nat, abandoned + Cardinality(Pruning \ ws) <= n
  PROVE  Cardinality(new) <= 2 + n
<1>1. IsFiniteSet(Left(ws))
  BY ImagesAreFew, FS_Difference DEF Left
<1>2. IsFiniteSet(new) /\ Cardinality(new) <= Cardinality(Left(ws))
  BY <1>1, FS_Subset
<1>3. IsFiniteSet(Pruning \ ws)
  BY ImagesAssumption, FS_Subset DEF Pruning
<1>4. /\ Cardinality(Left(ws)) \in Nat /\ Cardinality(new) \in Nat
      /\ Cardinality(Pruning \ ws) \in Nat /\ abandoned \in Nat
  BY <1>1, <1>2, <1>3, FS_CardinalityType DEF StoreTypeOK
<1>5. Cardinality(Left(ws)) <= 2 + abandoned + Cardinality(Pruning \ ws)
  BY DEF CleaningsSuffice
<1> QED
  BY <1>2, <1>4, <1>5

\* Nor by more than the image of a tag that is not claimed any more.
LEMMA LeftAndOne ==
  ASSUME ImagesTypeOK, StoreTypeOK, OneImagePerTag, CleaningsSuffice, NEW ws \in SUBSET Pruning,
         NEW c, NEW new, new \subseteq Left(ws) \cup Tagged(c),
         NEW n \in Nat, abandoned + Cardinality(Pruning \ ws) + 1 <= n
  PROVE  Cardinality(new) <= 2 + n
<1>1. IsFiniteSet(Left(ws)) /\ Cardinality(Left(ws)) \in Nat
  BY ImagesAreFew, FS_Difference, FS_CardinalityType DEF Left
<1>2. PICK x : Tagged(c) \subseteq {x}
  BY ImagesAreFew DEF Tagged
<1>3. /\ IsFiniteSet(Left(ws) \cup {x})
      /\ Cardinality(Left(ws) \cup {x}) <= Cardinality(Left(ws)) + 1
  <2> DEFINE before == Left(ws)
  <2> HIDE DEF before
  <2>1. /\ IsFiniteSet(before \cup {x})
        /\ Cardinality(before \cup {x}) = IF x \in before THEN Cardinality(before) ELSE Cardinality(before) + 1
    BY <1>1, FS_AddElement DEF before
  <2> QED
    BY <1>1, <2>1 DEF before
<1>4. new \subseteq Left(ws) \cup {x}
  BY <1>2
<1>5. IsFiniteSet(new) /\ Cardinality(new) <= Cardinality(Left(ws) \cup {x})
  BY <1>3, <1>4, FS_Subset
<1>6. IsFiniteSet(Pruning \ ws)
  BY ImagesAssumption, FS_Subset DEF Pruning
<1>7. /\ Cardinality(new) \in Nat /\ Cardinality(Left(ws) \cup {x}) \in Nat
      /\ Cardinality(Pruning \ ws) \in Nat /\ abandoned \in Nat
  BY <1>3, <1>5, <1>6, FS_CardinalityType DEF StoreTypeOK
<1>8. Cardinality(Left(ws)) <= 2 + abandoned + Cardinality(Pruning \ ws)
  BY DEF CleaningsSuffice
<1> QED
  BY <1>1, <1>3, <1>5, <1>7, <1>8

\* A step that moves no cleaning leaves what it left.
LEMMA SufficesStill ==
  ASSUME ImagesTypeOK, StoreTypeOK, OneImagePerTag, CleaningsSuffice,
         Pruning' = Pruning, abandoned' = abandoned,
         \A ws \in SUBSET Pruning : Left(ws)' \subseteq Left(ws)
  PROVE  CleaningsSuffice'
<1> SUFFICES ASSUME NEW ws \in SUBSET Pruning'
             PROVE  Cardinality(Left(ws)') <= 2 + abandoned' + Cardinality(Pruning' \ ws)
  BY DEF CleaningsSuffice
<1>1. IsFiniteSet(Pruning \ ws) /\ Cardinality(Pruning \ ws) \in Nat /\ abandoned \in Nat
  BY ImagesAssumption, FS_Subset, FS_CardinalityType DEF Pruning, StoreTypeOK
<1>2. Left(ws)' \subseteq Left(ws) /\ ws \in SUBSET Pruning
  OBVIOUS
<1> DEFINE n == abandoned + Cardinality(Pruning \ ws)
<1>3. n \in Nat
  BY <1>1
<1>4. Cardinality(Left(ws)') <= 2 + n
  BY <1>2, <1>3, LeftIsLess
<1> QED
  BY <1>1, <1>4

\* A step of a creation that is at neither of the two stages of its cleaning, before or after.
LEMMA CreationRests ==
  ASSUME ImagesTypeOK, StoreTypeOK, OneImagePerTag, CleaningsSuffice, UNCHANGED <<built, abandoned, spared>>,
         NEW w \in Places, NEW c, Making(w, c), c.at \notin {"list", "prune"}, making[w].at \notin {"list", "prune"}
  PROVE  CleaningsSuffice'
<1>1. \A v \in Places : v # w => making'[v] = making[v]
  BY DEF Making, StoreTypeOK
<1>2. making'[w] = c
  BY DEF Making, StoreTypeOK
<1>3. Listing' = Listing /\ Pruning' = Pruning /\ w \notin Listing /\ w \notin Pruning
  BY <1>1, <1>2 DEF Listing, Pruning
<1>4. \A v \in Listing \cup Pruning : making'[v] = making[v]
  BY <1>1, <1>3 DEF Listing, Pruning
<1>5. ASSUME NEW ws \in SUBSET Pruning PROVE Left(ws)' = Left(ws)
  <2>1. Claimed(ws)' = Claimed(ws)
    BY <1>3, <1>4 DEF Claimed
  <2> QED
    BY <2>1 DEF Left
<1> QED
  BY <1>3, <1>5, SufficesStill

\* The image that is built is claimed, until its creation has listed the others.
LEMMA BuildSuffices ==
  ASSUME ImagesTypeOK, StoreTypeOK, OneImagePerTag, CleaningsSuffice, UNCHANGED <<abandoned, spared>>,
         NEW w \in Places, making[w].at = "build", Making(w, [making[w] EXCEPT !.at = "list"]),
         NEW new, Tag(new) = Tag(making[w]),
         \/ built' = built /\ new \in ToSet(built)
         \/ built' = Append(Others(making[w]), new)
  PROVE  CleaningsSuffice'
<1>1. \A v \in Places : v # w => making'[v] = making[v]
  BY DEF Making, StoreTypeOK
<1>2. /\ making[w] \in [at : {"look", "build", "list", "run"}, skills : Skills, on : Bases]
      /\ making'[w] = [making[w] EXCEPT !.at = "list"]
  BY CreationHas DEF Making, StoreTypeOK
<1>3. making'[w].at = "list" /\ Tag(making'[w]) = Tag(making[w])
  BY <1>2 DEF Tag
<1>4. Listing' = Listing \cup {w} /\ Pruning' = Pruning /\ w \notin Pruning /\ w \notin Listing
  BY <1>1, <1>3 DEF Listing, Pruning
<1>5. \A v \in Listing \cup Pruning : making'[v] = making[v]
  BY <1>1, <1>4 DEF Listing, Pruning
<1>6. ToSet(built') \subseteq ToSet(built) \cup {new}
  <2>1. CASE built' = Append(Others(making[w]), new)
    <3>1. Others(making[w]) \in Seq(BuiltImages) /\ ToSet(Others(making[w])) \subseteq ToSet(built)
      BY OthersAre
    <3>2. ToSet(Append(Others(making[w]), new)) \subseteq ToSet(Others(making[w])) \cup {new}
      BY <3>1 DEF ToSet
    <3> QED
      BY <2>1, <3>1, <3>2
  <2> QED
    BY <2>1
<1>7. ASSUME NEW ws \in SUBSET Pruning PROVE Left(ws)' \subseteq Left(ws)
  <2>1. ASSUME NEW i \in Left(ws)' PROVE i \in Left(ws)
    <3>1. i \in ToSet(built') /\ i \notin spared /\ i \notin Claimed(ws)'
      BY <2>1 DEF Left
    <3>2. Tag(i) # Tag(making[w])
      BY <1>3, <1>4, <3>1 DEF Claimed
    <3>3. i \in ToSet(built)
      BY <1>6, <3>1, <3>2
    <3>4. i \notin Claimed(ws)
      BY <1>4, <1>5, <3>1 DEF Claimed
    <3> QED
      BY <3>1, <3>3, <3>4 DEF Left
  <2> QED
    BY <2>1
<1> QED
  BY <1>4, <1>7, SufficesStill

\* A creation that has listed the images answers for one more, and claims all but two.
LEMMA ListSuffices ==
  ASSUME ImagesTypeOK, StoreTypeOK, OneImagePerTag, CleaningsSuffice, NEW w \in Places, List(w)
  PROVE  CleaningsSuffice'
<1>0. UNCHANGED <<built, abandoned, spared>> /\ making[w].at = "list" /\ w \in Listing /\ w \notin Pruning
  BY DEF List, Listing, Pruning
<1>1. \A v \in Places : v # w => making'[v] = making[v]
  BY DEF List, Making, StoreTypeOK
<1>2. CASE Tagged(making[w]) = {}
  <2>1. making'[w] = NotMaking
    BY <1>2 DEF List, Making, StoreTypeOK
  <2>2. Listing' = Listing \ {w} /\ Pruning' = Pruning
    BY <1>0, <1>1, <2>1 DEF Listing, Pruning, NotMaking
  <2>3. \A v \in Listing \cup Pruning : v # w => making'[v] = making[v]
    BY <1>1 DEF Listing, Pruning
  <2>4. ASSUME NEW ws \in SUBSET Pruning PROVE Left(ws)' \subseteq Left(ws)
    <3>1. Claimed(ws) \subseteq Claimed(ws)'
      BY <1>0, <1>2, <2>2, <2>3 DEF Claimed, Tagged
    <3> QED
      BY <1>0, <3>1 DEF Left
  <2> QED
    BY <1>0, <2>2, <2>4, SufficesStill
<1>3. CASE Tagged(making[w]) # {}
  <2> DEFINE stale == Outdated(making[w])
  <2>1. /\ making'[w].at = "prune" /\ making'[w].stale = stale
    BY <1>3 DEF List, Making, StoreTypeOK
  <2> HIDE DEF stale
  <2>2. Listing' = Listing \ {w} /\ Pruning' = Pruning \cup {w}
    BY <1>0, <1>1, <2>1 DEF Listing, Pruning
  <2>3. \A v \in Listing \cup Pruning : v # w => making'[v] = making[v]
    BY <1>1 DEF Listing, Pruning
  <2> SUFFICES ASSUME NEW ws \in SUBSET Pruning'
               PROVE  Cardinality(Left(ws)') <= 2 + abandoned' + Cardinality(Pruning' \ ws)
    BY DEF CleaningsSuffice
  <2>4. /\ IsFiniteSet(Pruning \ ws) /\ Cardinality(Pruning \ ws) \in Nat /\ abandoned \in Nat
        /\ IsFiniteSet(Pruning' \ ws) /\ Cardinality(Pruning' \ ws) \in Nat
    <3>1. Pruning \ ws \subseteq Places /\ Pruning' \ ws \subseteq Places
      BY <2>2 DEF Pruning
    <3> QED
      BY <3>1, ImagesAssumption, FS_Subset, FS_CardinalityType DEF StoreTypeOK
  <2>5. CASE w \in ws
    <3>1. Left(ws)' \subseteq {i \in ToSet(built) : Tag(i) \notin stale}
      BY <1>0, <2>1, <2>5 DEF Left, Claimed
    <3>2. IsFiniteSet(ToSet(built))
      BY ImagesAreFew
    <3>3. PICK x, y : Len(built) > 2 => {i \in ToSet(built) : Tag(i) \notin stale} \subseteq {x, y}
      <4>1. CASE Len(built) > 2
        <5>1. stale = {Tag(i) : i \in ToSet(Others(making[w])) \ {Last(Others(making[w]))}}
          BY <4>1 DEF stale, Outdated, ImagesTypeOK
        <5>2. PICK x : Tagged(making[w]) \subseteq {x}
          BY ImagesAreFew DEF Tagged
        <5>3. ToSet(Others(making[w])) = ToSet(built) \ Tagged(making[w])
          BY OthersAre
        <5>4. {i \in ToSet(built) : Tag(i) \notin stale} \subseteq {x, Last(Others(making[w]))}
          BY <5>1, <5>2, <5>3
        <5> QED
          BY <5>4
      <4> QED
        BY <4>1
    <3>4. IsFiniteSet(Left(ws)') /\ Cardinality(Left(ws)') <= 2
      <4>1. CASE Len(built) > 2
        <5>1. Left(ws)' \subseteq {x, y}
          BY <3>1, <3>3, <4>1
        <5>2. IsFiniteSet({x}) /\ Cardinality({x}) = 1
          BY FS_Singleton
        <5>3. /\ IsFiniteSet({x} \cup {y})
              /\ Cardinality({x} \cup {y}) = IF y \in {x} THEN Cardinality({x}) ELSE Cardinality({x}) + 1
          BY <5>2, FS_AddElement
        <5>4. Left(ws)' \subseteq {x} \cup {y}
          BY <5>1
        <5>5. IsFiniteSet(Left(ws)') /\ Cardinality(Left(ws)') <= Cardinality({x} \cup {y})
          BY <5>3, <5>4, FS_Subset
        <5>6. Cardinality(Left(ws)') \in Nat
          BY <5>5, FS_CardinalityType
        <5> QED
          BY <5>2, <5>3, <5>5, <5>6
      <4>2. CASE ~(Len(built) > 2)
        <5>1. Cardinality(ToSet(built)) <= 2 /\ Cardinality(ToSet(built)) \in Nat
          BY <3>2, <4>2, ImagesAreFew, FS_CardinalityType DEF ImagesTypeOK
        <5>2. Left(ws)' \subseteq ToSet(built)
          BY <3>1
        <5>3. IsFiniteSet(Left(ws)') /\ Cardinality(Left(ws)') <= Cardinality(ToSet(built))
          BY <3>2, <5>2, FS_Subset
        <5>4. Cardinality(Left(ws)') \in Nat
          BY <5>3, FS_CardinalityType
        <5> QED
          BY <5>1, <5>3, <5>4
      <4> QED
        BY <4>1, <4>2
    <3>5. Cardinality(Left(ws)') \in Nat
      BY <3>4, FS_CardinalityType
    <3> QED
      BY <1>0, <2>4, <3>4, <3>5
  <2>6. CASE w \notin ws
    <3>1. ws \in SUBSET Pruning /\ Pruning' \ ws = (Pruning \ ws) \cup {w}
      BY <2>2, <2>6
    <3>2. Cardinality(Pruning' \ ws) = Cardinality(Pruning \ ws) + 1
      <4> DEFINE before == Pruning \ ws
      <4>1. w \notin before
        BY <1>0
      <4> HIDE DEF before
      <4>2. Cardinality(before \cup {w}) = IF w \in before THEN Cardinality(before) ELSE Cardinality(before) + 1
        BY <2>4, FS_AddElement DEF before
      <4> QED
        BY <3>1, <4>1, <4>2 DEF before
    <3>3. Left(ws)' \subseteq Left(ws) \cup Tagged(making[w])
      BY <1>0, <2>2, <2>3, <3>1 DEF Left, Claimed, Tagged
    <3> DEFINE n == abandoned + Cardinality(Pruning \ ws) + 1
    <3>4. n \in Nat
      BY <2>4
    <3>5. Cardinality(Left(ws)') <= 2 + n
      BY <3>1, <3>3, <3>4, <2>4, LeftAndOne
    <3> QED
      BY <1>0, <2>4, <3>2, <3>5
  <2> QED
    BY <2>5, <2>6
<1> QED
  BY <1>2, <1>3

\* A creation that stops pruning, at its end or cut off, leaves no more than if it had none left
\* to claim, or one more that is owed to it.
LEMMA PruneEndSuffices ==
  ASSUME ImagesTypeOK, StoreTypeOK, OneImagePerTag, CleaningsSuffice, UNCHANGED <<built, spared>>,
         NEW w \in Places, making[w].at = "prune", NEW c, Making(w, c), c.at \notin {"list", "prune"},
         \/ making[w].stale = {} /\ abandoned' = abandoned
         \/ abandoned' = abandoned + 1
  PROVE  CleaningsSuffice'
<1>1. (\A v \in Places : v # w => making'[v] = making[v]) /\ making'[w] = c
  BY DEF Making, StoreTypeOK
<1>2. Listing' = Listing /\ Pruning' = Pruning \ {w} /\ w \in Pruning /\ w \notin Listing
  BY <1>1 DEF Listing, Pruning
<1>3. \A v \in Listing \cup Pruning : v # w => making'[v] = making[v]
  BY <1>1 DEF Listing, Pruning
<1> SUFFICES ASSUME NEW ws \in SUBSET Pruning'
             PROVE  Cardinality(Left(ws)') <= 2 + abandoned' + Cardinality(Pruning' \ ws)
  BY DEF CleaningsSuffice
<1>4. IsFiniteSet(Pruning' \ ws) /\ Cardinality(Pruning' \ ws) \in Nat /\ abandoned \in Nat
  <2>1. Pruning' \ ws \subseteq Places
    BY <1>2 DEF Pruning
  <2> QED
    BY <2>1, ImagesAssumption, FS_Subset, FS_CardinalityType DEF StoreTypeOK
<1>5. CASE making[w].stale = {} /\ abandoned' = abandoned
  <2> DEFINE all == ws \cup {w}
             n == abandoned + Cardinality(Pruning' \ ws)
  <2>1. all \in SUBSET Pruning /\ Pruning \ all = Pruning' \ ws
    BY <1>2
  <2>2. Left(ws)' \subseteq Left(all)
    <3>1. \A v \in ws : making'[v] = making[v] /\ v # w
      BY <1>2, <1>3
    <3>2. \A v \in Listing : making'[v] = making[v]
      BY <1>2, <1>3
    <3>3. Claimed(all) \subseteq Claimed(ws)'
      BY <1>2, <1>5, <3>1, <3>2 DEF Claimed
    <3> QED
      BY <3>3 DEF Left
  <2>3. n \in Nat /\ abandoned + Cardinality(Pruning \ all) <= n
    <3>1. Cardinality(Pruning \ all) = Cardinality(Pruning' \ ws)
      BY <2>1
    <3> HIDE DEF all
    <3> QED
      BY <1>4, <3>1
  <2> HIDE DEF all, n
  <2>4. Cardinality(Left(ws)') <= 2 + n
    BY <2>1, <2>2, <2>3, LeftIsLess
  <2> QED
    BY <1>4, <1>5, <2>4 DEF n
<1>6. CASE abandoned' = abandoned + 1
  <2> DEFINE n == abandoned + 1 + Cardinality(Pruning' \ ws)
  <2>1. ws \in SUBSET Pruning /\ Pruning \ ws = (Pruning' \ ws) \cup {w}
    BY <1>2
  <2>2. Cardinality(Pruning \ ws) = Cardinality(Pruning' \ ws) + 1
    <3> DEFINE rest == Pruning' \ ws
    <3>1. w \notin rest
      BY <1>2
    <3> HIDE DEF rest
    <3>2. Cardinality(rest \cup {w}) = IF w \in rest THEN Cardinality(rest) ELSE Cardinality(rest) + 1
      BY <1>4, FS_AddElement DEF rest
    <3> QED
      BY <2>1, <3>1, <3>2 DEF rest
  <2>3. Left(ws)' \subseteq Left(ws)
    BY <1>2, <1>3 DEF Left, Claimed
  <2>4. n \in Nat /\ abandoned + Cardinality(Pruning \ ws) <= n
    BY <1>4, <2>2
  <2> HIDE DEF n
  <2>5. Cardinality(Left(ws)') <= 2 + n
    BY <2>1, <2>3, <2>4, LeftIsLess
  <2> QED
    BY <1>4, <1>6, <2>5 DEF n
<1> QED
  BY <1>5, <1>6

\* What is removed is gone, and what a container uses is spared.
LEMMA PruneSuffices ==
  ASSUME ImagesTypeOK, StoreTypeOK, OneImagePerTag, CleaningsSuffice, abandoned' = abandoned,
         NEW w \in Places, making[w].at = "prune", NEW t \in making[w].stale,
         built' = IF Tagged(t) \cap InUse = {} THEN Others(t) ELSE built,
         spared' = (spared \ Tagged(t)) \cup (Tagged(t) \cap InUse),
         Making(w, [making[w] EXCEPT !.stale = @ \ {t}])
  PROVE  CleaningsSuffice'
<1>1. \A v \in Places : v # w => making'[v] = making[v]
  BY DEF Making, StoreTypeOK
<1>2. making'[w].at = "prune" /\ making'[w].stale = making[w].stale \ {t}
  <2>1. making[w] \in [at : {"prune"}, skills : Skills, on : Bases, stale : SUBSET [skills : Skills, on : Bases]]
    BY CreationHas
  <2> QED
    BY <2>1 DEF Making, StoreTypeOK
<1>3. Listing' = Listing /\ Pruning' = Pruning /\ w \notin Listing
  BY <1>1, <1>2 DEF Listing, Pruning
<1>4. \A v \in Listing \cup Pruning : v # w => making'[v] = making[v]
  BY <1>1 DEF Listing, Pruning
<1>5. t = Tag(t)
  <2>1. t \in [skills : Skills, on : Bases]
    BY CreationHas
  <2> QED
    BY <2>1 DEF Tag
<1>6. \A i \in Tagged(t) : i \in ToSet(built) /\ Tag(i) = t
  BY <1>5 DEF Tagged
<1>7. \A i \in ToSet(built) : Tag(i) = t => i \in Tagged(t)
  BY <1>5 DEF Tagged
<1>8. ToSet(built') = IF Tagged(t) \cap InUse = {} THEN ToSet(built) \ Tagged(t) ELSE ToSet(built)
  BY OthersAre
<1>9. \A i \in Tagged(t) : i \notin ToSet(built') \ spared'
  <2>1. ASSUME NEW i \in Tagged(t), i \in ToSet(built') PROVE i \in spared'
    <3>1. PICK j \in Tagged(t) \cap InUse : TRUE
      BY <1>8, <2>1
    <3>2. i = j
      BY <1>6, <3>1, ImagesAreFew
    <3> QED
      BY <3>1, <3>2
  <2> QED
    BY <2>1
<1>10. ASSUME NEW ws \in SUBSET Pruning PROVE Left(ws)' \subseteq Left(ws)
  <2>1. ASSUME NEW i \in Left(ws)' PROVE i \in Left(ws)
    <3>1. i \in ToSet(built') /\ i \notin spared' /\ i \notin Claimed(ws)'
      BY <2>1 DEF Left
    <3>2. i \notin Tagged(t) /\ i \in ToSet(built)
      BY <1>8, <1>9, <3>1
    <3>3. i \notin spared /\ Tag(i) # t
      BY <1>7, <3>1, <3>2
    <3>4. i \notin Claimed(ws)
      BY <1>2, <1>3, <1>4, <3>1, <3>2, <3>3 DEF Claimed
    <3> QED
      BY <3>2, <3>3, <3>4 DEF Left
  <2> QED
    BY <2>1
<1> QED
  BY <1>3, <1>10, SufficesStill

\* A creation that is cut off before it has listed the others owes one image.
LEMMA AbandonSuffices ==
  ASSUME ImagesTypeOK, StoreTypeOK, OneImagePerTag, CleaningsSuffice, UNCHANGED <<built, spared>>,
         NEW w \in Places, making[w].at = "list", Making(w, NotMaking), abandoned' = abandoned + 1
  PROVE  CleaningsSuffice'
<1>1. (\A v \in Places : v # w => making'[v] = making[v]) /\ making'[w].at = "rest"
  BY DEF Making, StoreTypeOK, NotMaking
<1>2. Listing' = Listing \ {w} /\ Pruning' = Pruning /\ w \notin Pruning
  BY <1>1 DEF Listing, Pruning
<1>3. \A v \in Listing \cup Pruning : v # w => making'[v] = making[v]
  BY <1>1 DEF Listing, Pruning
<1> SUFFICES ASSUME NEW ws \in SUBSET Pruning
             PROVE  Cardinality(Left(ws)') <= 2 + abandoned' + Cardinality(Pruning \ ws)
  BY <1>2 DEF CleaningsSuffice
<1>4. IsFiniteSet(Pruning \ ws) /\ Cardinality(Pruning \ ws) \in Nat /\ abandoned \in Nat
  BY ImagesAssumption, FS_Subset, FS_CardinalityType DEF StoreTypeOK, Pruning
<1> DEFINE n == abandoned + Cardinality(Pruning \ ws) + 1
<1>5. Left(ws)' \subseteq Left(ws) \cup Tagged(making[w])
  BY <1>2, <1>3 DEF Left, Claimed, Tagged
<1>6. n \in Nat /\ abandoned + Cardinality(Pruning \ ws) + 1 <= n
  BY <1>4
<1> HIDE DEF n
<1>7. Cardinality(Left(ws)') <= 2 + n
  BY <1>5, <1>6, LeftAndOne
<1> QED
  BY <1>2, <1>4, <1>7 DEF n

\* A step that leaves the images and the creations alone.
LEMMA ImagesRest ==
  ASSUME ImagesTypeOK, StoreTypeOK, OneImagePerTag, CleaningsSuffice,
         UNCHANGED <<built, making, abandoned, spared>>
  PROVE  CleaningsSuffice' /\ OneImagePerTag'
BY DEF CleaningsSuffice, Left, Claimed, Listing, Pruning, OneImagePerTag

\* A creation that moves on is one.
LEMMA CreationMoves ==
  ASSUME StoreTypeOK, NEW w \in Places, NEW c \in Creations, Making(w, c)
  PROVE  making' \in [Places -> Creations]
BY DEF StoreTypeOK, Making

\* Images that are removed leave those of the other tags, and an image that is built replaces
\* the one of its tag.
LEMMA OthersStay ==
  ASSUME ImagesTypeOK, OneImagePerTag, NEW c, built' = Others(c)
  PROVE  built' \in Seq(BuiltImages) /\ OneImagePerTag' /\ ToSet(built') \subseteq ToSet(built)
BY OthersAre DEF OneImagePerTag

LEMMA BuiltIsAdded ==
  ASSUME ImagesTypeOK, OneImagePerTag, NEW c, NEW new \in BuiltImages, Tag(new) = Tag(c),
         built' = Append(Others(c), new)
  PROVE  built' \in Seq(BuiltImages) /\ OneImagePerTag' /\ ToSet(built') \subseteq ToSet(built) \cup {new}
<1> DEFINE s == Others(c)
<1>1. /\ s \in Seq(BuiltImages) /\ ToSet(s) = ToSet(built) \ Tagged(c)
      /\ \A k, l \in DOMAIN s : Tag(s[k]) = Tag(s[l]) => k = l
  BY OthersAre
<1> HIDE DEF s
<1>2. /\ built' \in Seq(BuiltImages) /\ Len(built') = Len(s) + 1
      /\ \A k \in 1 .. Len(s) : built'[k] = s[k]
      /\ built'[Len(s) + 1] = new
  BY <1>1 DEF s
<1>3. \A k \in 1 .. Len(s) : Tag(built'[k]) # Tag(new) /\ built'[k] \in ToSet(built)
  <2>1. \A k \in 1 .. Len(s) : s[k] \in ToSet(built) \ Tagged(c)
    <3>1. \A k \in 1 .. Len(s) : s[k] \in ToSet(s)
      BY <1>1 DEF ToSet
    <3> QED
      BY <1>1, <3>1
  <2> QED
    BY <1>2, <2>1 DEF Tagged
<1>4. ToSet(built') \subseteq ToSet(built) \cup {new}
  BY <1>1, <1>2, <1>3 DEF ToSet
<1>5. ASSUME NEW k \in 1 .. Len(s) + 1, NEW l \in 1 .. Len(s) + 1, Tag(built'[k]) = Tag(built'[l])
      PROVE  k = l
  <2>1. CASE k \in 1 .. Len(s) /\ l \in 1 .. Len(s)
    BY <1>1, <1>2, <1>5, <2>1
  <2>2. CASE k = Len(s) + 1 \/ l = Len(s) + 1
    BY <1>1, <1>2, <1>3, <1>5, <2>2
  <2> QED
    BY <1>1, <2>1, <2>2
<1> QED
  BY <1>1, <1>2, <1>4, <1>5 DEF OneImagePerTag

\* The creation of a container.
LEMMA CreationKeeps ==
  ASSUME ImagesInv, NEW w \in Places,
         \/ \E s \in Skills : Resolve(w, s)
         \/ Look(w) \/ Build(w) \/ List(w) \/ Prune(w) \/ Run(w) \/ Abandon(w) \/ End(w)
  PROVE  ImagesInv'
<1> USE DEF ImagesInv
<1>0. /\ making[w] \in Creations
      /\ making[w].at \in {"look", "build", "list", "run"} =>
           making[w] \in [at : {"look", "build", "list", "run"}, skills : Skills, on : Bases]
      /\ making[w].at = "prune" =>
           making[w] \in [at : {"prune"}, skills : Skills, on : Bases, stale : SUBSET [skills : Skills, on : Bases]]
  BY CreationHas
<1>n. NotMaking \in Creations /\ NotMaking.at = "rest"
  BY DEF NotMaking, Creations
<1>q. ASSUME UNCHANGED built PROVE OneImagePerTag'
  BY <1>q DEF OneImagePerTag
<1>1. ASSUME NEW s \in Skills, Resolve(w, s) PROVE ImagesInv'
  <2> DEFINE c == [at |-> "look", skills |-> s, on |-> custom]
  <2>1. c \in Creations /\ c.at = "look"
    BY DEF Creations, ImagesTypeOK
  <2>2. Making(w, c) /\ making[w].at = "rest" /\ UNCHANGED <<built, inside, abandoned, spared>> /\ NoAdministration
    BY <1>1 DEF Resolve, NotMaking
  <2> HIDE DEF c
  <2>3. CleaningsSuffice' /\ making' \in [Places -> Creations]
    BY <2>1, <2>2, CreationRests, CreationMoves
  <2> QED
    BY <1>q, <2>2, <2>3 DEF ImagesTypeOK, StoreTypeOK, NoAdministration, TagsAreTrue, InUse, BaseIsThere, ReplacedIsKnown
<1>2. ASSUME Look(w) PROVE ImagesInv'
  <2>1. PICK c : /\ c \in {NotMaking, [making[w] EXCEPT !.at = "run"], [making[w] EXCEPT !.at = "build"]}
                 /\ Making(w, c)
    BY <1>2 DEF Look
  <2>2. c \in Creations /\ c.at \notin {"list", "prune"}
    BY <1>0, <1>2, <1>n, <2>1 DEF Look, Creations
  <2>3. UNCHANGED <<built, inside, abandoned, spared>> /\ NoAdministration /\ making[w].at = "look"
    BY <1>2 DEF Look
  <2>4. CleaningsSuffice' /\ making' \in [Places -> Creations]
    BY <2>1, <2>2, <2>3, CreationRests, CreationMoves
  <2> QED
    BY <1>q, <2>3, <2>4 DEF ImagesTypeOK, StoreTypeOK, NoAdministration, TagsAreTrue, InUse, BaseIsThere, ReplacedIsKnown
<1>3. ASSUME Build(w) PROVE ImagesInv'
  <2> DEFINE c == making[w]
             new == [skills |-> c.skills, on |-> c.on, from |-> c.on, of |-> base[c.on]]
  <2>1. c.at = "build" /\ c.skills \in Skills /\ c.on \in Bases
    BY <1>0, <1>3 DEF Build
  <2>2. UNCHANGED <<inside, abandoned, spared>> /\ NoAdministration
    BY <1>3 DEF Build
  <2>3. CASE base[c.on] = 0
    <3>1. Making(w, NotMaking) /\ UNCHANGED built
      BY <1>3, <2>3 DEF Build, From
    <3>2. CleaningsSuffice' /\ making' \in [Places -> Creations]
      BY <1>n, <2>1, <2>2, <3>1, CreationRests, CreationMoves
    <3> QED
      BY <1>q, <2>2, <3>1, <3>2 DEF ImagesTypeOK, StoreTypeOK, NoAdministration, TagsAreTrue, InUse, BaseIsThere, ReplacedIsKnown
  <2>4. CASE base[c.on] # 0
    <3>1. /\ built' = IF new \in ToSet(built) THEN built ELSE Append(Others(c), new)
          /\ Making(w, [c EXCEPT !.at = "list"])
      BY <1>3, <2>4 DEF Build, From
    <3>2. new \in BuiltImages /\ Tag(new) = Tag(c) /\ new.from = new.on /\ new.of > 0
      BY <2>1, <2>4, ImagesAssumption DEF ImagesTypeOK, BuiltImages, Tag
    <3>3. [c EXCEPT !.at = "list"] \in Creations
      BY <1>0, <2>1 DEF Creations
    <3> HIDE DEF new, c
    <3>4. /\ built' \in Seq(BuiltImages) /\ OneImagePerTag'
          /\ ToSet(built') \subseteq ToSet(built) \cup {new}
      <4>1. CASE new \in ToSet(built)
        BY <1>q, <3>1, <4>1 DEF ImagesTypeOK
      <4>2. CASE new \notin ToSet(built)
        BY <3>1, <3>2, <4>2, BuiltIsAdded
      <4> QED
        BY <4>1, <4>2
    <3>5. CleaningsSuffice'
      BY <2>1, <2>2, <3>1, <3>2, BuildSuffices DEF c
    <3>6. making' \in [Places -> Creations]
      BY <3>1, <3>3, CreationMoves
    <3> QED
      BY <2>2, <3>2, <3>4, <3>5, <3>6
      DEF ImagesTypeOK, StoreTypeOK, NoAdministration, TagsAreTrue, InUse, BaseIsThere, ReplacedIsKnown
  <2> QED
    BY <2>3, <2>4
<1>4. ASSUME List(w) PROVE ImagesInv'
  <2>1. UNCHANGED <<built, inside, abandoned, spared>> /\ NoAdministration /\ making[w].at = "list"
    BY <1>4 DEF List
  <2>2. CleaningsSuffice'
    BY <1>4, ListSuffices
  <2>3. Outdated(making[w]) \in SUBSET [skills : Skills, on : Bases]
    <3>1. ToSet(Others(making[w])) \subseteq BuiltImages
      BY OthersAre, ImagesAreFew
    <3> QED
      BY <3>1 DEF Outdated, BuiltImages, Tag
  <2>4. PICK c \in Creations : Making(w, c)
    BY <1>0, <1>4, <1>n, <2>1, <2>3 DEF List, Creations
  <2>5. making' \in [Places -> Creations]
    BY <2>4, CreationMoves
  <2> QED
    BY <1>q, <2>1, <2>2, <2>5 DEF ImagesTypeOK, StoreTypeOK, NoAdministration, TagsAreTrue, InUse, BaseIsThere, ReplacedIsKnown
<1>5. ASSUME Prune(w) PROVE ImagesInv'
  <2>1. /\ UNCHANGED <<inside, abandoned>> /\ NoAdministration
        /\ making[w] \in [at : {"prune"}, skills : Skills, on : Bases, stale : SUBSET [skills : Skills, on : Bases]]
    BY <1>0, <1>5 DEF Prune
  <2>2. ASSUME NEW t \in making[w].stale,
               built' = IF Tagged(t) \cap InUse = {} THEN Others(t) ELSE built,
               spared' = (spared \ Tagged(t)) \cup (Tagged(t) \cap InUse),
               Making(w, [making[w] EXCEPT !.stale = @ \ {t}])
        PROVE  ImagesInv'
    <3>1. CleaningsSuffice'
      BY <1>5, <2>1, <2>2, PruneSuffices DEF Prune
    <3>2. [making[w] EXCEPT !.stale = @ \ {t}] \in Creations
      BY <2>1 DEF Creations
    <3>3. making' \in [Places -> Creations]
      BY <2>2, <3>2, CreationMoves
    <3>4. built' \in Seq(BuiltImages) /\ OneImagePerTag' /\ ToSet(built') \subseteq ToSet(built)
      <4>1. CASE Tagged(t) \cap InUse = {}
        BY <2>2, <4>1, OthersStay
      <4>2. CASE Tagged(t) \cap InUse # {}
        BY <1>q, <2>2, <4>2 DEF ImagesTypeOK
      <4> QED
        BY <4>1, <4>2
    <3>5. spared' \subseteq BuiltImages
      BY <2>2, ImagesAreFew DEF StoreTypeOK, Tagged
    <3> QED
      BY <2>1, <3>1, <3>3, <3>4, <3>5
      DEF ImagesTypeOK, StoreTypeOK, NoAdministration, TagsAreTrue, InUse, BaseIsThere, ReplacedIsKnown
  <2>3. CASE /\ making[w].stale = {} /\ UNCHANGED <<built, spared>>
             /\ Making(w, [at |-> "run", skills |-> making[w].skills, on |-> making[w].on])
    <3> DEFINE c == [at |-> "run", skills |-> making[w].skills, on |-> making[w].on]
    <3>1. c \in Creations /\ c.at = "run" /\ making[w].at = "prune"
      BY <2>1 DEF Creations
    <3>2. Making(w, c)
      BY <2>3
    <3> HIDE DEF c
    <3>3. CleaningsSuffice' /\ making' \in [Places -> Creations]
      BY <2>1, <2>3, <3>1, <3>2, PruneEndSuffices, CreationMoves
    <3> QED
      BY <1>q, <2>1, <2>3, <3>3 DEF ImagesTypeOK, StoreTypeOK, NoAdministration, TagsAreTrue, InUse, BaseIsThere, ReplacedIsKnown
  <2> QED
    BY <1>5, <2>2, <2>3 DEF Prune
<1>6. ASSUME Run(w) PROVE ImagesInv'
  <2>1. UNCHANGED <<built, abandoned, spared>> /\ NoAdministration /\ making[w].at = "run" /\ Making(w, NotMaking)
    BY <1>6 DEF Run
  <2>2. CleaningsSuffice' /\ making' \in [Places -> Creations]
    BY <1>n, <2>1, CreationRests, CreationMoves
  <2>3. PICK i \in ToSet(built) \cup {inside[w]} : inside' = [inside EXCEPT ![w] = i]
    <3>1. CASE UNCHANGED inside
      <4>1. inside' = [inside EXCEPT ![w] = inside[w]]
        BY <3>1 DEF StoreTypeOK
      <4> QED
        BY <4>1
    <3>2. CASE \E i \in Tagged(making[w]) : inside' = [inside EXCEPT ![w] = i]
      BY <3>2 DEF Tagged
    <3> QED
      BY <1>6, <3>1, <3>2 DEF Run
  <2>4. inside' \in [Places -> BuiltImages \cup {NotRunning}]
    BY <2>3, ImagesAreFew DEF StoreTypeOK
  <2>5. InUse' \subseteq InUse \cup ToSet(built)
    BY <2>3 DEF InUse, StoreTypeOK
  <2> QED
    BY <1>q, <2>1, <2>2, <2>4, <2>5 DEF ImagesTypeOK, StoreTypeOK, NoAdministration, TagsAreTrue, BaseIsThere, ReplacedIsKnown
<1>7. ASSUME Abandon(w) PROVE ImagesInv'
  <2>1. UNCHANGED <<built, inside, spared, base, custom, upload, misnamed, loads>> /\ Making(w, NotMaking)
    BY <1>7 DEF Abandon
  <2>2. abandoned' \in Nat /\ making' \in [Places -> Creations]
    BY <1>7, <1>n, <2>1, CreationMoves DEF Abandon, StoreTypeOK
  <2>3. CleaningsSuffice'
    <3>1. CASE making[w].at \in {"look", "build"} /\ UNCHANGED <<abandoned, choices>>
      BY <1>n, <2>1, <3>1, CreationRests
    <3>2. CASE making[w].at = "list" /\ abandoned' = abandoned + 1
      BY <2>1, <3>2, AbandonSuffices
    <3>3. CASE making[w].at = "prune" /\ abandoned' = abandoned + 1
      BY <1>n, <2>1, <3>3, PruneEndSuffices
    <3> QED
      BY <1>7, <3>1, <3>2, <3>3 DEF Abandon
  <2> QED
    BY <1>q, <2>1, <2>2, <2>3 DEF ImagesTypeOK, StoreTypeOK, TagsAreTrue, InUse, BaseIsThere, ReplacedIsKnown
<1>8. ASSUME End(w) PROVE ImagesInv'
  <2>1. UNCHANGED <<built, making, abandoned, spared>> /\ NoAdministration /\ inside' = [inside EXCEPT ![w] = NotRunning]
    BY <1>8 DEF End
  <2>2. inside' \in [Places -> BuiltImages \cup {NotRunning}] /\ InUse' \subseteq InUse \cup {NotRunning}
    BY <2>1 DEF StoreTypeOK, InUse
  <2>3. CleaningsSuffice' /\ OneImagePerTag'
    BY <2>1, ImagesRest
  <2> QED
    BY <2>1, <2>2, <2>3 DEF ImagesTypeOK, StoreTypeOK, NoAdministration, TagsAreTrue, BaseIsThere, ReplacedIsKnown
<1> QED
  BY <1>1, <1>2, <1>3, <1>4, <1>5, <1>6, <1>7, <1>8

\* The administrator.
LEMMA AdministrationKeeps ==
  ASSUME ImagesInv, (\E b \in Bases : Choose(b) \/ Publish(b)) \/ BeginUpload \/ CleanUp
  PROVE  ImagesInv'
<1> USE DEF ImagesInv
<1>1. NoCreation
  BY DEF Choose, Publish, BeginUpload, CleanUp
<1>2. CleaningsSuffice' /\ OneImagePerTag'
  BY <1>1, ImagesRest DEF NoCreation
<1>3. TagsAreTrue'
  BY <1>1 DEF NoCreation, TagsAreTrue, InUse
<1>u. /\ upload.at = "load" => upload \in [at : {"load"}, previous : Bases]
      /\ upload.at = "clean" => upload \in [at : {"clean"}, previous : Bases, now : Bases]
  BY DEF StoreTypeOK, Uploads
<1>4. ASSUME NEW b \in Bases, Choose(b) PROVE ImagesInv'
  <2>1. UNCHANGED <<base, upload, loads>> /\ custom' = b /\ misnamed' \subseteq Bases /\ misnamed \subseteq misnamed'
    BY <1>4 DEF Choose, ImagesTypeOK
  <2>2. BaseIsThere'
    BY <1>4 DEF Choose, BaseIsThere, ImagesTypeOK
  <2>3. ReplacedIsKnown'
    BY <1>4 DEF Choose, ReplacedIsKnown, Doomed, Replaced
  <2> QED
    BY <1>1, <1>2, <1>3, <2>1, <2>2, <2>3 DEF NoCreation, ImagesTypeOK, StoreTypeOK
<1>5. ASSUME NEW b \in Bases, Publish(b) PROVE ImagesInv'
  <2>1. /\ base' = [base EXCEPT ![b] = loads + 2] /\ loads' = loads + 1 /\ custom' = b
        /\ misnamed' = misnamed \ {b}
        /\ upload' = [at |-> "clean", previous |-> upload.previous, now |-> b] /\ upload.at = "load"
    BY <1>5 DEF Publish
  <2>2. loads < MaxLoads
    BY <2>1 DEF StoreTypeOK
  <2> QED
    BY <1>1, <1>2, <1>3, <1>u, <2>1, <2>2, ImagesAssumption
    DEF NoCreation, ImagesTypeOK, StoreTypeOK, Uploads, BaseIsThere, ReplacedIsKnown, Replaced
<1>6. ASSUME BeginUpload PROVE ImagesInv'
  <2>1. upload' = [at |-> "load", previous |-> custom] /\ UNCHANGED <<base, custom, misnamed, loads>>
    BY <1>6 DEF BeginUpload
  <2>2. loads < MaxLoads
    BY <1>6 DEF BeginUpload
  <2> QED
    BY <1>1, <1>2, <1>3, <2>1, <2>2 DEF NoCreation, ImagesTypeOK, StoreTypeOK, Uploads, BaseIsThere, ReplacedIsKnown
<1>7. ASSUME CleanUp PROVE ImagesInv'
  <2>1. /\ base' = IF Replaced(upload) THEN [base EXCEPT ![upload.previous] = 0] ELSE base
        /\ upload' = NoUpload /\ UNCHANGED <<custom, misnamed, loads>> /\ upload.at = "clean"
    BY <1>7 DEF CleanUp
  <2>2. BaseIsThere'
    BY <1>u, <2>1 DEF BaseIsThere, ReplacedIsKnown, ImagesTypeOK
  <2> QED
    BY <1>1, <1>2, <1>3, <1>u, <2>1, <2>2, ImagesAssumption
    DEF NoCreation, ImagesTypeOK, StoreTypeOK, Uploads, NoUpload, ReplacedIsKnown
<1> QED
  BY <1>4, <1>5, <1>6, <1>7

LEMMA ImagesInvStep == ImagesInv /\ [ImagesNext]_imagesVars => ImagesInv'
<1> SUFFICES ASSUME ImagesInv, [ImagesNext]_imagesVars PROVE ImagesInv'
  OBVIOUS
<1>1. CASE UNCHANGED imagesVars
  <2>1. CleaningsSuffice' /\ OneImagePerTag'
    BY <1>1, ImagesRest DEF imagesVars, ImagesInv
  <2> QED
    BY <1>1, <2>1
    DEF imagesVars, ImagesInv, ImagesTypeOK, StoreTypeOK, TagsAreTrue, InUse, BaseIsThere, ReplacedIsKnown
<1>2. CASE ImagesNext
  BY <1>2, CreationKeeps, AdministrationKeeps DEF ImagesNext
<1> QED
  BY <1>1, <1>2

\* An image is what its tag says, the base the platform has chosen is there, and images do not
\* pile up, whatever creations, cleanings and publications run between one another's steps
\* (platform_runtime_image_service.py).
THEOREM ImagesStaySound == ImagesInit /\ [][ImagesNext]_imagesVars => []ImagesAreSound
<1>1. ImagesInv => ImagesAreSound
  BY ImagesStayBounded DEF ImagesInv, ImagesAreSound
<1> QED
  BY <1>1, ImagesStart, ImagesInvStep, PTL

LEMMA ImagesTypesAlways == ImagesInit /\ [][ImagesNext]_imagesVars => []ImagesTypeOK
<1>1. ImagesInv => ImagesTypeOK
  BY DEF ImagesInv
<1> QED
  BY <1>1, ImagesStart, ImagesInvStep, PTL

-----------------------------------------------------------------------------
(* The whole                                                                  *)

\* The store of sessions, the conversations of the model and the catalogs of tools each
\* see their own specification.
LEMMA StoresAlone == Spec => CheckpointsSpec /\ ConversationsSpec /\ CatalogSpec
<1>1. Init => CheckpointsInit /\ ConversationsInit /\ CatalogInit
  BY DEF Init
<1>2. [Next /\ Rest]_allVars => [CheckpointsNext]_checkpointsVars
  BY DEF Next, Rest, allVars
<1>3. [Next /\ Rest]_allVars => [ConversationsNext]_conversationsVars
  BY DEF Next, Rest, allVars
<1>4. [Next /\ Rest]_allVars => [CatalogNext]_catalogVars
  BY DEF Next, Rest, allVars
<1> QED
  BY <1>1, <1>2, <1>3, <1>4, PTL DEF Spec, CheckpointsSpec, ConversationsSpec, CatalogSpec

\* A session that is held can be saved, one that was deleted stays deleted and no stored
\* state is replaced by an older one (SessionsAreKept and NoCheckpointGoesBack of the run).
THEOREM StoresKeepSessions == Spec => []SessionsAreKept /\ NoCheckpointGoesBack
<1>1. Spec => []LiveSessionCanSave
  BY StoresAlone, LiveSessionsCanSave
<1>2. Spec => []DeletedStaysDeleted
  BY StoresAlone, SessionsStayDeleted
<1>3. Spec => NoCheckpointGoesBack
  BY StoresAlone, CheckpointsGoForward
<1>4. LiveSessionCanSave /\ DeletedStaysDeleted => SessionsAreKept
  BY DEF SessionsAreKept
<1> QED
  BY <1>1, <1>2, <1>3, <1>4, PTL

\* What a host asks for is done once, and its tools stay what it said last (HostsAreServed).
THEOREM StoresServeHosts == Spec => []HostsAreServed
<1>1. Spec => []RequestsKeepApart
  BY StoresAlone, RequestsStayApart
<1>2. Spec => []CatalogIsCoherent
  BY StoresAlone, CatalogsAreCoherent
<1>3. RequestsKeepApart /\ CatalogIsCoherent => HostsAreServed
  BY DEF HostsAreServed
<1> QED
  BY <1>1, <1>2, <1>3, PTL

\* The workspaces' containers see theirs.
LEMMA RuntimeAlone == Spec => RuntimeSpec
<1>1. Init => RuntimeInit
  BY DEF Init
<1>2. [Next /\ Rest]_allVars => [RuntimeNext]_runtimeVars
  BY DEF Next, Rest, allVars
<1> QED
  BY <1>1, <1>2, PTL DEF Spec, RuntimeSpec

\* No container goes with files that are only in it (RuntimeIsSafe of the run).
THEOREM WorkspacesAreSafe == Spec => []RuntimeIsSafe
BY RuntimeAlone, RuntimesAreSafe

\* So do the files on the host, the old sessions, the store of skills, the accounts and the
\* settings of the models.
LEMMA FilesAlone ==
  Spec => /\ SyncInit /\ [][SyncNext]_syncVars
          /\ MigrationInit /\ [][MigrationNext]_migrationVars
          /\ SkillsInit /\ [][SkillsNext]_skillsVars
<1>1. Init => SyncInit /\ MigrationInit /\ SkillsInit
  BY DEF Init
<1>2. [Next /\ Rest]_allVars => [SyncNext]_syncVars
  BY DEF Next, Rest, allVars
<1>3. [Next /\ Rest]_allVars => [MigrationNext]_migrationVars
  BY DEF Next, Rest, allVars
<1>4. [Next /\ Rest]_allVars => [SkillsNext]_skillsVars
  BY DEF Next, Rest, allVars
<1> QED
  BY <1>1, <1>2, <1>3, <1>4, PTL DEF Spec

LEMMA AccountsAlone ==
  Spec => /\ AccountsInit /\ [][AccountsNext]_accountsVars
          /\ ConfigInit /\ [][ConfigNext]_configVars
          /\ ImagesInit /\ [][ImagesNext]_imagesVars
          /\ ExtensionsInit /\ [][ExtensionsNext]_extensionsVars
<1>1. Init => AccountsInit /\ ConfigInit /\ ImagesInit /\ ExtensionsInit
  BY DEF Init
<1>2. [Next /\ Rest]_allVars => [AccountsNext]_accountsVars
  BY DEF Next, Rest, allVars
<1>3. [Next /\ Rest]_allVars => [ConfigNext]_configVars
  BY DEF Next, Rest, allVars
<1>4. [Next /\ Rest]_allVars => [ImagesNext]_imagesVars
  BY DEF Next, Rest, allVars
<1>5. [Next /\ Rest]_allVars => [ExtensionsNext]_extensionsVars
  BY DEF Next, Rest, allVars
<1> QED
  BY <1>1, <1>2, <1>3, <1>4, <1>5, PTL DEF Spec

\* What a workspace refers to, an old session has kept or a command has deleted stays so
\* (FilesAreKept of the run, without its focus).
THEOREM FilesStayKept == Spec => []FilesAreKept
<1>1. Spec => []SharedSkillsAreKept
  BY FilesAlone, SkillsAreKept, PTL
<1>2. Spec => []LegacyIsKept
  BY FilesAlone, MigrationsKeep, PTL
<1>3. Spec => []DeletionsLast
  BY FilesAlone, DeletionsStay, PTL
<1>4. SharedSkillsAreKept /\ LegacyIsKept /\ DeletionsLast => FilesAreKept
  BY DEF FilesAreKept
<1> QED
  BY <1>1, <1>2, <1>3, <1>4, PTL

\* Accounts, platforms, their images and the extensions of their store stay sound
\* (PlatformsAreSound of the run, without its focus).
THEOREM PlatformsStaySound == Spec => []PlatformsAreSound
<1>1. Spec => []AccountsAreSound
  BY AccountsAlone, AccountsStaySound, PTL
<1>2. Spec => []ImagesAreSound
  BY AccountsAlone, ImagesStaySound, PTL
<1>3. Spec => []ExtensionsAreSound
  BY AccountsAlone, ExtensionsStaySound, PTL
<1>4. AccountsAreSound /\ ImagesAreSound /\ ExtensionsAreSound => PlatformsAreSound
  BY DEF PlatformsAreSound
<1> QED
  BY <1>1, <1>2, <1>3, <1>4, PTL

\* The stream of an answer sees its own specification, too.
LEMMA StreamAlone == Spec => StreamInit /\ [][StreamNext]_streamVars
<1>1. Init => StreamInit
  BY DEF Init
<1>2. [Next /\ Rest]_allVars => [StreamNext]_streamVars
  BY DEF Next, Rest, allVars
<1> QED BY <1>1, <1>2, PTL DEF Spec

\* What a model says reaches the engine as it was said, and the page shows what the next
\* request uses (ModelIsSound of the run, without its focus).
THEOREM ModelsStaySound == Spec => []ModelIsSound
<1>1. Spec => []ConfigIsWhatIsShown
  BY AccountsAlone, ConfigsAreShown, PTL
<1>2. Spec => []StreamIsFaithful
  BY StreamAlone, StreamsAreFaithful, PTL
<1>3. ConfigIsWhatIsShown /\ StreamIsFaithful => ModelIsSound
  BY DEF ModelIsSound
<1> QED
  BY <1>1, <1>2, <1>3, PTL

LEMMA CompactionAlone == Spec => CompactionInit /\ [][CompactionNext]_compactionVars
<1>1. Init => CompactionInit
  BY DEF Init
<1>2. [Next /\ Rest]_allVars => [CompactionNext]_compactionVars
  BY DEF Next, Rest, allVars
<1> QED BY <1>1, <1>2, PTL DEF Spec

\* Whatever shortens the window, and whatever arrives meanwhile: the model is shown a valid
\* list, the user's latest message stays, and what is not in the window can be read from the
\* archive (WindowIsFaithful of the run).
THEOREM WindowsStayFaithful == Spec => []WindowIsFaithful
BY CompactionAlone, CompactionInvAlways, CompactionHolds, PTL

LEMMA StreamTypes == StreamInv => StreamTypeOK
<1> SUFFICES ASSUME StreamInv PROVE StreamTypeOK
  OBVIOUS
<1>1. AnswerIsSaid /\ PartsAreHeard /\ ItemsAreFirst /\ Reported(shown, Counts(items)) /\ EndIsKnown
  BY DEF StreamInv
<1>2. Len(answer) \in Nat /\ answer \in Seq({"text", "call"}) /\ DOMAIN answer \subseteq Items
  BY <1>1, ItemsAssumption DEF AnswerIsSaid, Items
<1>3. style \in Styles /\ spot \in [item : 1..(MaxItems + 1), fragment : 0..2]
  BY <1>1, ItemsAssumption DEF AnswerIsSaid
<1>4. parts \in [Items -> 0..2] /\ items \subseteq Items
  <2>1. \A i \in Items : Length(i) \in 0..2
    BY <1>1 DEF AnswerIsSaid, Length
  <2> QED BY <1>1, <1>2, <2>1 DEF PartsAreHeard, ItemsAreFirst
<1> QED BY <1>1, <1>2, <1>3, <1>4 DEF StreamTypeOK, Reported, Pieces, EndIsKnown

\* Every part has the types it should have (TypesOK of the run).
THEOREM PartsOfSessionsAreTyped == Spec => []TypesOK
<1>1. Init => focus \in {"checkpoints", "conversations", "compaction", "catalog", "runtime", "sync", "skills",
                          "migration", "accounts", "images", "stream", "config", "extensions"}
  BY DEF Init
<1>2. [Next /\ Rest]_allVars => focus' = focus
  BY DEF Rest, allVars
<1>3. CheckpointsInv /\ ConversationsInv /\ CatalogInv /\ StreamInv =>
        CheckpointsTypeOK /\ ConversationsTypeOK /\ CatalogTypeOK /\ StreamTypeOK
  BY StreamTypes DEF CheckpointsInv, ConversationsInv, CatalogInv
<1>4. Spec => [](CheckpointsTypeOK /\ ConversationsTypeOK /\ CatalogTypeOK /\ StreamTypeOK)
  BY <1>3, StoresAlone, StreamAlone, CheckpointsInvAlways, ConversationsInvAlways, CatalogInvAlways, StreamInvAlways, PTL
<1>5. Spec => [](RuntimeTypeOK /\ SyncTypeOK /\ SkillsTypeOK /\ MigrationTypeOK)
  BY RuntimeAlone, FilesAlone, RuntimeTypesAlways, SyncTypesAlways, SkillsTypesAlways, MigrationTypesAlways, PTL
<1>6. Spec => [](AccountsTypeOK /\ ImagesTypeOK /\ ConfigTypeOK /\ ExtensionsTypeOK)
  BY AccountsAlone, AccountsTypesAlways, ImagesTypesAlways, ConfigTypesAlways, ExtensionsTypesAlways, PTL
<1>c. Spec => []CompactionTypeOK
  BY CompactionAlone, CompactionInvAlways, CompactionHolds, PTL
<1> DEFINE named == focus \in {"checkpoints", "conversations", "compaction", "catalog", "runtime", "sync", "skills",
                               "migration", "accounts", "images", "stream", "config", "extensions"}
<1>7. Spec => []named
  <2>1. Init => named
    BY <1>1
  <2>2. named /\ [Next /\ Rest]_allVars => named'
    BY <1>2
  <2> QED BY <2>1, <2>2, PTL DEF Spec
<1>8. /\ named
      /\ CheckpointsTypeOK /\ ConversationsTypeOK /\ CatalogTypeOK /\ StreamTypeOK
      /\ RuntimeTypeOK /\ SyncTypeOK /\ SkillsTypeOK /\ MigrationTypeOK
      /\ AccountsTypeOK /\ ImagesTypeOK /\ ConfigTypeOK /\ ExtensionsTypeOK /\ CompactionTypeOK
      => TypesOK
  BY DEF TypesOK
<1> QED BY <1>4, <1>5, <1>6, <1>7, <1>8, <1>c, PTL
=============================================================================
