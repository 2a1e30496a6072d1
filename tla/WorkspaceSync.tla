----------------------------- MODULE WorkspaceSync -----------------------------
(***************************************************************************)
(* WorkspaceSyncService: the files of a workspace live on the host, as a   *)
(* delta to the image of its container, and in the container while there   *)
(* is one.  hydrate_container brings changes of the host in before a       *)
(* command; capture_container_delta brings those of the commands back      *)
(* after it, by `docker diff`, which compares with the image alone.        *)
(* Uploads and skills change the host at any time.                         *)
(*                                                                         *)
(* Paths are flat: the rules for directories and types are left out.       *)
(***************************************************************************)
EXTENDS Naturals

CONSTANTS
  Paths,
  BasePaths,      \* those that the image has
  MaxFileChanges, \* changes of files by commands and on the host
  MaxContainers        \* containers in all

ASSUME SyncAssumption ==
  BasePaths \subseteq Paths /\ MaxFileChanges \in Nat /\ MaxContainers \in Nat

Gone == 0
Original == 1                            \* what the image has
FileStates == {Gone, Original, 2, 3}

VARIABLES
  host,           \* work/ and skills/ on the host
  box,            \* the same in the container
  upper,          \* paths of the image that the container has a copy of
  checkpoint,     \* workspace_sync_checkpoint.json; of no container, it counts as empty
  tombstones,     \* workspace_state.json
  phase,          \* no container; idle; running a command; synced or failed to sync after it
  fresh,          \* uploads that no container has shown to a command
  erased,         \* files of the image that a command removed and nobody has written since
  spent           \* changes and containers so far

syncVars == <<host, box, upper, checkpoint, tombstones, phase, fresh, erased, spent>>

NoFiles == [p \in Paths |-> Gone]
NoCheckpoint == [known |-> FALSE, host |-> NoFiles, entries |-> NoFiles, tombstones |-> {}]

SyncTypeOK ==
  /\ host \in [Paths -> FileStates] /\ box \in [Paths -> FileStates]
  /\ upper \subseteq BasePaths /\ tombstones \subseteq Paths
  /\ checkpoint \in [known : BOOLEAN, host : [Paths -> FileStates], entries : [Paths -> FileStates],
                     tombstones : SUBSET Paths]
  /\ phase \in {"none", "idle", "running", "unsynced"}
  /\ fresh \in [Paths -> FileStates] /\ erased \subseteq BasePaths
  /\ spent \in [changes : 0..MaxFileChanges, boxes : 0..MaxContainers]

Image == [p \in Paths |-> IF p \in BasePaths THEN Original ELSE Gone]

SyncInit ==
  /\ host = NoFiles /\ box = NoFiles /\ upper = {}
  /\ checkpoint = NoCheckpoint /\ tombstones = {}
  /\ phase = "none" /\ fresh = NoFiles /\ erased = {}
  /\ spent = [changes |-> 0, boxes |-> 0]

-----------------------------------------------------------------------------
\* docker diff: added or changed, and deleted, with respect to the image
Altered == {p \in Paths : box[p] # Gone /\ (p \notin BasePaths \/ p \in upper)}
Removed == {p \in BasePaths : box[p] = Gone}

\* a container that starts: its checkpoint is that of another one, which counts as none
Provide ==
  /\ phase = "none" /\ spent.boxes < MaxContainers
  /\ box' = Image /\ upper' = {}
  /\ checkpoint' = NoCheckpoint
  /\ phase' = "idle"
  /\ spent' = [spent EXCEPT !.boxes = @ + 1]
  /\ UNCHANGED <<host, tombstones, fresh, erased>>

\* mutant: the deletions are those of the host alone
Hydrated_Host ==
  LET changes == {p \in Paths : host[p] # Gone /\ checkpoint.host[p] # host[p]}
      removed == {p \in Paths : checkpoint.host[p] # Gone /\ host[p] = Gone}
  IN [p \in Paths |-> IF p \in changes THEN host[p] ELSE IF p \in removed THEN Gone ELSE box[p]]

\* hydrate_container: what differs from the host of the checkpoint is replaced, what the
\* host no longer has and the deletions of earlier containers are removed
Hydrated ==
  LET changes == {p \in Paths : host[p] # Gone /\ checkpoint.host[p] # host[p]}
      removed == {p \in Paths : checkpoint.host[p] # Gone /\ host[p] = Gone}
                   \cup (tombstones \ checkpoint.tombstones)
  IN [p \in Paths |-> IF p \in changes THEN host[p] ELSE IF p \in removed THEN Gone ELSE box[p]]

BeginCommand ==
  /\ phase = "idle"
  /\ box' = Hydrated
  /\ upper' = upper \cup {p \in BasePaths : Hydrated[p] # box[p]}
  /\ checkpoint' = [checkpoint EXCEPT !.known = TRUE, !.host = host, !.tombstones = tombstones]
  /\ fresh' = [p \in Paths |-> IF box'[p] = host[p] THEN Gone ELSE fresh[p]]
  /\ phase' = "running"
  /\ UNCHANGED <<host, tombstones, erased, spent>>

\* the command, or one that runs at the same time, writes or removes a file
RunCommand(p, v) ==
  /\ phase = "running" /\ spent.changes < MaxFileChanges /\ box[p] # v
  /\ box' = [box EXCEPT ![p] = v]
  /\ upper' = upper \cup ({p} \cap BasePaths)
  /\ erased' = IF v # Gone THEN erased \ {p} ELSE erased
  /\ spent' = [spent EXCEPT !.changes = @ + 1]
  /\ UNCHANGED <<host, checkpoint, tombstones, phase, fresh>>

\* an upload takes a name the host does not have; a skill is removed or replaced
HostChange(p, v) ==
  /\ spent.changes < MaxFileChanges /\ host[p] # v
  /\ host' = [host EXCEPT ![p] = v]
  /\ fresh' = [fresh EXCEPT ![p] = v]
  /\ erased' = IF v # Gone THEN erased \ {p} ELSE erased
  /\ spent' = [spent EXCEPT !.changes = @ + 1]
  /\ UNCHANGED <<box, upper, checkpoint, tombstones, phase>>

\* capture refuses to overwrite what the host changed since its checkpoint
Conflicts ==
  \/ \E p \in Altered : checkpoint.known /\ host[p] # checkpoint.host[p] /\ host[p] # box[p]
  \/ \E p \in Removed : host[p] # Gone /\ host[p] # checkpoint.host[p]

\* what it brings back; entries the last capture saw in this container are not exported again
Exports == {p \in Altered : host[p] # box[p] /\ checkpoint.entries[p] # box[p]}

\* the end of the command, or of the next one after a failure: the sync succeeds ...
CaptureDelta ==
  /\ phase \in {"running", "unsynced"} /\ ~Conflicts
  /\ host' = [p \in Paths |-> IF p \in Exports THEN box[p] ELSE IF p \in Removed THEN Gone ELSE host[p]]
  /\ tombstones' = Removed /\ erased' = erased \cup Removed
  /\ checkpoint' = [known |-> TRUE, host |-> host', tombstones |-> Removed,
                    entries |-> [p \in Paths |-> IF p \in Altered THEN box[p] ELSE Gone]]
  /\ phase' = "idle"
  /\ UNCHANGED <<box, upper, fresh, spent>>

\* ... or it fails, by a conflict or otherwise, and the marker keeps the container
FailToSync ==
  /\ phase = "running"
  /\ phase' = "unsynced"
  /\ UNCHANGED <<host, box, upper, checkpoint, tombstones, fresh, erased, spent>>

\* _collect_locked: the container is removed, which no marker forbids any more
Collect ==
  /\ phase = "idle"
  /\ box' = NoFiles /\ upper' = {}
  /\ phase' = "none"
  /\ UNCHANGED <<host, checkpoint, tombstones, fresh, erased, spent>>

SyncNext ==
  \/ Provide \/ BeginCommand \/ CaptureDelta \/ FailToSync \/ Collect
  \/ \E p \in Paths, v \in FileStates : RunCommand(p, v) \/ HostChange(p, v)

-----------------------------------------------------------------------------
(* Properties                                                                *)

\* What a user puts into the workspace while a command is running is there until a
\* container has shown it to a later command: no sync silently writes over it.
\* (workspace_sync_service.py:168)
UploadsAreKept == \A p \in Paths : fresh[p] # Gone => host[p] = fresh[p]

\* A file of the image that a command has removed is not there for later commands, in
\* whichever container they run, until somebody writes it again.
DeletionsLast == phase = "running" => \A p \in erased : box[p] = Gone
=============================================================================
