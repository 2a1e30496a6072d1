------------------------------ MODULE Checkpoints ------------------------------
(***************************************************************************)
(* SessionService: one session in memory, its row of the durable ledger    *)
(* (context_snapshots) and session.json, the projection of that row.       *)
(* Every writer freezes the session under a generation, commits it to the  *)
(* ledger by compare-and-swap of the revision, and then replaces the file. *)
(* Writers hold the lock of the session.  delete_session takes no lock,    *)
(* and requests, drivers and watchers keep the object they got: they go on *)
(* editing and saving it whatever happens to the session.                  *)
(***************************************************************************)
EXTENDS Naturals

CONSTANTS
  Objects,        \* AgentSession objects that one session id ever has
  MaxEdits,       \* changes of the session
  MaxWrites,      \* checkpoints in all
  MaxRestarts,    \* restarts of the process
  Nothing         \* no row, no file, no object

VARIABLES
  ledger,         \* the row: its revision and what it holds
  file,           \* session.json: the same of an earlier or the same commit
  folder,         \* the directory of session.json exists
  object,         \* AgentSession: content, ledger_revision, checkpoint_generation
  live,           \* SessionService._sessions[session_id]
  writer,         \* the holder of the lock of the session
  queued,         \* persist_async: frozen, and waiting for a thread
  deletion,       \* how far delete_session is
  reborn,         \* the session was created again under its id after the deletion
  tally           \* generations handed out, changes and restarts so far

checkpointsVars == <<ledger, file, folder, object, live, writer, queued, deletion, reborn, tally>>

Contents == 0..MaxEdits
Generations == 0..MaxWrites
LedgerRows == [revision : 1..MaxWrites, content : Contents]
Frozen == [of : Objects, content : Contents, generation : Generations]
Held == [of : Objects, content : Contents, generation : Generations, captured : BOOLEAN]

ASSUME CheckpointsAssumption ==
  /\ MaxEdits \in Nat /\ MaxWrites \in Nat /\ MaxRestarts \in Nat
  /\ Nothing \notin Objects \cup LedgerRows \cup Frozen \cup Held

CheckpointsTypeOK ==
  /\ ledger \in LedgerRows \cup {Nothing} /\ file \in LedgerRows \cup {Nothing}
  /\ folder \in BOOLEAN /\ reborn \in BOOLEAN
  /\ object \in [Objects -> [used : BOOLEAN, content : Contents, revision : Generations,
                             generation : Generations]]
  /\ live \in Objects \cup {Nothing}
  /\ writer \in Held \cup {Nothing}
  /\ queued \in Frozen \cup {Nothing}
  /\ deletion \in {"none", "ledger", "memory", "done", "cut"}
  /\ tally \in [writes : Generations, edits : Contents, restarts : 0..MaxRestarts]

Unloaded == [used |-> FALSE, content |-> 0, revision |-> 0, generation |-> 0]

CheckpointsInit ==
  /\ ledger = Nothing /\ file = Nothing /\ folder = FALSE
  /\ object = [o \in Objects |-> Unloaded]
  /\ live = Nothing /\ writer = Nothing /\ queued = Nothing
  /\ deletion = "none" /\ reborn = FALSE
  /\ tally = [writes |-> 0, edits |-> 0, restarts |-> 0]

-----------------------------------------------------------------------------
(* Writers                                                                   *)

\* _freeze_metadata: a copy, under the next generation
Freeze(o) == [of |-> o, content |-> object[o].content, generation |-> tally.writes + 1]
Hold(frozen) == [of |-> frozen.of, content |-> frozen.content, generation |-> frozen.generation,
                 captured |-> FALSE]

\* mutant: whatever is on the disk is read first
Loaded_File == IF file # Nothing THEN file ELSE ledger

\* _load_from_disk: the ledger, and the file only where there is no row
Loaded == IF ledger # Nothing THEN ledger ELSE file

\* get_or_create of a session that is not in memory, under the lock: the object is
\* registered before its first checkpoint is committed
GetOrCreate(o) ==
  /\ live = Nothing /\ writer = Nothing /\ ~object[o].used /\ tally.writes < MaxWrites
  /\ object' = [object EXCEPT ![o] =
       [used |-> TRUE, generation |-> 0,
        content |-> IF Loaded = Nothing THEN 0 ELSE Loaded.content,
        revision |-> IF Loaded = Nothing THEN 0 ELSE Loaded.revision]]
  /\ live' = o
  /\ writer' = [of |-> o, content |-> object'[o].content, generation |-> tally.writes + 1,
                captured |-> FALSE]
  /\ reborn' = (reborn \/ (deletion # "none" /\ Loaded = Nothing))
  /\ tally' = [tally EXCEPT !.writes = @ + 1]
  /\ UNCHANGED <<ledger, file, folder, queued, deletion>>

\* a message, a setting, the state of the host: whoever holds an object changes it
Edit(o) ==
  /\ object[o].used /\ tally.edits < MaxEdits
  /\ object' = [object EXCEPT ![o].content = tally.edits + 1]
  /\ tally' = [tally EXCEPT !.edits = @ + 1]
  /\ UNCHANGED <<ledger, file, folder, live, writer, queued, deletion, reborn>>

\* persist, from a thread of a request
Persist(o) ==
  /\ object[o].used /\ writer = Nothing /\ tally.writes < MaxWrites
  /\ writer' = Hold(Freeze(o))
  /\ tally' = [tally EXCEPT !.writes = @ + 1]
  /\ UNCHANGED <<ledger, file, folder, object, live, queued, deletion, reborn>>

\* persist_async, from the event loop: one at a time
PersistAsync(o) ==
  /\ object[o].used /\ queued = Nothing /\ tally.writes < MaxWrites
  /\ queued' = Freeze(o)
  /\ tally' = [tally EXCEPT !.writes = @ + 1]
  /\ UNCHANGED <<ledger, file, folder, object, live, writer, deletion, reborn>>

\* mutant: the thread saves what it was given
Dequeue_Always ==
  /\ queued # Nothing /\ writer = Nothing
  /\ writer' = Hold(queued)
  /\ queued' = Nothing
  /\ UNCHANGED <<ledger, file, folder, object, live, deletion, reborn, tally>>

\* _persist_snapshot: a newer checkpoint of the same object makes this one obsolete
Dequeue ==
  /\ queued # Nothing /\ writer = Nothing
  /\ writer' = IF queued.generation <= object[queued.of].generation THEN Nothing ELSE Hold(queued)
  /\ queued' = Nothing
  /\ UNCHANGED <<ledger, file, folder, object, live, deletion, reborn, tally>>

\* mutant: a row that is gone is written anew
Refused_Never(o) == ledger # Nothing /\ ledger.revision # object[o].revision

\* HistoryStore.capture: only on the revision that the object knows
Refused(o) ==
  IF ledger = Nothing THEN object[o].revision # 0 ELSE ledger.revision # object[o].revision

\* _commit_metadata makes the directory and commits to the ledger
Capture ==
  /\ writer # Nothing /\ ~writer.captured
  /\ folder' = TRUE
  /\ IF Refused(writer.of)
     THEN writer' = Nothing /\ UNCHANGED <<ledger, object>>
     ELSE /\ ledger' = [revision |-> object[writer.of].revision + 1, content |-> writer.content]
          /\ object' = [object EXCEPT ![writer.of].revision = @ + 1,
                                      ![writer.of].generation = writer.generation]
          /\ writer' = [writer EXCEPT !.captured = TRUE]
  /\ UNCHANGED <<file, live, queued, deletion, reborn, tally>>

\* mutant: the directory is made again when it is missing
Replace_MakesFolder ==
  /\ writer # Nothing /\ writer.captured
  /\ file' = [revision |-> object[writer.of].revision, content |-> writer.content]
  /\ folder' = TRUE
  /\ writer' = Nothing
  /\ UNCHANGED <<ledger, object, live, queued, deletion, reborn, tally>>

\* ... and replaces the file; that fails without the directory, and may fail 20 times
Replace ==
  /\ writer # Nothing /\ writer.captured
  /\ \E done \in BOOLEAN :
       file' = IF done /\ folder
               THEN [revision |-> object[writer.of].revision, content |-> writer.content]
               ELSE file
  /\ writer' = Nothing
  /\ UNCHANGED <<ledger, folder, object, live, queued, deletion, reborn, tally>>

-----------------------------------------------------------------------------
(* Deletion and restart                                                      *)

\* HistoryStore.delete
DeleteLedger ==
  /\ deletion = "none" /\ ledger # Nothing
  /\ ledger' = Nothing /\ deletion' = "ledger"
  /\ UNCHANGED <<file, folder, object, live, writer, queued, reborn, tally>>

\* _sessions.pop, and the membership of the workspace
Forget ==
  /\ deletion = "ledger"
  /\ live' = Nothing /\ deletion' = "memory"
  /\ UNCHANGED <<ledger, file, folder, object, writer, queued, reborn, tally>>

\* _remove_directory
RemoveFolder ==
  /\ deletion = "memory"
  /\ file' = Nothing /\ folder' = FALSE /\ deletion' = "done"
  /\ UNCHANGED <<ledger, object, live, writer, queued, reborn, tally>>

\* a restart, at any point; a deletion that was cut off is not taken up again
Restart ==
  /\ tally.restarts < MaxRestarts
  /\ tally' = [tally EXCEPT !.restarts = @ + 1]
  /\ object' = [o \in Objects |-> Unloaded]
  /\ live' = Nothing /\ writer' = Nothing /\ queued' = Nothing
  /\ deletion' = IF deletion \in {"ledger", "memory"} THEN "cut" ELSE deletion
  /\ UNCHANGED <<ledger, file, folder, reborn>>

CheckpointsNext ==
  \/ \E o \in Objects : GetOrCreate(o) \/ Edit(o) \/ Persist(o) \/ PersistAsync(o)
  \/ Dequeue \/ Capture \/ Replace \/ DeleteLedger \/ Forget \/ RemoveFolder \/ Restart

CheckpointsSpec == CheckpointsInit /\ [][CheckpointsNext]_checkpointsVars

-----------------------------------------------------------------------------
(* Properties                                                                *)

\* What the ledger holds of a session never gets older, although threads and the event
\* loop save it side by side and a checkpoint may wait for a thread while newer ones are
\* written.  (checkpoint_generation.)
NoCheckpointGoesBack ==
  [][ledger # Nothing /\ ledger' # Nothing /\ ~reborn' => ledger'.content >= ledger.content]_checkpointsVars

\* The object that requests get can be saved: no crash between the commit and the file,
\* no failed replacement and no order of writers leaves it with a revision that the
\* ledger refuses for ever.
LiveSessionCanSave ==
  deletion = "none" /\ live # Nothing /\ writer = Nothing =>
    ledger # Nothing /\ object[live].revision = ledger.revision

\* Whoever still has an object of a deleted session, a run, a watcher, a request, cannot
\* bring its messages back, and a deletion that was carried through leaves no copy of them
\* on the disk.  (Unless the id is created anew: README, divergences.)
DeletedStaysDeleted ==
  ~reborn => /\ deletion # "none" => ledger = Nothing
             /\ deletion = "done" => file = Nothing
=============================================================================
