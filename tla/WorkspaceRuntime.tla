---------------------------- MODULE WorkspaceRuntime ----------------------------
(***************************************************************************)
(* WorkspaceRuntimeService: the container of one workspace, its row in     *)
(* workspace_runtimes, and everybody who uses or removes it: commands that *)
(* run side by side, rebuilds, the collection of idle runtimes, a deletion *)
(* of the workspace.  What commands write is in the container until a sync *)
(* brings it to the host (WorkspaceSync); two marker files on the disk,    *)
(* pending and failed, keep the container until then.                      *)
(*                                                                         *)
(* The lock of the workspace is not held while a command executes, nor by  *)
(* an interruption, nor by the recovery of a failed name resolution.       *)
(* Every docker call may fail; what it answers is external.  Who waits for  *)
(* docker to make or remove a container can be cancelled, or end with the   *)
(* API: docker goes on, and nobody learns how it ended.                     *)
(***************************************************************************)
EXTENDS Naturals, FiniteSets

CONSTANTS
  Commands,
  MaxBoxes,       \* containers, which are numbered by generation
  MaxFaults,      \* restarts of the API, containers that disappear, docker commands left behind
  Free            \* nobody holds the lock

ASSUME RuntimeAssumption ==
  /\ IsFiniteSet(Commands) /\ MaxBoxes \in Nat /\ MaxFaults \in Nat
  /\ {Free, "api"} \cap Commands = {} /\ Free # "api"

VARIABLES
  row,            \* workspace_runtimes; generation 0 when there is none
  boxes,          \* the containers that exist, by generation
  unsynced,       \* those with files that are not on the host
  marked,         \* the marker files: "pending", "failed"
  lock,
  cmd,            \* run_shell: place, container, and whether it is the retry of a recovery
  remover,        \* rebuild, collection or deletion under way
  lost,           \* who removed a container with files that were not on the host
  listing,           \* the row as somebody who lists runtimes has read it, without the lock
  raced,          \* "recovery": the lock was taken while a command was recovering;
                  \* "view": a listing wrote back a row that had been replaced meanwhile;
                  \* "late": a container was made after its row had been replaced
  faults,
  late            \* docker commands that go on though who waited for them was cut off

runtimeVars == <<row, boxes, unsynced, marked, lock, cmd, remover, lost, listing, raced, faults, late>>

Boxes == 1..MaxBoxes
InLock == {"ensure", "provide", "creating", "ready"}
Recovering == {"recovering", "captured", "removing"}
Executing == {"executing", "finished", "stopping"} \cup Recovering
Work(place, box, again) == [at |-> place, box |-> box, again |-> again]
Asleep == Work("idle", 0, FALSE)

DockerCommands == {"run", "rm"} \X Boxes

Row(status, box) == [status |-> status, box |-> box]
NoRow == Row("missing", 0)
RuntimeRows == [status : {"missing", "provisioning", "running", "executing", "terminating",
                   "failed", "collected"}, box : 0..MaxBoxes]

Works == [at : {"idle", "queued"} \cup InLock \cup Executing, box : 0..MaxBoxes, again : BOOLEAN]

RuntimeTypeOK ==
  /\ row \in RuntimeRows /\ listing \in RuntimeRows
  /\ boxes \subseteq Boxes /\ unsynced \subseteq boxes
  /\ marked \subseteq {"pending", "failed"}
  /\ lock \in Commands \cup {"api", Free}
  /\ cmd \in [Commands -> Works]
  /\ remover \in {"none", "collect", "rebuild", "delete", "creating"}
  /\ lost \subseteq {"fault", "interruption", "recovery", "removal", "late"}
  /\ raced \subseteq {"recovery", "view", "late"}
  /\ faults \in 0..MaxFaults /\ late \subseteq DockerCommands

RuntimeInit ==
  /\ row = NoRow /\ listing = NoRow
  /\ boxes = {} /\ unsynced = {} /\ marked = {}
  /\ lock = Free /\ cmd = [c \in Commands |-> Asleep] /\ remover = "none"
  /\ lost = {} /\ raced = {} /\ faults = 0 /\ late = {}

-----------------------------------------------------------------------------
In(c, places) == cmd[c].at \in places

\* _running_commands; _active_commands, in which the retry of a recovery counts twice
RunningCommands == Cardinality({c \in Commands : In(c, Executing)})
ActiveCommands == Cardinality({c \in Commands : ~In(c, {"idle"})})
                    + Cardinality({c \in Commands : cmd[c].again})

Overlap == IF \E c \in Commands : In(c, Recovering) THEN raced \cup {"recovery"} ELSE raced

\* mutant: what no sync has failed for is on the host
Marked_Failed == "failed" \in marked

\* _has_unsynced_files
Marked == marked # {}

\* refresh_runtime: what docker says of the container of a row
Refreshed(r) ==
  IF r.box = 0 THEN r
  ELSE IF r.box \notin boxes
       THEN IF r.status = "collected" THEN r ELSE Row("failed", r.box)
       ELSE IF r.status = "executing" /\ ActiveCommands > 0 THEN r
            ELSE Row("running", r.box)

\* mutant: the files of a container that is gone are still waited for
RemoveContainer_Keeps(b, who) == boxes' = boxes \ {b} /\ UNCHANGED <<unsynced, lost>>

\* docker rm -f, of whoever
RemoveContainer(b, who) ==
  /\ boxes' = boxes \ {b} /\ unsynced' = unsynced \ {b}
  /\ lost' = IF b \in unsynced THEN lost \cup {who} ELSE lost

\* nobody waits for these docker commands any more
LeftBehind(commands) == faults < MaxFaults /\ faults' = faults + 1 /\ late' = late \cup commands

Put(c, work) == cmd' = [cmd EXCEPT ![c] = work]
Move(c, place) == Put(c, Work(place, cmd[c].box, cmd[c].again))

\* an error, a refusal or a cancellation before the command is admitted
Leave(c) == Put(c, Asleep) /\ lock' = Free

\* Anybody who lists runtimes, between whose read and write docker is asked.
ViewRead ==
  /\ listing = NoRow /\ row.box # 0
  /\ listing' = row
  /\ UNCHANGED <<row, boxes, unsynced, marked, lock, cmd, remover, lost, raced, faults, late>>

ViewWrite ==
  /\ listing # NoRow
  /\ listing' = NoRow
  /\ IF Refreshed(listing) = listing THEN UNCHANGED <<row, raced>>
     ELSE /\ row' = Refreshed(listing)
          /\ raced' = IF row.box # listing.box THEN raced \cup {"view"} ELSE raced
  /\ UNCHANGED <<boxes, unsynced, marked, lock, cmd, remover, lost, faults, late>>

-----------------------------------------------------------------------------
(* run_shell                                                                 *)

Enter(c) ==
  /\ In(c, {"idle"})
  /\ Move(c, "queued")
  /\ UNCHANGED <<row, boxes, unsynced, marked, lock, remover, lost, listing, raced, faults, late>>

Take(c) ==
  /\ In(c, {"queued"}) /\ lock = Free
  /\ lock' = c
  /\ row' = Refreshed(row)
  /\ raced' = Overlap
  /\ Move(c, "ensure")
  /\ UNCHANGED <<boxes, unsynced, marked, remover, lost, listing, faults, late>>

GiveUpWaiting(c) ==
  /\ \/ In(c, {"queued"}) /\ UNCHANGED lock
     \/ In(c, InLock) /\ lock' = Free
  /\ Put(c, Asleep)
  /\ UNCHANGED <<row, boxes, unsynced, marked, remover, lost, listing, raced, faults, late>>

MustSync == "failed" \in marked \/ ("pending" \in marked /\ RunningCommands = 0)

\* _ensure_runtime_locked first repeats a sync that failed or was cut off
Resync(c) ==
  /\ In(c, {"ensure"}) /\ MustSync
  /\ \/ /\ RunningCommands = 0 /\ row.box \in boxes
        /\ unsynced' = unsynced \ {row.box} /\ marked' = {}
        /\ Move(c, "provide")
        /\ UNCHANGED lock
     \/ Leave(c) /\ UNCHANGED <<unsynced, marked>>
  /\ UNCHANGED <<row, boxes, remover, lost, listing, raced, faults, late>>

\* ... and then uses the container as it is ...
Reuse(c) ==
  /\ In(c, {"provide"}) \/ (In(c, {"ensure"}) /\ ~MustSync)
  /\ row.status \in {"running", "executing"}
  /\ Put(c, Work("ready", row.box, cmd[c].again))
  /\ UNCHANGED <<row, boxes, unsynced, marked, lock, remover, lost, listing, raced, faults, late>>

\* ... or, when it is expired, unusable or configured otherwise, replaces it, if
\* there is an image for the new one
Collected == IF row.box = 0 THEN row ELSE Row("collected", row.box)

ReplaceBox(c) ==
  /\ In(c, {"provide"}) \/ (In(c, {"ensure"}) /\ ~MustSync)
  /\ row.box < MaxBoxes
  /\ IF row.box # 0 /\ Marked
     THEN Leave(c) /\ UNCHANGED <<row, boxes, unsynced, lost>>
     ELSE /\ RemoveContainer(row.box, "removal")
          /\ \/ /\ row' = Row("provisioning", row.box + 1)
                /\ Move(c, "creating")
                /\ UNCHANGED lock
             \/ row' = Collected /\ Leave(c)
  /\ UNCHANGED <<marked, remover, listing, raced, faults, late>>

\* a change of the configuration waits for the other commands
WaitForOthers(c) ==
  /\ In(c, {"provide"}) \/ (In(c, {"ensure"}) /\ ~MustSync)
  /\ ActiveCommands > 1
  /\ Leave(c)
  /\ UNCHANGED <<row, boxes, unsynced, marked, remover, lost, listing, raced, faults, late>>

\* docker run and the first hydration, after which a container that could not be
\* filled is removed again
Created == row.box \notin boxes /\ boxes' = boxes \cup {row.box} /\ row' = Row("running", row.box)
NotCreated == row' = Row("failed", row.box) /\ UNCHANGED boxes

CreateBox(c) ==
  /\ In(c, {"creating"})
  /\ \/ Created /\ Put(c, Work("ready", row.box, cmd[c].again)) /\ UNCHANGED <<lock, faults, late>>
     \/ NotCreated /\ Leave(c) /\ UNCHANGED <<faults, late>>
     \/ Created /\ LeftBehind({<<"rm", row.box>>}) /\ Leave(c)
  /\ UNCHANGED <<unsynced, marked, remover, lost, listing, raced>>

\* hydration for the first command of several, then the marker and the start of the command
Admit(c) ==
  /\ In(c, {"ready"})
  /\ \/ /\ "failed" \in marked => cmd[c].box \in boxes
        /\ unsynced' = IF "failed" \in marked THEN unsynced \ {cmd[c].box} ELSE unsynced
        /\ row' = Row("executing", cmd[c].box)
        /\ marked' = {"pending"}
        /\ Move(c, "executing")
        /\ lock' = Free
     \/ Leave(c) /\ UNCHANGED <<unsynced, row, marked>>
  /\ UNCHANGED <<boxes, remover, lost, listing, raced, faults, late>>

WriteFile(c) ==
  /\ In(c, {"executing"}) /\ cmd[c].box \in boxes
  /\ unsynced' = unsynced \cup {cmd[c].box}
  /\ UNCHANGED <<row, boxes, marked, lock, cmd, remover, lost, listing, raced, faults, late>>

\* the command ends by itself: well, or without a name server
EndCommand(c) ==
  /\ In(c, {"executing"})
  /\ \/ Move(c, "finished")
     \/ ~cmd[c].again /\ ActiveCommands <= 1 /\ Move(c, "recovering")
  /\ UNCHANGED <<row, boxes, unsynced, marked, lock, remover, lost, listing, raced, faults, late>>

\* the last one that executes syncs, under the lock; the others only say "running"
SyncFiles(c) ==
  /\ In(c, {"finished"}) /\ lock = Free
  /\ \/ /\ RunningCommands > 1
        /\ row' = Row("running", cmd[c].box)
        /\ UNCHANGED <<unsynced, marked>>
     \/ /\ RunningCommands = 1 /\ cmd[c].box \in boxes
        /\ unsynced' = unsynced \ {cmd[c].box} /\ marked' = {}
        /\ row' = Row("running", cmd[c].box)
     \/ /\ RunningCommands = 1
        /\ marked' = marked \cup {"failed"}
        /\ UNCHANGED <<row, unsynced>>
  /\ Put(c, Asleep)
  /\ UNCHANGED <<boxes, lock, remover, lost, listing, raced, faults, late>>

\* a timeout or a cancellation: the marker first, then the process
Interrupt(c) ==
  /\ In(c, {"executing"})
  /\ marked' = marked \cup {"failed"}
  /\ Move(c, "stopping")
  /\ UNCHANGED <<row, boxes, unsynced, lock, remover, lost, listing, raced, faults, late>>

\* ... which, when it cannot be killed, takes the container with it
Interrupted(c) ==
  /\ In(c, {"stopping"})
  /\ \/ RemoveContainer(cmd[c].box, "interruption")
     \/ UNCHANGED <<boxes, unsynced, lost>>
  /\ \E status \in {"terminating", "failed"} :
       row' = Row(IF ActiveCommands > 1 THEN "executing" ELSE status, cmd[c].box)
  /\ Put(c, Asleep)
  /\ UNCHANGED <<marked, lock, remover, listing, raced, faults, late>>

\* cancelled while it waits for the lock: its marker stays
GiveUpSync(c) ==
  /\ In(c, {"finished"})
  /\ Put(c, Asleep)
  /\ UNCHANGED <<row, boxes, unsynced, marked, lock, remover, lost, listing, raced, faults, late>>

-----------------------------------------------------------------------------
(* The recovery of a failed name resolution, without the lock                *)

RecoverySync(c) ==
  /\ In(c, {"recovering"})
  /\ \/ /\ cmd[c].box \in boxes
        /\ unsynced' = unsynced \ {cmd[c].box}
        /\ Move(c, "captured")
        /\ UNCHANGED marked
     \/ /\ marked' = marked \cup {"failed"}
        /\ Put(c, Asleep)
        /\ UNCHANGED unsynced
  /\ UNCHANGED <<row, boxes, lock, remover, lost, listing, raced, faults, late>>

\* the pending marker goes, whoever it belongs to by now; a failed one stops the removal
RecoveryClears(c) ==
  /\ In(c, {"captured"})
  /\ marked' = marked \ {"pending"}
  /\ Put(c, IF "failed" \in marked THEN Asleep ELSE Work("removing", row.box, cmd[c].again))
  /\ UNCHANGED <<row, boxes, unsynced, lock, remover, lost, listing, raced, faults, late>>

\* then the command starts again, as its own retry
RecoveryRemoves(c) ==
  /\ In(c, {"removing"})
  /\ RemoveContainer(cmd[c].box, "recovery")
  /\ row' = IF cmd[c].box = 0 THEN row ELSE Row("collected", cmd[c].box)
  /\ Put(c, Work("queued", 0, TRUE))
  /\ UNCHANGED <<marked, lock, remover, listing, raced, faults, late>>

-----------------------------------------------------------------------------
(* Rebuilds, collections and deletions                                       *)

\* rebuild_runtime and the collections look for active commands, a deletion does not
Ask2Remove(kind) ==
  /\ remover = "none"
  /\ kind # "delete" => ActiveCommands = 0
  /\ kind = "collect" => row.status \notin {"executing", "provisioning", "terminating"} /\ ~Marked
  /\ remover' = kind
  /\ UNCHANGED <<row, boxes, unsynced, marked, lock, cmd, lost, listing, raced, faults, late>>

\* _collect_locked, when the lock is theirs
RemoveBox ==
  /\ remover \in {"collect", "rebuild", "delete"} /\ lock = Free
  /\ \/ /\ row.box # 0 /\ Marked
        /\ remover' = "none"
        /\ UNCHANGED <<row, boxes, unsynced, lock, lost>>
     \/ /\ row.box = 0 \/ ~Marked
        /\ remover = "rebuild" => row.box < MaxBoxes
        /\ RemoveContainer(row.box, "removal")
        /\ \/ /\ remover = "rebuild" /\ remover' = "creating" /\ lock' = "api"
              /\ row' = Row("provisioning", row.box + 1)
           \/ /\ remover' = "none" /\ lock' = Free
              /\ row' = IF remover = "delete" THEN NoRow ELSE Collected
  /\ raced' = Overlap
  /\ UNCHANGED <<marked, cmd, listing, faults, late>>

Rebuild ==
  /\ remover = "creating"
  /\ \/ (Created \/ NotCreated) /\ UNCHANGED <<faults, late>>
     \/ Created /\ LeftBehind({<<"rm", row.box>>})
  /\ remover' = "none" /\ lock' = Free
  /\ UNCHANGED <<unsynced, marked, cmd, lost, listing, raced>>

-----------------------------------------------------------------------------
(* Docker commands that outlive who waits for them                           *)

\* what a command may be waiting for: docker run, or docker rm -f, without which
\* its next step is not made
Replacing(c) == (In(c, {"provide"}) \/ (In(c, {"ensure"}) /\ ~MustSync)) /\ ~Marked
Awaited(c) ==
  DockerCommands \cap
    (IF In(c, {"creating"}) THEN {<<"run", row.box>>}
     ELSE IF Replacing(c) THEN {<<"rm", row.box>>}
     ELSE IF In(c, {"stopping", "removing"}) THEN {<<"rm", cmd[c].box>>} ELSE {})

\* ... and what a rebuild, a collection or a deletion may
AwaitedByApi ==
  DockerCommands \cap
    (IF remover = "creating" THEN {<<"run", row.box>>}
     ELSE IF remover # "none" /\ lock = Free /\ ~Marked THEN {<<"rm", row.box>>} ELSE {})

\* cancelled meanwhile: the row stays as it is, and the lock is free
CutOff(c) ==
  /\ \E docker \in Awaited(c) : LeftBehind({docker})
  /\ Put(c, Asleep) /\ lock' = IF In(c, InLock) THEN Free ELSE lock
  /\ UNCHANGED <<row, boxes, unsynced, marked, remover, lost, listing, raced>>

CutOffApi ==
  /\ \E docker \in AwaitedByApi : LeftBehind({docker})
  /\ remover' = "none" /\ lock' = Free
  /\ raced' = Overlap
  /\ UNCHANGED <<row, boxes, unsynced, marked, cmd, lost, listing>>

\* docker comes to it: a name that is taken is refused, and every run may fail
LateRun(b) ==
  /\ <<"run", b>> \in late /\ late' = late \ {<<"run", b>>}
  /\ \/ /\ b \notin boxes /\ boxes' = boxes \cup {b}
        /\ raced' = IF raced = {} /\ row.box = b THEN raced ELSE raced \cup {"late"}
     \/ UNCHANGED <<boxes, raced>>
  /\ UNCHANGED <<row, unsynced, marked, lock, cmd, remover, lost, listing, faults>>

LateRemoval(b) ==
  /\ <<"rm", b>> \in late /\ late' = late \ {<<"rm", b>>}
  /\ RemoveContainer(b, "late")
  /\ UNCHANGED <<row, marked, lock, cmd, remover, listing, raced, faults>>

-----------------------------------------------------------------------------
BoxDies(b) ==
  /\ b \in boxes /\ faults < MaxFaults
  /\ RemoveContainer(b, "fault")
  /\ faults' = faults + 1
  /\ UNCHANGED <<row, marked, lock, cmd, remover, listing, raced, late>>

\* the API is restarted: containers, their files and the markers stay, and docker
\* may go on with what it was asked for
ApiRestart ==
  /\ \E left \in SUBSET (AwaitedByApi \cup UNION {Awaited(c) : c \in Commands}) : LeftBehind(left)
  /\ cmd' = [c \in Commands |-> Asleep] /\ lock' = Free /\ remover' = "none" /\ listing' = NoRow
  /\ UNCHANGED <<row, boxes, unsynced, marked, lost, raced>>

RuntimeNext ==
  \/ \E c \in Commands :
       \/ Enter(c) \/ Take(c) \/ GiveUpWaiting(c) \/ Resync(c) \/ Reuse(c) \/ ReplaceBox(c)
       \/ WaitForOthers(c) \/ CreateBox(c) \/ Admit(c) \/ WriteFile(c) \/ EndCommand(c)
       \/ SyncFiles(c) \/ Interrupt(c) \/ Interrupted(c) \/ GiveUpSync(c)
       \/ RecoverySync(c) \/ RecoveryClears(c) \/ RecoveryRemoves(c) \/ CutOff(c)
  \/ \E kind \in {"collect", "rebuild", "delete"} : Ask2Remove(kind)
  \/ RemoveBox \/ Rebuild \/ CutOffApi \/ ViewRead \/ ViewWrite \/ ApiRestart
  \/ \E b \in Boxes : BoxDies(b) \/ LateRun(b) \/ LateRemoval(b)

RuntimeSpec == RuntimeInit /\ [][RuntimeNext]_runtimeVars

-----------------------------------------------------------------------------
(* Properties                                                                *)

\* No collection, rebuild, replacement or deletion removes a container with files that
\* are not on the host, whatever commands, interruptions, stale rows and restarts of the
\* API come before it.  (Overlapping recoveries are left out, and what follows when a
\* cancelled docker run comes through beside another container; a cancelled docker rm may
\* hit the files of the next command: README, divergences.)
NothingUnsyncedIsRemoved ==
  {"recovery", "late"} \cap raced = {} => lost \subseteq {"fault", "interruption", "late"}

\* The container that exists is the one of the row: none is left behind under a name
\* nobody will remove.  (A docker run that comes through after its command was cancelled
\* and its row replaced does leave one; so do listings that write back such a row.)
NoOrphanBox == raced = {} => boxes \subseteq {row.box}

RuntimeIsSafe == NothingUnsyncedIsRemoved /\ NoOrphanBox
=============================================================================
