------------------------------ MODULE ShellCalls ------------------------------
(* The output of shell calls while they run: the readers of the two streams   *)
(* of a process (sandbox/local_executor.py, workspace_runtime_service.py),    *)
(* the record, the log file and the numbered deltas of a call                 *)
(* (services/tool_execution_service.py), and its ends                         *)
(* (services/tool_service.py).  A chunk of output is named by its stream.     *)
EXTENDS Naturals, SequencesExt
CONSTANTS ShellIds, MaxChunks
ASSUME ChunksAssumption == MaxChunks \in Nat
VARIABLES shell,   \* stage of each call
          records, \* context_state["tool_execution_state"]["active"]
          past,    \* its "history": call -> entries
          saved,   \* the active records of the last checkpoint
          logs,    \* the log file of each call
          reader,  \* [at, copy] of each stream of each call: <<call, stream>>
          chunks,  \* how much of its output was read
          numbers, \* _seq_by_execution
          deltas   \* the events handed to the engine of each call, in order
shellVars == <<shell, records, past, saved, logs, reader, chunks, numbers, deltas>>

Streams == {"stdout", "stderr"}
Record(status, preview) == [status |-> status, preview |-> preview]
NoRecord == Record("none", << >>)
Reader(at, copy) == [at |-> at, copy |-> copy]
AtRest == Reader("done", NoRecord)
Running == {c \in ShellIds : shell[c] \in {"running", "aborted", "failed"}}
OnRecord(c) == records[c] # NoRecord
\* the readers that hold ToolExecutionService._lock
Appending == {r \in ShellIds \X Streams : reader[r].at \in {"write", "wrote"}}
ReadersAre(c, at) == \A s \in Streams : reader[<<c, s>>].at = at

ShellTypeOK ==
  /\ shell \in [ShellIds -> {"new", "running", "aborted", "failed", "done", "broken", "lost"}]
  /\ \A c \in ShellIds : /\ records[c].status \in {"none", "running"}
                         /\ records[c].preview \in Seq(Streams)
                         /\ logs[c] \in Seq(Streams) /\ numbers[c] \in Nat
                         /\ chunks[c] \in 0..MaxChunks

ShellInit ==
  /\ shell = [c \in ShellIds |-> "new"]
  /\ records = [c \in ShellIds |-> NoRecord] /\ saved = records
  /\ past = [c \in ShellIds |-> << >>] /\ logs = [c \in ShellIds |-> << >>]
  /\ reader = [r \in ShellIds \X Streams |-> AtRest]
  /\ chunks = [c \in ShellIds |-> 0]
  /\ numbers = [c \in ShellIds |-> 0] /\ deltas = [c \in ShellIds |-> << >>]

\* begin_execution, and the process: the engine runs one call of a round after the other
BeginShell(c) ==
  /\ shell[c] = "new" /\ Running = {}
  /\ shell' = [shell EXCEPT ![c] = "running"]
  /\ logs' = [logs EXCEPT ![c] = << >>]
  /\ records' = [records EXCEPT ![c] = Record("running", << >>)]
  /\ numbers' = [numbers EXCEPT ![c] = 0]
  /\ saved' = records'
  /\ reader' = [r \in ShellIds \X Streams |-> IF r[1] = c THEN Reader("read", NoRecord) ELSE reader[r]]
  /\ UNCHANGED <<past, chunks, deltas>>

Goes(c, s, at) == reader' = [reader EXCEPT ![<<c, s>>] = Reader(at, reader[<<c, s>>].copy)]

\* read_stream: a chunk, which goes to output_callback, or the end of the stream
ReadChunk(c, s) ==
  /\ shell[c] \in {"running", "broken"} /\ reader[<<c, s>>].at = "read" /\ chunks[c] < MaxChunks
  /\ chunks' = [chunks EXCEPT ![c] = @ + 1] /\ Goes(c, s, "wait")
  /\ UNCHANGED <<shell, records, past, saved, logs, numbers, deltas>>

ReadEnd(c, s) ==
  /\ shell[c] \in {"running", "broken"} /\ reader[<<c, s>>].at = "read" /\ Goes(c, s, "done")
  /\ UNCHANGED <<shell, records, past, saved, logs, chunks, numbers, deltas>>

\* mutant: no lock around append_output
MayAppend_Always(c) == OnRecord(c)
MayAppend(c) == OnRecord(c) /\ Appending = {}

\* append_output: under the lock, a copy of the record and then the file
EnterAppend(c, s) ==
  /\ shell[c] \in {"running", "broken"} /\ reader[<<c, s>>].at = "wait" /\ MayAppend(c)
  /\ reader' = [reader EXCEPT ![<<c, s>>] = Reader("write", records[c])]
  /\ UNCHANGED <<shell, records, past, saved, logs, chunks, numbers, deltas>>

\* _append_log in its thread; a cancelled caller waits for it and goes no further
WriteOutput(c, s) ==
  /\ reader[<<c, s>>].at = "write" /\ logs' = [logs EXCEPT ![c] = Append(@, s)]
  /\ Goes(c, s, IF shell[c] \in {"aborted", "failed"} THEN "done" ELSE "wrote")
  /\ UNCHANGED <<shell, records, past, saved, chunks, numbers, deltas>>

\* the rest of append_output, and the event into the queue of the engine
EndAppend(c, s) ==
  /\ shell[c] \in {"running", "broken"} /\ reader[<<c, s>>].at = "wrote"
  /\ LET copy == reader[<<c, s>>].copy
     IN records' = [records EXCEPT ![c] = Record(copy.status, Append(copy.preview, s))]
  /\ numbers' = [numbers EXCEPT ![c] = @ + 1]
  /\ deltas' = [deltas EXCEPT ![c] = Append(@, [stream |-> s, seq |-> numbers[c] + 1])]
  /\ Goes(c, s, "read")
  /\ UNCHANGED <<shell, past, saved, logs, chunks>>

\* the disk refuses the write.  In a container the reader gives up; in the local
\* executor gather fails, and with it the call, while the other reader goes on
WriteFails(c, s) ==
  /\ reader[<<c, s>>].at = "write" /\ Goes(c, s, "done")
  /\ \/ UNCHANGED shell
     \/ shell[c] = "running" /\ shell' = [shell EXCEPT ![c] = "broken"]
  /\ UNCHANGED <<records, past, saved, logs, chunks, numbers, deltas>>

-------------------------------------------------------------------------------
\* finish_execution
CloseRecord(c, status) ==
  /\ past' = [past EXCEPT ![c] = Append(@, Record(status, records[c].preview))]
  /\ records' = [records EXCEPT ![c] = NoRecord]
  /\ numbers' = [numbers EXCEPT ![c] = 0]
  /\ saved' = records'
  /\ shell' = [shell EXCEPT ![c] = "done"]

\* both streams are at their end: the exit code decides
EndShell(c) ==
  /\ shell[c] = "running" /\ ReadersAre(c, "done")
  /\ \E status \in {"completed", "failed"} : CloseRecord(c, status)
  /\ UNCHANGED <<logs, reader, chunks, deltas>>

\* an abort or the time limit of the call cancels the readers; the time limit of
\* the command does so too and reports a busy runtime; a runtime that does not
\* start reports that, before there is any output
StopShell(c, why) ==
  /\ shell[c] = "running" /\ shell' = [shell EXCEPT ![c] = why]
  /\ reader' = [r \in ShellIds \X Streams |->
                  IF r[1] = c /\ reader[r].at # "write" THEN AtRest ELSE reader[r]]
  /\ UNCHANGED <<records, past, saved, logs, chunks, numbers, deltas>>

\* abort_execution or fail_execution, once the readers are gone
StoppedShell(c) ==
  /\ shell[c] \in {"aborted", "failed"} /\ ReadersAre(c, "done") /\ CloseRecord(c, shell[c])
  /\ UNCHANGED <<logs, reader, chunks, deltas>>

\* any other error, the collection of the files or the time limit of the local
\* executor: no handler, and the record stays
BreakShell(c) ==
  /\ shell[c] = "running" /\ ReadersAre(c, "done") /\ shell' = [shell EXCEPT ![c] = "broken"]
  /\ UNCHANGED <<records, past, saved, logs, reader, chunks, numbers, deltas>>

\* the process ends: what was saved last is read again, and nobody clears it
LoseShell ==
  /\ Running # {}
  /\ shell' = [c \in ShellIds |-> IF shell[c] = "new" THEN "new"
                                  ELSE IF shell[c] = "done" THEN "done" ELSE "lost"]
  /\ records' = saved
  /\ reader' = [r \in ShellIds \X Streams |-> AtRest]
  /\ numbers' = [c \in ShellIds |-> 0]
  /\ UNCHANGED <<past, saved, logs, chunks, deltas>>

ShellNext ==
  \/ \E c \in ShellIds : BeginShell(c) \/ EndShell(c) \/ StoppedShell(c) \/ BreakShell(c)
  \/ \E c \in ShellIds, why \in {"aborted", "failed"} : StopShell(c, why)
  \/ \E c \in ShellIds, s \in Streams :
       ReadChunk(c, s) \/ ReadEnd(c, s) \/ EnterAppend(c, s) \/ WriteOutput(c, s) \/ EndAppend(c, s) \/ WriteFails(c, s)
  \/ LoseShell

ShellSpec == ShellInit /\ [][ShellNext]_shellVars

-------------------------------------------------------------------------------
StreamsOf(ds) == [i \in DOMAIN ds |-> ds[i].stream]

\* What the page was shown of a call is what its log says, chunk by chunk and
\* numbered without a gap, although two readers wait for one file; only the chunk
\* that a cancellation overtook is in the log alone.
DeltasMatchLog ==
  \A c \in ShellIds :
    /\ \A i \in DOMAIN deltas[c] : deltas[c][i].seq = i
    /\ IsPrefix(StreamsOf(deltas[c]), logs[c])
    /\ Len(logs[c]) <= Len(deltas[c]) + 1

\* Neither reader loses what the other one wrote to the record; the entry that
\* is left of a call shows all of it, and the call is no longer among the active.
RecordsAreComplete ==
  \A c \in ShellIds :
    /\ shell[c] \in {"running", "aborted", "failed"} => records[c].preview = StreamsOf(deltas[c])
    /\ shell[c] = "done" => /\ records[c] = NoRecord /\ Len(past[c]) = 1
                            /\ past[c][1].preview = StreamsOf(deltas[c])

ShellOutputIsExact == DeltasMatchLog /\ RecordsAreComplete
===============================================================================
