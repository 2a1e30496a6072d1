# Formal models of the AetherCore backend

TLA+ modules of the parts of AetherCore where several coroutines, threads,
restarts and clients meet, the TLC configurations that check them on small
instances, and theorems about them that TLAPS proves for every value of the
constants.  Paths below are relative to `backend/app/` unless they start with
another directory of the repository.

    tlc -workers 2 -config RunsFaults.cfg MCRuns.tla          # one run
    tlapm RunsProofs.tla                                      # one proof module

`PROJECT.json` lists the components, the runs with their properties, mutants of
the model for each property, the source lines behind each definition, the known
divergences, the hazards and the theorems.

## 1. The system

AetherCore is one Python process: an asyncio event loop (FastAPI), a thread pool
for plain `def` routes and for `durable_io`, and one SQLite database.  Nothing
else is shared between processes, so its concurrency is: coroutines that
interleave at each `await`, threads that interleave at each call of the store
(which holds the connection lock for the whole method), crashes and restarts,
and clients whose connections break.

| Component | State it keeps | Operations | Talks to |
|---|---|---|---|
| Task scheduler (`services/scheduling/`) | rows of `scheduled_tasks` and `scheduled_task_runs`; a dispatcher and N workers | create, update, pause, resume, approve, reject, archive, restore, manual run; tick, claim, execute, finish; lease recovery at start | store, agent runs, lifecycle |
| Recurrence (`scheduling/recurrence.py`) | none | next instant of a cron, daily, weekly or interval schedule | scheduler |
| Agent runs (`services/agent_run_service.py`) | `_runs`, `_session_runs`, `_lock`, one driver task per run; rows of `agent_runs` | start, drive and clean up, abort, cancel, wait, answer and resume, expire waiting runs, recover at start | engine, store, sessions, subagents, runtime state |
| Run events (same file, `api/routes/host.py`, `api/routes/agent.py`) | rows of `run_events`; a bounded queue per subscriber; a lock per run | publish, subscribe, replay, follow, overflow, close | store, HTTP streams |
| Engine (`runtime/engine.py`) | messages and run context of a session | a turn: model call, tool calls, compaction, questions, abort | model clients, tools, context, runtime state |
| Runtime state (`services/runtime_state/`) | JSON files of a workspace: pending question with its history, work board | ask, resolve, cancel, change the board, settle a stopped run | engine, HTTP |
| Sessions (`services/session_service.py`) | sessions in memory, generations of checkpoints, metadata on disk | load, persist (frozen on the loop, committed in a thread), delete | history, store |
| Context (`services/context/`) | ledger of messages and epochs, attempts, tool receipts | capture with an expected revision, compact, recover attempts | engine, sessions |
| Subagents (`services/subagent_service.py`) | rows of `subagents`, watchers, futures | create, send, wait, cancel, destroy, inject a result into the parent | agent runs, sessions |
| Lifecycle (`services/lifecycle_service.py`, `api/lifecycle.py`, `process_control.py`) | admitted work, owner and lease of a drain; pid and control files | admit, continue, drain, cancel a drain; start, stop, restart | everything that starts work |
| Host control (`services/host_control_service.py`, `host/registry.py`) | the binding of conversations to users of the host | bind, conversations, messages with an idempotency key, run queries | agent runs, store |
| Tools (`services/tool_*.py`) | execution records, log files, the catalog of host tools | begin, append output, finish, fail, abort; call a host, refresh its token; update and snapshot the catalog | engine, workspace, hosts |
| Workspace runtime and sync (`services/workspace_*.py`, `sandbox/`) | containers and their rows, marker files, checkpoints, tombstones | run a command, rebuild, collect, delete; hydrate, capture the delta; migrate old directories | docker |
| Images (`services/platform_runtime_image_service.py`) | base and derived images of a platform | publish, choose, build on demand, clean up | docker, workspace runtime |
| Skills and extensions (`services/shared_skill_service.py`, `extension_store_service.py`) | packages by content, manifests of workspaces; entries with immutable versions | publish, pin, fork, collect; publish, manage, install | store, timeline |
| Timeline (`services/timeline_service.py`) | copies of sessions | fork, rerun | sessions |
| Model clients (`services/llm_client.py`, `llm_config_service.py`, `services/context/provider_adapters.py`) | configurations in layers; the stream of an answer | resolve, save, show; stream and accumulate | model services |
| Identity and platforms (`api/routes/auth.py`, `platforms.py`) | users with roles, platforms, registration requests | login, promote, demote, transfer, request, approve, reject | store |
| Files, search, transcripts, secrets, tokens, MCP | rows and files | mostly one request each | store, network |
| Frontend, host adapters, site, start scripts | user interface, processes | | HTTP |

**What is hard.**  The driver of a run and whoever wants it to stop: an abort
sets an event, waits a grace period, and then cancels a task that may be in its
`finally`; `asyncio.wait_for` of the scheduler cancels the same task.  A question
makes a run outlive its driver, and the answer needs the session back.  The
sequence number of an event comes from the database while its delivery is a
later step of one of several publishers, and a reader joins in the middle.
Requests read a row in one store call and write it in another while others change
it.  A session is frozen on the loop and written by a thread; a turn is spread
over a ledger, receipts and messages; a summary replaces messages it was asked
about before others arrived.  A container holds files the host does not have.  A
crash may fall between any two steps.

**What makes each component correct.**

* Scheduler: an occurrence is triggered, taken and settled at most once;
  `run_count`, `next_run_at`, `consecutive_failures` agree with the runs that
  exist; limits and approval hold through every race; nothing due and nothing
  queued starves; the recorded outcome is what happened.  Recurrence: the next
  instant is one the rule names, later than the argument, and passes none over.
* Agent runs: one driver per session; the registry and the table agree with the
  drivers; statuses move as documented and terminal ones stay; every run
  settles, every wait ends.
* Run events: a client that reconnects sees the log of the run in order, without
  gap and without repetition, and sees all of it; queues keep their bound.
* Engine and context: every request is one a model accepts; what took effect and
  what the user saw is in the history; a stop ends the turn; compaction forgets
  nothing that cannot be read back.
* Sessions: a checkpoint never goes back, a held session can be saved, a deleted
  one stays deleted.
* Subagents: the row follows the run, a result arrives once and never after the
  destruction, children stop with their parent.
* Lifecycle: a process that is signalled after its drain is idle.
* Tools: output is complete and in order; a host call has its effect at most
  once; no accepted update of the catalog is undone by an older one.
* Workspace: no files that exist only in a container are removed with it; what a
  command deletes stays deleted; what a user uploads is kept; a migration that is
  cut off anywhere loses nothing.
* Platforms: rights follow the last decision; an image a container was promised
  exists; a version of an extension is immutable and has its artifact.
* Models: the text that is shown and the message that is kept are what the
  service said; the page shows the configuration a run would use.

## 2. Modules

| Module | Models | Kind |
|---|---|---|
| `Scheduling` | scheduler, its requests and its part of the store | state machine |
| `Occurrences` | what the scheduler promises of an occurrence | abstract specification |
| `Execution` | what a worker does with a trigger: session, policy, timeout, recorded outcome | state machine |
| `Recurrence` | the calendar: the search of the code against the set of due instants | function, reference definition |
| `AgentRuns` | agent runs, the questions of a session, the waiting schedule | state machine |
| `SessionRuns` | what the table `agent_runs` promises of a session | abstract specification |
| `RunEvents` | publication, queues and the event streams of one run | state machine |
| `EventFeed` | what the events of a run promise: a log and cursors | abstract specification |
| `Turns` | the rounds of a run, the ledger and the history | state machine |
| `Compaction` | the window of a session and what shortens it | state machine over pure operators |
| `Checkpoints` | a session in memory, in the ledger and in its file | state machine |
| `Conversations` | binding, conversations and messages of a host | state machine |
| `Subagents` | child agents, their rows, watchers and futures | state machine |
| `ServiceControl` | the scripts, the processes and the drain | state machine |
| `RuntimeState` | work board and question of a workspace | state machine |
| `ShellCalls`, `HostCalls`, `ToolCatalog` | tools: output, credentials and repetition, catalog | state machines |
| `WorkspaceRuntime`, `WorkspaceSync`, `Migration` | containers, files, start-up | state machines |
| `SharedSkills`, `Extensions`, `Images`, `Accounts` | what platforms store | state machines |
| `ModelStream`, `ModelConfig` | an answer of a model; the layers of a configuration | state machines |
| `SchedulingProps`, `AgentRunsProps` | properties of the two largest modules | |
| `Lists`, `ListsProofs` | lists by the positions they take their elements from; facts of numbers, lists and recursion | operators, lemmas |
| `SchedulingProofs`, `RunEventsProofs`, `SessionsProofs` | theorems about the modules themselves | |
| `RunsProofs`, `EventsProofs`, `OrchestrationProofs`, `PlatformProofs` | theorems about further modules, and about what `MCRuns`, `MCRunEvents`, `MCOrchestration` and `MCSessions` put together | |
| `MCScheduling`, `MCAgentRuns`, `MCRuns`, `MCRunEvents`, `MCOrchestration`, `MCSessions` | instances for TLC | |

The other modules state their properties at their end.  Several of the MC modules
put parts beside each other that share no state: the initial state chooses the part
a behaviour is about (`focus`), the others rest, so the parts are checked one by one
in a single run and no interleaving of unrelated steps is explored.

### Scheduling

`task` and `run` are the tables.  A run is identified by its task, its instant
and whether a tick or a person made it, which is the key of the unique index: a
tick whose INSERT meets an existing key is rolled back as a whole (`Conflict`).
`Tick` is `tick_once` with the transaction of `materialize_due_schedule_tasks`;
`Planned`, `Candidates`, `Cursor` and `Occurrences` are `_build_plan` for the
three missed-run policies.  `Claim` and `Finish` are a worker; the execution
between them may end in any outcome.  `Start` recovers the leases that have
expired, `Stop` cancels what the workers hold, `Crash` forgets the memory of the
process.  A request is `Begin...` (the row as a thread reads it, with all its
checks) followed by `WriteTask` or `InsertManual` on the row as it then is, with
`Reread` between them where `set_schedule_task_status` takes its revision from a
second read.  `NextOcc` is a constant: any recurrence whose next instant is later
than its argument, which is what the docstring of `next_occurrence` promises.

### Execution and Recurrence

`Execution` opens the step between `Claim` and `Finish`.  `hand[w]` is what a worker
does for which trigger, `agent[f]` and `task[f]` are the row and the driver of its
run.  `asyncio.wait_for` awaits the driver's task itself, so a timeout (`TimeOut`),
a stop and a user's `Strike` are the same `task.cancel()`: the driver swallows it in
its turn and dies of it in its clean-up (`Die`), and `Answered` and `Interrupted`
record what the worker makes of that.

`Recurrence` is `next_occurrence` for every kind of rule over a calendar whose hours,
days and months are short and whose clock goes back or forward once (`Clocks`).
`Instant` and `Local` are `astimezone`; `NextTime`, `NextInterval` and `NextCron` are
the three searches; `Due` is the reference: the set of instants the rule names.

### AgentRuns

An action is what happens between two awaits.  `driver[r]` is the await in which
`_drive_run` is suspended: in the engine, after it asked, publishing `aborted`,
settling, persisting, cancelling subagents, publishing its end, closing.
`ending[r]` is the terminal event it will publish.  `live` is `_session_runs`,
`lock` is `_lock`, held by a start or a resume while it persists a session, for
all sessions.  `cancel[r]` is `task.cancel()`; the `CancelledError` is delivered
where the coroutine goes on, and what it does there differs: the engine turns it
into an abort, the clean-up lets it pass every `except Exception`
(`CleanupCancelled`), a publication is finished first (`finish_on_cancel`), and
`_close_run` loses it only while it waits for the lock (`CloseCancelled`).
`req[c]` is the request a coroutine serves.  `Answer` resolves the question
before `ResumeRow` compares and sets the row; `ResumeStep` and `LaunchResumed`
follow with the lock released in between.  The request `fault` lets store and file
operations raise where the code handles it.

### RunEvents

`log` is the rows of `run_events` of one run; the number of an event is its
position.  `Commit` appends under the publish lock of the run.  `Deliver` takes the
subscribers under `_lock` and visits them one by one (`Visit`); at the first full queue
it has to wait for `_lock` again, with others still to feed (`walk`), and `GoOn` closes
that subscriber and continues.  `CloseRun` may come in between and put its `None` into
queues the delivery has not come to.
`StoreAppend` is the events the store writes by itself.  A reader is
`stream_host_run_events`: `Connect` subscribes, `ReadLog` replays, `Drain` merges
what was queued meanwhile, `Yield`, `Follow` and `Take` send; `Drop` breaks the
connection, and the client connects again from the largest number it received.  The
stream of the page leaves out the merge (`Replay`) and passes over what it has sent.

### Turns and Compaction

`Turns`: a round is an attempt in the ledger before and after the stream
(`attempt`), calls that are claimed before and receipted after (`receipt`), and
entries of `history` written with the checkpoint that follows.  A cut-off may fall
between any two; `recover_attempts` and the repair at the next start are actions.
`ApiMessages` is `to_api_messages`, `Accepted` what a model service demands of it.

`Compaction`: every message has an id and the ids it stands for.  `Scan` goes through
a window once and does what `to_api_messages`, the validator and `api_groups` do, which
keep the same set of calls without a result; `GroupStarts` is where a group begins, and
what is replaced, kept or split is a position (`Cuts`, `Until`, `Beyond`, `CutOut`).  `job` is the
summary that awaits a model, `asked` what the request in hand was built from; the
four ways to shorten the window (summary, native checkpoint, handoff of a foreign
service, archive cut) are actions with the checks of `compact_session_async` and
`ContextIntegrityValidator`.  Whether something fits is a free choice at every step
that asks, as token counts are calibrated estimates.  `astray` names the messages let
go by the divergences of section 4.

### Checkpoints, Conversations, Subagents, RuntimeState

`Checkpoints`: a writer freezes the object under a generation (`Freeze`, `queued`),
commits by compare-and-swap of the revision (`Capture`) and replaces the file
(`Replace`, which may fail twenty times); `deletion` walks through `delete_session`,
and old objects go on editing and saving.

`Conversations`: every request reads, decides and writes in separate calls of the
store; answers get lost, so a key is sent again.

`Subagents`: a run of a child ends in two steps, its row and then its driver;
`watch` is a watcher per run, `future` the one entry of `_futures` per child,
`cancels` the calls of `_cancel_row` under way.  A run may also end with a question
(`EndKid` to `waiting_input`), which its watcher copies and delivers as any other
result.  What happens to it then passes the service by: `AnswerKid` resumes it and
`SettleKid` ends it without a watcher.  `CutKid` is the end of the grace of `cancel_run`
in the clean-up of a driver, of which the watcher that awaits it dies ("lost").  Runs that
went on or ended past their watcher are `loose`.

`RuntimeState`: tools and stops run on the loop, the page's requests for the board
in a thread between their read and their write (`patch`); `stop` is
`settle_aborted_run` between its two visits of the lock.  `expected` is the board if
every acknowledged operation took effect.

### ServiceControl

`script` is a script between two looks at the system, `proc` the life of each
process it may look at; `work` and `drainer` are `LifecycleService` of each.  A lease
ends while its script is not polling; a script that has been told "drained" signals
before the lease ends (30 seconds against one poll; stated at `Expire`).

### Tools

`ShellCalls`: the readers of the two streams of a process append to one record and one
log under `ToolExecutionService._lock`, holding it while a thread writes; `shell` has
the ways a call ends.  `HostCalls`: the request carries a token, a 401 leads to one
refresh and one repetition, while the page binds new credentials and a subagent works
with a copy of the old ones.  `ToolCatalog`: sources with priorities, revisions,
snapshots of a run.

### Workspaces

`WorkspaceRuntime`: containers are numbered; `cmd` is a `run_shell` with its place
inside or outside the lock, `remover` a rebuild, collection or deletion, `marked` the
two marker files.  Whoever waits for `docker run` or `docker rm -f` (`Awaited`) may be
cancelled, which frees the lock and does not stop docker: the command is then in `late`
and comes through at any later moment (`CutOff`, `LateRun`, `LateRemoval`).  `WorkspaceSync`: files are values of a path on the host and in the
container; `upper` is what `docker diff` can see.  `Migration`: `source`, `target`,
`kept` and `journal` over start-ups that end anywhere.

### Platforms and models

`Accounts`: `act[u]` is a route between its check and its write.  `Images`: every call
of docker is awaited, so creations, publications and cleanings run between each
other's steps.  `SharedSkills`: the publisher and the collector hold the store's lock,
a pin and a fork do not.  `Extensions`: `publish` and `manage` hold the write lock of
the database, so what matters is what the author had read when composing the request,
requests that are sent again, and the file that is written before the commit.
`ModelStream`: a service with `answer` to say speaks one of three protocols with the
repetitions of gateways (`style`); `shown` and `items` are what the client makes of
it.  `ModelConfig`: the run resolves a configuration along one path, the page along
another; `saving` is a save that has read the key it keeps.

Lists that the code filters or sorts are functions of positions here (`Picked`, `InOrder`
of `Lists`), as nothing is known to the provers of `SelectSeq` and `SetToSortSeq`.

## 3. Runs

Times are of two workers on a small machine, between 20 seconds and 3 minutes.

| Run | Question | Instance | Result |
|---|---|---|---|
| `SchedulingCrash` | do ownership, accounting and the life of an occurrence survive crashes, stops and restarts? | 1 task, 2 workers, 3 instants, manual runs, catch-up plans with an end or a maximum, 1 crash | holds, 685 000 states |
| `SchedulingRaces` | do counts, limits and approval survive two request threads and a dispatcher that catches up? | 1 task an earlier release left unapproved, 2 threads, 10 kinds of request, 4 instants, 4 revisions | holds, 1 035 000 states |
| `SchedulingProgress` | does anything starve? | 2 tasks, ticks of one task, drain, stop, archive, crash, fairness | holds, 25 000 states |
| `SchedulingStaleUpdate` | does an update keep `next_run_at` fresh? | 1 task, 1 thread | violated |
| `RunsFaults` | do table and drivers agree whatever fails?  Is what tools, the host and the page tell a run whole? | *runs*: 1 session, 2 runs, 2 clients, questions, answers, aborts, force, faults, 1 crash; *registry*: 2 sessions, 2 runs, 2 clients, aborts, force, cancellation by the row, faults, 1 crash; *shell*: 2 calls, 2 chunks; *host*: a session and its subagent, 3 tokens; *state*: an agent and its subagent, 2 items, 2 questions, 3 updates | holds, 953 000 states |
| `RunsProgress` | does every run settle, every wait end, and is the registry exact? | 1 session, 2 runs, 1 client, faults, timeouts, 1 crash, fairness | holds, 202 000 states |
| `RunsAnswerLost` | can a waiting run still be answered? | 1 session, 2 runs | violated |
| `Events` | does a client that reconnects receive all of the log in order?  Do overflowing queues keep their bound?  Do the rounds of a turn leave a history and requests a model accepts, and does a stop end it? | *wide*: 1 reader, 4 events, queue of 5, 2 broken connections; *narrow*: 2 readers, 3 events, queue of 2, faults; *turns*: 2 attempts, 2 calls, 2 runs, a crash or a result of a subagent; fairness | holds, 1 386 000 states |
| `EventsOverflow` | is anything lost when a queue overflows? | *narrow* with 1 reader, 5 events, 1 broken connection | violated |
| `Orchestration` | is what is drained idle?  Do rows of children follow their runs, results arrive, children stop?  Does a schedule ask for the instants it names, and does its history say what happened? | *service*: 2 scripts, 2 processes, 2 kinds of work; *subagents*: 1 child with 2 runs that may be cut off, the first of which may ask, 2 parent runs, a restart; *recurrence*: 12 rules, 3 clocks, 160 ticks; *execution*: 2 triggers, 2 workers, 3 plans; fairness | holds, 242 000 states |
| `Sessions` | are sessions, windows, catalogs, containers, files, rights, images, entries, answers and configurations kept through everything that overlaps? | 13 parts, each with two of everything that races; bounds in `Sessions.cfg` | holds, 794 000 states |
| `WorkspaceUploads` | does an upload survive a command that runs? | *sync* | violated |

The properties of the parts of a run are collected under one name where they say the
same kind of thing (`HostsAreServed`, `FilesAreKept`, `PlatformsAreSound`,
`ModelIsSound`, `SchedulesAreExact`, `CallsAreSound`, `SessionsAreKept`); the modules
hold the parts, each with what it says and the line of the code it is about, and the
mutants break the parts one by one.

`CHECK_DEADLOCK FALSE` everywhere: the instances are bounded (clock, revisions,
run identifiers, events), and a service without requests rests.

**Bounds.**  `Horizon` lets a task have two or three occurrences, enough for one
to be missed, one to be due and one to follow, and for `ends_at` and `max_runs`
to end in the middle of a catch-up.  `MaxRev` lets two requests of two threads
conflict and one more follow.  One crash suffices because a restart leaves no
memory but the tables, and these take every value without it.  Two runs of one
session are enough for every conflict about the session; the second session
matters for the lock only.  Two workers make the smallest race for a run.
`WideCapacity` exceeds `WideEvents`, so that a queue cannot overflow and readers never
meet: one is enough.  `NarrowCapacity` is so small that queues overflow before and while
the run closes; there two readers are needed, the one at whose full queue the delivery
waits and the one it has not come to.  Three events fill a queue and leave one to deliver.
Two attempts, two calls and two runs let a turn be cut off in each of its steps and a
second one find what is left.  Eight messages are two tool groups with two turns of
conversation, so that a summary has something to replace, to keep and to split; two
compactions make a checkpoint the source of the next.  Four checkpoints let two
writers overtake each other around a deletion.  A child with two runs has an old and a
new watcher; the first may end with a question, so that a later message finds it
unanswered, answered or given up.  Faults of containers (`MaxFaults`) are a container
that disappears, a restart of the API, or a docker command that outlives its caller: one
of them, at any moment.  Two containers of a workspace are one and the one that replaces it; three
changes of files are a command, an upload and one more in either order.  The calendar
has two minutes an hour and four hours a day and covers five weeks and five months, so
that every combination of the fields occurs on both sides of the change of the clock;
`SearchMinutes`, the `5_270_400` of `recurrence.py:118`, covers the seven years after which
dates fall on the same weekdays.
What a `"foreign"` interface does to a window is part of what a `"native"` one does, so the
runs leave it out; the theorems do not.  Each part with people, tokens, images or bundles has two of them: one acts on what the
other has changed.

**Constraints.**  Two runs stop following a behaviour once one of the divergences of
section 4 has happened in it, as nothing is claimed of what comes after:
`MCSessions!NotRaced` (`raced`: a command started during the unlocked recovery of the
name resolution, or a cancelled `docker run` came through beside another container, or a
listing wrote back a replaced row; what follows such a listing is followed as long as
nothing fails, and only `NoOrphanBox` claims nothing of it; `torn`: a copy that another
writer overtook; `abandoned`: a creation of an image that was given up; `overlaps`: calls
about accounts that do not see each other; and as a bound, nobody lists after a fault) and
`MCRuns!NotRaced` (`overlap`: the sessions of one workspace, or a stop and a request,
were at the board at the same time).  In `Sessions` the commands of a workspace are
interchangeable (`CommandSymmetry`).  Other ghosts narrow one property and nothing
else: `astray`, `rewritten`, `spoiled`, `crossed`, `overtaken`, `misnamed`, `spoilt`,
`loose`, `reborn`; each names the divergence it stands for.

**Fairness.**  The event loop runs every coroutine that is ready, so a driver, a
request once admitted, a delivery and a stream go on (weak fairness; strong where
they wait for a lock that others take in turn).  The sweeper, the ticks and the
workers are loops that come round while the process is up; a drain is released
or its lease of 30 seconds ends; a stopped process is started again by whoever
operates it.  A reader connects again (`docs/host-agent-orchestration.md:161`).  A
watcher, a cancellation and a wait of the subagents go on, and so does a turn once it
was asked to stop, through its timeouts.  No request, abort, crash, answer of a model
or broken connection is promised.  Where modules are checked together, fairness is asked
only of the one a behaviour is about: a part that rests is not kept waiting.  `QueuedIsTaken` takes workers to survive what they
execute, as the comment at `scheduling/scheduler.py:183` says (see section 4).

**Mutants.**  Each property has changes of definitions in the way a plausible
bug would change the code (marked `mutant:` in the modules), and TLC finds the
property violated with them: a claim that does not look at the status, a registry
entry that survives its driver, a publication without the lock, and so on.

## 4. Where the code and its documents differ

Asserted by a run:

* `SchedulingStaleUpdate`: `update` computes `next_run_at` from an earlier clock
  and the revision does not protect it, as a tick does not change the revision.
  A materialized instant comes back, and from then on the unique index rolls
  back every tick, of all tasks.
* `RunsAnswerLost`: an answer that arrives before the run is waiting resolves the
  question, is then refused, and the run waits for a question that no longer exists.
* `EventsOverflow`: making room for the `None` drops the oldest queued event, and
  a client that reconnects from the largest number never sees it.
* `WorkspaceUploads`: a file uploaded while a command changes the same path is
  silently replaced by the command's at the next sync.

Behaviours of the models that no property asserts, found while they were written:

*Schedules*
* a run held at a crash stays `running` when the process starts again before its
  lease has expired: leases are recovered only at start (`scheduler.py:37`);
* `pause` checks the status on one read and takes the revision from another, so
  that an archive in between is overwritten (`scheduling/service.py:258`);
* two creations count before either inserts, and pass the quota (`service.py:50`);
* where a clock leaves out an hour that does not begin with a full one (Newfoundland left
  out 00:01 to 01:01 until 2011), the rule `0,30 1 * * *` comes at 02:00, as 01:00 is left
  out, and passes over 01:30; `Recurrence` is about the others (`ChangeAt % Hour = 0`);
* the search of a cron rule starts over in the first pass of a repeated hour, so that
  asked in the second pass it answers an instant before its argument, against the
  docstring at `recurrence.py:143`; in the scheduler the same key is inserted at each
  tick, and the unique index rolls back the ticks of all tasks until the hour ends;
* `*/1` counts as a restricted field in the choice between day and weekday, and
  weekdays start on Monday = 0, against the "5-field cron" of `README.md:104`; times
  the clock leaves out come an hour later, cron and daily rules skip the second pass
  of an hour; an interval whose anchor lies ahead starts at the anchor plus one;
* a driver that a user's forced cancellation meets in its clean-up dies of it; the
  executor records "cancelled, scheduler stopped", and the worker returns for good
  (`scheduler.py:181`) although "worker 必须持续服务后续任务" (`:183`);
* a timeout that meets the driver in its turn is swallowed and recorded as failed; a run
  that waits for an answer is recorded as failed while it waits, and may be resumed;
  with the policy `skip`, a run begun between check and start is recorded as failed.

*Runs and events*
* a run cancelled by its row while it is being resumed is driven all the same,
  and leaves its terminal status (`CancelOrphan` before `LaunchResumed`);
* a forced cancellation that meets the clean-up of a driver leaves the row
  `running` (`CleanupCancelled`), and one that meets `_close_run` behind the lock
  of another session leaves the registry entry (`CloseCancelled`): `RegistryIsExact`
  is proved for one session, and for any number of them without forced cancellations;
* a start that fails after its row was inserted and before its `try` leaves the row
  (`agent_run_service.py:162`), a resume whose request is cancelled while it waits for
  the lock leaves it `running` (`:285`), and so does a second failure after a failed
  publication (`:588`); `_publish_locks` keeps a lock per run for ever;
* a subscriber that empties its queue between the overflow and its closing is
  unsubscribed without a `None`, and its stream sends heartbeats for ever;
* a delivery waits for `_lock` at a full queue (`agent_run_service.py:659`), and
  `_close_run` may put the `None` into queues it has not come to: the event lands behind
  the `None`, where no stream reads it; the client finds it in the log when it reconnects.
  A queue may get two `None` this way;
* an event the store wrote by itself is skipped by a live reader when another
  publisher commits before the run closes;
* a rerun or an edit checks in a thread that no run is active, and a run may start
  before it cuts the messages (`api/routes/agent.py:65`).

*Engine and context*
* calls skipped because of stalls are reported to the model as interrupted, and the
  text of an answer with invalid calls is lost;
* the messages of a request are built before the model call and compaction after it
  (`engine.py:803`, `:1050`): a result of a subagent that joined meanwhile, or the
  checkpoint another compaction committed in the same round, is not among what
  `compact_session_async` keeps (`context_pipeline.py:159`) and leaves the window
  without a trace, against `docs/host-agent-orchestration.md:530` and `:648`;
* `split_checkpoint` drops boundary markers (`message_groups.py:37`), and the archived
  segments they lead to can no longer be reached;
* a result that arrives during the summary raises `ContextIntegrityError` (`:280`), and
  the parent run fails;
* a session whose deletion is cut off keeps its `session.json`, and a session created
  anew under a deleted id accepts writes of the objects of the old one (`host.py:116`).

*Subagents and runtime state*
* a child that asks the user something is reported to its parent with the result
  `waiting_input`, and a `wait` that polls lasts until the run is over; when the run is
  answered, stopped or given up through its own session, neither the row of `subagents`
  nor the parent learns of it, and a child that was answered after its parent's stop
  goes on;
* a watcher whose driver is cut off in its clean-up dies of the same `CancelledError`
  (`except Exception`, `subagent_service.py:408`): no result is brought to the parent, and
  nothing resolves the future, so that only its timeout ends a wait;
* a message sent while its child is destroyed, a cancellation of the parent that began
  a later run, a crash that leaves the row `running`, and a watcher whose injection
  fails and sets the row to failed;
* the board and the question are files of a workspace behind a lock per session
  (`runtime_state/store.py:27`): a parent and its subagent overwrite each other's
  updates, and a stop of the subagent cancels the parent's question; the page answers a
  subagent's question as its parent's; `settle_aborted_run` takes the lock twice.

*Tools*
* the record of a shell call stays active after an error that is neither failure, abort
  nor timeout (`tool_service.py:1013`); an `OSError` of one reader leaves the other
  reader and the process running; logs are named by the call id of the model;
  the history of records grows without bound;
* a subagent has a copy of a rotating refresh token (`session_service.py:272`), and a
  refresh under way overwrites the credentials the page binds meanwhile.

*Service*
* two scripts that start the service at once; `start` takes a foreign process on the
  port for its own (`process_control.py:398`, `:502`), and the guard reports success
  when the process is gone;
* conversations are updated without compare-and-swap (`store.py:1650`, `:2195`); a key
  whose run failed is answered with that run for ever.

*Workspaces*
* the recovery of the name resolution replaces the container without the lock
  (`workspace_runtime_service.py:1127`) under a second command, against
  `docs/host-agent-orchestration.md:485`; a listing writes back a row it read before
  `docker inspect` (`:234`), and the container of the newer row is left behind;
* a command that is cancelled while docker makes or removes its container
  (`workspace_runtime_service.py:483`, `:615`) leaves the docker process running and the
  lock free: the container may appear after the row was replaced, under a name that no row
  has, and a late removal may hit the container, and the files, of the next command;
* after a timeout or a cancellation, rebuild is refused as long as a marker is set,
  though the messages advise it (`:105`, `:1113`); a container that has disappeared
  while a marker is set makes every later command, rebuild and deletion fail;
* files that were created in a container and removed by a later command never appear in
  `docker diff`; the entries of the checkpoint survive a hydration, so that a change back
  is not exported; one conflict makes every later sync fail;
* a pin that comes after the deletion of its workspace makes the directory again
  (`workspace_sync_service.py:53`) with the pin alone, and nothing opens or removes it any more;
* a fork copies metadata while a baseline is pinned, and a collection during a fork whose
  source is deleted removes packages the copy refers to;
* a retry of the migration that is cut off while it rewrites the state in place loses it
  (`workspace_service.py:176`).

*Platforms*
* two administrators who demote each other leave none; a login writes back the role it
  read (`store.py:996`); an approval cut off by a restart leaves its request pending and
  answered with 409 for ever; an approval and a rejection at once leave a platform with
  a rejected request; each restart makes the seed account the primary administrator of
  the built-in platform again;
* a base image published again under its tag keeps the derived image of the old one;
  `docker image rm -f` of a replaced image takes it from another platform; a cleaning
  removes an image another creation was just promised; a creation that is cut off leaves
  its image until the next build, and the `docker build` of one that is cancelled goes on
  in the daemon and may give its tag to a late image;
* a retry of a publication whose policy was changed meanwhile is refused though it was
  published; a publication unlisted before the answer is composed answers an error.

*Models*
* fragments of a Responses stream without an item id, of items that have one, are
  published twice;
* saving a platform's configuration without a key drops the stored key; a save of a user
  that keeps the key overwrites a newer one; the page reads the rows several times.

*Not modelled, seen while reading*
* `mcp.json` is read, changed and written by threads without a lock; the tokens of a flow
  that is still running are stored after the server was deleted; the back-off of an MCP
  server is computed from the time before the attempt, so that a slow server is tried in
  every round; tool descriptors are cached for a minute after a change;
* the stream of `POST /chat` has `run_started` twice, and after a resume only the events
  since the resume.

## 5. Proofs

Every theorem holds for any number of tasks, clients, workers, sessions, runs, children,
scripts, readers, workspaces, users and so on, for any bound, and for any recurrence;
none depends on the constants the runs choose.  A theorem about a module says `Spec` of
that module (or its `Init /\ [][Next]_vars`), one about an MC module the specification
that its run checks.

| Theorem | Statement |
|---|---|
| **`SchedulingProofs`** | |
| `TypeCorrect` | `Spec => []TypeOK` |
| `RunCountIsExact` | `Spec => []RunCountCountsOccurrences` |
| `WorkersOwnTheirRuns` | `Spec => []WorkerOwnsItsRun` |
| `UnapprovedTasksNeverRun` | `Spec => []UnapprovedNeverRuns` |
| `FailuresStayBacked` | `Spec => []FailuresAreBacked` |
| `NextRunsAreFresh` | `NoUpdates /\ Spec => []NextRunIsFresh` |
| `MaxRunsIsRespected` | `Spec => MaxRunsRespected` |
| `RestoredTasksAreSound` | `Spec => RestoredTasksCanRun` |
| `OccurrencesAreDue` | `Spec => OnlyDueOccurrences` |
| `OccurrencesImplemented` | `Spec => OccurrenceSpec` (refinement) |
| **`RunsProofs`** | |
| `TypeCorrect` | `Spec => []TypeOK` (of `AgentRuns`, as the next five) |
| `OneDriverHolds` | `Spec => []OneDriver` |
| `DriversStayRegistered` | `Spec => []DriversAreRegistered` |
| `DrivenRunsAreRunning` | `KeptRows /\ Spec => []DrivenRunIsRunning` |
| `RegistryStaysExact` | `(Unforced \/ Alone) /\ Spec => []RegistryIsExact` |
| `TableImplements` | `KeptRows /\ Spec => SessionRunsSpec` (refinement) |
| `SessionsHaveOneDriver` | the first three in `CallsSpec` of `MCRuns` |
| `CredentialsAreKept` | `HostSpec => []HostCallsAreSound` |
| `OutputsAreExact` | `ShellSpec => []ShellOutputIsExact` |
| `BoardsLoseNothing` | `StateSpec => []StateIsKept` |
| `CallsReachRuns` | `CallsSpec => []CallsAreSound` |
| `QuestionsAreAnswered` | `CallsSpec => []QuestionsAreTold` |
| **`EventsProofs`** (over `RunEventsProofs`) | |
| `QueuesAreBounded` | `FairSpec => []QueuesStayBounded` |
| `StreamsImplementFeed` | `FairSpec => FeedSpec` (refinement) |
| `HistoriesAreFaithful` | `FairSpec => []HistoryIsFaithful` |
| `RequestsAreSound` | `FairSpec => []RequestIsSound` |
| **`OrchestrationProofs`** | |
| `DrainedStaysIdle` | `ServiceSpec => []DrainedIsIdle` |
| `RowsFollowRuns` | `SubagentsSpec => []RowFollowsRun` |
| `ResultsStayApart` | `SubagentsSpec => NothingAfterDestroy` |
| `HistoryIsWhatHappened` | `ExecutionSpec => []ExecutionIsRecorded` |
| `OccurrencesAreExact` | `RecurrenceSpec => []RecurrenceIsExact` |
| `PartsAreSound` | the first three in `FairSpec` of `MCOrchestration` |
| `SchedulesStayExact` | `FairSpec => []SchedulesAreExact` |
| `PartsAreTyped` | `FairSpec => []TypesOK` |
| **`SessionsProofs`** | |
| `LiveSessionsCanSave` | `CheckpointsSpec => []LiveSessionCanSave` |
| `SessionsStayDeleted` | `CheckpointsSpec => []DeletedStaysDeleted` |
| `CheckpointsGoForward` | `CheckpointsSpec => NoCheckpointGoesBack` |
| `RequestsStayApart` | `ConversationsSpec => []RequestsKeepApart` |
| `CatalogsAreCoherent` | `CatalogSpec => []CatalogIsCoherent` |
| `StreamsAreFaithful` | `StreamIsFaithful` of `ModelStream` |
| `RuntimesAreSafe` | `RuntimeSpec => []RuntimeIsSafe` |
| **`PlatformProofs`** | |
| `DeletionsStay`, `MigrationsKeep`, `SkillsAreKept` | `DeletionsLast`, `LegacyIsKept`, `SharedSkillsAreKept` of `WorkspaceSync`, `Migration`, `SharedSkills` |
| `AccountsStaySound`, `ConfigsAreShown` | `AccountsAreSound`, `ConfigIsWhatIsShown` of `Accounts`, `ModelConfig` |
| `ExtensionsStaySound`, `ImagesStaySound` | `ExtensionsAreSound`, `ImagesAreSound` of `Extensions`, `Images` |
| `StoresKeepSessions` | `Spec => []SessionsAreKept /\ NoCheckpointGoesBack` (of `MCSessions`, as the rest) |
| `StoresServeHosts`, `WorkspacesAreSafe` | `Spec => []HostsAreServed`, `Spec => []RuntimeIsSafe` |
| `FilesStayKept`, `PlatformsStaySound` | `Spec => []FilesAreKept`, `Spec => []PlatformsAreSound` |
| `ModelsStaySound` | `Spec => []ModelIsSound` |
| `WindowsStayFaithful` | `Spec => []WindowIsFaithful` |
| `PartsOfSessionsAreTyped` | `Spec => []TypesOK` |

With these every invariant of a passing run is a theorem, most of them of the very
specification the run checks.  Three have a hypothesis, as the statement is false without
it: `NextRunIsFresh` and `RegistryIsExact`, whose runs check instances that meet it, and
the refinement of `SessionRuns`, whose run also has sessions without questions where the
row of a run is cancelled behind its driver.

### Assumptions

Constants are of the kinds their names say; sentinels (`None`, `Absent`, `Unassigned`,
`Nobody`, `NoDigest`, `NoQuestion`, "none") are none of the values they stand beside;
bounds are numbers; what is ordered is numbered (`SubagentsAssumption`); the sets whose
elements a proof counts are finite.  Six go beyond that: `NextOccAssumption`, that the next occurrence is later than the instant it is
computed from (the docstring of `next_occurrence`; where the code misses it stands in
section 4); `Merged \subseteq Legacy`, that what a migration combines is part of what it
found; `RecurrenceAssumption`, that the clock changes on a full hour (section 4 has the
others) and that the search covers the seven years after which a calendar repeats
(`recurrence.py:118`); `RuleAssumption`, that the fields of a rule are in their ranges, which
`_parse_time` and the checks of the weekdays and the interval enforce; `StallRounds > 0` of `TurnsAssumption` (0 switches the detection
of stalls off, which is not modelled); and `WideCapacity > WideEvents` for `StreamsImplementFeed`, that a queue has room
for all events and the `None`, without which the refinement is false, as `EventsOverflow`
shows.  All of them are named, stand in the module that declares the constant, and are
evaluated by TLC in the runs.  Four hypotheses stand in the theorems themselves, as the
statement is false without them: `NoUpdates` (no request changes a task,
`SchedulingStaleUpdate`), `KeptRows` (nobody writes the row of a run behind its driver),
and `Unforced \/ Alone` (no forced cancellation, or one session; see below).

### Arguments

*Scheduling.*  `RunCountCountsOccurrences` is inductive on top of `TypeOK`; the work is
in counting: the new keys of a task are in bijection with its occurrences, none of them
existed (`Conflict`), and no other step makes or removes an automatic key.
`UnapprovedNeverRuns` is not inductive: a request thread may hold an approval that the row
has lost.  `ApprovalInv` adds that a task past approval is approved, and that what a
thread has in hand presumes no more than the row it read.  `MaxRunsRespected` rests on
`OccurrencesWithinRemaining`: a catch-up takes the first `Remaining` missed instants, so
that it has at most that many.  `RestoredTasksCanRun` needs `RequestInv`: what the
request that restores has read is still what the row of an archived task says.
`NextRunIsFresh` is inductive with `FreshInv`: all occurrences of a task lie behind
the instant it waits for, and behind the one that a thread is about to write; an update
is the one request that may write an earlier one.  `FailuresAreBacked` needs
`WorkerOwnsItsRun`: each failure is charged for a run that is the worker's and has not
ended, so that the failed runs grow with the count.  For `OccurrencesImplemented` a key is pending, executing or settled by
its status; `Stop` needs `WorkerOwnsItsRun`, as it cancels what the workers hold.

*AgentRuns.*  `OneDriver` is not inductive.  It follows from `DriversAreRegistered`, which
needs to know what a start relies on while it awaits the persisted session: that it holds
the lock (`PersistHoldsLock`) and that its session still has no entry (`StartingIsFree`).
`IInv` is their conjunction with `TypeOK`.  `DrivenRunIsRunning` needs more: that a
request between the row it has set and the driver it will create is the only one for its
run and that nobody drives that run (`EngagedRun`, `EngagedOnce`).  `RegistryIsExact` needs that the
session of the client that holds the lock has no entry (`LockedIsFree`).  The one step
that leaves an entry without a driver is a forced cancellation that meets a driver as it
waits for the lock: somebody of another session holds it.  Without forced cancellations no
driver is cancelled (`NothingCancelled`); in a single session, a driver whose entry is
registered never finds the lock taken.  The refinement adds `OneActive`, which every step of `SessionRuns` preserves.

*RunEvents.*  `QueuesStayBounded` (`QueueInv`) is about a delivery that waits while the run
closes.  A subscriber that is still fed has no `None` (`FedIsOpen`); a queue that the
delivery under way has still to come to may have one, at its end (`ToVisit`), so that it ends
with at most one entry behind the `None` (`OneBehind`), as nobody is visited twice
(`OnTheWay`) and nothing is put after the run has closed but by that delivery.  For the
refinement a cursor is what the client has, and `StreamInv` says where every number above
it is: in the replay (`BacklogFollows`), in the queue, or with the publisher that is about
to deliver it (`NoGap`).  It rests on `OneAtATime` (one publisher at a time has a number),
`NobodyIsSlow` (no queue is full, so that no delivery waits and nothing is dropped) and `QueueIncreases` (the numbers
of a queue grow).

*Turns.*  `TurnsInv` relates the ledger to the history (`LedgerInv`: the rounds of the history
are the ones the ledger has completed and no branch has dropped), the history to the calls
under way (`HistoryInv`: outside of the execution of calls it is closed, within it the calls
below the current one have their results) and the receipts to both (`ReceiptInv`).  What a
request contains, and what the repair at the start of a run adds, are recursive functions over
the history; their facts are inductions over its positions (`SentUpTo`, `RepairedUpTo`), by
the recursion lemma of `ListsProofs`.

*Calls.*  The board: as long as no two sessions overlap it is what all acknowledged updates
make of it, and what a request or a stop has in hand is read from it as it still is
(`BoardInv`).  A host call: `EffectsByStage` counts its effects by how far it has come;
`HeldIsOwn` and `GrantIsOwn` say that nobody else has, has sent or is about to get
(`Reach`) the refresh token of a session that shares its credentials with nobody, nor the
one the host has just given to it.  The output of the shell: one reader of all the calls
appends at a time (`OneAppends`), so that what it copied is what the record still is
(`CopyIsFresh`); the record is what was handed on (`RecordFollows`), and the log that and
at most one chunk more (`LogFollows`).  Questions: the open question is the one that waits,
and nothing is said of one that is open or replaced (`OpenIsPending`,
`UnansweredIsUntold`).

*Orchestration.*  `DrainedIsIdle` needs `DrainIsHeld`: until a script that has drained a
process signals it, the drain is that script's, so that nothing is admitted and nobody
else cancels it.  `RowFollowsRun` and `NothingAfterDestroy` rest on `StartsApart` (nobody
else knows the run that a call is about to start) and `FollowsLatest`: a watcher that
waits or was woken, and a cancellation, are about the latest run of their child; no two
children have the same; and one that is running has its watcher unless it is `loose`, that
is, was answered or cut off.  What is `loose` becomes so by the steps that section 4 names,
and no longer is once its child has a later run.
`ExecutionIsRecorded` follows a trigger: it is in one hand (`HandsHold`), its run goes on
in its driver, after an answer, or in the row a dead driver has left until the worker has
settled it (`RunIsAccounted`), and a session has one run (`SessionHasOneRun`).

*Recurrence.*  `RecurrenceInv` says only that the cursor is what the search answered.  That the
answer is exact is an argument about the search: it is the least minute, of those up to
`SearchMinutes`, that the rule matches (`NatLeast`); minutes of the local time and instants
correspond outside of the change of the clock; and if there is no match within seven years
there is none at all, as a day and the one seven years later fall on the same weekday,
month and day.

*Sessions.*  `LiveSessionCanSave` needs that one object is in use while nobody deletes
the session, and that it knows the revision of the ledger (`OneObject`); that no revision
passes the bound is a count of the checkpoints that are not committed (`Pending`).
`DeletedStaysDeleted` needs that every object that outlives the deletion knows a revision,
so that its update finds no row (`NothingComesBack`).  `NoCheckpointGoesBack` needs the
order of what waits to be saved (`FrozenInOrder`) and that none of it is older than the
ledger (`LedgerIsOldest`).  A request of a host that has found a conversation found one of
its user, and one that was answered names the run of its key (`RequestIsKept`).  In the
catalog nobody has read a revision that does not exist yet (`ReadsAreOld`), so that none
names a later content, and what the page has replaced does not stay behind it
(`SupersededIsDropped`).

*Compaction.*  `CompactionInv`: the messages of the window have their shape (`WindowTyped`);
all that was said and is not `astray` is covered by them, and what they stand for is in the
window or filed (`CoversKept`); each is legal where it is, the checkpoint first, and no call
is open but while tools run (`WindowLegal`); the user's latest message is among them
(`GoalKept`); and what the request in hand does not know came from elsewhere (`RequestsKnow`).  The four ways to shorten the window are one lemma
(`ReplacingKeeps`, over what `Candidate` says of the result), as each replaces the groups up
to a cut by a head and what it splits.

*Streams.*  `StreamInv` says what has been shown of each item by counting (`Counts`), and that
the complete items are the first ones (`ItemsAreFirst`); the order of the whole follows from
the place of every fragment.

*Workspaces.*  `RuntimeIsSafe` is about behaviours in which no recovery without the lock met a
second command and no cancelled `docker run` came through beside another container (section
4); its type invariant needs neither.  Docker commands that are on their own (`late`) are
part of it: one that removes takes away the files of a container, and one that runs
makes no second container as long as the row has not moved.  Then the commands work in one container, which has all
the files that are not on the host (`UsersShareOne`), a marker is on the disk as long as
a command may write (`MarksAreKept`), nobody executes while a container is made
(`MadeAlone`), and a listing that is stale names a container that is gone
(`ListingsAreGone`).  `DeletionsLast`: what was erased is gone on the host, in the
tombstones, and in a container that was hydrated (`ErasedStayGone`).  `LegacyIsKept`:
nothing is moved before the state of the session is safe (`InOrder`), and a directory that
is there will be looked at (`IsPlanned`).  `SharedSkillsAreKept`: what a workspace refers
to the scan has seen or will see, in its own manifest or in one it was copied from
(`ScanCovers`); what is pinned is in the manifest of every workspace that was not deleted
(`gone`), as no id is used again.  The attempt to prove it found the property wrong for three workspaces, a
number no run has: a copy of a torn copy, one that a pin or a collection overtook
(section 4), is torn as well, which `SharedSkills` now says.

*Platforms.*  `AccountsAreSound`: unless two administrators act at once (section 4), who
changes a role knows it and takes it from nobody who is the last to have it
(`RolesFollow`), who removes an administrator does not remove the owner (`OwnersFollow`),
and a request has one review, which finds it pending (`ReviewsFollow`).
`ConfigIsWhatIsShown`: a save that nobody has overtaken holds the key that was asked for
last (`SavesKeep`).  `ExtensionsAreSound`: the row of an extension is what its changes, one
after the other, have made of it (`ShelfFollows`).  That images do not pile up is a count
that is inductive only over sets of cleanings (`CleaningsSuffice`): whichever of the
cleanings are through, what is left then is at most two images, the abandoned ones, and
one for each of the others; it relies on `OneImagePerTag`.

*The whole.*  The MC modules put parts beside each other of which one moves, chosen
by `focus`.  Each part's steps leave the variables of the others alone (`RunsAlone`,
`PartsAlone`, `StoresAlone`, `RuntimeAlone`, `FilesAlone`, `AccountsAlone`, `StreamAlone`,
`CompactionAlone`), so an invariant of a part is one of the whole; `FeedSpec` is the same for the two instances of `RunEvents`.

### Only model-checked

Liveness: `QueuedIsTaken`, `DueIsMaterialized`, `RunsSettle`, `EveryEventArrives`,
`AbortEnds`, `ResultsArrive` and `ChildrenStop`.  Fairness and ENABLED are out of the reach of
the prover.

Neither can it use the library's theorems of induction, which take an operator as a
parameter.  Facts about lists and recursive functions rest on lemmas that state the same of
sets: the least element of a set of numbers (`NatLeast`), induction over a set of numbers
(`Induction`), and a recursive definition over `0..n` (`Recursion`), in `ListsProofs`.  No
module uses RECURSIVE, so that every one of them can be proved about.

## 6. What the models leave out

* Content: messages, prompts, results, summaries, names, tokens, metrics.  The
  estimate of tokens is a free choice wherever it is asked.
* The stream of `POST /chat`, which replays the in-memory history into an unbounded
  queue: what it loses after a resume stands in section 4, and the page follows runs by
  the other stream.
* Variants of compaction that nothing calls: `compact_session`, `recover_from_overflow`,
  `context_manager.py`, `message_compaction.py`, `reactive_compact.py`,
  `session_memory_compact.py`, `priority_manager.py`.
* MCP (`mcp_runtime_service.py`, its authorization, `capability_service.py`): a client of
  other servers with one task per connection, whose order the `mcp` library decides; the
  files are plain reads and writes.  What was seen in it stands in section 4.
* Paths with directories and types in the synchronization; permissions and links.
* Tokens, secrets, baseline files, OAuth: checks of one request.  Limit discovery and the
  registry of models: tables.
* Search, transcripts, artifacts, prompts, generated snippets: reads and formatting.
* How a process is spawned, found by its port and killed: assumptions of
  `ServiceControl`, each at the action that uses it.
* Networks and proxies of the sandbox: docker commands without a protocol.
* The frontend, the host adapters and the site: user interface.

What docker, a host, a model service and the operating system do is external: their
actions are marked so in `PROJECT.json` and may fail wherever the code handles it.

## 7. Plan

Modelled, in this order: scheduling, runs, events; subagents, lifecycle, sessions,
runtime state, the engine's rounds, host control; recurrence and execution; workspaces
and tools; what platforms store; model clients.  Every safety property of a passing run is
proved.  What a next step would add:

1. The composition of `Execution`, `Subagents` and `AgentRuns`: that their runs are those of
   `SessionRuns`, so that an answer, an expiry or a cut-off driver is one action of the
   whole.  Today each module has the part of a run's life that it depends on.
2. An abstract specification of a history, and `Turns` as its refinement.
3. Docker commands that outlive their caller in `WorkspaceSync` and `Images` too; a directory
   remade by a late pin followed until somebody cleans it up.
4. MCP, once its order of events is under the control of this code.
