------------------------------ MODULE RuntimeState -----------------------------
(* The work board and the question of a workspace (services/runtime_state):   *)
(* two files that its sessions share, an agent and its subagent, each behind  *)
(* a lock of its own.  Tools, stops and answers run on the event loop, one at *)
(* a time; the requests of the page for the board run in a thread.            *)
EXTENDS Naturals, FiniteSets, Sequences, Lists
CONSTANTS Agent, Subagent, ItemNames, Questions, MaxUpdates, NoQuestion
ASSUME QuestionAssumption == NoQuestion \notin Questions
VARIABLES board,    \* workboard.json: the items, each with an id and a status
          patch,    \* the request in its thread: the operation, and the board it has read
          stop,     \* settle_aborted_run between its two visits: the session and what it cancels
          pending,  \* elicitation.json: the question that waits
          closed,   \* its history: how each question ended
          asker,    \* who asked
          spoken,     \* what the messages of a session say of a question
          expected, \* ghost: the board if every operation took effect when it was acknowledged
          overlap,    \* ghost: two sessions, or a stop and a request, were at the board together
          crossed,  \* ghost: questions that another session has closed
          updates
stateVars == <<board, patch, stop, pending, closed, asker, spoken, expected, overlap, crossed,
               updates>>

Both == {Agent, Subagent}
States == {"pending", "in_progress", "completed", "cancelled"}
Quiet == [op |-> "none", id |-> << >>, items |-> << >>]
NoStop == [by |-> NoQuestion, ids |-> {}]
EntryIds(items) == {items[i].id : i \in DOMAIN items}
Names == {<<n>> : n \in ItemNames}

StateTypeOK ==
  /\ \A b \in {board, expected} : \A i \in DOMAIN b : b[i].status \in States
  /\ patch.op \in {"none", "read", "add", "start", "complete", "remove", "front", "replace", "archive"}
  /\ stop.by \in Both \cup {NoQuestion}
  /\ pending \in Questions \cup {NoQuestion}
  /\ closed \in [Questions -> {"unasked", "open", "resolved", "cancelled", "replaced"}]
  /\ asker \in [Questions -> Both \cup {NoQuestion}]
  /\ spoken \subseteq Both \X Questions \X {"answer", "stopped"}

\* a board of an earlier version may have an id twice
StateInit ==
  /\ \E n \in ItemNames : board \in {<< >>, <<[id |-> <<n>>, status |-> "pending"], [id |-> <<n>>, status |-> "pending"]>>}
  /\ expected = board /\ patch = Quiet /\ stop = NoStop
  /\ pending = NoQuestion /\ closed = [q \in Questions |-> "unasked"]
  /\ asker = [q \in Questions |-> NoQuestion] /\ spoken = {}
  /\ overlap = FALSE /\ crossed = {} /\ updates = 0

-------------------------------------------------------------------------------
\* _next_unique_item_id: the id itself, or with the first suffix that is free
FreeId(id, used) ==
  IF id \notin used THEN id
  ELSE Append(id, CHOOSE n \in 2..(Cardinality(used) + 2) :
                    /\ Append(id, n) \notin used
                    /\ \A m \in 2..(n - 1) : Append(id, m) \in used)

\* _normalize_workboard_items
Normal(items) ==
  LET done[i \in 0..Len(items)] ==
        IF i = 0 THEN << >>
        ELSE Append(done[i - 1], [items[i] EXCEPT !.id = FreeId(@, EntryIds(done[i - 1]))])
  IN done[Len(items)]

SetStatus(items, id, status) ==
  [i \in DOMAIN items |-> IF items[i].id = id THEN [items[i] EXCEPT !.status = status] ELSE items[i]]

\* _apply_workboard_ops, one operation at a time; an unknown id is passed over
Apply(items, op, id) ==
  LET named == {i \in DOMAIN items : items[i].id = id}
      others == DOMAIN items \ named
  IN
  CASE op = "add" -> Append(items, [id |-> FreeId(id, EntryIds(items)), status |-> "pending"])
    [] op = "start" -> SetStatus(items, id, "in_progress")
    [] op = "complete" -> SetStatus(items, id, "completed")
    [] op = "remove" -> Picked(items, others)
    [] op = "front" -> Picked(items, named) \o Picked(items, others)
    [] op = "replace" -> IF named # {} THEN Picked(items, named) ELSE <<[id |-> id, status |-> "pending"]>>
    [] op = "archive" -> Picked(items, {i \in DOMAIN items : items[i].status # "completed"})
    [] OTHER -> items

Update(items, op, id) == Normal(Apply(Normal(items), op, id))
Operations == {"add", "start", "complete", "remove", "front", "replace", "archive"}

\* mutant: the lock covers the write only
Waits_Never(s) == FALSE
\* the lock of a session's board: a request of the page is one of the agent's
Waits(s) == patch # Quiet /\ s = Agent

\* update_workboard as a tool of a run
UpdateBoard(s, op, id) ==
  /\ ~Waits(s) /\ stop = NoStop /\ updates < MaxUpdates /\ updates' = updates + 1
  /\ board' = Update(board, op, id) /\ expected' = Update(expected, op, id)
  /\ overlap' = (overlap \/ (patch # Quiet /\ s = Subagent))
  /\ UNCHANGED <<patch, stop, pending, closed, asker, spoken, crossed>>

\* PATCH of the board: the file is read and written under the lock
BeginPatch(op, id) ==
  /\ patch = Quiet /\ updates < MaxUpdates /\ updates' = updates + 1
  /\ patch' = [op |-> op, id |-> id, items |-> board]
  /\ UNCHANGED <<board, stop, pending, closed, asker, spoken, expected, overlap, crossed>>

EndPatch ==
  /\ patch.op \in Operations
  /\ board' = Update(patch.items, patch.op, patch.id) /\ expected' = Update(expected, patch.op, patch.id)
  /\ overlap' = (overlap \/ stop # NoStop) /\ patch' = Quiet
  /\ UNCHANGED <<stop, pending, closed, asker, spoken, crossed, updates>>

\* GET of the board, or of the session: a board with an id twice is put in order
\* and saved, in a second visit to the lock
BeginRead ==
  /\ patch = Quiet /\ Normal(board) # board
  /\ patch' = [op |-> "read", id |-> << >>, items |-> board]
  /\ UNCHANGED <<board, stop, pending, closed, asker, spoken, expected, overlap, crossed, updates>>

EndRead ==
  /\ patch.op = "read" /\ patch' = Quiet
  /\ board' = Normal(patch.items) /\ expected' = Normal(expected)
  /\ overlap' = (overlap \/ stop # NoStop \/ board # patch.items)
  /\ UNCHANGED <<stop, pending, closed, asker, spoken, crossed, updates>>

-------------------------------------------------------------------------------
\* request_user_input: an older question is cancelled
PutQuestion(s, q) ==
  /\ stop = NoStop /\ closed[q] = "unasked"
  /\ pending' = q /\ asker' = [asker EXCEPT ![q] = s]
  /\ closed' = [p \in Questions |-> IF p = q THEN "open" ELSE IF p = pending THEN "replaced" ELSE closed[p]]
  /\ crossed' = IF pending # NoQuestion /\ asker[pending] # s THEN crossed \cup {pending} ELSE crossed
  /\ UNCHANGED <<board, patch, stop, spoken, expected, overlap, updates>>

\* respond_to_elicitation, for the agent's session: the page knows no other.
\* An answer that was given already is answered again, any other is refused
AnswerQuestion(q) ==
  /\ stop = NoStop /\ pending = q /\ pending' = NoQuestion
  /\ closed' = [closed EXCEPT ![q] = "resolved"]
  /\ spoken' = spoken \cup {<<Agent, q, "answer">>}
  /\ crossed' = IF asker[q] = Agent THEN crossed ELSE crossed \cup {q}
  /\ UNCHANGED <<board, patch, stop, asker, expected, overlap, updates>>

\* settle_stopped_run, settle_timed_out_run, of a run that was stopped or whose
\* question nobody answered: what is in progress is read first
BeginStop(s) ==
  /\ ~Waits(s) /\ stop = NoStop /\ updates < MaxUpdates /\ updates' = updates + 1
  /\ stop' = [by |-> s, ids |-> {board[i].id : i \in {j \in DOMAIN board : board[j].status = "in_progress"}}]
  /\ overlap' = (overlap \/ patch # Quiet)
  /\ UNCHANGED <<board, patch, pending, closed, asker, spoken, expected, crossed>>

Cancelled(items, ids) ==
  [i \in DOMAIN items |-> IF items[i].id \in ids THEN [items[i] EXCEPT !.status = "cancelled"] ELSE items[i]]
InProgress(items) == {items[i].id : i \in {j \in DOMAIN items : items[j].status = "in_progress"}}

\* mutant: the note is written from what is left after the cancellation
Noted_After(s, q) == {}
\* the note for the model that the question was not answered
Noted(s, q) == IF q = NoQuestion THEN {} ELSE {<<s, q, "stopped">>}

EndStop ==
  /\ stop # NoStop /\ ~Waits(stop.by) /\ stop' = NoStop
  /\ board' = IF stop.ids = {} THEN board ELSE Normal(Cancelled(Normal(board), stop.ids))
  /\ expected' = Cancelled(expected, InProgress(expected))
  /\ pending' = NoQuestion
  /\ closed' = [q \in Questions |-> IF q = pending THEN "cancelled" ELSE closed[q]]
  /\ spoken' = spoken \cup Noted(stop.by, pending)
  /\ overlap' = (overlap \/ patch # Quiet)
  /\ crossed' = IF pending # NoQuestion /\ asker[pending] # stop.by THEN crossed \cup {pending} ELSE crossed
  /\ UNCHANGED <<patch, asker, updates>>

StateNext ==
  \/ \E s \in Both, op \in Operations, id \in Names : UpdateBoard(s, op, id)
  \/ \E op \in Operations, id \in Names : BeginPatch(op, id)
  \/ EndPatch \/ BeginRead \/ EndRead \/ EndStop
  \/ \E s \in Both, q \in Questions : PutQuestion(s, q)
  \/ \E q \in Questions : AnswerQuestion(q)
  \/ \E s \in Both : BeginStop(s)

StateSpec == StateInit /\ [][StateNext]_stateVars

-------------------------------------------------------------------------------
\* Every update of the board that was acknowledged is in it, whether it came from
\* a tool, from the page or from a stop.  The sessions of one workspace have a
\* lock each for one file, and a stop visits the lock twice: those overlaps are
\* the exception the code makes possible.
BoardLosesNothing == overlap \/ Normal(board) = Normal(expected)

\* The model is told how its question ended: by the answer, or that it was stopped
\* and that this is no consent; never both, and nothing of one that is open or
\* that a later one replaced.  Only a question that another session of the
\* workspace closes is out of this.
QuestionsAreTold ==
  \A q \in Questions \ crossed :
    LET told == {t \in spoken : t[2] = q}
    IN /\ closed[q] \in {"unasked", "open", "replaced"} => told = {}
       /\ closed[q] = "resolved" => told = {<<asker[q], q, "answer">>}
       /\ closed[q] = "cancelled" => told = {<<asker[q], q, "stopped">>}

StateIsKept == BoardLosesNothing /\ QuestionsAreTold
===============================================================================
