----------------------------- MODULE SessionsProofs -----------------------------
(* Proofs about the parts of a session, each for every value of its constants: the *)
(* ledger and the file of a session (Checkpoints), the conversations of a platform  *)
(* (Conversations), the tools its hosts bring (ToolCatalog), the answer of a model   *)
(* as it streams in (ModelStream), the window a model is shown (Compaction) and the  *)
(* container of its workspace (WorkspaceRuntime).                                    *)
EXTENDS Checkpoints, Conversations, ToolCatalog, ModelStream, Compaction, WorkspaceRuntime, ListsProofs

-----------------------------------------------------------------------------
(* Checkpoints                                                               *)

\* Checkpoints that were given a generation and are not committed.
InQueue == IF queued # Nothing THEN 1 ELSE 0
Uncommitted == writer # Nothing /\ ~writer.captured
Pending == InQueue + (IF Uncommitted THEN 1 ELSE 0)

\* Every revision has been given to one checkpoint, so that none passes the bound.
RevisionsAreCounted ==
  /\ \A o \in Objects : object[o].revision + Pending <= tally.writes
  /\ ledger # Nothing => ledger.revision + Pending <= tally.writes
  /\ file # Nothing => file.revision + Pending <= tally.writes
  /\ writer # Nothing /\ writer.captured => object[writer.of].revision >= 1

\* While nobody deletes the session, one object is in use; once it was committed it knows
\* the revision of the ledger, before that its first checkpoint is under way.
OneObject ==
  /\ deletion = "none" => ~reborn
  /\ live # Nothing => object[live].used
  /\ writer # Nothing => object[writer.of].used
  /\ queued # Nothing => object[queued.of].used
  /\ deletion = "none" => \A o \in Objects : object[o].used => o = live
  /\ deletion = "none" /\ ledger = Nothing => file = Nothing
  /\ deletion = "none" /\ live # Nothing =>
       IF ledger = Nothing THEN object[live].revision = 0 /\ Uncommitted
       ELSE object[live].revision = ledger.revision

\* Nobody who still holds the session after its deletion can commit: there is no row, and
\* every object knows one.
NothingComesBack ==
  ~reborn /\ deletion # "none" =>
    /\ ledger = Nothing
    /\ \A o \in Objects : object[o].used => object[o].revision # 0
    /\ deletion = "done" => file = Nothing /\ (writer # Nothing /\ writer.captured => ~folder)

ChangesAreCounted ==
  /\ \A o \in Objects : object[o].content <= tally.edits /\ object[o].generation <= tally.writes
  /\ writer # Nothing => writer.generation <= tally.writes
  /\ queued # Nothing => queued.generation <= tally.writes
  /\ ledger # Nothing => ledger.content <= tally.edits
  /\ file # Nothing => file.content <= tally.edits

\* What waits to be saved is in the order of the generations, and not newer than its object.
FrozenInOrder ==
  /\ writer # Nothing => writer.content <= object[writer.of].content
  /\ queued # Nothing => queued.content <= object[queued.of].content
  /\ Uncommitted => object[writer.of].generation < writer.generation
  /\ Uncommitted /\ queued # Nothing /\ queued.of = writer.of =>
       IF queued.generation > writer.generation THEN queued.content >= writer.content
       ELSE queued.content <= writer.content

\* ... and not older than what was saved.
LedgerIsOldest ==
  deletion = "none" /\ ledger # Nothing =>
    /\ live # Nothing => object[live].content >= ledger.content
    /\ Uncommitted => writer.content >= ledger.content
    /\ queued # Nothing /\ queued.generation > object[queued.of].generation =>
         queued.content >= ledger.content

CheckpointsInv ==
  CheckpointsTypeOK /\ RevisionsAreCounted /\ OneObject /\ NothingComesBack
  /\ ChangesAreCounted /\ FrozenInOrder /\ LedgerIsOldest

ObjectRows == [used : BOOLEAN, content : Contents, revision : Generations, generation : Generations]
Tallies == [writes : Generations, edits : Contents, restarts : 0..MaxRestarts]

LEMMA CheckpointsStart == CheckpointsInit => CheckpointsInv
<1> SUFFICES ASSUME CheckpointsInit PROVE CheckpointsInv
  OBVIOUS
<1> USE CheckpointsAssumption DEF CheckpointsInit, Unloaded
<1>1. CheckpointsTypeOK
  <2>1. 0 \in Generations /\ 0 \in Contents /\ 0 \in 0..MaxRestarts
    BY DEF Generations, Contents
  <2> QED
    BY <2>1 DEF CheckpointsTypeOK
<1>2. RevisionsAreCounted /\ OneObject /\ NothingComesBack
  BY DEF RevisionsAreCounted, OneObject, NothingComesBack, Pending, InQueue, Uncommitted
<1>3. ChangesAreCounted /\ FrozenInOrder /\ LedgerIsOldest
  BY DEF ChangesAreCounted, FrozenInOrder, LedgerIsOldest, Pending, InQueue, Uncommitted
<1> QED
  BY <1>1, <1>2, <1>3 DEF CheckpointsInv

\* An update of some fields of a row is an update of the row.
LEMMA EditWrites ==
  ASSUME CheckpointsTypeOK, NEW o \in Objects, NEW c \in Contents,
         object' = [object EXCEPT ![o].content = c]
  PROVE  /\ object' \in [Objects -> ObjectRows]
         /\ object'[o] = [used |-> object[o].used, content |-> c,
                          revision |-> object[o].revision, generation |-> object[o].generation]
         /\ \A q \in Objects \ {o} : object'[q] = object[q]
<1>0. object \in [Objects -> ObjectRows]
  BY DEF CheckpointsTypeOK, ObjectRows
<1>1. [object[o] EXCEPT !.content = c] =
        [used |-> object[o].used, content |-> c,
         revision |-> object[o].revision, generation |-> object[o].generation]
  BY <1>0 DEF ObjectRows
<1>2. object' = [object EXCEPT ![o] = [object[o] EXCEPT !.content = c]]
  OBVIOUS
<1> QED
  BY <1>0, <1>1, <1>2 DEF ObjectRows

LEMMA GenerationWritten ==
  ASSUME NEW record \in ObjectRows, NEW g \in Generations
  PROVE  [record EXCEPT !.generation = g] =
           [used |-> record.used, content |-> record.content, revision |-> record.revision, generation |-> g]
BY DEF ObjectRows

LEMMA CaptureWrites ==
  ASSUME CheckpointsTypeOK, NEW o \in Objects, NEW g \in Generations, object[o].revision < MaxWrites,
         object' = [object EXCEPT ![o].revision = @ + 1, ![o].generation = g]
  PROVE  /\ object' \in [Objects -> ObjectRows]
         /\ object'[o] = [used |-> object[o].used, content |-> object[o].content,
                          revision |-> object[o].revision + 1, generation |-> g]
         /\ \A q \in Objects \ {o} : object'[q] = object[q]
<1>0. object \in [Objects -> ObjectRows]
  BY DEF CheckpointsTypeOK, ObjectRows
<1>1. object' = [object EXCEPT ![o] = [[object[o] EXCEPT !.revision = @ + 1] EXCEPT !.generation = g]]
  BY <1>0
<1>2. [object[o] EXCEPT !.revision = @ + 1] =
        [used |-> object[o].used, content |-> object[o].content,
         revision |-> object[o].revision + 1, generation |-> object[o].generation]
  BY <1>0 DEF ObjectRows
<1>3. [[object[o] EXCEPT !.revision = @ + 1] EXCEPT !.generation = g] =
        [used |-> object[o].used, content |-> object[o].content,
         revision |-> object[o].revision + 1, generation |-> g]
  <2>1. [object[o] EXCEPT !.revision = @ + 1] \in ObjectRows
    BY <1>0, <1>2, CheckpointsAssumption DEF ObjectRows, Generations
  <2> QED
    BY <1>2, <2>1, GenerationWritten
<1> QED
  BY <1>0, <1>1, <1>3, CheckpointsAssumption DEF ObjectRows, Generations

LEMMA TallyWrites ==
  ASSUME CheckpointsTypeOK
  PROVE  /\ tally.writes < MaxWrites /\ tally' = [tally EXCEPT !.writes = @ + 1] =>
              tally' \in Tallies /\ tally'.writes = tally.writes + 1 /\ tally'.edits = tally.edits
         /\ tally.edits < MaxEdits /\ tally' = [tally EXCEPT !.edits = @ + 1] =>
              tally' \in Tallies /\ tally'.writes = tally.writes /\ tally'.edits = tally.edits + 1
         /\ tally.restarts < MaxRestarts /\ tally' = [tally EXCEPT !.restarts = @ + 1] =>
              tally' \in Tallies /\ tally'.writes = tally.writes /\ tally'.edits = tally.edits
<1>0. tally \in Tallies
  BY DEF CheckpointsTypeOK, Tallies
<1>1. [tally EXCEPT !.writes = @ + 1] = [writes |-> tally.writes + 1, edits |-> tally.edits, restarts |-> tally.restarts]
  BY <1>0 DEF Tallies
<1>2. [tally EXCEPT !.edits = @ + 1] = [writes |-> tally.writes, edits |-> tally.edits + 1, restarts |-> tally.restarts]
  BY <1>0 DEF Tallies
<1>3. [tally EXCEPT !.restarts = @ + 1] = [writes |-> tally.writes, edits |-> tally.edits, restarts |-> tally.restarts + 1]
  BY <1>0 DEF Tallies
<1> QED
  BY <1>0, <1>1, <1>2, <1>3, CheckpointsAssumption DEF Tallies, Generations, Contents

LEMMA HeldCaptured ==
  ASSUME NEW w \in Held
  PROVE  [w EXCEPT !.captured = TRUE] \in Held /\ [w EXCEPT !.captured = TRUE].captured = TRUE
         /\ [w EXCEPT !.captured = TRUE].of = w.of
BY DEF Held

\* What the rows of the session can be looked up in.
LEMMA CheckpointsTypes ==
  ASSUME CheckpointsTypeOK
  PROVE  /\ live \in Objects \cup {Nothing}
         /\ \A o \in Objects : /\ object[o].content \in Contents /\ object[o].revision \in Nat
                               /\ object[o].generation \in Generations
         /\ writer # Nothing => /\ writer.of \in Objects /\ writer.content \in Contents
                                /\ writer.generation \in Generations /\ writer.captured \in BOOLEAN
         /\ queued # Nothing => /\ queued.of \in Objects /\ queued.content \in Contents
                                /\ queued.generation \in Generations
         /\ ledger # Nothing => ledger.revision \in 1..MaxWrites /\ ledger.content \in Contents
         /\ file # Nothing => file.revision \in 1..MaxWrites /\ file.content \in Contents
         /\ tally.writes \in Generations /\ tally.edits \in Contents
         /\ Generations \subseteq Nat /\ Contents \subseteq Nat
BY CheckpointsAssumption DEF CheckpointsTypeOK, Held, Frozen, LedgerRows, Generations, Contents

LEMMA EditStep ==
  ASSUME CheckpointsInv, NEW o \in Objects, Edit(o)
  PROVE  CheckpointsInv'
<1> USE CheckpointsAssumption DEF CheckpointsInv
<1>1. /\ object[o].used /\ tally.edits + 1 \in Contents
      /\ UNCHANGED <<ledger, file, folder, live, writer, queued, deletion, reborn>>
  BY DEF Edit, CheckpointsTypeOK, Contents
<1>2. /\ object' \in [Objects -> ObjectRows]
      /\ object'[o] = [used |-> object[o].used, content |-> tally.edits + 1,
                       revision |-> object[o].revision, generation |-> object[o].generation]
      /\ \A q \in Objects \ {o} : object'[q] = object[q]
  BY <1>1, EditWrites DEF Edit
<1>3. tally' \in Tallies /\ tally'.writes = tally.writes /\ tally'.edits = tally.edits + 1
  BY TallyWrites DEF Edit
<1>4. CheckpointsTypeOK'
  BY <1>1, <1>2, <1>3 DEF CheckpointsTypeOK, ObjectRows, Tallies
<1>5. \A q \in Objects : /\ object'[q].used = object[q].used /\ object'[q].revision = object[q].revision
                         /\ object'[q].generation = object[q].generation
                         /\ object[q].content <= object'[q].content /\ object'[q].content <= tally.edits + 1
  <2> TAKE q \in Objects
  <2>1. object[q].content <= tally.edits /\ object[q].content \in Nat /\ tally.edits \in Nat
    BY CheckpointsTypes DEF ChangesAreCounted
  <2> QED
    BY <1>2, <2>1
<1>6. Pending' = Pending /\ Uncommitted' = Uncommitted
  BY <1>1 DEF Pending, InQueue, Uncommitted
<1>7. (writer # Nothing => writer.of \in Objects) /\ (queued # Nothing => queued.of \in Objects)
      /\ live \in Objects \cup {Nothing}
  BY DEF CheckpointsTypeOK, Held, Frozen
<1>8. RevisionsAreCounted'
  BY <1>1, <1>3, <1>5, <1>6, <1>7 DEF RevisionsAreCounted
<1>9. OneObject' /\ NothingComesBack'
  BY <1>1, <1>5, <1>6, <1>7 DEF OneObject, NothingComesBack
<1>10. ChangesAreCounted'
  BY <1>1, <1>3, <1>5, CheckpointsTypes DEF ChangesAreCounted
<1>11. \A q \in Objects : object'[q].content \in Nat
  BY <1>4, CheckpointsAssumption DEF CheckpointsTypeOK, Contents
<1>12. FrozenInOrder'
  <2>1. writer # Nothing => writer.content <= object'[writer.of].content
    BY <1>5, <1>7, <1>11, CheckpointsTypes DEF FrozenInOrder
  <2>2. queued # Nothing => queued.content <= object'[queued.of].content
    BY <1>5, <1>7, <1>11, CheckpointsTypes DEF FrozenInOrder
  <2>3. Uncommitted => object'[writer.of].generation < writer.generation
    BY <1>5, <1>7 DEF FrozenInOrder, Uncommitted
  <2> QED
    BY <1>1, <2>1, <2>2, <2>3 DEF FrozenInOrder, Uncommitted
<1>13. LedgerIsOldest'
  BY <1>1, <1>5, <1>6, <1>7, <1>11, CheckpointsTypes DEF LedgerIsOldest
<1> QED
  BY <1>4, <1>8, <1>9, <1>10, <1>12, <1>13

LEMMA PersistStep ==
  ASSUME CheckpointsInv, NEW o \in Objects, Persist(o)
  PROVE  CheckpointsInv'
<1> USE CheckpointsAssumption DEF CheckpointsInv
<1> DEFINE held == [of |-> o, content |-> object[o].content, generation |-> tally.writes + 1, captured |-> FALSE]
<1>0. CheckpointsTypeOK
  OBVIOUS
<1>1. /\ object[o].used /\ writer = Nothing /\ writer' = held
      /\ UNCHANGED <<ledger, file, folder, object, live, queued, deletion, reborn>>
  BY DEF Persist, Hold, Freeze
<1>2. tally' \in Tallies /\ tally'.writes = tally.writes + 1 /\ tally'.edits = tally.edits
  BY TallyWrites DEF Persist
<1>3. tally.writes + 1 \in Generations
  BY <1>0, CheckpointsTypes DEF Persist, Generations
<1>4. held \in Held
  BY <1>0, <1>3, CheckpointsTypes DEF Held
<1>5. writer' # Nothing /\ writer'.of = o /\ Uncommitted' /\ Pending' = Pending + 1
  <2>1. writer' # Nothing /\ writer'.of = o /\ Uncommitted'
    BY <1>1, <1>4 DEF Uncommitted
  <2>2. ~Uncommitted /\ InQueue' = InQueue /\ InQueue \in Nat
    BY <1>1 DEF Uncommitted, InQueue
  <2> QED
    BY <2>1, <2>2 DEF Pending
<1>6. CheckpointsTypeOK'
  BY <1>0, <1>1, <1>2, <1>4 DEF CheckpointsTypeOK, Tallies
<1>7. RevisionsAreCounted'
  BY <1>0, <1>1, <1>2, <1>5, CheckpointsTypes DEF RevisionsAreCounted, Pending, InQueue
<1>8. OneObject'
  BY <1>1, <1>5 DEF OneObject, Uncommitted
<1>9. NothingComesBack'
  BY <1>1, <1>5 DEF NothingComesBack, Uncommitted
<1>10. ChangesAreCounted'
  BY <1>0, <1>1, <1>2, <1>5, CheckpointsTypes DEF ChangesAreCounted
<1>11. FrozenInOrder'
  BY <1>0, <1>1, <1>2, <1>5, CheckpointsTypes DEF FrozenInOrder, ChangesAreCounted
<1>12. LedgerIsOldest'
  BY <1>0, <1>1, <1>2, <1>5, CheckpointsTypes DEF LedgerIsOldest, OneObject
<1> QED
  BY <1>6, <1>7, <1>8, <1>9, <1>10, <1>11, <1>12

LEMMA PersistAsyncStep ==
  ASSUME CheckpointsInv, NEW o \in Objects, PersistAsync(o)
  PROVE  CheckpointsInv'
<1> USE CheckpointsAssumption DEF CheckpointsInv
<1> DEFINE frozen == [of |-> o, content |-> object[o].content, generation |-> tally.writes + 1]
<1>0. CheckpointsTypeOK
  OBVIOUS
<1>1. /\ object[o].used /\ queued = Nothing /\ queued' = frozen
      /\ UNCHANGED <<ledger, file, folder, object, live, writer, deletion, reborn>>
  BY DEF PersistAsync, Freeze
<1>2. tally' \in Tallies /\ tally'.writes = tally.writes + 1 /\ tally'.edits = tally.edits
  BY TallyWrites DEF PersistAsync
<1>3. tally.writes + 1 \in Generations
  BY <1>0, CheckpointsTypes DEF PersistAsync, Generations
<1>4. frozen \in Frozen
  BY <1>0, <1>3, CheckpointsTypes DEF Frozen
<1>5. queued' # Nothing /\ queued'.of = o /\ Uncommitted' = Uncommitted /\ Pending' = Pending + 1
  <2>1. queued' # Nothing /\ queued'.of = o
    BY <1>1, <1>4
  <2>2. Uncommitted' = Uncommitted /\ InQueue' = 1 /\ InQueue = 0
    BY <1>1, <2>1 DEF Uncommitted, InQueue
  <2> QED
    BY <2>1, <2>2 DEF Pending
<1>6. CheckpointsTypeOK'
  BY <1>0, <1>1, <1>2, <1>4 DEF CheckpointsTypeOK, Tallies
<1>7. RevisionsAreCounted'
  <2>1. Pending \in Nat
    BY DEF Pending, InQueue
  <2> QED
    BY <1>0, <1>1, <1>2, <1>5, <2>1, CheckpointsTypes DEF RevisionsAreCounted
<1>8. OneObject'
  BY <1>1, <1>5 DEF OneObject
<1>9. NothingComesBack'
  BY <1>1 DEF NothingComesBack
<1>10. ChangesAreCounted'
  BY <1>0, <1>1, <1>2, <1>5, CheckpointsTypes DEF ChangesAreCounted
<1>11. FrozenInOrder'
  BY <1>0, <1>1, <1>2, <1>5, CheckpointsTypes DEF FrozenInOrder, ChangesAreCounted, Uncommitted
<1>12. LedgerIsOldest'
  BY <1>0, <1>1, <1>2, <1>5, CheckpointsTypes DEF LedgerIsOldest, OneObject, Uncommitted
<1> QED
  BY <1>6, <1>7, <1>8, <1>9, <1>10, <1>11, <1>12

LEMMA DequeueStep ==
  ASSUME CheckpointsInv, Dequeue
  PROVE  CheckpointsInv'
<1> USE CheckpointsAssumption DEF CheckpointsInv
<1> DEFINE held == [of |-> queued.of, content |-> queued.content, generation |-> queued.generation, captured |-> FALSE]
<1>0. CheckpointsTypeOK /\ Pending = 1 /\ ~Uncommitted /\ queued \in Frozen /\ queued.of \in Objects
  BY DEF Dequeue, Pending, Uncommitted, InQueue, CheckpointsTypeOK, Frozen
<1>1. /\ writer = Nothing /\ queued # Nothing /\ queued' = Nothing
      /\ UNCHANGED <<ledger, file, folder, object, live, deletion, reborn, tally>>
  BY DEF Dequeue
<1>2. CASE queued.generation <= object[queued.of].generation
  <2>1. writer' = Nothing
    BY <1>2 DEF Dequeue
  <2>2. ~Uncommitted' /\ Pending' = 0
    BY <1>1, <2>1 DEF Uncommitted, Pending, InQueue
  <2>3. CheckpointsTypeOK'
    BY <1>0, <1>1, <2>1 DEF CheckpointsTypeOK
  <2>4. RevisionsAreCounted'
    BY <1>0, <1>1, <2>1, <2>2, CheckpointsTypes DEF RevisionsAreCounted
  <2>5. OneObject' /\ NothingComesBack'
    BY <1>0, <1>1, <2>1, <2>2 DEF OneObject, NothingComesBack
  <2>6. ChangesAreCounted' /\ FrozenInOrder' /\ LedgerIsOldest'
    BY <1>1, <2>1, <2>2 DEF ChangesAreCounted, FrozenInOrder, LedgerIsOldest
  <2> QED
    BY <2>3, <2>4, <2>5, <2>6
<1>3. CASE ~(queued.generation <= object[queued.of].generation)
  <2>1. writer' = held
    BY <1>3 DEF Dequeue, Hold
  <2>2. held \in Held
    BY <1>0 DEF Held, Frozen
  <2>3. writer' # Nothing /\ writer'.of = queued.of /\ Uncommitted'
    BY <2>1, <2>2 DEF Uncommitted
  <2>4. Pending' = 1
    BY <1>1, <2>3 DEF Pending, InQueue
  <2>5. CheckpointsTypeOK'
    BY <1>0, <1>1, <2>1, <2>2 DEF CheckpointsTypeOK
  <2>6. RevisionsAreCounted'
    BY <1>0, <1>1, <2>3, <2>4, CheckpointsTypes DEF RevisionsAreCounted, Uncommitted
  <2>7. OneObject' /\ NothingComesBack'
    BY <1>0, <1>1, <2>3 DEF OneObject, NothingComesBack, Uncommitted
  <2>8. ChangesAreCounted'
    BY <1>1, <2>1, <2>3 DEF ChangesAreCounted
  <2>9. FrozenInOrder'
    BY <1>0, <1>1, <1>3, <2>1, <2>3, CheckpointsTypes DEF FrozenInOrder
  <2>10. LedgerIsOldest'
    BY <1>0, <1>1, <1>3, <2>1, <2>3, CheckpointsTypes DEF LedgerIsOldest
  <2> QED
    BY <2>5, <2>6, <2>7, <2>8, <2>9, <2>10
<1> QED
  BY <1>2, <1>3

LEMMA GetOrCreateStep ==
  ASSUME CheckpointsInv, NEW o \in Objects, GetOrCreate(o)
  PROVE  CheckpointsInv'
<1> USE CheckpointsAssumption DEF CheckpointsInv
<1> DEFINE content == IF Loaded = Nothing THEN 0 ELSE Loaded.content
           version == IF Loaded = Nothing THEN 0 ELSE Loaded.revision
           record == [used |-> TRUE, generation |-> 0, content |-> content, revision |-> version]
           held == [of |-> o, content |-> content, generation |-> tally.writes + 1, captured |-> FALSE]
<1>0. CheckpointsTypeOK /\ live = Nothing /\ writer = Nothing /\ ~object[o].used /\ tally.writes < MaxWrites
  BY DEF GetOrCreate
<1>1. /\ object' = [object EXCEPT ![o] = record] /\ live' = o
      /\ reborn' = (reborn \/ (deletion # "none" /\ Loaded = Nothing))
      /\ UNCHANGED <<ledger, file, folder, queued, deletion>>
  BY DEF GetOrCreate
<1>2. tally' \in Tallies /\ tally'.writes = tally.writes + 1 /\ tally'.edits = tally.edits
  BY TallyWrites DEF GetOrCreate
<1>3. /\ content \in Contents /\ content <= tally.edits /\ version \in Generations
      /\ version + Pending <= tally.writes
  <2>1. (Loaded = ledger \/ Loaded = file) /\ Pending \in Nat /\ 0 \in Contents
    BY DEF Loaded, Pending, InQueue, Contents
  <2>2. Pending <= tally.writes
    BY <1>0, <2>1, CheckpointsTypes DEF RevisionsAreCounted
  <2>3. Loaded # Nothing => /\ Loaded.content \in Contents /\ Loaded.content <= tally.edits
                            /\ Loaded.revision \in Generations /\ Loaded.revision + Pending <= tally.writes
    BY <1>0, <2>1, CheckpointsTypes DEF RevisionsAreCounted, ChangesAreCounted, Generations
  <2> QED
    BY <1>0, <2>1, <2>2, <2>3, CheckpointsTypes DEF Generations
<1>4. /\ record \in ObjectRows /\ object' \in [Objects -> ObjectRows] /\ object'[o] = record
      /\ \A q \in Objects \ {o} : object'[q] = object[q]
  <2>1. record \in ObjectRows
    BY <1>3 DEF ObjectRows, Generations
  <2> HIDE DEF record
  <2> QED
    BY <1>0, <1>1, <2>1 DEF CheckpointsTypeOK, ObjectRows
<1>5. writer' = held /\ held \in Held
  <2>1. tally.writes + 1 \in Generations
    BY <1>0, CheckpointsTypes DEF Generations
  <2>2. object'[o].content = content
    BY <1>4
  <2> QED
    BY <1>3, <2>1, <2>2 DEF GetOrCreate, Held
<1>6. writer' # Nothing /\ writer'.of = o /\ Uncommitted' /\ Pending' = Pending + 1
  <2>1. writer' # Nothing /\ writer'.of = o /\ Uncommitted'
    BY <1>5 DEF Uncommitted
  <2>2. ~Uncommitted /\ InQueue' = InQueue /\ InQueue \in Nat
    BY <1>0, <1>1 DEF Uncommitted, InQueue
  <2> QED
    BY <2>1, <2>2 DEF Pending
<1>7. queued # Nothing => queued.of \in Objects \ {o}
  BY <1>0, CheckpointsTypes DEF OneObject
<1>8. CheckpointsTypeOK'
  <2>1. reborn' \in BOOLEAN
    BY <1>1
  <2> QED
    BY <1>0, <1>1, <1>2, <1>4, <1>5, <2>1 DEF CheckpointsTypeOK, Tallies, ObjectRows
<1>9. object'[o].revision = version /\ object'[o].content = content /\ object'[o].generation = 0 /\ object'[o].used
  BY <1>4
<1>10. writer'.content = content /\ writer'.generation = tally.writes + 1
  BY <1>5
<1> HIDE DEF record, held
<1>11. RevisionsAreCounted'
  <2>1. Pending \in Nat
    BY DEF Pending, InQueue
  <2>2. \A q \in Objects : object'[q].revision + Pending <= tally.writes
    BY <1>3, <1>4, <1>9 DEF RevisionsAreCounted
  <2>3. \A q \in Objects : object'[q].revision \in Nat
    BY <1>8 DEF CheckpointsTypeOK, Generations
  <2> QED
    BY <1>0, <1>1, <1>2, <1>6, <2>1, <2>2, <2>3, CheckpointsTypes DEF RevisionsAreCounted, Uncommitted
<1>12. OneObject'
  <2>1. deletion = "none" => \A q \in Objects : ~object[q].used
    BY <1>0 DEF OneObject
  <2>2. deletion = "none" => IF ledger = Nothing THEN version = 0 ELSE version = ledger.revision
    BY DEF OneObject, Loaded
  <2>3. deletion = "none" => ~reborn'
    BY <1>1 DEF OneObject
  <2> HIDE DEF version, content
  <2> QED
    BY <1>1, <1>4, <1>6, <1>7, <1>9, <2>1, <2>2, <2>3 DEF OneObject
<1>13. NothingComesBack'
  <2> SUFFICES ASSUME ~reborn', deletion # "none"
               PROVE  /\ ledger = Nothing
                      /\ \A q \in Objects : object'[q].used => object'[q].revision # 0
                      /\ deletion = "done" => file = Nothing /\ (writer' # Nothing /\ writer'.captured => ~folder)
    BY <1>1 DEF NothingComesBack
  <2>1. ~reborn /\ Loaded # Nothing
    BY <1>1
  <2>2. ledger = Nothing /\ file # Nothing /\ Loaded = file
    BY <2>1 DEF NothingComesBack, Loaded
  <2>3. version # 0
    BY <1>0, <2>1, <2>2, CheckpointsTypes
  <2> HIDE DEF version, content
  <2> QED
    BY <1>4, <1>9, <2>1, <2>2, <2>3 DEF NothingComesBack
<1>14. ChangesAreCounted'
  BY <1>0, <1>1, <1>2, <1>3, <1>4, <1>6, <1>9, <1>10, CheckpointsTypes DEF ChangesAreCounted
<1>15. FrozenInOrder'
  BY <1>0, <1>1, <1>3, <1>4, <1>6, <1>7, <1>9, <1>10, CheckpointsTypes DEF FrozenInOrder
<1>16. LedgerIsOldest'
  <2> SUFFICES ASSUME deletion = "none", ledger # Nothing
               PROVE  /\ content >= ledger.content
                      /\ queued = Nothing
    BY <1>1, <1>6, <1>9, <1>10 DEF LedgerIsOldest
  <2>1. content = ledger.content
    BY DEF Loaded
  <2>2. queued = Nothing
    BY <1>0, CheckpointsTypes DEF OneObject
  <2> QED
    BY <1>0, <2>1, <2>2, CheckpointsTypes
<1> QED
  BY <1>8, <1>11, <1>12, <1>13, <1>14, <1>15, <1>16

LEMMA CaptureStep ==
  ASSUME CheckpointsInv, Capture
  PROVE  CheckpointsInv'
<1> USE CheckpointsAssumption DEF CheckpointsInv
<1>0. /\ CheckpointsTypeOK /\ Uncommitted /\ writer \in Held /\ writer # Nothing /\ ~writer.captured
      /\ folder' = TRUE /\ UNCHANGED <<file, live, queued, deletion, reborn, tally>>
  BY DEF Capture, Uncommitted, CheckpointsTypeOK
<1>1. PICK o \in Objects : o = writer.of
  BY <1>0 DEF Held
<1>2. object[o].used /\ InQueue' = InQueue /\ InQueue \in {0, 1} /\ Pending = InQueue + 1
  BY <1>0, <1>1 DEF OneObject, InQueue, Pending
<1>3. CASE Refused(o)
  <2>1. writer' = Nothing /\ UNCHANGED <<ledger, object>>
    BY <1>1, <1>3 DEF Capture
  <2>2. ~Uncommitted' /\ Pending' = InQueue
    BY <1>2, <2>1 DEF Uncommitted, Pending
  <2>3. deletion # "none"
    <3> SUFFICES ASSUME deletion = "none" PROVE FALSE
      OBVIOUS
    <3>1. o = live /\ live # Nothing
      BY <1>2 DEF OneObject
    <3>2. CASE ledger = Nothing
      BY <1>3, <3>1, <3>2 DEF OneObject, Refused
    <3>3. CASE ledger # Nothing
      BY <1>3, <3>1, <3>3 DEF OneObject, Refused
    <3> QED
      BY <3>2, <3>3
  <2>4. CheckpointsTypeOK'
    BY <1>0, <2>1 DEF CheckpointsTypeOK
  <2>5. RevisionsAreCounted'
    BY <1>0, <1>2, <2>1, <2>2, CheckpointsTypes DEF RevisionsAreCounted
  <2>6. OneObject' /\ NothingComesBack'
    BY <1>0, <2>1, <2>3 DEF OneObject, NothingComesBack
  <2>7. ChangesAreCounted' /\ FrozenInOrder' /\ LedgerIsOldest'
    BY <1>0, <2>1, <2>2, <2>3 DEF ChangesAreCounted, FrozenInOrder, LedgerIsOldest
  <2> QED
    BY <2>4, <2>5, <2>6, <2>7
<1>4. CASE ~Refused(o)
  <2> DEFINE record == [revision |-> object[o].revision + 1, content |-> writer.content]
  <2>1. /\ ledger' = record /\ writer' = [writer EXCEPT !.captured = TRUE]
        /\ object' = [object EXCEPT ![o].revision = @ + 1, ![o].generation = writer.generation]
    BY <1>1, <1>4 DEF Capture
  <2>2. /\ object[o].revision + 1 <= tally.writes /\ object[o].revision < MaxWrites
        /\ object[o].revision \in Nat /\ writer.generation \in Generations
    BY <1>0, <1>2, CheckpointsTypes DEF RevisionsAreCounted, Generations
  <2>3. /\ object' \in [Objects -> ObjectRows]
        /\ object'[o] = [used |-> object[o].used, content |-> object[o].content,
                         revision |-> object[o].revision + 1, generation |-> writer.generation]
        /\ \A q \in Objects \ {o} : object'[q] = object[q]
    BY <1>0, <2>1, <2>2, CaptureWrites
  <2>4. record \in LedgerRows /\ record # Nothing
    BY <1>0, <2>2, CheckpointsTypes DEF LedgerRows, Generations
  <2>5. /\ writer' \in Held /\ writer' # Nothing /\ writer'.of = o /\ writer'.captured
        /\ writer'.content = writer.content /\ writer'.generation = writer.generation
    <3>1. writer' \in Held /\ writer'.of = o /\ writer'.captured
      BY <1>0, <1>1, <2>1, HeldCaptured
    <3>2. writer'.content = writer.content /\ writer'.generation = writer.generation
      BY <1>0, <2>1 DEF Held
    <3> QED
      BY <3>1, <3>2
  <2>6. ~Uncommitted' /\ Pending' = InQueue
    BY <1>2, <2>5 DEF Uncommitted, Pending
  <2>7. ledger' # Nothing /\ ledger'.revision = object[o].revision + 1 /\ ledger'.content = writer.content
    BY <2>1, <2>4
  <2>8. /\ object'[o].used /\ object'[o].content = object[o].content
        /\ object'[o].revision = object[o].revision + 1 /\ object'[o].generation = writer.generation
    BY <1>2, <2>3
  <2>9. deletion = "none" => live = o /\ live # Nothing
    BY <1>2 DEF OneObject
  <2>10. CheckpointsTypeOK'
    BY <1>0, <2>1, <2>3, <2>4, <2>5 DEF CheckpointsTypeOK, ObjectRows
  <2> HIDE DEF record
  <2>11. RevisionsAreCounted'
    BY <1>0, <1>2, <2>2, <2>3, <2>5, <2>6, <2>7, <2>8, CheckpointsTypes DEF RevisionsAreCounted
  <2>12. OneObject'
    <3>1. \A q \in Objects : object'[q].used <=> object[q].used
      <4> TAKE q \in Objects
      <4>1. CASE q = o
        BY <1>2, <2>8, <4>1
      <4>2. CASE q # o
        BY <2>3, <4>2
      <4> QED
        BY <4>1, <4>2
    <3>2. queued # Nothing => queued.of \in Objects
      BY <1>0, CheckpointsTypes
    <3> QED
      <4>0. OneObject /\ live \in Objects \cup {Nothing}
        BY <1>0, CheckpointsTypes
      <4>1. live' # Nothing => object'[live'].used
        BY <1>0, <3>1, <4>0 DEF OneObject
      <4>2. queued' # Nothing => object'[queued'.of].used
        BY <1>0, <3>1, <3>2, <4>0 DEF OneObject
      <4>3. writer' # Nothing => object'[writer'.of].used
        BY <2>5, <2>8
      <4>4. deletion' = "none" => \A q \in Objects : object'[q].used => q = live'
        BY <1>0, <3>1, <4>0 DEF OneObject
      <4>5. deletion' = "none" /\ live' # Nothing => object'[live'].revision = ledger'.revision
        BY <1>0, <2>7, <2>8, <2>9
      <4> QED
        BY <1>0, <2>7, <4>0, <4>1, <4>2, <4>3, <4>4, <4>5 DEF OneObject
  <2>13. NothingComesBack'
    BY <1>0, <1>2, <1>4 DEF NothingComesBack, Refused
  <2>14. ChangesAreCounted'
    BY <1>0, <1>1, <2>3, <2>5, <2>7, <2>8, CheckpointsTypes DEF ChangesAreCounted, FrozenInOrder
  <2>15. FrozenInOrder'
    BY <1>0, <1>1, <2>3, <2>5, <2>6, <2>8, CheckpointsTypes DEF FrozenInOrder
  <2>16. LedgerIsOldest'
    BY <1>0, <1>1, <2>3, <2>6, <2>7, <2>8, <2>9, CheckpointsTypes DEF LedgerIsOldest, FrozenInOrder, OneObject
  <2> QED
    BY <2>10, <2>11, <2>12, <2>13, <2>14, <2>15, <2>16
<1> QED
  BY <1>3, <1>4

LEMMA ReplaceStep ==
  ASSUME CheckpointsInv, Replace
  PROVE  CheckpointsInv'
<1> USE CheckpointsAssumption DEF CheckpointsInv
<1> DEFINE record == [revision |-> object[writer.of].revision, content |-> writer.content]
<1>0. /\ CheckpointsTypeOK /\ writer \in Held /\ writer # Nothing /\ writer.captured /\ writer.of \in Objects
      /\ writer' = Nothing /\ UNCHANGED <<ledger, folder, object, live, queued, deletion, reborn, tally>>
  BY DEF Replace, CheckpointsTypeOK, Held
<1>1. /\ record \in LedgerRows /\ record.revision + Pending <= tally.writes /\ record.content <= tally.edits
  <2>1. object[writer.of].revision \in 1..MaxWrites
    BY <1>0, CheckpointsTypes DEF RevisionsAreCounted, CheckpointsTypeOK, Generations
  <2>2. writer.content <= tally.edits
    BY <1>0, CheckpointsTypes DEF ChangesAreCounted, FrozenInOrder
  <2> QED
    BY <1>0, <2>1, <2>2, CheckpointsTypes DEF LedgerRows, RevisionsAreCounted
<1>2. file' = file \/ (folder /\ file' = record)
  BY DEF Replace
<1>3. ~Uncommitted /\ ~Uncommitted' /\ Pending' = Pending /\ Pending \in Nat
  BY <1>0 DEF Uncommitted, Pending, InQueue
<1>4. CheckpointsTypeOK'
  BY <1>0, <1>1, <1>2 DEF CheckpointsTypeOK
<1>5. RevisionsAreCounted'
  BY <1>0, <1>1, <1>2, <1>3 DEF RevisionsAreCounted
<1>6. OneObject'
  <2>1. deletion = "none" => ledger # Nothing
    BY <1>0, <1>3, CheckpointsTypes DEF OneObject
  <2> QED
    BY <1>0, <2>1 DEF OneObject
<1>7. NothingComesBack'
  BY <1>0, <1>2 DEF NothingComesBack
<1>8. ChangesAreCounted'
  BY <1>0, <1>1, <1>2 DEF ChangesAreCounted
<1>9. FrozenInOrder' /\ LedgerIsOldest'
  BY <1>0, <1>3 DEF FrozenInOrder, LedgerIsOldest
<1> QED
  BY <1>4, <1>5, <1>6, <1>7, <1>8, <1>9

LEMMA DeletionStep ==
  ASSUME CheckpointsInv, DeleteLedger \/ Forget \/ RemoveFolder
  PROVE  CheckpointsInv'
<1> USE CheckpointsAssumption DEF CheckpointsInv
<1>0. /\ CheckpointsTypeOK /\ deletion' # "none" /\ UNCHANGED <<object, writer, queued, reborn, tally>>
      /\ ledger' \in {ledger, Nothing} /\ file' \in {file, Nothing} /\ live' \in {live, Nothing}
  BY DEF DeleteLedger, Forget, RemoveFolder
<1>1. Uncommitted' = Uncommitted /\ Pending' = Pending
  BY <1>0 DEF Uncommitted, Pending, InQueue
<1>2. CheckpointsTypeOK'
  BY <1>0 DEF CheckpointsTypeOK, DeleteLedger, Forget, RemoveFolder
<1>3. RevisionsAreCounted' /\ ChangesAreCounted'
  BY <1>0, <1>1 DEF RevisionsAreCounted, ChangesAreCounted
<1>4. OneObject'
  BY <1>0 DEF OneObject
<1>5. NothingComesBack'
  <2>1. CASE DeleteLedger
    <3>1. \A o \in Objects : object[o].used => object[o].revision # 0
      BY <1>0, <2>1, CheckpointsTypes DEF DeleteLedger, OneObject
    <3> QED
      BY <1>0, <2>1, <3>1 DEF DeleteLedger, NothingComesBack
  <2>2. CASE Forget
    BY <1>0, <2>2 DEF Forget, NothingComesBack
  <2>3. CASE RemoveFolder
    BY <1>0, <2>3 DEF RemoveFolder, NothingComesBack
  <2> QED
    BY <2>1, <2>2, <2>3
<1>6. FrozenInOrder' /\ LedgerIsOldest'
  BY <1>0, <1>1 DEF FrozenInOrder, LedgerIsOldest, Uncommitted
<1> QED
  BY <1>2, <1>3, <1>4, <1>5, <1>6

LEMMA ProcessRestartStep ==
  ASSUME CheckpointsInv, Restart
  PROVE  CheckpointsInv'
<1> USE CheckpointsAssumption DEF CheckpointsInv
<1>0. /\ CheckpointsTypeOK /\ object' = [o \in Objects |-> Unloaded]
      /\ live' = Nothing /\ writer' = Nothing /\ queued' = Nothing
      /\ UNCHANGED <<ledger, file, folder, reborn>>
      /\ (deletion' = "none" <=> deletion = "none") /\ (deletion' = "done" => deletion = "done")
      /\ deletion' \in {"none", "ledger", "memory", "done", "cut"}
  BY DEF Restart, CheckpointsTypeOK
<1>1. tally' \in Tallies /\ tally'.writes = tally.writes /\ tally'.edits = tally.edits
  BY TallyWrites DEF Restart
<1>2. ~Uncommitted' /\ Pending' = 0 /\ Pending \in Nat
  BY <1>0 DEF Uncommitted, Pending, InQueue
<1>3. \A o \in Objects : /\ object'[o].used = FALSE /\ object'[o].content = 0
                         /\ object'[o].revision = 0 /\ object'[o].generation = 0
  BY <1>0 DEF Unloaded
<1>4. CheckpointsTypeOK'
  BY <1>0, <1>1 DEF CheckpointsTypeOK, Unloaded, Contents, Generations, Tallies
<1>5. RevisionsAreCounted' /\ ChangesAreCounted'
  BY <1>0, <1>1, <1>2, <1>3, CheckpointsTypes DEF RevisionsAreCounted, ChangesAreCounted
<1>6. OneObject' /\ NothingComesBack'
  BY <1>0, <1>3 DEF OneObject, NothingComesBack
<1>7. FrozenInOrder' /\ LedgerIsOldest'
  BY <1>0, <1>2 DEF FrozenInOrder, LedgerIsOldest
<1> QED
  BY <1>4, <1>5, <1>6, <1>7

LEMMA CheckpointsInvStep == CheckpointsInv /\ [CheckpointsNext]_checkpointsVars => CheckpointsInv'
<1> SUFFICES ASSUME CheckpointsInv, [CheckpointsNext]_checkpointsVars PROVE CheckpointsInv'
  OBVIOUS
<1>1. ASSUME NEW o \in Objects, GetOrCreate(o) \/ Edit(o) \/ Persist(o) \/ PersistAsync(o)
      PROVE  CheckpointsInv'
  BY <1>1, GetOrCreateStep, EditStep, PersistStep, PersistAsyncStep
<1>2. CASE Dequeue
  BY <1>2, DequeueStep
<1>3. CASE Capture
  BY <1>3, CaptureStep
<1>4. CASE Replace
  BY <1>4, ReplaceStep
<1>5. CASE DeleteLedger \/ Forget \/ RemoveFolder
  BY <1>5, DeletionStep
<1>6. CASE Restart
  BY <1>6, ProcessRestartStep
<1>7. CASE UNCHANGED checkpointsVars
  <2> USE <1>7 DEF checkpointsVars
  <2>1. Uncommitted' = Uncommitted /\ Pending' = Pending
    BY DEF Uncommitted, Pending, InQueue
  <2>2. CheckpointsTypeOK' /\ RevisionsAreCounted' /\ OneObject' /\ NothingComesBack'
    BY <2>1 DEF CheckpointsInv, CheckpointsTypeOK, RevisionsAreCounted, OneObject, NothingComesBack, Uncommitted
  <2>3. ChangesAreCounted' /\ FrozenInOrder' /\ LedgerIsOldest'
    BY <2>1 DEF CheckpointsInv, ChangesAreCounted, FrozenInOrder, LedgerIsOldest, Uncommitted
  <2> QED
    BY <2>2, <2>3 DEF CheckpointsInv
<1> QED
  BY <1>1, <1>2, <1>3, <1>4, <1>5, <1>6, <1>7 DEF CheckpointsNext

LEMMA CheckpointsInvAlways == CheckpointsSpec => []CheckpointsInv
BY CheckpointsStart, CheckpointsInvStep, PTL DEF CheckpointsSpec

\* The object that requests get knows the revision of the ledger whenever no writer is at
\* work, so that it can be saved (SessionService, HistoryStore.capture).
THEOREM LiveSessionsCanSave == CheckpointsSpec => []LiveSessionCanSave
<1>1. CheckpointsInv => LiveSessionCanSave
  BY DEF CheckpointsInv, OneObject, LiveSessionCanSave, Uncommitted
<1> QED
  BY <1>1, CheckpointsInvAlways, PTL

\* Nobody brings a deleted session back, whatever is still under way in threads, drivers
\* and requests (delete_session).
THEOREM SessionsStayDeleted == CheckpointsSpec => []DeletedStaysDeleted
<1>1. CheckpointsInv => DeletedStaysDeleted
  BY DEF CheckpointsInv, NothingComesBack, DeletedStaysDeleted
<1> QED
  BY <1>1, CheckpointsInvAlways, PTL

\* The ledger of a session never goes back to an older content (checkpoint_generation).
THEOREM CheckpointsGoForward == CheckpointsSpec => NoCheckpointGoesBack
<1>1. CheckpointsInv /\ [CheckpointsNext]_checkpointsVars =>
        [ledger # Nothing /\ ledger' # Nothing /\ ~reborn' => ledger'.content >= ledger.content]_checkpointsVars
  <2> SUFFICES ASSUME CheckpointsInv, CheckpointsNext, ledger # Nothing, ledger' # Nothing, ~reborn'
               PROVE  ledger'.content >= ledger.content
    OBVIOUS
  <2>1. CASE ledger' = ledger
    BY <2>1, CheckpointsTypes DEF CheckpointsInv
  <2>2. CASE ledger' # ledger
    <3>1. Capture /\ ~Refused(writer.of)
      BY <2>2 DEF CheckpointsNext, GetOrCreate, Edit, Persist, PersistAsync, Dequeue, Capture, Replace,
         DeleteLedger, Forget, RemoveFolder, Restart
    <3>2. deletion = "none" /\ Uncommitted
      BY <3>1 DEF Capture, CheckpointsInv, NothingComesBack, Uncommitted
    <3>3. ledger'.content = writer.content
      BY <3>1 DEF Capture
    <3> QED
      BY <3>2, <3>3 DEF CheckpointsInv, LedgerIsOldest
  <2> QED
    BY <2>1, <2>2
<1> QED
  BY <1>1, CheckpointsInvAlways, PTL DEF CheckpointsSpec, NoCheckpointGoesBack

-----------------------------------------------------------------------------
(* Conversations                                                             *)

Asked == [at : {"new", "missing", "found", "bound", "sending", "sent", "refused"},
          user : Users \cup {Unset}, slot : Slots \cup {Unset},
          key : SendKeys \cup {Unset}, run : 0..MaxSends]

\* A request that was answered names the run of its key, and one that has found a
\* conversation found one of its user: until the host is attached, and whoever deletes it.
RequestIsKept(r) ==
  /\ request[r].at \in {"sending", "sent"} => request[r].slot \in Slots /\ request[r].key \in SendKeys
  /\ request[r].at = "sent" =>
       request[r].run # 0 /\ request[r].run = sent[<<request[r].slot, request[r].key>>]
  /\ request[r].at = "missing" => request[r].user \in Users
  /\ request[r].at = "found" =>
       /\ request[r].slot \in Slots /\ conversation[request[r].slot] # Unset
       /\ request[r].user = conversation[request[r].slot].owner

HostsAreOwners ==
  \A s \in Slots : conversation[s] # Unset => conversation[s].host \in {Unset, conversation[s].owner}

ConversationsInv ==
  ConversationsTypeOK /\ HostsAreOwners /\ \A r \in Requests : RequestIsKept(r)

LEMMA ConversationsStart == ConversationsInit => ConversationsInv
BY ConversationsAssumption
   DEF ConversationsInit, ConversationsInv, ConversationsTypeOK, HostsAreOwners, RequestIsKept, Unanswered, Answer

\* One request gets an answer.
LEMMA AnswerWrites ==
  ASSUME ConversationsInv, NEW r \in Requests, NEW a \in Asked,
         request' = [request EXCEPT ![r] = a]
  PROVE  /\ request' \in [Requests -> Asked] /\ request'[r] = a
         /\ \A q \in Requests \ {r} : request'[q] = request[q]
BY DEF ConversationsInv, ConversationsTypeOK, Asked

LEMMA DeletedWritten ==
  ASSUME NEW record \in ConversationRows, NEW d \in BOOLEAN
  PROVE  [record EXCEPT !.deleted = d] = [owner |-> record.owner, deleted |-> d, host |-> record.host]
BY DEF ConversationRows

LEMMA ConversationWrites ==
  ASSUME ConversationsInv, NEW s \in Slots, conversation[s] # Unset,
         \/ conversation' = [conversation EXCEPT ![s].deleted = TRUE]
         \/ conversation' = [conversation EXCEPT ![s].host = conversation[s].owner]
  PROVE  /\ conversation' \in [Slots -> ConversationRows \cup {Unset}]
         /\ conversation'[s].owner = conversation[s].owner /\ conversation'[s] # Unset
         /\ conversation'[s].host \in {conversation[s].host, conversation[s].owner}
         /\ \A t \in Slots \ {s} : conversation'[t] = conversation[t]
<1>0. conversation \in [Slots -> ConversationRows \cup {Unset}] /\ conversation[s] \in ConversationRows
  BY DEF ConversationsInv, ConversationsTypeOK
<1>1. PICK record \in ConversationRows : record = conversation[s]
  BY <1>0
<1>2. [record EXCEPT !.deleted = TRUE] = [owner |-> record.owner, deleted |-> TRUE, host |-> record.host]
  BY <1>1, DeletedWritten
<1>3. [record EXCEPT !.host = record.owner] = [owner |-> record.owner, deleted |-> record.deleted, host |-> record.owner]
  BY <1>1 DEF ConversationRows
<1>4. PICK new \in {[owner |-> record.owner, deleted |-> TRUE, host |-> record.host],
                    [owner |-> record.owner, deleted |-> record.deleted, host |-> record.owner]} :
        conversation' = [conversation EXCEPT ![s] = new]
  BY <1>0, <1>1, <1>2, <1>3
<1>5. new \in ConversationRows /\ new.owner = record.owner /\ new.host \in {record.host, record.owner}
  <2>1. record.owner \in Users /\ record.deleted \in BOOLEAN /\ record.host \in Users \cup {Unset}
    BY DEF ConversationRows
  <2>2. CASE new = [owner |-> record.owner, deleted |-> TRUE, host |-> record.host]
    BY <2>1, <2>2 DEF ConversationRows
  <2>3. CASE new = [owner |-> record.owner, deleted |-> record.deleted, host |-> record.owner]
    BY <2>1, <2>3 DEF ConversationRows
  <2> QED
    BY <1>4, <2>2, <2>3
<1> QED
  BY <1>0, <1>1, <1>4, <1>5, ConversationsAssumption

\* Nothing that only answers a request, or ends a run, takes anything from another request.
LEMMA AnswerKeeps ==
  ASSUME ConversationsInv, NEW r \in Requests, NEW a \in Asked,
         request' = [request EXCEPT ![r] = a], UNCHANGED <<conversation, sent, active, runs>>,
         RequestIsKept(r)'
  PROVE  ConversationsInv'
<1>1. /\ request' \in [Requests -> Asked] /\ request'[r] = a
      /\ \A q \in Requests \ {r} : request'[q] = request[q]
  BY AnswerWrites
<1>2. ConversationsTypeOK'
  BY <1>1 DEF ConversationsInv, ConversationsTypeOK, Asked
<1>3. ASSUME NEW q \in Requests PROVE RequestIsKept(q)'
  <2>1. CASE q = r
    BY <2>1
  <2>2. CASE q # r
    BY <1>1, <2>2 DEF ConversationsInv, RequestIsKept
  <2> QED
    BY <2>1, <2>2
<1>4. HostsAreOwners'
  BY DEF ConversationsInv, HostsAreOwners
<1> QED
  BY <1>2, <1>3, <1>4 DEF ConversationsInv

LEMMA AnswerTyped ==
  ASSUME NEW stand \in {"new", "missing", "found", "bound", "sending", "sent", "refused"},
         NEW user \in Users \cup {Unset}, NEW slot \in Slots \cup {Unset},
         NEW key \in SendKeys \cup {Unset}, NEW run \in 0..MaxSends
  PROVE  /\ Answer(stand, user, slot, key, run) \in Asked
         /\ Answer(stand, user, slot, key, run).at = stand /\ Answer(stand, user, slot, key, run).user = user
         /\ Answer(stand, user, slot, key, run).slot = slot /\ Answer(stand, user, slot, key, run).key = key
         /\ Answer(stand, user, slot, key, run).run = run
BY DEF Answer, Asked

LEMMA RefuseStep ==
  ASSUME ConversationsInv, NEW r \in Requests, RefuseRequest(r) \/ request' = [request EXCEPT ![r].at = "bound"]
  PROVE  /\ request' \in [Requests -> Asked] /\ request'[r].at \in {"refused", "bound"}
         /\ \A q \in Requests \ {r} : request'[q] = request[q]
<1>0. request \in [Requests -> Asked]
  BY DEF ConversationsInv, ConversationsTypeOK, Asked
<1>1. PICK old \in Asked : old = request[r]
  BY <1>0
<1>2. PICK stand \in {"refused", "bound"} : request' = [request EXCEPT ![r] = [old EXCEPT !.at = stand]]
  BY <1>1 DEF RefuseRequest
<1>3. [old EXCEPT !.at = stand] = [at |-> stand, user |-> old.user, slot |-> old.slot, key |-> old.key, run |-> old.run]
  BY <1>1 DEF Asked
<1>4. [old EXCEPT !.at = stand] \in Asked /\ [old EXCEPT !.at = stand].at = stand
  BY <1>3 DEF Asked
<1> QED
  BY <1>0, <1>2, <1>4

LEMMA BindStep ==
  ASSUME ConversationsInv, NEW r \in Requests, NEW u \in Users,
         BindByKey(r, u) \/ \E s \in Slots : BindById(r, u, s)
  PROVE  ConversationsInv'
<1> USE ConversationsAssumption
<1>0. UNCHANGED <<conversation, sent, active, runs>> /\ 0 \in 0..MaxSends
  BY DEF BindByKey, BindById
<1>1. PICK a \in {Answer("missing", u, Unset, Unset, 0), Answer("refused", u, Unset, Unset, 0)}
                 \cup {Answer("found", u, s, Unset, 0) : s \in {t \in Slots : Selectable(u, t)}} :
        request' = [request EXCEPT ![r] = a]
  BY DEF BindByKey, BindById, Selectable
<1>2. CASE a \in {Answer("missing", u, Unset, Unset, 0), Answer("refused", u, Unset, Unset, 0)}
  <2>1. a \in Asked /\ a.at \in {"missing", "refused"} /\ a.user = u
    BY <1>0, <1>2, AnswerTyped
  <2>2. request'[r] = a
    BY <1>1, <2>1, AnswerWrites
  <2>3. RequestIsKept(r)'
    BY <2>1, <2>2 DEF RequestIsKept
  <2> QED
    BY <1>0, <1>1, <2>1, <2>3, AnswerKeeps
<1>3. ASSUME NEW s \in Slots, Selectable(u, s), a = Answer("found", u, s, Unset, 0)
      PROVE  ConversationsInv'
  <2>1. a \in Asked /\ a.at = "found" /\ a.user = u /\ a.slot = s
    BY <1>0, <1>3, AnswerTyped
  <2>2. request'[r] = a
    BY <1>1, <2>1, AnswerWrites
  <2>3. RequestIsKept(r)'
    BY <1>0, <1>3, <2>1, <2>2 DEF RequestIsKept, Selectable, Listed
  <2> QED
    BY <1>0, <1>1, <2>1, <2>3, AnswerKeeps
<1> QED
  BY <1>1, <1>2, <1>3

LEMMA SendStep ==
  ASSUME ConversationsInv, NEW r \in Requests, NEW s \in Slots, NEW k \in SendKeys, SendMessage(r, s, k)
  PROVE  ConversationsInv'
<1> USE ConversationsAssumption
<1>0. UNCHANGED <<conversation, sent, active, runs>> /\ 0 \in 0..MaxSends /\ sent[<<s, k>>] \in 0..MaxSends
  BY DEF SendMessage, ConversationsInv, ConversationsTypeOK
<1>1. CASE ~Listed(s)
  <2> DEFINE a == Answer("refused", Unset, s, k, 0)
  <2>1. a \in Asked /\ a.at = "refused"
    BY <1>0, AnswerTyped
  <2>2. request' = [request EXCEPT ![r] = a]
    BY <1>1 DEF SendMessage
  <2> HIDE DEF a
  <2>3. request'[r] = a
    BY <2>1, <2>2, AnswerWrites
  <2>4. RequestIsKept(r)'
    BY <2>1, <2>3 DEF RequestIsKept
  <2> QED
    BY <1>0, <2>1, <2>2, <2>4, AnswerKeeps
<1>2. CASE Listed(s)
  <2>1. PICK stand \in {"sent", "sending"} : /\ stand = "sent" => sent[<<s, k>>] # 0
                                          /\ request' = [request EXCEPT ![r] = Answer(stand, Unset, s, k, sent[<<s, k>>])]
    BY <1>2 DEF SendMessage
  <2> DEFINE a == Answer(stand, Unset, s, k, sent[<<s, k>>])
  <2>2. a \in Asked /\ a.at = stand /\ a.slot = s /\ a.key = k /\ a.run = sent[<<s, k>>]
    BY <1>0, AnswerTyped
  <2>3. request' = [request EXCEPT ![r] = a]
    BY <2>1
  <2> HIDE DEF a
  <2>4. request'[r] = a
    BY <2>2, <2>3, AnswerWrites
  <2>5. RequestIsKept(r)'
    BY <1>0, <2>1, <2>2, <2>4 DEF RequestIsKept
  <2> QED
    BY <1>0, <2>2, <2>3, <2>5, AnswerKeeps
<1> QED
  BY <1>1, <1>2

LEMMA CreateStep ==
  ASSUME ConversationsInv, NEW r \in Requests, CreateConversation(r)
  PROVE  ConversationsInv'
<1> USE ConversationsAssumption
<1>0. /\ UNCHANGED <<sent, active, runs>> /\ request[r].user \in Users /\ 0 \in 0..MaxSends
      /\ conversation \in [Slots -> ConversationRows \cup {Unset}]
  <2>1. RequestIsKept(r) /\ ConversationsTypeOK
    BY DEF ConversationsInv
  <2> QED
    BY <2>1 DEF CreateConversation, ConversationsTypeOK, RequestIsKept
<1>1. PICK s \in Slots :
        /\ conversation[s] = Unset
        /\ conversation' = [conversation EXCEPT ![s] = [owner |-> request[r].user, deleted |-> FALSE, host |-> Unset]]
        /\ request' = [request EXCEPT ![r] = Answer("found", request[r].user, s, Unset, 0)]
  BY DEF CreateConversation
<1> DEFINE record == [owner |-> request[r].user, deleted |-> FALSE, host |-> Unset]
           a == Answer("found", request[r].user, s, Unset, 0)
<1>2. record \in ConversationRows /\ record # Unset /\ record.owner = request[r].user /\ record.host = Unset
  <2>1. record \in ConversationRows
    BY <1>0 DEF ConversationRows
  <2> QED
    BY <2>1
<1>3. a \in Asked /\ a.at = "found" /\ a.slot = s /\ a.user = request[r].user
  BY <1>0, AnswerTyped
<1> HIDE DEF record, a
<1>4. /\ conversation' \in [Slots -> ConversationRows \cup {Unset}] /\ conversation'[s] = record
      /\ \A t \in Slots \ {s} : conversation'[t] = conversation[t]
  BY <1>0, <1>1, <1>2 DEF record
<1>5. request' \in [Requests -> Asked] /\ request'[r] = a /\ \A q \in Requests \ {r} : request'[q] = request[q]
  BY <1>1, <1>3, AnswerWrites DEF a
<1>6. ConversationsTypeOK'
  BY <1>0, <1>4, <1>5 DEF ConversationsInv, ConversationsTypeOK, Asked
<1>7. HostsAreOwners'
  BY <1>2, <1>4 DEF ConversationsInv, HostsAreOwners
<1>8. ASSUME NEW q \in Requests PROVE RequestIsKept(q)'
  <2>1. CASE q = r
    BY <1>2, <1>3, <1>4, <1>5, <2>1 DEF RequestIsKept
  <2>2. CASE q # r
    BY <1>0, <1>1, <1>4, <1>5, <2>2 DEF ConversationsInv, RequestIsKept
  <2> QED
    BY <2>1, <2>2
<1> QED
  BY <1>6, <1>7, <1>8 DEF ConversationsInv

\* A change of one conversation that keeps its owner.
LEMMA ConversationKeeps ==
  ASSUME ConversationsInv, NEW s \in Slots, conversation[s] # Unset,
         \/ conversation' = [conversation EXCEPT ![s].deleted = TRUE]
         \/ conversation' = [conversation EXCEPT ![s].host = conversation[s].owner],
         UNCHANGED <<sent, active, runs>>, request' \in [Requests -> Asked],
         \A q \in Requests : request'[q] = request[q] \/ request'[q].at = "bound"
  PROVE  ConversationsInv'
<1>1. /\ conversation' \in [Slots -> ConversationRows \cup {Unset}]
      /\ conversation'[s].owner = conversation[s].owner /\ conversation'[s] # Unset
      /\ conversation'[s].host \in {conversation[s].host, conversation[s].owner}
      /\ \A t \in Slots \ {s} : conversation'[t] = conversation[t]
  BY ConversationWrites
<1>2. \A t \in Slots : conversation[t] # Unset =>
                         conversation'[t] # Unset /\ conversation'[t].owner = conversation[t].owner
  BY <1>1
<1>3. ConversationsTypeOK'
  BY <1>1 DEF ConversationsInv, ConversationsTypeOK, Asked
<1>4. HostsAreOwners'
  BY <1>1 DEF ConversationsInv, HostsAreOwners
<1>5. \A q \in Requests : RequestIsKept(q)'
  BY <1>2 DEF ConversationsInv, RequestIsKept
<1> QED
  BY <1>3, <1>4, <1>5 DEF ConversationsInv

LEMMA AttachStep ==
  ASSUME ConversationsInv, NEW r \in Requests, AttachHost(r)
  PROVE  ConversationsInv'
<1>1. PICK s \in Slots : s = request[r].slot
  BY DEF AttachHost, ConversationsInv, RequestIsKept
<1>2. conversation[s] # Unset /\ request[r].user = conversation[s].owner
  BY <1>1 DEF AttachHost, ConversationsInv, RequestIsKept
<1>3. /\ request' \in [Requests -> Asked] /\ \A q \in Requests : request'[q] = request[q] \/ request'[q].at = "bound"
  <2>1. request \in [Requests -> Asked]
    BY DEF ConversationsInv, ConversationsTypeOK, Asked
  <2>2. PICK old \in Asked : old = request[r]
    BY <2>1
  <2>3. [old EXCEPT !.at = "bound"] =
          [at |-> "bound", user |-> old.user, slot |-> old.slot, key |-> old.key, run |-> old.run]
    BY <2>2 DEF Asked
  <2>4. [old EXCEPT !.at = "bound"] \in Asked /\ [old EXCEPT !.at = "bound"].at = "bound"
    BY <2>3 DEF Asked
  <2>5. request' = [request EXCEPT ![r] = [old EXCEPT !.at = "bound"]]
    BY <2>2 DEF AttachHost
  <2> QED
    BY <2>1, <2>4, <2>5
<1>4. conversation' = [conversation EXCEPT ![s].host = conversation[s].owner]
  BY <1>1, <1>2 DEF AttachHost
<1> QED
  BY <1>2, <1>3, <1>4, ConversationKeeps DEF AttachHost

LEMMA SoftDeleteStep ==
  ASSUME ConversationsInv, NEW s \in Slots, SoftDelete(s)
  PROVE  ConversationsInv'
<1>1. request' \in [Requests -> Asked] /\ \A q \in Requests : request'[q] = request[q]
  BY DEF SoftDelete, ConversationsInv, ConversationsTypeOK, Asked
<1> QED
  BY <1>1, ConversationKeeps DEF SoftDelete, Listed

LEMMA StartSentStep ==
  ASSUME ConversationsInv, NEW r \in Requests, StartSent(r)
  PROVE  ConversationsInv'
<1> USE ConversationsAssumption
<1>1. PICK s \in Slots, k \in SendKeys : s = request[r].slot /\ k = request[r].key
  BY DEF StartSent, ConversationsInv, RequestIsKept
<1>2. UNCHANGED conversation /\ runs \in 0..MaxSends /\ runs < MaxSends
  BY DEF StartSent, ConversationsInv, ConversationsTypeOK
<1>3. CASE active[s] # 0 \/ Used(s, k)
  <2>1. RefuseRequest(r) /\ UNCHANGED <<sent, active, runs>>
    BY <1>1, <1>3 DEF StartSent
  <2>2. /\ request' \in [Requests -> Asked] /\ request'[r].at \in {"refused", "bound"}
        /\ \A q \in Requests \ {r} : request'[q] = request[q]
    BY <2>1, RefuseStep
  <2>3. ConversationsTypeOK' /\ HostsAreOwners'
    BY <1>2, <2>1, <2>2 DEF ConversationsInv, ConversationsTypeOK, HostsAreOwners, Asked
  <2>4. ASSUME NEW q \in Requests PROVE RequestIsKept(q)'
    BY <1>2, <2>1, <2>2 DEF ConversationsInv, RequestIsKept
  <2> QED
    BY <2>3, <2>4 DEF ConversationsInv
<1>4. CASE ~(active[s] # 0 \/ Used(s, k))
  <2> DEFINE a == Answer("sent", Unset, s, k, runs')
  <2>1. /\ runs' = runs + 1 /\ sent' = [sent EXCEPT ![<<s, k>>] = runs']
        /\ active' = [active EXCEPT ![s] = runs'] /\ request' = [request EXCEPT ![r] = a]
    BY <1>1, <1>4 DEF StartSent
  <2>2. runs' \in 0..MaxSends /\ runs' # 0
    BY <1>2, <2>1
  <2>3. a \in Asked /\ a.at = "sent" /\ a.slot = s /\ a.key = k /\ a.run = runs'
    BY <2>2, AnswerTyped
  <2> HIDE DEF a
  <2>4. request' \in [Requests -> Asked] /\ request'[r] = a /\ \A q \in Requests \ {r} : request'[q] = request[q]
    BY <2>1, <2>3, AnswerWrites
  <2>5. /\ sent' \in [Slots \X SendKeys -> 0..MaxSends] /\ sent'[<<s, k>>] = runs'
        /\ \A x \in Slots \X SendKeys : x # <<s, k>> => sent'[x] = sent[x]
    BY <2>1, <2>2 DEF ConversationsInv, ConversationsTypeOK
  <2>6. sent[<<s, k>>] = 0
    BY <1>4 DEF Used
  <2>7. ConversationsTypeOK' /\ HostsAreOwners'
    BY <1>2, <2>1, <2>2, <2>4, <2>5 DEF ConversationsInv, ConversationsTypeOK, HostsAreOwners, Asked
  <2>8. ASSUME NEW q \in Requests PROVE RequestIsKept(q)'
    <3>1. CASE q = r
      BY <2>2, <2>3, <2>4, <2>5, <3>1 DEF RequestIsKept
    <3>2. CASE q # r
      <4>1. request'[q] = request[q] /\ RequestIsKept(q)
        BY <2>4, <3>2 DEF ConversationsInv
      <4>2. request[q].at = "sent" => sent'[<<request[q].slot, request[q].key>>] = sent[<<request[q].slot, request[q].key>>]
        BY <2>5, <2>6, <4>1 DEF RequestIsKept
      <4> QED
        BY <1>2, <4>1, <4>2 DEF RequestIsKept
    <3> QED
      BY <3>1, <3>2
  <2> QED
    BY <2>7, <2>8 DEF ConversationsInv
<1> QED
  BY <1>3, <1>4

LEMMA ConversationsInvStep == ConversationsInv /\ [ConversationsNext]_conversationsVars => ConversationsInv'
<1> SUFFICES ASSUME ConversationsInv, [ConversationsNext]_conversationsVars PROVE ConversationsInv'
  OBVIOUS
<1>1. ASSUME NEW r \in Requests, NEW u \in Users, BindByKey(r, u) \/ \E s \in Slots : BindById(r, u, s)
      PROVE  ConversationsInv'
  BY <1>1, BindStep
<1>2. ASSUME NEW r \in Requests, CreateConversation(r) \/ AttachHost(r) \/ StartSent(r)
      PROVE  ConversationsInv'
  BY <1>2, CreateStep, AttachStep, StartSentStep
<1>3. ASSUME NEW r \in Requests, NEW s \in Slots, NEW k \in SendKeys, SendMessage(r, s, k)
      PROVE  ConversationsInv'
  BY <1>3, SendStep
<1>4. ASSUME NEW s \in Slots, SoftDelete(s)
      PROVE  ConversationsInv'
  BY <1>4, SoftDeleteStep
<1>5. CASE UNCHANGED conversationsVars \/ \E s \in Slots : RunEnds(s)
  <2>1. UNCHANGED <<conversation, sent, runs, request>> /\ active' \in [Slots -> 0..MaxSends]
    BY <1>5, ConversationsAssumption DEF conversationsVars, RunEnds, ConversationsInv, ConversationsTypeOK
  <2>2. ConversationsTypeOK' /\ HostsAreOwners'
    BY <2>1 DEF ConversationsInv, ConversationsTypeOK, HostsAreOwners
  <2>3. \A r \in Requests : RequestIsKept(r)'
    BY <2>1 DEF ConversationsInv, RequestIsKept
  <2> QED
    BY <2>2, <2>3 DEF ConversationsInv
<1> QED
  BY <1>1, <1>2, <1>3, <1>4, <1>5 DEF ConversationsNext

LEMMA ConversationsInvAlways == ConversationsSpec => []ConversationsInv
BY ConversationsStart, ConversationsInvStep, PTL DEF ConversationsSpec

\* A message that is sent again is answered with the run of its key, and a conversation
\* carries what a request of its owner brought (bind, send_message).
THEOREM RequestsStayApart == ConversationsSpec => []RequestsKeepApart
<1>1. ConversationsInv => RequestsKeepApart
  BY DEF ConversationsInv, RequestsKeepApart, RequestIsKept, HostsAreOwners
<1> QED
  BY <1>1, ConversationsInvAlways, PTL

-----------------------------------------------------------------------------
(* ToolCatalog                                                               *)

\* A revision is never given back, so that an old one does not name a later content.
ReadsAreOld ==
  /\ \A c \in Clients : view[c].revision <= revision
  /\ snapshot.revision <= revision

\* What the page has replaced does not stay behind it.
SupersededIsDropped ==
  \A t \in Tools : Has(collections, "cache", t) => collections["cache"][t] \notin superseded[t]

CatalogInv ==
  /\ CatalogTypeOK /\ ReadsAreOld /\ RevisionNamesContent /\ SupersededIsDropped /\ StoredComposes

\* What is served of a tool is what the first source says that has it.
LEMMA ServedInOrder ==
  ASSUME NEW k \in Catalogs, NEW t \in Tools
  PROVE  Served(k)[t] = IF Has(k, "page", t) THEN k["page"][t]
                        ELSE IF Has(k, "cache", t) THEN k["cache"][t]
                        ELSE k["other"][t]
<1> DEFINE First(s) == s \in Sources /\ Has(k, s, t) /\ \A a \in Sources : Has(k, a, t) => ~Before(a, s)
           first == CHOOSE s \in Sources : Has(k, s, t) /\ \A a \in Sources : Has(k, a, t) => ~Before(a, s)
<1>1. Served(k)[t] = IF \E s \in Sources : Has(k, s, t) THEN k[first][t] ELSE Absence
  BY DEF Served
<1>2. first = CHOOSE s : First(s)
  OBVIOUS
<1>3. CASE Has(k, "page", t)
  <2>1. First("page")
    BY <1>3 DEF Sources, Before
  <2>2. First(first)
    BY <1>2, <2>1
  <2>3. first = "page"
    BY <1>3, <2>2 DEF Sources, Before
  <2> QED
    BY <1>1, <1>3, <2>3 DEF Sources
<1>4. CASE ~Has(k, "page", t) /\ Has(k, "cache", t)
  <2>1. First("cache")
    BY <1>4 DEF Sources, Before
  <2>2. First(first)
    BY <1>2, <2>1
  <2>3. first = "cache"
    BY <1>4, <2>2 DEF Sources, Before
  <2> QED
    BY <1>1, <1>4, <2>3 DEF Sources
<1>5. CASE ~Has(k, "page", t) /\ ~Has(k, "cache", t) /\ Has(k, "other", t)
  <2>1. First("other")
    BY <1>5 DEF Sources, Before
  <2>2. First(first)
    BY <1>2, <2>1
  <2>3. first = "other"
    BY <1>5, <2>2 DEF Sources
  <2> QED
    BY <1>1, <1>5, <2>3 DEF Sources
<1>6. CASE ~Has(k, "page", t) /\ ~Has(k, "cache", t) /\ ~Has(k, "other", t)
  BY <1>1, <1>6 DEF Sources, Has
<1> QED
  BY <1>3, <1>4, <1>5, <1>6

LEMMA CleanedRows ==
  ASSUME NEW k \in Catalogs
  PROVE  /\ Cleaned(k) \in Catalogs
         /\ \A t \in Tools : /\ Cleaned(k)["cache"][t] = IF Stale(k, t) THEN Absence ELSE k["cache"][t]
                             /\ Cleaned(k)["page"][t] = k["page"][t]
                             /\ Cleaned(k)["other"][t] = k["other"][t]
BY DEF Catalogs, Cleaned, Sources

\* A catalog that agrees can be composed once the outdated entries are dropped.
LEMMA CleanedComposes ==
  ASSUME NEW k \in Catalogs, Agreeing(k), NEW s \in Sources, NEW t \in Tools, Has(Cleaned(k), s, t)
  PROVE  Cleaned(k)[s][t] = Served(Cleaned(k))[t]
<1>1. /\ Cleaned(k) \in Catalogs
      /\ Cleaned(k)["cache"][t] = IF Stale(k, t) THEN Absence ELSE k["cache"][t]
      /\ Cleaned(k)["page"][t] = k["page"][t] /\ Cleaned(k)["other"][t] = k["other"][t]
  BY CleanedRows
<1>2. Served(Cleaned(k))[t] = Served(k)[t]
  <2>1. CASE Stale(k, t)
    BY <1>1, <2>1, ServedInOrder DEF Stale, Has
  <2>2. CASE ~Stale(k, t)
    BY <1>1, <2>2, ServedInOrder DEF Has
  <2> QED
    BY <2>1, <2>2
<1>3. Has(k, s, t) /\ ~(s = "cache" /\ Stale(k, t)) /\ Cleaned(k)[s][t] = k[s][t]
  BY <1>1 DEF Has, Sources
<1> QED
  BY <1>2, <1>3 DEF Agreeing

LEMMA ServedTyped ==
  ASSUME NEW k \in Catalogs
  PROVE  Served(k) \in [Tools -> Descriptors \cup {Absence}]
<1>1. \A t \in Tools : Served(k)[t] \in Descriptors \cup {Absence}
  BY ServedInOrder DEF Catalogs, Sources
<1>2. Served(k) = [t \in Tools |-> Served(k)[t]]
  BY DEF Served
<1> QED
  BY <1>1, <1>2

LEMMA CatalogStart == CatalogInit => CatalogInv
<1> SUFFICES ASSUME CatalogInit PROVE CatalogInv
  OBVIOUS
<1> USE CatalogAssumption DEF CatalogInit, NoTools, NoRun
<1>1. NoTools \in Catalogs
  BY DEF Catalogs
<1>2. CatalogTypeOK
  BY <1>1 DEF CatalogTypeOK
<1>3. ReadsAreOld /\ RevisionNamesContent
  BY DEF ReadsAreOld, RevisionNamesContent
<1>4. SupersededIsDropped
  BY DEF SupersededIsDropped
<1>5. StoredComposes
  BY DEF StoredComposes, Has
<1> QED
  BY <1>2, <1>3, <1>4, <1>5 DEF CatalogInv

LEMMA CommitStep ==
  ASSUME CatalogInv, NEW k \in Catalogs, Commit(k), UNCHANGED <<view, snapshot>>
  PROVE  CatalogInv'
<1>0. /\ CatalogTypeOK /\ Cleaned(k) \in Catalogs /\ collections' = Cleaned(k) /\ revision < MaxChanges
      /\ revision' = IF collections' = collections THEN revision ELSE revision + 1
      /\ Agreeing(k)
  BY CleanedRows DEF CatalogInv, Commit, Revision
<1>1. \A t \in Tools : superseded'[t] =
        IF Stale(k, t) THEN superseded[t] \cup {k["cache"][t]}
        ELSE IF k["cache"][t] # collections["cache"][t] THEN {} ELSE superseded[t]
  BY DEF Commit
<1>2. revision \in Nat /\ revision' \in 0..MaxChanges /\ revision' >= revision
  BY <1>0, CatalogAssumption DEF CatalogTypeOK
<1>3. superseded' \in [Tools -> SUBSET Descriptors]
  <2>1. \A t \in Tools : superseded'[t] \in SUBSET Descriptors
    <3> TAKE t \in Tools
    <3>1. superseded[t] \in SUBSET Descriptors /\ k["cache"][t] \in Descriptors \cup {Absence}
      BY <1>0 DEF CatalogTypeOK, Catalogs, Sources
    <3> QED
      BY <1>1, <3>1 DEF Stale, Has
  <2>2. superseded' = [t \in Tools |-> superseded'[t]]
    BY DEF Commit
  <2> QED
    BY <2>1, <2>2
<1>4. CatalogTypeOK'
  BY <1>0, <1>2, <1>3 DEF CatalogTypeOK
<1>5. /\ \A c \in Clients : view[c].revision \in Nat
      /\ snapshot.revision \in Nat
  BY <1>0, CatalogAssumption DEF CatalogTypeOK
<1>6. ReadsAreOld'
  BY <1>2, <1>5 DEF CatalogInv, ReadsAreOld
<1>7. RevisionNamesContent'
  <2>1. CASE collections' = collections
    BY <1>0, <2>1 DEF CatalogInv, RevisionNamesContent, Served, Has
  <2>2. CASE collections' # collections
    BY <1>0, <1>2, <1>5, <2>2 DEF CatalogInv, RevisionNamesContent, ReadsAreOld
  <2> QED
    BY <2>1, <2>2
<1>8. SupersededIsDropped'
  <2> SUFFICES ASSUME NEW t \in Tools, Has(Cleaned(k), "cache", t)
               PROVE  Cleaned(k)["cache"][t] \notin superseded'[t]
    BY <1>0 DEF SupersededIsDropped
  <2>1. ~Stale(k, t) /\ Cleaned(k)["cache"][t] = k["cache"][t]
    BY CleanedRows DEF Has
  <2> QED
    BY <1>1, <2>1 DEF CatalogInv, SupersededIsDropped, Has
<1>9. StoredComposes'
  BY <1>0, CleanedComposes DEF StoredComposes
<1> QED
  BY <1>4, <1>6, <1>7, <1>8, <1>9 DEF CatalogInv

LEMMA ReadStep ==
  ASSUME CatalogInv, (\E c \in Clients : ReadCatalog(c)) \/ RefreshRound \/ EndRun
                     \/ \E policy \in {"static_run", "round_boundary"} : BeginRun(policy)
  PROVE  CatalogInv'
<1>0. /\ CatalogTypeOK /\ UNCHANGED <<collections, revision, superseded>> /\ revision \in Nat /\ 0 \in 0..MaxChanges
  BY CatalogAssumption DEF CatalogInv, CatalogTypeOK, ReadCatalog, BeginRun, RefreshRound, EndRun
<1>1. SupersededIsDropped' /\ StoredComposes'
  BY <1>0 DEF CatalogInv, SupersededIsDropped, StoredComposes, Has, Served
<1>2. ASSUME NEW c \in Clients, ReadCatalog(c) PROVE CatalogInv'
  <2> DEFINE now == [revision |-> revision, collections |-> collections]
  <2>1. /\ UNCHANGED snapshot /\ view' = [view EXCEPT ![c] = now]
        /\ now \in [revision : 0..MaxChanges, collections : Catalogs]
    BY <1>0, <1>2 DEF ReadCatalog, CatalogTypeOK
  <2>2. /\ view' \in [Clients -> [revision : 0..MaxChanges, collections : Catalogs]]
        /\ view'[c] = now /\ \A d \in Clients \ {c} : view'[d] = view[d]
    BY <1>0, <2>1 DEF CatalogTypeOK
  <2>3. CatalogTypeOK'
    BY <1>0, <2>1, <2>2 DEF CatalogTypeOK
  <2>4. ReadsAreOld' /\ RevisionNamesContent'
    BY <1>0, <2>1, <2>2 DEF CatalogInv, ReadsAreOld, RevisionNamesContent, Served, Has
  <2> QED
    BY <1>1, <2>3, <2>4 DEF CatalogInv
<1>3. ASSUME UNCHANGED view, snapshot'.revision <= revision,
             snapshot' \in [policy : {"none", "static_run", "round_boundary"}, revision : 0..MaxChanges,
                            tools : [Tools -> Descriptors \cup {Absence}]],
             snapshot'.policy # "none" => snapshot'.tools = Served(collections)
      PROVE  CatalogInv'
  <2>1. CatalogTypeOK'
    BY <1>0, <1>3 DEF CatalogTypeOK
  <2>2. ReadsAreOld' /\ RevisionNamesContent'
    BY <1>0, <1>3 DEF CatalogInv, ReadsAreOld, RevisionNamesContent, Served, Has
  <2> QED
    BY <1>1, <2>1, <2>2 DEF CatalogInv
<1>4. Served(collections) \in [Tools -> Descriptors \cup {Absence}] /\ Absence \in Descriptors \cup {Absence}
  BY <1>0, ServedTyped DEF CatalogTypeOK
<1>5. ASSUME NEW policy \in {"static_run", "round_boundary"}, BeginRun(policy) PROVE CatalogInv'
  BY <1>0, <1>3, <1>4, <1>5 DEF BeginRun, CatalogTypeOK
<1>6. CASE RefreshRound
  <2>1. snapshot.policy \in {"none", "static_run", "round_boundary"}
    BY <1>0 DEF CatalogTypeOK
  <2> QED
    BY <1>0, <1>3, <1>4, <1>6, <2>1 DEF RefreshRound, CatalogTypeOK
<1>7. CASE EndRun
  BY <1>0, <1>3, <1>4, <1>7 DEF EndRun, NoRun
<1> QED
  BY <1>2, <1>5, <1>6, <1>7

LEMMA CatalogInvStep == CatalogInv /\ [CatalogNext]_catalogVars => CatalogInv'
<1> SUFFICES ASSUME CatalogInv, [CatalogNext]_catalogVars PROVE CatalogInv'
  OBVIOUS
<1>0. collections \in Catalogs /\ NoTools \in Catalogs
  BY DEF CatalogInv, CatalogTypeOK, Catalogs, NoTools
<1>1. ASSUME NEW s \in Sources, NEW tools \in [Tools -> Descriptors \cup {Absence}], NEW all \in BOOLEAN,
             ReplaceTools(s, tools, all)
      PROVE  CatalogInv'
  <2>1. PICK former \in Catalogs : Commit([former EXCEPT ![s] = tools])
    BY <1>0, <1>1 DEF ReplaceTools
  <2>2. [former EXCEPT ![s] = tools] \in Catalogs
    BY DEF Catalogs
  <2> QED
    BY <1>1, <2>1, <2>2, CommitStep DEF ReplaceTools
<1>2. ASSUME NEW c \in Clients, NEW s \in Sources, NEW t \in Tools, NEW d \in Descriptors \cup {Absence},
             PatchTool(c, s, t, d)
      PROVE  CatalogInv'
  <2>1. [collections EXCEPT ![s][t] = d] \in Catalogs
    BY <1>0 DEF Catalogs
  <2> QED
    BY <1>2, <2>1, CommitStep DEF PatchTool
<1>3. CASE UNCHANGED catalogVars
  <2>1. UNCHANGED <<collections, revision, view, snapshot, superseded>>
    BY <1>3 DEF catalogVars
  <2>2. CatalogTypeOK'
    BY <2>1 DEF CatalogInv, CatalogTypeOK
  <2>3. ReadsAreOld' /\ SupersededIsDropped'
    BY <2>1 DEF CatalogInv, ReadsAreOld, SupersededIsDropped, Has
  <2>4. RevisionNamesContent'
    BY <2>1 DEF CatalogInv, RevisionNamesContent, Served, Has
  <2>5. StoredComposes'
    BY <2>1 DEF CatalogInv, StoredComposes, Served, Has
  <2> QED
    BY <2>2, <2>3, <2>4, <2>5 DEF CatalogInv
<1> QED
  BY <1>1, <1>2, <1>3, ReadStep DEF CatalogNext

LEMMA CatalogInvAlways == CatalogSpec => []CatalogInv
BY CatalogStart, CatalogInvStep, PTL DEF CatalogSpec

\* A revision names one content, an outdated entry stays gone and what is stored can be
\* composed, after any order of updates by the sources of a host (ToolCatalogService).
THEOREM CatalogsAreCoherent == CatalogSpec => []CatalogIsCoherent
<1>1. CatalogInv => CatalogIsCoherent
  BY DEF CatalogInv, CatalogIsCoherent, SupersededIsDropped, SupersededStaysGone
<1> QED
  BY <1>1, CatalogInvAlways, PTL

-----------------------------------------------------------------------------
(* The stream of an answer (ModelStream)                                      *)

Pieces == Items \X Fragments
\* Where a fragment has its place among all: the two of an item one after the other.
Place == [f \in Pieces |-> 2 * f[1] + f[2]]

\* The client hears the fragments of an item; it publishes them as it hears them.
Heard(i) == style.deltas /\ (answer[i] = "text" \/ style.protocol # "responses")
Live(i) == style.deltas /\ (answer[i] = "text" \/ style.protocol = "chat")
\* How many fragments of each item the engine has, when those of some are complete.
Counts(done) == [i \in Items |-> IF i \in DOMAIN answer /\ (Live(i) \/ i \in done) THEN Length(i) ELSE 0]

IsText(f) == f[1] \in DOMAIN answer /\ answer[f[1]] = "text"
\* A list has the first fragments of every item, none twice, and the text in its order.
Reported(u, c) ==
  /\ u \in Seq(Pieces)
  /\ \A f \in Pieces : f \in Range(u) <=> f[2] <= c[f[1]]
  /\ \A f \in Range(u) : f[1] \in DOMAIN answer
  /\ \A a, b \in 1..Len(u) : u[a] = u[b] => a = b
  /\ \A a, b \in 1..Len(u) : a < b /\ IsText(u[a]) /\ IsText(u[b]) => Place[u[a]] < Place[u[b]]

AnswerIsSaid ==
  /\ Len(answer) \in 1..MaxItems /\ answer \in [1..Len(answer) -> {"text", "call"}] /\ style \in Styles
  /\ spot.item \in 1..(Len(answer) + 1) /\ spot.fragment \in 0..2
  /\ spot = [item |-> spot.item, fragment |-> spot.fragment]
  /\ spot.item > Len(answer) => spot.fragment = 0
PartsAreHeard == parts = [i \in Items |-> IF i \in DOMAIN answer /\ Heard(i) THEN Length(i) ELSE 0]
\* The items that are complete are the first ones; before the terminal frame the service
\* has closed them all.
ItemsAreFirst ==
  /\ items \subseteq DOMAIN answer
  /\ \A i \in items : Length(i) > 0 /\ \A j \in 1..i : j \in items
  /\ finish = "none" => \A i \in items : i < spot.item
  /\ style.protocol = "chat" => items = {}
  /\ style.protocol # "chat" /\ style.dones => \A i \in 1..(spot.item - 1) : i \in items
EndIsKnown ==
  /\ finish \in {"none", "stop", "length"} /\ stream \in {"open", "ended", "failed"}
  /\ finish = "stop" => \A i \in DOMAIN answer : Counts(items)[i] = 2
  /\ finish # "none" => stream # "failed"
  /\ stream = "ended" => finish # "none"
StreamInv ==
  /\ AnswerIsSaid /\ PartsAreHeard /\ ItemsAreFirst /\ Reported(shown, Counts(items)) /\ EndIsKnown

LEMMA PlaceIs ==
  /\ Place \in [Pieces -> Int]
  /\ \A i \in Items, k \in Fragments : <<i, k>> \in Pieces /\ Place[<<i, k>>] = 2 * i + k
  /\ \A f \in Pieces : f[1] \in Items /\ f[2] \in Fragments /\ f = <<f[1], f[2]>> /\ Place[f] = 2 * f[1] + f[2]
<1>1. \A f \in Pieces : f[1] \in Items /\ f[2] \in Fragments /\ f = <<f[1], f[2]>> /\ 2 * f[1] + f[2] \in Int
  BY ItemsAssumption DEF Pieces, Items, Fragments
<1>2. \A i \in Items, k \in Fragments : <<i, k>> \in Pieces
  BY DEF Pieces
<1>3. Place \in [Pieces -> Int] /\ \A f \in Pieces : Place[f] = 2 * f[1] + f[2]
  BY <1>1 DEF Place
<1> QED BY <1>1, <1>2, <1>3

LEMMA LengthIs ==
  ASSUME AnswerIsSaid
  PROVE  /\ MaxItems \in Nat /\ DOMAIN answer = 1..Len(answer) /\ DOMAIN answer \subseteq Items
         /\ \A i \in Items : i \in Int /\ Length(i) \in 0..2
         /\ \A i \in DOMAIN answer : answer[i] \in {"text", "call"}
         /\ \A i, j \in Items : i < j /\ Length(j) > 0 => Length(i) = 2
         /\ \A i \in Items : i \notin DOMAIN answer => Length(i) = 0
         /\ \A done : Counts(done) \in [Items -> 0..2]
<1>1. MaxItems \in Nat /\ DOMAIN answer = 1..Len(answer) /\ DOMAIN answer \subseteq Items /\ spot.item \in Int
      /\ spot.fragment \in 0..2
  BY ItemsAssumption DEF AnswerIsSaid, Items
<1>2. \A i \in Items : i \in Int /\ Length(i) \in 0..2
  BY <1>1 DEF Items, Length
<1>3. \A i, j \in Items : i < j /\ Length(j) > 0 => Length(i) = 2
  BY <1>1 DEF Items, Length
<1>4. \A i \in Items : i \notin DOMAIN answer => Length(i) = 0
  <2> SUFFICES ASSUME NEW i \in Items, i \notin DOMAIN answer PROVE Length(i) = 0
    OBVIOUS
  <2>1. ~(i < spot.item) /\ (i = spot.item => spot.fragment = 0)
    BY <1>1 DEF AnswerIsSaid, Items
  <2> QED BY <2>1 DEF Length
<1>5. \A done : Counts(done) \in [Items -> 0..2]
  BY <1>2 DEF Counts
<1>6. \A i \in DOMAIN answer : answer[i] \in {"text", "call"}
  BY DEF AnswerIsSaid
<1> QED BY <1>1, <1>2, <1>3, <1>4, <1>5, <1>6

\* One more fragment of an item.
LEMMA ReportOne ==
  ASSUME AnswerIsSaid, NEW u, NEW c \in [Items -> 0..2], Reported(u, c),
         NEW i \in DOMAIN answer, c[i] < 2,
         answer[i] = "text" => \A j \in Items : j > i => c[j] = 0 \/ ~IsText(<<j, 1>>)
  PROVE  Reported(Append(u, <<i, c[i] + 1>>), [c EXCEPT ![i] = c[i] + 1])
<1> DEFINE f == <<i, c[i] + 1>>
           v == Append(u, f)
           d == [c EXCEPT ![i] = c[i] + 1]
<1>1. i \in Items /\ c[i] \in 0..2 /\ c[i] + 1 \in Fragments /\ i \in Int
  BY LengthIs DEF Fragments
<1>2. f \in Pieces /\ f[1] = i /\ f[2] = c[i] + 1
  BY <1>1, PlaceIs
<1>3. u \in Seq(Pieces)
  BY DEF Reported
<1> HIDE DEF f
<1>4. /\ v \in Seq(Pieces) /\ Len(u) \in Nat /\ Len(v) = Len(u) + 1
      /\ v[Len(u) + 1] = f /\ \A a \in 1..Len(u) : v[a] = u[a] /\ u[a] \in Range(u)
      /\ Range(v) = Range(u) \cup {f}
  <2>1. /\ Len(u) \in Nat /\ DOMAIN u = 1..Len(u) /\ \A a \in 1..Len(u) : v[a] = u[a]
        /\ v \in Seq(Pieces) /\ Len(v) = Len(u) + 1
    BY <1>2, <1>3
  <2>2. v[Len(u) + 1] = f
    BY <1>2, <1>3
  <2>3. Range(v) = Range(u) \cup {f}
    <3> HIDE DEF v
    <3>1. v = Append(u, f)
      BY DEF v
    <3>2. f \in Pieces
      BY <1>2
    <3>3. Range(Append(u, f)) = Range(u) \cup {f}
      BY <1>3, <3>2, Appended
    <3> QED BY <3>1, <3>3
  <2>4. \A a \in 1..Len(u) : u[a] \in Range(u)
    BY <2>1 DEF Range
  <2> HIDE DEF v
  <2> QED BY <2>1, <2>2, <2>3, <2>4
<1> HIDE DEF v
<1>5. d \in [Items -> 0..3] /\ d[i] = c[i] + 1 /\ \A j \in Items : j # i => d[j] = c[j]
  BY <1>1
<1> HIDE DEF d
<1>6. \A g \in Pieces : g \in Range(v) <=> g[2] <= d[g[1]]
  <2> SUFFICES ASSUME NEW g \in Pieces PROVE g \in Range(v) <=> g[2] <= d[g[1]]
    OBVIOUS
  <2>1. g[1] \in Items /\ g[2] \in Int /\ g = <<g[1], g[2]>> /\ (g \in Range(u) <=> g[2] <= c[g[1]])
        /\ c[g[1]] \in Int /\ c[i] \in Int
    BY <1>1, PlaceIs DEF Reported, Fragments
  <2>2. CASE g[1] # i
    <3>1. g # f
      BY <1>2, <2>2
    <3> QED BY <1>4, <1>5, <2>1, <2>2, <3>1
  <2>3. CASE g[1] = i
    <3>1. g = f <=> g[2] = c[i] + 1
      BY <1>2, <2>1, <2>3 DEF f
    <3> QED BY <1>4, <1>5, <2>1, <2>3, <3>1
  <2> QED BY <2>2, <2>3
<1>7. f \notin Range(u) /\ \A g \in Range(v) : g[1] \in DOMAIN answer
  <2>1. ~(f[2] <= c[f[1]])
    BY <1>1, <1>2
  <2> QED BY <1>2, <1>4, <2>1 DEF Reported
<1>8. ASSUME NEW a \in 1..Len(v), NEW b \in 1..Len(v), v[a] = v[b] PROVE a = b
  <2>1. (a \in 1..Len(u) \/ a = Len(u) + 1) /\ (b \in 1..Len(u) \/ b = Len(u) + 1)
    BY <1>4
  <2>2. \A x, y \in 1..Len(u) : u[x] = u[y] => x = y
    BY DEF Reported
  <2> QED BY <1>4, <1>7, <1>8, <2>1, <2>2
<1>9. ASSUME NEW a \in 1..Len(v), NEW b \in 1..Len(v), a < b, IsText(v[a]), IsText(v[b])
      PROVE  Place[v[a]] < Place[v[b]]
  <2>1. a \in 1..Len(u) /\ (b \in 1..Len(u) \/ b = Len(u) + 1)
    BY <1>4, <1>9
  <2>2. CASE b \in 1..Len(u)
    BY <1>4, <1>9, <2>1, <2>2 DEF Reported
  <2>3. CASE b = Len(u) + 1
    <3> DEFINE g == u[a]
    <3>1. g \in Range(u) /\ g \in Pieces /\ v[a] = g /\ v[b] = f /\ IsText(f) /\ IsText(g)
      BY <1>3, <1>4, <1>9, <2>1, <2>3
    <3> HIDE DEF g
    <3>2. g[1] \in Items /\ g[2] \in Fragments /\ g[2] <= c[g[1]] /\ Place[g] = 2 * g[1] + g[2]
          /\ c[g[1]] \in 0..2 /\ Place[f] = 2 * i + (c[i] + 1)
      BY <3>1, <1>2, PlaceIs DEF Reported
    <3>3. answer[i] = "text" /\ g[1] \in DOMAIN answer /\ answer[g[1]] = "text" /\ c[g[1]] # 0
      BY <1>2, <3>1, <3>2 DEF IsText, Fragments
    <3>4. ~(g[1] > i)
      <4>1. \A x : x = g[1] => IsText(<<x, 1>>)
        BY <3>3 DEF IsText
      <4> QED BY <3>2, <3>3, <4>1
    <3>5. g[1] \in Int /\ g[2] \in Int /\ c[g[1]] \in Int /\ g[2] <= 2
      BY SMTT(40), <3>2, LengthIs DEF Fragments
    <3>6. 2 * g[1] + g[2] < 2 * i + (c[i] + 1)
      <4>1. CASE g[1] = i
        BY <1>1, <3>2, <3>5, <4>1
      <4>2. CASE g[1] < i
        <5>1. \A x, y, k, l \in Int : x < y /\ k <= 2 /\ l > 0 => 2 * x + k < 2 * y + l
          OBVIOUS
        <5>2. c[i] + 1 \in Int /\ c[i] + 1 > 0
          BY <1>1
        <5> QED BY <1>1, <3>5, <4>2, <5>1, <5>2
      <4> QED BY <1>1, <3>4, <3>5, <4>1, <4>2
    <3> QED BY <3>1, <3>2, <3>6
  <2> QED BY <2>1, <2>2, <2>3
<1>10. Reported(v, d)
  BY <1>4, <1>6, <1>7, <1>8, <1>9 DEF Reported
<1> QED BY <1>10 DEF v, d, f

\* The first fragments of an item the engine has nothing of.
LEMMA ReportItem ==
  ASSUME AnswerIsSaid, NEW u, NEW c \in [Items -> 0..2], Reported(u, c),
         NEW i \in DOMAIN answer, c[i] = 0, NEW n \in 0..2,
         answer[i] = "text" => \A j \in Items : j > i => c[j] = 0 \/ ~IsText(<<j, 1>>)
  PROVE  Reported(u \o SubSeq(Whole(i), 1, n), [c EXCEPT ![i] = n])
<1> DEFINE one == Append(u, <<i, 1>>)
           both == Append(one, <<i, 2>>)
           first == [c EXCEPT ![i] = 1]
<1>1. i \in Items /\ <<i, 1>> \in Pieces /\ <<i, 2>> \in Pieces /\ u \in Seq(Pieces)
  BY LengthIs, PlaceIs DEF Reported, Fragments
<1>2. first \in [Items -> 0..2] /\ first[i] = 1 /\ \A j \in Items : j # i => first[j] = c[j]
  BY <1>1
<1>3. Reported(one, first)
  <2>1. c[i] < 2
    BY <1>1
  <2>2. Reported(Append(u, <<i, c[i] + 1>>), [c EXCEPT ![i] = c[i] + 1])
    BY <2>1, ReportOne
  <2>3. c[i] + 1 = 1
    BY <1>1
  <2> QED BY <2>2, <2>3
<1> HIDE DEF one, first
<1>4. Reported(both, [first EXCEPT ![i] = 2])
  <2>1. \A j \in Items : j > i => j # i
    BY LengthIs
  <2>2. answer[i] = "text" => \A j \in Items : j > i => first[j] = 0 \/ ~IsText(<<j, 1>>)
    BY <1>2, <2>1
  <2>3. first[i] < 2
    BY <1>2
  <2>4. Reported(Append(one, <<i, first[i] + 1>>), [first EXCEPT ![i] = first[i] + 1])
    BY <1>2, <1>3, <2>2, <2>3, ReportOne
  <2> QED BY <1>2, <2>4
<1>5. [first EXCEPT ![i] = 2] = [c EXCEPT ![i] = 2]
  BY DEF first
<1>6. Whole(i) \in Seq(Pieces) /\ Len(Whole(i)) = 2 /\ Whole(i)[1] = <<i, 1>> /\ Whole(i)[2] = <<i, 2>>
  BY <1>1 DEF Whole, Fragments
<1> DEFINE w == Whole(i)
<1> HIDE DEF w
<1>w. w \in Seq(Pieces) /\ Len(w) = 2 /\ w[1] = <<i, 1>> /\ w[2] = <<i, 2>> /\ w = Whole(i)
  BY <1>6 DEF w
<1>7. u \o SubSeq(w, 1, 0) = u /\ u \o SubSeq(w, 1, 1) = one /\ u \o SubSeq(w, 1, 2) = both
  <2>1. /\ u \o SubSeq(w, 1, 0) = u
        /\ u \o SubSeq(w, 1, 1) = Append(u, w[1])
        /\ u \o w = Append(Append(u, w[1]), w[2]) /\ SubSeq(w, 1, 2) = w
    BY <1>1, <1>w, PairJoined, ZenonT(40)
  <2> QED BY <1>w, <2>1 DEF one
<1>8. [c EXCEPT ![i] = 0] = c
  BY <1>1
<1>9. n = 0 \/ n = 1 \/ n = 2
  OBVIOUS
<1> HIDE DEF both
<1>10. Reported(u \o SubSeq(w, 1, n), [c EXCEPT ![i] = n])
  <2>1. CASE n = 0
    BY <1>7, <1>8, <2>1
  <2>2. CASE n = 1
    BY <1>3, <1>7, <2>2 DEF first
  <2>3. CASE n = 2
    BY <1>4, <1>5, <1>7, <2>3
  <2> QED BY <1>9, <2>1, <2>2, <2>3
<1> QED BY <1>10, <1>w

\* Completing goes through the items in their order.
Completed(is, u) ==
  /\ u \in [0..MaxItems -> Seq(Pieces)] /\ u[0] = shown
  /\ \A i \in 1..MaxItems :
       u[i] = u[i - 1] \o (IF i \in is \ items THEN Missing(i, Length(i)) ELSE <<>>)

LEMMA CompletingIs ==
  ASSUME AnswerIsSaid, shown \in Seq(Pieces), NEW is
  PROVE  \E u : Completed(is, u) /\ Completing(is) = u[MaxItems]
<1> DEFINE added(i) == IF i \in is \ items THEN Missing(i, Length(i)) ELSE <<>>
           after(s, i) == s \o added(i)
           next == [x \in Seq(Pieces) \X (1..MaxItems) |-> after(x[1], x[2])]
           UpTo(u) == u = [i \in 0..MaxItems |-> IF i = 0 THEN shown ELSE after(u[i - 1], i)]
<1>1. MaxItems \in Nat
  BY ItemsAssumption
<1>2. \A i \in 1..MaxItems : added(i) \in Seq(Pieces)
  <2> SUFFICES ASSUME NEW i \in 1..MaxItems PROVE added(i) \in Seq(Pieces)
    OBVIOUS
  <2>1. <<>> \in Seq(Pieces)
    OBVIOUS
  <2>2. Whole(i) \in Seq(Pieces) /\ Len(Whole(i)) = 2
    <3>1. \A k \in 1..2 : <<i, k>> \in Pieces
      BY PlaceIs DEF Items, Fragments
    <3> QED BY <3>1 DEF Whole, Fragments
  <2>3. SubSeq(Whole(i), 1, Length(i)) \in Seq(Pieces)
    <3>1. Length(i) \in 0..2
      BY LengthIs DEF Items
    <3> QED BY SMTT(40), <2>2, <3>1
  <2> QED BY <2>1, <2>3 DEF Missing
<1> HIDE DEF added
<1>3. next \in [Seq(Pieces) \X (1..MaxItems) -> Seq(Pieces)]
  BY <1>2
<1>4. \A s \in Seq(Pieces), i \in 1..MaxItems : next[<<s, i>>] = after(s, i)
  OBVIOUS
<1> HIDE DEF next
<1>5. PICK u : Computes(Seq(Pieces), shown, MaxItems, next, u)
  BY <1>1, <1>3, Recursion, Zenon
<1>6. u \in [0..MaxItems -> Seq(Pieces)] /\ u[0] = shown
      /\ \A i \in 1..MaxItems : u[i] = next[<<u[i - 1], i>>]
  BY <1>5 DEF Computes
<1>7. ASSUME NEW i \in 1..MaxItems PROVE u[i] = after(u[i - 1], i)
  <2>1. u[i - 1] \in Seq(Pieces)
    BY <1>1, <1>6
  <2> HIDE DEF after
  <2> QED BY <1>4, <1>6, <2>1
<1> HIDE DEF after
<1>8. UpTo(u)
  <2>1. \A i \in 0..MaxItems : u[i] = IF i = 0 THEN shown ELSE after(u[i - 1], i)
    BY <1>1, <1>6, <1>7
  <2>2. u = [i \in 0..MaxItems |-> u[i]]
    BY <1>6
  <2> QED BY <2>1, <2>2
<1>9. Completing(is) = (CHOOSE v : UpTo(v))[MaxItems]
  BY DEF Completing, added, after
<1>10. ASSUME NEW v, UpTo(v) PROVE v = u
  <2>1. DOMAIN v = 0..MaxItems /\ v[0] = shown /\ \A i \in 1..MaxItems : v[i] = after(v[i - 1], i)
    BY <1>1, <1>10
  <2> DEFINE T == {i \in 0..MaxItems : v[i] = u[i]}
  <2>2. 0 \in T /\ \A i \in 1..MaxItems : i - 1 \in T => i \in T
    BY <1>1, <1>6, <1>7, <2>1
  <2> HIDE DEF T
  <2>3. \A i \in 0..MaxItems : i \in T
    BY <1>1, <2>2, Induction, Zenon
  <2>4. \A i \in 0..MaxItems : v[i] = u[i]
    BY <2>3 DEF T
  <2>5. v = [i \in 0..MaxItems |-> v[i]]
    BY <1>10
  <2> QED BY <1>6, <2>4, <2>5
<1> HIDE DEF UpTo
<1>11. (CHOOSE v : UpTo(v)) = u
  BY <1>8, <1>10
<1> QED BY <1>6, <1>7, <1>9, <1>11 DEF Completed, added, after

\* Completing items adds what the engine has not of them.
LEMMA CompletingReports ==
  ASSUME AnswerIsSaid, PartsAreHeard, ItemsAreFirst, Reported(shown, Counts(items)),
         NEW is \in SUBSET (DOMAIN answer), \A i \in is : Length(i) > 0, style.protocol = "chat" => is = {}
  PROVE  Reported(Completing(is), Counts(items \cup is))
<1> DEFINE had == Counts(items)
           has == Counts(items \cup is)
           upTo(k) == [j \in Items |-> IF j <= k THEN has[j] ELSE had[j]]
<1>1. MaxItems \in Nat /\ DOMAIN answer \subseteq Items /\ Items = 1..MaxItems
  BY LengthIs DEF Items
<1>2. had \in [Items -> 0..2] /\ has \in [Items -> 0..2]
  BY LengthIs
<1>3. PICK u : Completed(is, u) /\ Completing(is) = u[MaxItems]
  BY CompletingIs DEF Reported
<1>4. \A i \in Items : \/ i \notin is \ items /\ has[i] = had[i]
                       \/ i \in is \ items /\ i \in DOMAIN answer /\ had[i] = (IF Live(i) THEN Length(i) ELSE 0)
                            /\ has[i] = Length(i)
  BY <1>1 DEF Counts
<1>5. Reported(u[0], upTo(0))
  <2>1. upTo(0) = had
    BY <1>1, <1>2
  <2> QED BY <1>3, <2>1 DEF Completed
<1>6. \A k \in 0..MaxItems : upTo(k) \in [Items -> 0..2]
  BY <1>2
<1>7. ASSUME NEW i \in 1..MaxItems, Reported(u[i - 1], upTo(i - 1)) PROVE Reported(u[i], upTo(i))
  <2> DEFINE c == upTo(i - 1)
  <2>1. i \in Items /\ i - 1 \in 0..MaxItems /\ u[i - 1] \in Seq(Pieces)
        /\ u[i] = u[i - 1] \o (IF i \in is \ items THEN Missing(i, Length(i)) ELSE <<>>)
    <3>1. i \in Items /\ i - 1 \in 0..MaxItems
      BY <1>1
    <3>2. u[i - 1] \in Seq(Pieces)
      BY <1>3, <3>1 DEF Completed
    <3>3. u[i] = u[i - 1] \o (IF i \in is \ items THEN Missing(i, Length(i)) ELSE <<>>)
      BY <1>3 DEF Completed
    <3> QED BY <3>1, <3>2, <3>3
  <2>2. c \in [Items -> 0..2] /\ c[i] = had[i] /\ \A j \in Items : j > i => c[j] = had[j]
    <3>1. c \in [Items -> 0..2]
      BY <1>6, <2>1
    <3>2. \A j \in Items : j >= i => ~(j <= i - 1)
      BY <1>1
    <3>3. i >= i
      BY <1>1
    <3> HIDE DEF had, has
    <3>4. \A j \in Items : j >= i => c[j] = had[j]
      BY <3>2
    <3>5. \A j \in Items : j > i => j >= i
      BY <1>1
    <3> QED BY <2>1, <3>1, <3>3, <3>4, <3>5
  <2>3. upTo(i) = [c EXCEPT ![i] = has[i]]
    <3>1. \A j \in Items : j <= i <=> j <= i - 1 \/ j = i
      BY <1>1
    <3> QED BY <2>1, <3>1
  <2> HIDE DEF upTo, c, had, has
  <2>4. Reported(u[i - 1], c)
    BY <1>7 DEF c
  <2>5. u[i - 1] \o <<>> = u[i - 1]
    BY <2>1
  <2>6. CASE has[i] = had[i] /\ u[i] = u[i - 1] \o <<>>
    <3>1. [c EXCEPT ![i] = has[i]] = c
      BY <2>1, <2>2, <2>6
    <3> QED BY <2>3, <2>4, <2>5, <2>6, <3>1
  <2>7. CASE i \in is \ items /\ ~(answer[i] = "text" /\ Heard(i))
    <3>1. i \in DOMAIN answer /\ answer[i] \in {"text", "call"} /\ style.protocol # "chat"
          /\ Length(i) \in 0..2 /\ Length(i) > 0
      BY <1>4, <2>1, <2>7, LengthIs
    <3>2. ~Live(i) /\ (answer[i] = "text" => ~style.deltas)
      BY <2>7, <3>1 DEF Live, Heard
    <3>3. c[i] = 0 /\ has[i] = Length(i)
      BY <1>4, <2>1, <2>2, <2>7, <3>2
    <3>4. Missing(i, Length(i)) = SubSeq(Whole(i), 1, Length(i))
      <4>1. ~(answer[i] = "text" /\ parts[i] > 0)
        <5>1. answer[i] = "text" => parts[i] = 0
          BY <2>1, <2>7 DEF PartsAreHeard
        <5> QED BY <5>1
      <4> QED BY <4>1 DEF Missing
    <3>5. ASSUME answer[i] = "text", NEW j \in Items, j > i PROVE c[j] = 0
      <4>1. ~Live(j) /\ j \notin items
        <5>1. j \in items => i \in items
          BY <1>1, <3>5 DEF ItemsAreFirst
        <5> QED BY <2>7, <3>2, <3>5, <5>1 DEF Live
      <4>2. had[j] = 0
        BY <4>1 DEF Counts, had
      <4> QED BY <2>2, <3>5, <4>2
    <3>6. Reported(u[i - 1] \o SubSeq(Whole(i), 1, Length(i)), [c EXCEPT ![i] = Length(i)])
      BY <2>2, <2>4, <3>1, <3>3, <3>5, ReportItem
    <3>7. u[i] = u[i - 1] \o SubSeq(Whole(i), 1, Length(i))
      BY <2>1, <2>7, <3>4
    <3> QED BY <2>3, <3>3, <3>6, <3>7
  <2>8. CASE i \notin is \ items
    BY <1>4, <2>1, <2>6, <2>8
  <2>9. CASE i \in is \ items /\ answer[i] = "text" /\ Heard(i)
    <3>1. Live(i) /\ i \in DOMAIN answer /\ Length(i) > 0
      BY <1>4, <2>1, <2>9 DEF Live, Heard
    <3>2. parts[i] > 0
      BY <2>1, <2>9, <3>1 DEF PartsAreHeard
    <3>3. Missing(i, Length(i)) = <<>>
      BY <2>9, <3>2 DEF Missing
    <3> QED BY <1>4, <2>1, <2>6, <2>9, <3>1, <3>3
  <2> QED BY <2>7, <2>8, <2>9
<1> DEFINE T == {k \in 0..MaxItems : Reported(u[k], upTo(k))}
<1>8. 0 \in T /\ \A i \in 1..MaxItems : i - 1 \in T => i \in T
  <2> HIDE DEF upTo
  <2> QED BY <1>1, <1>5, <1>7
<1>9. MaxItems \in T
  <2> HIDE DEF T
  <2>1. \A i \in 0..MaxItems : i \in T
    BY <1>1, <1>8, Induction, Zenon
  <2> QED BY <1>1, <2>1
<1>10. upTo(MaxItems) = has
  <2> HIDE DEF had, has
  <2>1. \A j \in Items : j <= MaxItems
    BY <1>1
  <2>2. upTo(MaxItems) = [j \in Items |-> has[j]]
    BY <2>1
  <2> QED BY <1>2, <2>2
<1> QED BY <1>3, <1>9, <1>10

LEMMA StreamStart == StreamInit => StreamInv
<1> SUFFICES ASSUME StreamInit PROVE StreamInv
  OBVIOUS
<1>1. AnswerIsSaid
  <2>1. PICK n \in 1..MaxItems : answer \in [1..n -> {"text", "call"}]
    BY DEF StreamInit
  <2>2. n \in Nat /\ Len(answer) = n
    BY <2>1, ItemsAssumption
  <2> QED BY <2>1, <2>2, ItemsAssumption DEF StreamInit, AnswerIsSaid
<1>2. \A i \in Items : Length(i) = 0
  BY ItemsAssumption DEF StreamInit, Length, Items
<1>3. PartsAreHeard
  BY <1>2 DEF StreamInit, PartsAreHeard
<1>4. ItemsAreFirst
  BY DEF StreamInit, ItemsAreFirst
<1>5. Reported(shown, Counts(items))
  <2>1. shown = <<>> /\ shown \in Seq(Pieces) /\ Len(shown) = 0 /\ Range(shown) = {}
    BY DEF StreamInit, Range
  <2>2. \A f \in Pieces : ~(f[2] <= Counts(items)[f[1]])
    <3>1. \A i \in Items : Counts(items)[i] = 0
      BY <1>2 DEF Counts
    <3> QED BY <3>1, PlaceIs DEF Fragments
  <2> QED BY <2>1, <2>2 DEF Reported
<1> QED BY <1>1, <1>3, <1>4, <1>5 DEF StreamInv, StreamInit, EndIsKnown

\* What the engine has been given is judged by the answer, which stays what it is.
LEMMA ReportKeeps ==
  ASSUME answer' = answer, Reported(shown', Counts(items)')
  PROVE  Reported(shown, Counts(items))'
BY DEF Reported, IsText

\* Nothing moves but what is complete, and what completing that gives.
LEMMA CompletingStep ==
  ASSUME StreamInv, UNCHANGED <<answer, style, spot, parts>>,
         NEW is \in SUBSET (DOMAIN answer), \A i \in is : Length(i) > 0, style.protocol = "chat" => is = {},
         \A i \in is : \A j \in 1..i : j \in items \cup is,
         items' = items \cup is, shown' = Completing(is),
         finish' = "none" => finish = "none" /\ is \subseteq items
  PROVE  /\ AnswerIsSaid' /\ PartsAreHeard' /\ ItemsAreFirst' /\ Reported(shown, Counts(items))'
         /\ Counts(items)' = Counts(items \cup is)
<1>1. \A i : Length(i)' = Length(i)
  BY DEF Length
<1>2. AnswerIsSaid'
  BY DEF StreamInv, AnswerIsSaid
<1>3. PartsAreHeard'
  BY <1>1 DEF StreamInv, PartsAreHeard, Heard
<1>4. ItemsAreFirst'
  <2>1. ItemsAreFirst
    BY DEF StreamInv
  <2>2. items' \subseteq DOMAIN answer' /\ \A i \in items' : Length(i)' > 0 /\ \A j \in 1..i : j \in items'
    BY <1>1, <2>1 DEF ItemsAreFirst
  <2>3. finish' = "none" => \A i \in items' : i < spot'.item
    BY <2>1 DEF ItemsAreFirst
  <2>4. style'.protocol = "chat" => items' = {}
    BY <2>1 DEF ItemsAreFirst
  <2>5. style'.protocol # "chat" /\ style'.dones => \A i \in 1..(spot'.item - 1) : i \in items'
    BY <2>1 DEF ItemsAreFirst
  <2> QED BY <2>2, <2>3, <2>4, <2>5 DEF ItemsAreFirst
<1>5. Counts(items)' = Counts(items \cup is)
  BY <1>1 DEF Counts, Live
<1>6. Reported(shown, Counts(items))'
  <2>1. Reported(Completing(is), Counts(items \cup is))
    BY CompletingReports DEF StreamInv
  <2> QED BY <1>5, <2>1, ReportKeeps
<1> QED BY <1>2, <1>3, <1>4, <1>5, <1>6

LEMMA RepeatDoneStep ==
  ASSUME StreamInv, NEW i \in Items, RepeatDone(i)
  PROVE  StreamInv'
<1>1. /\ i \in items /\ style.protocol = "responses" /\ finish = "none" /\ stream = "open"
      /\ UNCHANGED <<answer, style, spot, parts, items, finish, stream>> /\ shown' = Completing({i})
  BY DEF RepeatDone, Client, Listening
<1>2. ItemsAreFirst
  BY DEF StreamInv
<1>3. {i} \in SUBSET (DOMAIN answer) /\ Length(i) > 0 /\ (\A j \in 1..i : j \in items \cup {i})
      /\ items' = items \cup {i} /\ {i} \subseteq items
  BY <1>1, <1>2 DEF ItemsAreFirst
<1>4. /\ AnswerIsSaid' /\ PartsAreHeard' /\ ItemsAreFirst' /\ Reported(shown, Counts(items))'
  <2>1. \A x \in {i} : Length(x) > 0 /\ \A j \in 1..x : j \in items \cup {i}
    BY <1>3
  <2> QED BY <1>1, <1>3, <2>1, CompletingStep
<1> QED BY <1>1, <1>4 DEF StreamInv, EndIsKnown

LEMMA FinishStep ==
  ASSUME StreamInv, FinishWhole \/ FinishShort
  PROVE  StreamInv'
<1>1. CASE UNCHANGED <<answer, style, spot, parts, items, shown, finish>> /\ finish = "none" /\ stream' = "failed"
  <2>1. (\A i : Length(i)' = Length(i)) /\ Counts(items)' = Counts(items)
    BY <1>1 DEF Length, Counts, Live
  <2>2. AnswerIsSaid' /\ PartsAreHeard' /\ ItemsAreFirst'
    BY <1>1, <2>1 DEF StreamInv, AnswerIsSaid, PartsAreHeard, Heard, ItemsAreFirst
  <2>3. Reported(shown, Counts(items))'
    BY <1>1, <2>1, ReportKeeps DEF StreamInv
  <2> QED BY <1>1, <2>2, <2>3 DEF StreamInv, EndIsKnown
<1>2. ASSUME NEW reason \in {"stop", "length"}, FinishWith(reason), finish = "none", stream = "open",
             reason = "stop" => spot.item > Len(answer)
      PROVE  StreamInv'
  <2>1. /\ UNCHANGED <<answer, style, spot, parts>> /\ items' = items \cup Terminal
        /\ shown' = Completing(Terminal) /\ finish' = reason /\ stream' = AfterFinish
    BY <1>2 DEF FinishWith, Client
  <2>2. ItemsAreFirst /\ AnswerIsSaid
    BY DEF StreamInv
  <2>3. Terminal \in SUBSET (DOMAIN answer) /\ \A i \in Terminal : Length(i) > 0
    BY <2>2 DEF Terminal, SaidItems, ItemsAreFirst
  <2>4. style.protocol = "chat" => Terminal = {}
    BY <2>2 DEF Terminal, ItemsAreFirst
  <2>5. \A i \in Terminal : \A j \in 1..i : j \in items \cup Terminal
    <3>1. CASE Terminal = items
      BY <2>2, <3>1 DEF ItemsAreFirst
    <3>2. CASE Terminal = SaidItems
      <4> SUFFICES ASSUME NEW i \in SaidItems, NEW j \in 1..i PROVE j \in SaidItems
        BY <3>2
      <4>1. i \in DOMAIN answer /\ Length(i) > 0 /\ DOMAIN answer = 1..Len(answer) /\ DOMAIN answer \subseteq Items
            /\ Len(answer) \in Int
        BY <2>2, LengthIs DEF SaidItems, AnswerIsSaid
      <4>2. j \in DOMAIN answer /\ (j = i \/ j < i)
        BY <4>1
      <4>3. Length(j) > 0
        <5>1. j < i => Length(j) = 2
          BY <2>2, <4>1, <4>2, LengthIs
        <5> QED BY <4>1, <4>2, <5>1
      <4> QED BY <4>2, <4>3 DEF SaidItems
    <3> QED BY <3>1, <3>2 DEF Terminal
  <2>6. /\ AnswerIsSaid' /\ PartsAreHeard' /\ ItemsAreFirst' /\ Reported(shown, Counts(items))'
        /\ Counts(items)' = Counts(items \cup Terminal)
    <3>1. finish' # "none"
      BY <2>1
    <3> HIDE DEF Terminal
    <3> QED BY <2>1, <2>3, <2>4, <2>5, <3>1, CompletingStep
  <2>7. ASSUME reason = "stop", NEW i \in DOMAIN answer PROVE Counts(items \cup Terminal)[i] = 2
    <3>1. i \in Items /\ i \in 1..Len(answer) /\ spot.item \in Int /\ Len(answer) \in Int
          /\ answer[i] \in {"text", "call"}
      BY <2>2, LengthIs DEF AnswerIsSaid
    <3>2. i < spot.item /\ i \in 1..(spot.item - 1)
      BY <1>2, <2>7, <3>1
    <3>3. Length(i) = 2
      BY <3>2 DEF Length
    <3>4. Live(i) \/ i \in items \cup Terminal
      <4>1. style.protocol \in {"chat", "messages", "responses"} /\ (style.protocol # "responses" => style.deltas /\ style.dones)
            /\ (style.protocol = "responses" => style.dones \/ style.output)
        BY <2>2 DEF AnswerIsSaid, Styles
      <4>2. CASE style.protocol = "chat"
        BY <4>1, <4>2 DEF Live
      <4>3. CASE style.protocol # "chat" /\ style.dones
        BY <2>2, <3>2, <4>3 DEF ItemsAreFirst
      <4>4. CASE style.protocol = "responses" /\ style.output
        BY <3>3, <4>4 DEF Terminal, SaidItems
      <4> QED BY <4>1, <4>2, <4>3, <4>4
    <3> QED BY <3>1, <3>3, <3>4 DEF Counts
  <2>8. EndIsKnown'
    BY <1>2, <2>1, <2>6, <2>7 DEF EndIsKnown, AfterFinish
  <2> QED BY <2>6, <2>8 DEF StreamInv
<1>3. CASE FinishWhole
  BY <1>2, <1>3 DEF FinishWhole, Listening
<1>4. CASE FinishShort
  BY <1>1, <1>2, <1>4 DEF FinishShort, Listening
<1> QED BY <1>3, <1>4

LEMMA FragmentStep ==
  ASSUME StreamInv, NEW i \in Items, Fragment(i)
  PROVE  StreamInv'
<1> DEFINE k == spot.fragment + 1
           had == Counts(items)
<1>1. /\ finish = "none" /\ stream = "open" /\ spot.item = i /\ i <= Len(answer) /\ spot.fragment < 2
      /\ spot' = [spot EXCEPT !.fragment = k] /\ UNCHANGED <<answer, style, finish, stream, items>>
      /\ parts' = (IF Heard(i) THEN [parts EXCEPT ![i] = k] ELSE parts)
      /\ shown' = (IF Live(i) THEN Append(shown, <<i, k>>) ELSE shown)
  <2>1. i = spot.item /\ i <= Len(answer) /\ i \in DOMAIN answer
    BY ItemsAssumption DEF Fragment, Speaks, StreamInv, AnswerIsSaid, Items
  <2>2. Heard(i) /\ Published(i) <=> Live(i)
    BY DEF Heard, Published, Live, StreamInv, AnswerIsSaid, Styles
  <2> QED BY <2>1, <2>2 DEF Fragment, Speaks, Listening, Client, Heard
<1>2. /\ AnswerIsSaid /\ PartsAreHeard /\ ItemsAreFirst /\ Reported(shown, had) /\ i \in DOMAIN answer
      /\ spot.fragment \in 0..1 /\ k \in 1..2 /\ MaxItems \in Nat
  BY <1>1, ItemsAssumption DEF StreamInv, AnswerIsSaid, Items
<1>3. spot'.item = i /\ spot'.fragment = k /\ spot' = [item |-> i, fragment |-> k]
  BY <1>1, <1>2 DEF AnswerIsSaid
<1>4. \A j \in Items : Length(j)' = IF j = i THEN k ELSE Length(j)
  <2>1. \A j \in Items : ~(i < i)
    BY <1>2 DEF Items
  <2> QED BY <1>1, <1>3, <2>1 DEF Length
<1>5. Length(i) = spot.fragment /\ i \notin items /\ \A j \in Items : j > i => Length(j) = 0
  <2>1. \A x \in Items : ~(x < x)
    BY <1>2 DEF Items
  <2>2. \A x, y \in Items : x > y => ~(x < y) /\ x # y
    BY <1>2 DEF Items
  <2>3. i \notin items
    BY <1>1, <1>2, <2>1 DEF ItemsAreFirst
  <2> QED BY <1>1, <2>1, <2>2, <2>3 DEF Length
<1> HIDE DEF k
<1>6. AnswerIsSaid'
  BY <1>1, <1>2, <1>3 DEF AnswerIsSaid
<1>7. PartsAreHeard'
  <2>1. \A j : Heard(j)' <=> Heard(j)
    BY <1>1 DEF Heard
  <2>2. parts \in [Items -> 0..2] /\ \A j \in Items : parts[j] = IF j \in DOMAIN answer /\ Heard(j) THEN Length(j) ELSE 0
    BY <1>2, LengthIs DEF PartsAreHeard
  <2>3. parts' = [j \in Items |-> parts'[j]]
    BY <1>1, <2>2
  <2>4. ASSUME NEW j \in Items PROVE parts'[j] = IF j \in DOMAIN answer /\ Heard(j) THEN Length(j)' ELSE 0
    BY <1>1, <1>2, <1>4, <2>2
  <2> QED BY <1>1, <2>1, <2>3, <2>4 DEF PartsAreHeard
<1>8. ItemsAreFirst'
  <2>1. \A j \in items : j \in Items
    BY <1>2, LengthIs DEF ItemsAreFirst
  <2>2. \A j \in items : Length(j)' > 0
    BY <1>2, <1>4, <1>5, <2>1 DEF ItemsAreFirst
  <2> QED BY <1>1, <1>2, <1>3, <2>2 DEF ItemsAreFirst
<1>9. had \in [Items -> 0..2] /\ Counts(items)' = IF Live(i) THEN [had EXCEPT ![i] = k] ELSE had
  <2>1. \A j : Live(j)' <=> Live(j)
    BY <1>1 DEF Live
  <2>2. had \in [Items -> 0..2]
    BY <1>2, LengthIs
  <2>3. Counts(items)' = [j \in Items |-> IF j \in DOMAIN answer /\ (Live(j) \/ j \in items) THEN Length(j)' ELSE 0]
    BY <1>1, <2>1 DEF Counts
  <2>4. had = [j \in Items |-> IF j \in DOMAIN answer /\ (Live(j) \/ j \in items) THEN Length(j) ELSE 0]
    BY DEF Counts
  <2> DEFINE given(j) == j \in DOMAIN answer /\ (Live(j) \/ j \in items)
             now == Counts(items)'
             then == IF Live(i) THEN [had EXCEPT ![i] = k] ELSE had
  <2>5. given(i) <=> Live(i)
    BY <1>2, <1>5
  <2> HIDE DEF had, given
  <2>6. now = [j \in Items |-> IF given(j) THEN Length(j)' ELSE 0]
    BY <2>3 DEF given
  <2>7. \A j \in Items : had[j] = IF given(j) THEN Length(j) ELSE 0
    BY <2>4 DEF given
  <2> HIDE DEF now
  <2>8. \A j \in Items : now[j] = then[j]
    <3> TAKE j \in Items
    <3>1. CASE j = i
      BY <1>4, <2>2, <2>5, <2>6, <2>7, <3>1
    <3>2. CASE j # i
      BY <1>4, <2>2, <2>6, <2>7, <3>2
    <3> QED BY <3>1, <3>2
  <2>9. then = [j \in Items |-> then[j]]
    BY <2>2
  <2>10. now = then
    <3> HIDE DEF then
    <3> QED BY <2>6, <2>8, <2>9
  <2> QED BY <2>2, <2>10 DEF now
<1>10. Reported(shown, Counts(items))'
  <2>1. CASE Live(i)
    <3>1. had[i] = spot.fragment /\ had[i] + 1 = k /\ had[i] < 2
      BY <1>1, <1>2, <1>5, <2>1 DEF Counts, k
    <3>2. \A j \in Items : j > i => had[j] = 0
      BY <1>5 DEF Counts
    <3> HIDE DEF had
    <3>3. Reported(Append(shown, <<i, had[i] + 1>>), [had EXCEPT ![i] = had[i] + 1])
      BY <1>2, <1>9, <3>1, <3>2, ReportOne
    <3>4. Reported(shown', Counts(items)')
      BY <1>1, <1>9, <2>1, <3>1, <3>3
    <3> QED BY <1>1, <3>4, ReportKeeps
  <2>2. CASE ~Live(i)
    BY <1>1, <1>2, <1>9, <2>2, ReportKeeps
  <2> QED BY <2>1, <2>2
<1>11. EndIsKnown'
  BY <1>1 DEF StreamInv, EndIsKnown
<1> QED BY <1>6, <1>7, <1>8, <1>10, <1>11 DEF StreamInv

LEMMA ItemDoneStep ==
  ASSUME StreamInv, NEW i \in Items, ItemDone(i)
  PROVE  StreamInv'
<1> DEFINE had == Counts(items)
           has == Counts(items \cup {i})
           closes == style.protocol = "messages" \/ (style.protocol = "responses" /\ style.dones)
<1>1. /\ finish = "none" /\ stream = "open" /\ spot.item = i /\ i <= Len(answer) /\ spot.fragment = 2
      /\ spot' = [item |-> i + 1, fragment |-> 0] /\ UNCHANGED <<answer, style, finish, stream>>
  BY DEF ItemDone, Speaks, Listening
<1>2. /\ AnswerIsSaid /\ PartsAreHeard /\ ItemsAreFirst /\ Reported(shown, had)
      /\ i \in DOMAIN answer /\ MaxItems \in Nat /\ style \in Styles
  BY <1>1, ItemsAssumption DEF StreamInv, AnswerIsSaid, Items
<1>3. style.protocol \in {"chat", "messages", "responses"} /\ (style.protocol # "responses" => style.deltas)
  BY <1>2 DEF Styles
<1>4. /\ parts' = parts /\ items' = (IF closes THEN items \cup {i} ELSE items)
      /\ shown' = IF ~closes THEN shown
                  ELSE IF style.protocol = "responses" THEN Completing({i})
                  ELSE IF answer[i] = "call" THEN shown \o Whole(i) ELSE shown
  <2>1. CASE style.protocol = "chat"
    BY <2>1 DEF ItemDone, Client
  <2>2. CASE style.protocol = "messages"
    BY <2>2 DEF ItemDone, Client
  <2>3. CASE style.protocol = "responses"
    BY <2>3 DEF ItemDone, Client
  <2> QED BY <1>3, <2>1, <2>2, <2>3
<1>5. \A j \in Items : Length(j)' = Length(j)
  <2>1. \A j \in Items : (j < i + 1 <=> j < i \/ j = i) /\ ~(i < i)
    BY <1>2 DEF Items
  <2> QED BY <1>1, <2>1 DEF Length
<1>6. Length(i) = 2 /\ i \notin items /\ \A j \in Items : j > i => Length(j) = 0
  <2>1. \A x \in Items : ~(x < x)
    BY <1>2 DEF Items
  <2>2. \A x, y \in Items : x > y => ~(x < y) /\ x # y
    BY <1>2 DEF Items
  <2>3. i \notin items
    BY <1>1, <1>2, <2>1 DEF ItemsAreFirst
  <2> QED BY <1>1, <2>1, <2>2, <2>3 DEF Length
<1>7. AnswerIsSaid'
  BY <1>1, <1>2 DEF AnswerIsSaid
<1>8. PartsAreHeard'
  BY <1>1, <1>2, <1>4, <1>5 DEF PartsAreHeard, Heard
<1>9. ItemsAreFirst'
  <2>1. items \subseteq DOMAIN answer /\ DOMAIN answer = 1..Len(answer) /\ DOMAIN answer \subseteq Items
        /\ Len(answer) \in Int /\ i \in Int
    BY <1>2, LengthIs DEF ItemsAreFirst
  <2>2. items' \subseteq DOMAIN answer' /\ \A j \in items' : Length(j)' > 0
    BY <1>1, <1>2, <1>4, <1>5, <1>6, <2>1 DEF ItemsAreFirst
  <2>3. closes => \A j \in 1..i : j \in items'
    <3> SUFFICES ASSUME closes, NEW j \in 1..i PROVE j \in items'
      OBVIOUS
    <3>1. style.protocol # "chat" /\ style.dones
      BY <1>2 DEF Styles
    <3>2. j = i \/ j \in 1..(spot.item - 1)
      BY <1>1, <2>1
    <3> QED BY <1>2, <1>4, <3>1, <3>2 DEF ItemsAreFirst
  <2>4. \A x \in items' : \A j \in 1..x : j \in items'
    BY <1>2, <1>4, <2>3 DEF ItemsAreFirst
  <2>5. \A j \in items' : j < spot'.item
    <3>1. \A j \in items : j < i /\ j \in Int
      BY <1>1, <1>2, <2>1, LengthIs DEF ItemsAreFirst
    <3> QED BY <1>1, <1>4, <2>1, <3>1
  <2>6. style'.protocol = "chat" => items' = {}
    BY <1>1, <1>2, <1>4 DEF ItemsAreFirst
  <2>7. style'.protocol # "chat" /\ style'.dones => \A j \in 1..(spot'.item - 1) : j \in items'
    <3>1. spot'.item - 1 = i
      BY <1>1, <2>1
    <3> QED BY <1>1, <1>3, <2>3, <3>1
  <2> QED BY <2>2, <2>4, <2>5, <2>6, <2>7 DEF ItemsAreFirst
<1>10. Counts(items)' = IF closes THEN has ELSE had
  <2>1. \A j : Live(j)' <=> Live(j)
    BY <1>1 DEF Live
  <2> HIDE DEF closes
  <2> QED BY <1>1, <1>4, <1>5, <2>1 DEF Counts
<1>11. had \in [Items -> 0..2] /\ has \in [Items -> 0..2] /\ has = [had EXCEPT ![i] = 2]
       /\ had[i] = (IF Live(i) THEN 2 ELSE 0)
  <2>1. had \in [Items -> 0..2] /\ has \in [Items -> 0..2]
    BY <1>2, LengthIs
  <2>2. has = [had EXCEPT ![i] = 2] /\ had[i] = (IF Live(i) THEN 2 ELSE 0)
    BY <1>2, <1>6 DEF Counts
  <2> QED BY <2>1, <2>2
<1>12. Reported(shown', Counts(items)')
  <2> HIDE DEF had, has
  <2>1. CASE ~closes
    BY <1>2, <1>4, <1>10, <2>1
  <2>2. CASE closes /\ style.protocol = "responses"
    <3>1. {i} \in SUBSET (DOMAIN answer) /\ (\A x \in {i} : Length(x) > 0) /\ style.protocol # "chat"
      BY <1>2, <1>6, <2>2
    <3>2. Reported(Completing({i}), has)
      BY <1>2, <3>1, CompletingReports DEF has, had
    <3> QED BY <1>4, <1>10, <2>2, <3>2
  <2>3. CASE closes /\ style.protocol = "messages" /\ answer[i] = "call"
    <3>1. had[i] = 0
      BY <1>11, <2>3 DEF Live
    <3>2. Reported(shown \o SubSeq(Whole(i), 1, 2), [had EXCEPT ![i] = 2])
      BY <1>2, <1>11, <2>3, <3>1, ReportItem
    <3>3. SubSeq(Whole(i), 1, 2) = Whole(i)
      <4>1. Whole(i) \in Seq(Pieces) /\ Len(Whole(i)) = 2
        <5>1. \A x \in 1..2 : <<i, x>> \in Pieces
          BY PlaceIs DEF Fragments
        <5> QED BY <5>1 DEF Whole, Fragments
      <4> QED BY <4>1, PairJoined, Zenon
    <3> QED BY <1>4, <1>10, <1>11, <2>3, <3>2, <3>3
  <2>4. CASE closes /\ style.protocol = "messages" /\ answer[i] # "call"
    <3>1. answer[i] = "text"
      BY <1>2, <2>4, LengthIs
    <3>2. Live(i)
      BY <1>3, <2>4, <3>1 DEF Live
    <3>3. has = had
      BY <1>2, <1>11, <3>2
    <3> QED BY <1>2, <1>4, <1>10, <2>4, <3>3
  <2> QED BY <2>1, <2>2, <2>3, <2>4
<1>13. EndIsKnown'
  BY <1>1 DEF StreamInv, EndIsKnown
<1>14. Reported(shown, Counts(items))'
  BY <1>1, <1>12, ReportKeeps
<1> QED BY <1>7, <1>8, <1>9, <1>13, <1>14 DEF StreamInv

LEMMA CutStep ==
  ASSUME StreamInv, Cut
  PROVE  StreamInv'
<1>1. /\ UNCHANGED <<answer, style, spot, parts, items, shown, finish>> /\ stream = "open"
      /\ stream' = IF finish = "none" THEN "failed" ELSE "ended"
  BY DEF Cut, AfterCut
<1>2. (\A i : Length(i)' = Length(i)) /\ Counts(items)' = Counts(items)
  BY <1>1 DEF Length, Counts, Live
<1>3. AnswerIsSaid' /\ PartsAreHeard' /\ ItemsAreFirst'
  BY <1>1, <1>2 DEF StreamInv, AnswerIsSaid, PartsAreHeard, Heard, ItemsAreFirst
<1>4. Reported(shown, Counts(items))'
  BY <1>1, <1>2, ReportKeeps DEF StreamInv
<1>5. EndIsKnown'
  <2>1. EndIsKnown
    BY DEF StreamInv
  <2> QED BY <1>1, <1>2, <2>1 DEF EndIsKnown
<1> QED BY <1>3, <1>4, <1>5 DEF StreamInv

LEMMA StreamInvStep == StreamInv /\ [StreamNext]_streamVars => StreamInv'
<1> SUFFICES ASSUME StreamInv, [StreamNext]_streamVars PROVE StreamInv'
  OBVIOUS
<1>1. CASE UNCHANGED streamVars
  <2>1. (\A i : Length(i)' = Length(i)) /\ Counts(items)' = Counts(items)
    BY <1>1 DEF streamVars, Length, Counts, Live
  <2>2. AnswerIsSaid' /\ PartsAreHeard' /\ ItemsAreFirst'
    BY <1>1, <2>1 DEF streamVars, StreamInv, AnswerIsSaid, PartsAreHeard, Heard, ItemsAreFirst
  <2>3. Reported(shown, Counts(items))'
    BY <1>1, <2>1, ReportKeeps DEF streamVars, StreamInv
  <2>4. EndIsKnown'
    <3>1. EndIsKnown
      BY DEF StreamInv
    <3> QED BY <1>1, <2>1, <3>1 DEF streamVars, EndIsKnown
  <2> QED BY <2>2, <2>3, <2>4 DEF StreamInv
<1>2. CASE \E i \in Items : Fragment(i) \/ ItemDone(i) \/ RepeatDone(i)
  BY <1>2, FragmentStep, ItemDoneStep, RepeatDoneStep
<1>3. CASE FinishWhole \/ FinishShort
  BY <1>3, FinishStep
<1>4. CASE Cut
  BY <1>4, CutStep
<1> QED BY <1>1, <1>2, <1>3, <1>4 DEF StreamNext

LEMMA StreamInvAlways == StreamInit /\ [][StreamNext]_streamVars => []StreamInv
<1> QED BY StreamStart, StreamInvStep, PTL

LEMMA FullIs ==
  ASSUME AnswerIsSaid
  PROVE  /\ Full \in Seq(Pieces) /\ Len(Full) = 2 * Len(answer)
         /\ \A n \in 1..Len(Full) : Place[Full[n]] = n + 2
         /\ \A f \in Pieces : f \in Range(Full) <=> f[1] \in DOMAIN answer
         /\ \A f \in Range(Full) : f[1] \in DOMAIN answer
<1>1. Len(answer) \in Nat /\ MaxItems \in Nat /\ Items = 1..MaxItems /\ DOMAIN answer = 1..Len(answer)
      /\ DOMAIN answer \subseteq Items
  BY LengthIs DEF AnswerIsSaid, Items
<1> DEFINE N == 2 * Len(answer)
<1>2. N \in Nat
  BY <1>1
<1>3. Full = [n \in 1..N |-> <<(n + 1) \div 2, 2 - (n % 2)>>]
  BY DEF Full
<1>4. ASSUME NEW n \in 1..N
      PROVE  /\ (n + 1) \div 2 \in DOMAIN answer /\ 2 - (n % 2) \in Fragments
             /\ 2 * ((n + 1) \div 2) + (2 - (n % 2)) = n + 2
  BY <1>1 DEF Fragments
<1> HIDE DEF N
<1>5. Full \in Seq(Pieces) /\ Len(Full) = N /\ DOMAIN Full = 1..N
  <2>1. \A n \in 1..N : <<(n + 1) \div 2, 2 - (n % 2)>> \in Pieces
    BY <1>1, <1>4 DEF Pieces
  <2>2. Full \in [1..N -> Pieces]
    BY <1>3, <2>1
  <2> QED BY <1>2, <2>2
<1>6. ASSUME NEW n \in 1..N PROVE Full[n][1] \in DOMAIN answer /\ Place[Full[n]] = n + 2
  <2> DEFINE i == (n + 1) \div 2
             k == 2 - (n % 2)
  <2>1. i \in DOMAIN answer /\ k \in Fragments /\ 2 * i + k = n + 2 /\ Full[n] = <<i, k>>
    BY <1>3, <1>4
  <2> HIDE DEF i, k
  <2> QED BY <1>1, <2>1, PlaceIs
<1>7. \A f \in Range(Full) : f[1] \in DOMAIN answer
  BY <1>5, <1>6 DEF Range
<1>8. ASSUME NEW f \in Pieces, f[1] \in DOMAIN answer PROVE f \in Range(Full)
  <2> DEFINE i == f[1]
             k == f[2]
             n == 2 * i + k - 2
  <2>1. i \in 1..Len(answer) /\ k \in 1..2 /\ f = <<i, k>>
    BY <1>1, <1>8, PlaceIs DEF Fragments
  <2> HIDE DEF i, k
  <2>2. n \in 1..N /\ (n + 1) \div 2 = i /\ 2 - (n % 2) = k
    <3>1. k = 1 \/ k = 2
      BY <2>1
    <3>2. CASE k = 1
      BY <1>1, <2>1, <3>2 DEF N
    <3>3. CASE k = 2
      BY <1>1, <2>1, <3>3 DEF N
    <3> QED BY <3>1, <3>2, <3>3
  <2> HIDE DEF n
  <2>3. Full[n] = f
    BY <1>3, <2>1, <2>2
  <2> QED BY <1>5, <2>2, <2>3 DEF Range
<1> QED BY <1>5, <1>6, <1>7, <1>8 DEF N

\* The text of a list keeps the order it has there.
LEMMA TextIs ==
  ASSUME NEW s \in Seq(Pieces),
         \A a, b \in 1..Len(s) : a < b /\ IsText(s[a]) /\ IsText(s[b]) => Place[s[a]] < Place[s[b]],
         \A f \in Range(s) : f[1] \in DOMAIN answer
  PROVE  /\ Text(s) \in Seq(Pieces) /\ Len(Text(s)) \in Nat
         /\ \A a, b \in 1..Len(Text(s)) : a < b => Place[Text(s)[a]] < Place[Text(s)[b]]
         /\ \A a \in 1..Len(Text(s)) : Text(s)[a] \in Range(s) /\ IsText(Text(s)[a])
         /\ \A f \in Range(s) : IsText(f) => \E a \in 1..Len(Text(s)) : Text(s)[a] = f
<1> DEFINE texts == {k \in DOMAIN s : answer[s[k][1]] = "text"}
           t == Picked(s, texts)
<1>1. DOMAIN s = 1..Len(s) /\ Len(s) \in Nat /\ \A k \in 1..Len(s) : s[k] \in Range(s)
  BY DEF Range
<1>2. texts \in SUBSET (DOMAIN s) /\ (\A k \in texts : k \in 1..Len(s) /\ IsText(s[k]))
      /\ \A k \in DOMAIN s : IsText(s[k]) => k \in texts
  BY <1>1 DEF IsText
<1> HIDE DEF texts
<1>3. /\ t \in Seq(Pieces) /\ Len(t) = Cardinality(texts) /\ Cardinality(texts) \in Nat
      /\ \E order \in [1..Cardinality(texts) -> texts] :
              /\ \A k \in 1..Cardinality(texts) : t[k] = s[order[k]]
              /\ \A k, m \in 1..Cardinality(texts) : k < m => order[k] < order[m]
              /\ \A i \in texts : \E k \in 1..Cardinality(texts) : order[k] = i
  <2>1. s \in Seq(Pieces) /\ texts \in SUBSET (DOMAIN s)
    BY <1>2
  <2> QED BY <2>1, PickedInOrder, SMTT(30)
<1>4. Text(s) = t
  BY DEF Text, t, texts
<1> HIDE DEF t
<1>5. PICK order \in [1..Len(t) -> texts] :
              /\ \A k \in 1..Len(t) : t[k] = s[order[k]]
              /\ \A k, m \in 1..Len(t) : k < m => order[k] < order[m]
              /\ \A i \in texts : \E k \in 1..Len(t) : order[k] = i
  BY <1>3
<1>6. \A a, b \in 1..Len(t) : a < b => Place[t[a]] < Place[t[b]]
  <2> SUFFICES ASSUME NEW a \in 1..Len(t), NEW b \in 1..Len(t), a < b PROVE Place[t[a]] < Place[t[b]]
    OBVIOUS
  <2>1. order[a] \in texts /\ order[b] \in texts /\ order[a] < order[b]
    BY <1>5
  <2> QED BY SMTT(40), <1>2, <1>5, <2>1
<1>7. \A a \in 1..Len(t) : t[a] \in Range(s) /\ IsText(t[a])
  <2> SUFFICES ASSUME NEW a \in 1..Len(t) PROVE t[a] \in Range(s) /\ IsText(t[a])
    OBVIOUS
  <2>1. order[a] \in texts /\ t[a] = s[order[a]]
    BY <1>5
  <2> QED BY <1>1, <1>2, <2>1
<1>8. ASSUME NEW f \in Range(s), IsText(f) PROVE \E a \in 1..Len(t) : t[a] = f
  <2>1. PICK k \in DOMAIN s : f = s[k]
    BY DEF Range
  <2>2. k \in texts
    BY <1>2, <1>8, <2>1
  <2>3. PICK a \in 1..Len(t) : order[a] = k
    BY <1>5, <2>2
  <2> QED BY <1>5, <2>1, <2>3
<1> QED BY <1>3, <1>4, <1>6, <1>7, <1>8

\* What the engine is given is what the service said: the text in its order and nothing
\* twice, whatever a gateway repeats and wherever the stream is cut (NativeStream.decode).
THEOREM StreamsAreFaithful == StreamInit /\ [][StreamNext]_streamVars => []StreamIsFaithful
<1>1. ASSUME StreamInv PROVE StreamIsFaithful
  <2> DEFINE had == Counts(items)
  <2>1. AnswerIsSaid /\ ItemsAreFirst /\ Reported(shown, had) /\ EndIsKnown /\ shown \in Seq(Pieces)
    BY <1>1 DEF StreamInv, Reported
  <2>2. /\ Full \in Seq(Pieces) /\ Len(Full) \in Nat /\ \A n \in 1..Len(Full) : Place[Full[n]] = n + 2
        /\ \A f \in Pieces : f \in Range(Full) <=> f[1] \in DOMAIN answer
        /\ \A f \in Range(Full) : f[1] \in DOMAIN answer
    BY <2>1, FullIs
  <2>3. /\ Text(shown) \in Seq(Pieces) /\ Len(Text(shown)) \in Nat
        /\ \A a, b \in 1..Len(Text(shown)) : a < b => Place[Text(shown)[a]] < Place[Text(shown)[b]]
        /\ \A a \in 1..Len(Text(shown)) : Text(shown)[a] \in Range(shown) /\ IsText(Text(shown)[a])
        /\ \A f \in Range(shown) : IsText(f) => \E a \in 1..Len(Text(shown)) : Text(shown)[a] = f
    BY <2>1, TextIs DEF Reported
  <2>4. /\ Text(Full) \in Seq(Pieces) /\ Len(Text(Full)) \in Nat
        /\ \A a, b \in 1..Len(Text(Full)) : a < b => Place[Text(Full)[a]] < Place[Text(Full)[b]]
        /\ \A a \in 1..Len(Text(Full)) : Text(Full)[a] \in Range(Full) /\ IsText(Text(Full)[a])
        /\ \A f \in Range(Full) : IsText(f) => \E a \in 1..Len(Text(Full)) : Text(Full)[a] = f
    <3>1. \A a, b \in 1..Len(Full) : a < b => Place[Full[a]] < Place[Full[b]]
      BY <2>2
    <3> QED BY <2>2, <3>1, TextIs
  <2> HIDE DEF had
  <2>5. \A f \in Range(shown) : f \in Pieces /\ f \in Range(Full)
    <3>1. \A f \in Range(shown) : f \in Pieces
      BY <2>1 DEF Range
    <3> QED BY <2>1, <2>2, <3>1 DEF Reported
  <2>6. ASSUME NEW f \in Pieces, IsText(f), NEW g \in Range(shown), Place[f] < Place[g], IsText(g)
        PROVE  f \in Range(shown)
    <3> DEFINE i == f[1]
               j == g[1]
    <3>1. /\ i \in Items /\ f[2] \in Fragments /\ Place[f] = 2 * i + f[2]
          /\ j \in Items /\ g[2] \in Fragments /\ Place[g] = 2 * j + g[2] /\ g \in Pieces
      BY <2>5, <2>6, PlaceIs
    <3>2. /\ i \in DOMAIN answer /\ answer[i] = "text" /\ j \in DOMAIN answer /\ answer[j] = "text"
          /\ had \in [Items -> 0..2] /\ g[2] <= had[j] /\ f[2] \in {1, 2} /\ g[2] \in {1, 2} /\ i \in Int /\ j \in Int
          /\ had[j] \in Int /\ had[i] \in Int
      BY <2>1, <2>6, <3>1, LengthIs DEF IsText, Reported, Fragments, had
    <3> HIDE DEF i, j
    <3>3. f[2] <= had[i]
      <4>1. CASE i = j
        BY <2>6, <3>1, <3>2, <4>1
      <4>2. CASE i < j
        <5>1. had[j] # 0
          BY <3>2
        <5>2. (Live(j) \/ j \in items) /\ Length(j) > 0
          BY <2>1, <3>1, <3>2, <5>1, LengthIs DEF had, Counts
        <5>3. Length(i) = 2
          BY <2>1, <3>1, <4>2, <5>2, LengthIs
        <5>4. Live(i) \/ i \in items
          <6>1. Live(j) => Live(i)
            BY <3>2 DEF Live
          <6>2. j \in items => i \in items
            <7>1. i \in 1..j
              BY <3>1, <3>2, <4>2, <2>1, LengthIs DEF Items
            <7> QED BY <2>1, <7>1 DEF ItemsAreFirst
          <6> QED BY <5>2, <6>1, <6>2
        <5>5. had[i] = 2
          BY <3>1, <3>2, <5>3, <5>4 DEF had, Counts
        <5> QED BY <3>2, <5>5
      <4>3. ~(i > j)
        <5>1. \A x, y, k, l \in Int : x > y /\ k > 0 /\ l <= 2 => ~(2 * x + k < 2 * y + l)
          OBVIOUS
        <5> QED BY <2>6, <3>1, <3>2, <5>1
      <4> QED BY <3>2, <4>1, <4>2, <4>3
    <3> QED BY <2>1, <3>3 DEF Reported, i
  <2>7. IsPrefix(Text(shown), Text(Full))
    <3> DEFINE s == Text(shown)
               t == Text(Full)
    <3>1. \A a \in 1..Len(s) : \E b \in 1..Len(t) : s[a] = t[b]
      BY <2>3, <2>4, <2>5
    <3>2. \A a \in 1..Len(s), b \in 1..Len(t) : Place[t[b]] < Place[s[a]] => \E k \in 1..Len(s) : s[k] = t[b]
      <4> SUFFICES ASSUME NEW a \in 1..Len(s), NEW b \in 1..Len(t), Place[t[b]] < Place[s[a]]
                   PROVE  \E k \in 1..Len(s) : s[k] = t[b]
        OBVIOUS
      <4>1. s[a] \in Range(shown) /\ IsText(s[a]) /\ t[b] \in Pieces /\ IsText(t[b])
        BY <2>3, <2>4
      <4>2. t[b] \in Range(shown)
        BY <2>6, <4>1
      <4> QED BY <2>3, <4>1, <4>2
    <3> HIDE DEF s, t
    <3>3. s \in Seq(Pieces) /\ t \in Seq(Pieces) /\ Place \in [Pieces -> Int]
      BY <2>3, <2>4, PlaceIs DEF s, t
    <3>4. (\A a, b \in 1..Len(s) : a < b => Place[s[a]] < Place[s[b]])
          /\ \A a, b \in 1..Len(t) : a < b => Place[t[a]] < Place[t[b]]
      BY <2>3, <2>4 DEF s, t
    <3>5. IsPrefix(s, t)
      BY <3>1, <3>2, <3>3, <3>4, InitialPart, Zenon
    <3> QED BY <3>5 DEF s, t
  <2>8. IsInjective(shown)
    <3>1. DOMAIN shown = 1..Len(shown)
      BY <2>1
    <3> QED BY <2>1, <3>1 DEF IsInjective, Reported
  <2>9. finish = "stop" => ToSet(shown) = ToSet(Full)
    <3> SUFFICES ASSUME finish = "stop" PROVE Range(shown) = Range(Full)
      BY DEF ToSet, Range
    <3>1. ASSUME NEW f \in Range(Full) PROVE f \in Range(shown)
      <4>1. f \in Pieces /\ f[1] \in DOMAIN answer /\ f[2] \in Fragments
        BY SMTT(40), <2>2, PlaceIs DEF Range
      <4>2. had[f[1]] = 2
        BY <2>1, <4>1 DEF EndIsKnown, had
      <4> QED BY <2>1, <4>1, <4>2 DEF Reported, Fragments
    <3> QED BY <2>5, <3>1
  <2>10. (finish = "stop" => stream # "failed") /\ (stream = "ended" => finish # "none")
    BY <2>1 DEF EndIsKnown
  <2> QED BY <2>7, <2>8, <2>9, <2>10 DEF StreamIsFaithful
<1> QED BY <1>1, StreamInvAlways, PTL

-----------------------------------------------------------------------------
(* Compaction                                                                *)

\* The kinds of messages a request need not know, the checkpoints among them, and calls.
Extras == {"summary", "handoff", "native", "subagent", "marker"}
Heads == {"summary", "handoff", "native"}
Pairs == Nat \X Nat

\* Only the assistant calls tools, only results answer calls.
Shaped(m) ==
  /\ m.calls \subseteq Pairs \ {NoCall}
  /\ m.kind # "assistant" => m.calls = {}
  /\ m.kind = "result" <=> m.call # NoCall
ShapedMessages == {m \in Messages : Shaped(m)}

\* The calls that are open after the first messages: made, and not answered since.
OpenAt(s, i) == {c \in Pairs : \E j \in 1..i : c \in s[j].calls /\ \A k \in j..i : s[k].call # c}
\* What the interface accepts at a position.
Legal(s, i) ==
  s[i].kind \notin {"marker", "subagent"} =>
    IF s[i].kind = "result" THEN s[i].call \in OpenAt(s, i - 1) ELSE OpenAt(s, i - 1) = {}

\* The open calls follow from those before.
LEMMA OpenFollows ==
  ASSUME NEW s \in Seq(ShapedMessages), NEW i \in 1..Len(s)
  PROVE  OpenAt(s, i) = Answered(OpenAt(s, i - 1), s[i])
<1>1. s[i] \in Messages /\ Shaped(s[i]) /\ s[i].calls \subseteq Pairs /\ i \in Nat /\ i - 1 \in Nat
  BY DEF ShapedMessages, Shaped
<1>2. ASSUME NEW c \in OpenAt(s, i) PROVE c \in Answered(OpenAt(s, i - 1), s[i])
  <2>1. PICK j \in 1..i : c \in s[j].calls /\ \A k \in j..i : s[k].call # c
    BY <1>2 DEF OpenAt
  <2>2. c \in Pairs /\ i \in j..i
    BY <1>2, <2>1 DEF OpenAt
  <2>3. CASE j = i
    BY <2>1, <2>2, <2>3 DEF Answered
  <2>4. CASE j # i
    <3>1. j \in 1..(i - 1) /\ \A k \in j..(i - 1) : k \in j..i
      BY <1>1, <2>4
    <3>2. c \in OpenAt(s, i - 1)
      BY <2>1, <2>2, <3>1 DEF OpenAt
    <3> QED BY <2>1, <2>2, <3>2 DEF Answered
  <2> QED BY <2>3, <2>4
<1>3. ASSUME NEW c \in Answered(OpenAt(s, i - 1), s[i]) PROVE c \in OpenAt(s, i)
  <2>1. c # s[i].call /\ (c \in OpenAt(s, i - 1) \/ c \in s[i].calls)
    BY <1>3 DEF Answered
  <2>2. CASE c \in s[i].calls
    <3>1. i \in 1..i /\ \A k \in i..i : k = i
      BY <1>1
    <3> QED BY <1>1, <2>1, <2>2, <3>1 DEF OpenAt
  <2>3. CASE c \in OpenAt(s, i - 1)
    <3>1. PICK j \in 1..(i - 1) : c \in s[j].calls /\ \A k \in j..(i - 1) : s[k].call # c
      BY <2>3 DEF OpenAt
    <3>2. c \in Pairs /\ j \in 1..i /\ \A k \in j..i : k = i \/ k \in j..(i - 1)
      BY <1>1, <2>3 DEF OpenAt
    <3> QED BY <2>1, <3>1, <3>2 DEF OpenAt
  <2> QED BY <2>1, <2>2, <2>3
<1> QED BY <1>2, <1>3

\* What a scan says of the first messages.
Scanned(s, i, a) ==
  /\ a.open = OpenAt(s, i)
  /\ a.ok <=> \A k \in 1..i : Legal(s, k)
  /\ a.waits => a.open # {}
Scans == [ok : BOOLEAN, open : SUBSET Pairs, waits : BOOLEAN]

LEMMA ScanSteps ==
  ASSUME NEW s \in Seq(ShapedMessages), NEW i \in 1..Len(s), NEW a \in Scans, Scanned(s, i - 1, a)
  PROVE  ScanNext(a, s[i]) \in Scans /\ Scanned(s, i, ScanNext(a, s[i]))
<1> DEFINE m == s[i]
           b == ScanNext(a, m)
<1>1. m \in Messages /\ Shaped(m) /\ m.calls \subseteq Pairs /\ m.call \in Pairs
  <2>1. m \in ShapedMessages
    OBVIOUS
  <2> HIDE DEF m
  <2> QED BY <2>1 DEF ShapedMessages, Messages, Pairs
<1>2. OpenAt(s, i) = Answered(a.open, m)
  BY OpenFollows DEF Scanned
<1>3. a.open \subseteq Pairs /\ NoCall \notin a.open
  BY DEF Scans, Scanned, OpenAt, Shaped, ShapedMessages
<1>4. Answered(a.open, m) \subseteq Pairs
  BY <1>1, <1>3 DEF Answered
<1>5. (\A k \in 1..i : Legal(s, k)) <=> ((\A k \in 1..(i - 1) : Legal(s, k)) /\ Legal(s, i))
  <2>1. i \in 1..i /\ (\A k \in 1..i : k = i \/ k \in 1..(i - 1)) /\ \A k \in 1..(i - 1) : k \in 1..i
    OBVIOUS
  <2> QED BY <2>1
<1>6. CASE m.kind = "marker" \/ (m.kind = "subagent" /\ a.open # {})
  <2>1. Answered(a.open, m) = a.open
    BY <1>1, <1>3, <1>6 DEF Answered, Shaped
  <2>2. Legal(s, i)
    BY <1>6 DEF Legal
  <2>3. b = a \/ (b = [a EXCEPT !.waits = TRUE] /\ a.open # {})
    BY <1>6 DEF ScanNext
  <2> QED BY <1>2, <1>5, <2>1, <2>2, <2>3 DEF Scans, Scanned
<1>7. CASE ~(m.kind = "marker" \/ (m.kind = "subagent" /\ a.open # {}))
  <2> DEFINE fits == (IsAnswer(m) \/ m.kind \in AsUser => a.open = {}) /\ (m.call # NoCall => m.call \in a.open)
  <2>1. b = [ok |-> a.ok /\ fits, open |-> Answered(a.open, m), waits |-> a.waits /\ Answered(a.open, m) # {}]
    BY <1>7 DEF ScanNext
  <2>2. fits <=> Legal(s, i)
    <3>1. m.kind \in MessageKinds /\ a.open = OpenAt(s, i - 1)
      BY <1>1 DEF Messages, Scanned
    <3>2. CASE m.kind = "subagent"
      BY <1>1, <1>7, <3>2 DEF Legal, Shaped
    <3>3. CASE m.kind = "result"
      BY <1>1, <3>1, <3>3 DEF Legal, Shaped, IsAnswer, AsUser
    <3>4. CASE m.kind \notin {"result", "subagent"}
      BY <1>1, <1>7, <3>1, <3>4 DEF Legal, Shaped, IsAnswer, AsUser, MessageKinds
    <3> QED BY <3>2, <3>3, <3>4
  <2> HIDE DEF fits
  <2>3. b \in [ok : BOOLEAN, open : SUBSET Pairs, waits : BOOLEAN]
    <3>1. (a.ok /\ fits) \in BOOLEAN /\ (a.waits /\ Answered(a.open, m) # {}) \in BOOLEAN
      OBVIOUS
    <3> QED BY <1>4, <2>1, <3>1
  <2> HIDE DEF b, m
  <2>4. b.open = Answered(a.open, m) /\ b.ok = (a.ok /\ fits) /\ b.waits = (a.waits /\ Answered(a.open, m) # {})
    BY <2>1, Zenon
  <2>5. b.ok <=> \A k \in 1..i : Legal(s, k)
    <3>1. a.ok <=> \A k \in 1..(i - 1) : Legal(s, k)
      BY DEF Scanned
    <3> QED BY <1>5, <2>2, <2>4, <3>1, Zenon
  <2>6. b.waits => b.open # {}
    BY <2>4, Zenon
  <2>7. Scanned(s, i, b)
    BY <1>2, <2>4, <2>5, <2>6, Zenon DEF Scanned
  <2> QED BY <2>3, <2>7 DEF Scans, b, m
<1> QED BY <1>6, <1>7 DEF b, m
LEMMA ScanIs ==
  ASSUME NEW s \in Seq(ShapedMessages)
  PROVE  \A i \in 0..Len(s) : Scanned(s, i, Scan(s)[i])
<1> DEFINE N == Len(s)
           F == [x \in Scans \X (1..N) |-> ScanNext(x[1], s[x[2]])]
           UpTo(v) == v = [i \in 0..N |-> IF i = 0 THEN ScanStart ELSE ScanNext(v[i - 1], s[i])]
<1>1. N \in Nat /\ ScanStart \in Scans /\ \A i \in 1..N : s[i] \in Messages /\ Shaped(s[i])
  BY DEF Scans, ScanStart, ShapedMessages
<1>2. ASSUME NEW a \in Scans, NEW i \in 1..N PROVE ScanNext(a, s[i]) \in Scans
  <2>1. Answered(a.open, s[i]) \subseteq Pairs
    BY <1>1, <1>2 DEF Scans, Answered, Shaped
  <2> DEFINE m == s[i]
  <2>2. CASE m.kind = "marker" \/ (m.kind = "subagent" /\ a.open # {})
    BY <2>2 DEF Scans, ScanNext
  <2>3. CASE ~(m.kind = "marker" \/ (m.kind = "subagent" /\ a.open # {}))
    <3> DEFINE fits == a.ok /\ (IsAnswer(m) \/ m.kind \in AsUser => a.open = {}) /\ (m.call # NoCall => m.call \in a.open)
               still == a.waits /\ Answered(a.open, m) # {}
    <3>1. ScanNext(a, m) = [ok |-> fits, open |-> Answered(a.open, m), waits |-> still]
      BY <2>3 DEF ScanNext
    <3>2. fits \in BOOLEAN /\ still \in BOOLEAN
      OBVIOUS
    <3> HIDE DEF fits, still
    <3> QED BY <2>1, <3>1, <3>2 DEF Scans, m
  <2> QED BY <2>2, <2>3
<1>3. F \in [Scans \X (1..N) -> Scans] /\ \A a \in Scans, i \in 1..N : F[<<a, i>>] = ScanNext(a, s[i])
  <2> HIDE DEF N
  <2> QED BY <1>2
<1>4. Scan(s) = CHOOSE v : UpTo(v)
  BY DEF Scan
<1> HIDE DEF F, N
<1>5. PICK u : Computes(Scans, ScanStart, N, F, u)
  BY <1>1, <1>3, Recursion, Zenon
<1>6. u \in [0..N -> Scans] /\ u[0] = ScanStart /\ \A i \in 1..N : u[i] = F[<<u[i - 1], i>>]
  BY <1>5 DEF Computes
<1>7. ASSUME NEW i \in 1..N PROVE u[i] = ScanNext(u[i - 1], s[i])
  <2>1. u[i - 1] \in Scans
    BY <1>1, <1>6
  <2> QED BY <1>3, <1>6, <2>1
<1>8. UpTo(u)
  <2>1. \A i \in 0..N : u[i] = IF i = 0 THEN ScanStart ELSE ScanNext(u[i - 1], s[i])
    BY <1>1, <1>6, <1>7
  <2>2. u = [i \in 0..N |-> u[i]]
    BY <1>6
  <2> QED BY <2>1, <2>2
<1> DEFINE v == Scan(s)
<1>9. UpTo(v)
  <2> HIDE DEF UpTo
  <2> QED BY <1>4, <1>8
<1> HIDE DEF v
<1>10. v[0] = ScanStart /\ \A i \in 1..N : v[i] = ScanNext(v[i - 1], s[i])
  BY <1>1, <1>9
<1> HIDE DEF UpTo
<1> DEFINE T == {i \in 0..N : v[i] \in Scans /\ Scanned(s, i, v[i])}
<1>11. 0 \in T
  <2>1. OpenAt(s, 0) = {} /\ 0 \in 0..N
    BY <1>1 DEF OpenAt
  <2>2. ScanStart.ok = TRUE /\ ScanStart.open = {} /\ ScanStart.waits = FALSE
    BY DEF ScanStart
  <2>3. \A k \in 1..0 : Legal(s, k)
    OBVIOUS
  <2>4. Scanned(s, 0, ScanStart)
    BY <2>1, <2>2, <2>3, Zenon DEF Scanned
  <2> QED BY <1>1, <1>10, <2>1, <2>4
<1>12. ASSUME NEW i \in 1..N, i - 1 \in T PROVE i \in T
  <2>1. v[i - 1] \in Scans /\ Scanned(s, i - 1, v[i - 1]) /\ i \in 1..Len(s) /\ i \in 0..N
    BY <1>1, <1>12 DEF N
  <2>2. v[i] \in Scans /\ Scanned(s, i, v[i])
    <3>1. ScanNext(v[i - 1], s[i]) \in Scans /\ Scanned(s, i, ScanNext(v[i - 1], s[i]))
      BY <2>1, ScanSteps, Zenon
    <3> QED BY <1>10, <3>1
  <2> QED BY <2>1, <2>2
<1> HIDE DEF T
<1>13. \A i \in 0..N : i \in T
  BY <1>1, <1>11, <1>12, Induction, Zenon
<1> QED BY <1>13 DEF T, N, v

\* A list is sound when all its messages are legal where they are, and no call is open at its end.
AllLegal(s) == \A k \in DOMAIN s : Legal(s, k)
StillOpen(s) == OpenAt(s, Len(s))

LEMMA SoundIs ==
  ASSUME NEW s \in Seq(ShapedMessages)
  PROVE  /\ Scan(s)[Len(s)].open = StillOpen(s)
         /\ Sound(s, FALSE) <=> AllLegal(s) /\ StillOpen(s) = {}
         /\ \A pending \in BOOLEAN : Sound(s, pending) => AllLegal(s)
<1> DEFINE end == Scan(s)[Len(s)]
<1>1. Scanned(s, Len(s), end) /\ DOMAIN s = 1..Len(s)
  BY ScanIs
<1>2. end.open = StillOpen(s) /\ (end.ok <=> AllLegal(s)) /\ (end.waits => end.open # {})
  BY <1>1 DEF Scanned, StillOpen, AllLegal
<1>3. \A pending \in BOOLEAN : Sound(s, pending) <=> end.ok /\ ~end.waits /\ (pending \/ end.open = {})
  BY DEF Sound
<1> HIDE DEF end
<1>4. Sound(s, FALSE) <=> AllLegal(s) /\ StillOpen(s) = {}
  BY <1>2, <1>3
<1>5. ASSUME NEW pending \in BOOLEAN, Sound(s, pending) PROVE AllLegal(s)
  BY <1>2, <1>3, <1>5
<1> QED BY <1>2, <1>4, <1>5 DEF end
-----------------------------------------------------------------------------
\* Two messages that differ at most in the length of what they show.
Like(a, b) ==
  /\ a.id = b.id /\ a.kind = b.kind /\ a.turn = b.turn
  /\ a.calls = b.calls /\ a.call = b.call /\ a.covers = b.covers
\* What two lists share is the same in both, and in the same order.
Alike(t, s) ==
  /\ \A p \in DOMAIN t, q \in DOMAIN s : t[p].id = s[q].id => Like(t[p], s[q])
  /\ \A p, v \in DOMAIN t, q, z \in DOMAIN s :
       t[p].id = s[q].id /\ t[v].id = s[z].id => (p < v <=> q < z)
\* A list of messages of another one.
Within(t, s) == Ids(t) \subseteq Ids(s) /\ Alike(t, s)
Distinct(s) == \A p, q \in DOMAIN s : s[p].id = s[q].id => p = q
ShapedLists == {s \in Seq(ShapedMessages) : Distinct(s)}

LEMMA ShapedListIs ==
  ASSUME NEW s \in ShapedLists
  PROVE  /\ s \in Seq(ShapedMessages) /\ Len(s) \in Nat /\ DOMAIN s = 1..Len(s) /\ Distinct(s)
         /\ \A i \in DOMAIN s : s[i] \in Messages /\ Shaped(s[i]) /\ s[i] \in ShapedMessages
BY DEF ShapedLists, ShapedMessages

LEMMA WithinTransitive ==
  ASSUME NEW t, NEW s, NEW r, Within(t, s), Within(s, r)
  PROVE  Within(t, r)
<1>1. Ids(t) \subseteq Ids(r)
  BY DEF Within
<1>2. \A p \in DOMAIN t : \E k \in DOMAIN s : t[p].id = s[k].id
  BY DEF Within, Ids
<1>3. ASSUME NEW p \in DOMAIN t, NEW q \in DOMAIN r, t[p].id = r[q].id PROVE Like(t[p], r[q])
  <2>1. PICK k \in DOMAIN s : t[p].id = s[k].id
    BY <1>2
  <2>2. Like(t[p], s[k]) /\ Like(s[k], r[q])
    BY <1>3, <2>1 DEF Within, Alike
  <2> QED BY <2>2 DEF Like
<1>4. ASSUME NEW p \in DOMAIN t, NEW v \in DOMAIN t, NEW q \in DOMAIN r, NEW z \in DOMAIN r,
             t[p].id = r[q].id, t[v].id = r[z].id
      PROVE  p < v <=> q < z
  <2>1. PICK k \in DOMAIN s : t[p].id = s[k].id
    BY <1>2
  <2>2. PICK l \in DOMAIN s : t[v].id = s[l].id
    BY <1>2
  <2>3. p < v <=> k < l
    BY <2>1, <2>2 DEF Within, Alike
  <2>4. k < l <=> q < z
    <3>1. s[k].id = r[q].id /\ s[l].id = r[z].id
      BY <1>4, <2>1, <2>2
    <3> QED BY <3>1, SMTT(30) DEF Within, Alike
  <2> QED BY <2>3, <2>4
<1> QED BY <1>1, <1>3, <1>4 DEF Within, Alike

\* A list whose messages have places in another one, in the same order.
LEMMA PlacedIs ==
  ASSUME NEW s \in ShapedLists, NEW t \in Seq(ShapedMessages), NEW place \in [DOMAIN t -> DOMAIN s],
         \A k \in DOMAIN t : Like(t[k], s[place[k]]),
         \A k, m \in DOMAIN t : k < m => place[k] < place[m]
  PROVE  /\ t \in ShapedLists /\ Within(t, s)
         /\ Ids(t) = {s[place[k]].id : k \in DOMAIN t}
<1>1. s \in Seq(ShapedMessages) /\ Distinct(s)
  BY DEF ShapedLists
<1> DEFINE n == Len(t)
<1>2. DOMAIN t = 1..n /\ n \in Nat /\ \A k \in 1..n : place[k] \in DOMAIN s /\ place[k] \in Int
  BY <1>1
<1> HIDE DEF n
<1>3. ASSUME NEW k \in 1..n, NEW m \in 1..n PROVE k < m <=> place[k] < place[m]
  <2>1. k < m => place[k] < place[m]
    BY <1>2
  <2>2. m < k => place[m] < place[k]
    BY <1>2
  <2>3. k \in Int /\ m \in Int /\ place[k] \in Int /\ place[m] \in Int
    BY <1>2
  <2> QED BY <2>1, <2>2, <2>3
<1>4. \A k \in 1..n : t[k].id = s[place[k]].id
  BY <1>2 DEF Like
<1>5. \A p \in DOMAIN t, q \in DOMAIN s : t[p].id = s[q].id => q = place[p]
  BY <1>1, <1>2, <1>4 DEF Distinct
<1>6. Ids(t) = {s[place[k]].id : k \in DOMAIN t}
  BY <1>2, <1>4 DEF Ids
<1>7. Distinct(t)
  <2> SUFFICES ASSUME NEW p \in 1..n, NEW q \in 1..n, t[p].id = t[q].id PROVE p = q
    BY <1>2 DEF Distinct
  <2>1. place[p] = place[q]
    BY SMTT(40), <1>1, <1>2, <1>4 DEF Distinct
  <2> QED BY <1>2, <1>3, <2>1
<1>8. Within(t, s)
  <2>1. \A p \in DOMAIN t, q \in DOMAIN s : t[p].id = s[q].id => Like(t[p], s[q])
    BY <1>2, <1>5
  <2>2. \A p, v \in DOMAIN t, q, z \in DOMAIN s :
          t[p].id = s[q].id /\ t[v].id = s[z].id => (p < v <=> q < z)
    BY <1>2, <1>3, <1>5
  <2>3. Ids(t) \subseteq Ids(s)
    BY <1>2, <1>6 DEF Ids
  <2> QED BY <2>1, <2>2, <2>3 DEF Within, Alike
<1> QED BY <1>6, <1>7, <1>8 DEF ShapedLists

\* Picking positions of a list.
LEMMA PartIs ==
  ASSUME NEW s \in ShapedLists, NEW picked \in SUBSET (DOMAIN s)
  PROVE  /\ Picked(s, picked) \in ShapedLists /\ Within(Picked(s, picked), s)
         /\ Ids(Picked(s, picked)) = {s[i].id : i \in picked}
<1> DEFINE t == Picked(s, picked)
           n == Cardinality(picked)
<1>1. s \in Seq(ShapedMessages) /\ Distinct(s)
  BY DEF ShapedLists
<1>2. /\ t \in Seq(ShapedMessages) /\ Len(t) = Cardinality(picked) /\ Cardinality(picked) \in Nat
      /\ \E order \in [1..Cardinality(picked) -> picked] :
           /\ \A k \in 1..Cardinality(picked) : t[k] = s[order[k]]
           /\ \A k, m \in 1..Cardinality(picked) : k < m => order[k] < order[m]
           /\ \A i \in picked : \E k \in 1..Cardinality(picked) : order[k] = i
  <2>1. s \in Seq(ShapedMessages) /\ picked \in SUBSET (DOMAIN s)
    BY <1>1
  <2> QED BY <2>1, PickedInOrder
<1> HIDE DEF t
<1>3. PICK order \in [1..n -> picked] :
           /\ \A k \in 1..n : t[k] = s[order[k]]
           /\ \A k, m \in 1..n : k < m => order[k] < order[m]
           /\ \A i \in picked : \E k \in 1..n : order[k] = i
  BY <1>2
<1>4. DOMAIN t = 1..n /\ t \in Seq(ShapedMessages)
  BY <1>2
<1> HIDE DEF n
<1>5. order \in [DOMAIN t -> DOMAIN s] /\ \A k \in DOMAIN t : order[k] \in picked
  BY <1>4
<1>6. /\ \A k \in DOMAIN t : Like(t[k], s[order[k]])
      /\ \A k, m \in DOMAIN t : k < m => order[k] < order[m]
  BY <1>3, <1>4 DEF Like
<1>7. t \in ShapedLists /\ Within(t, s) /\ Ids(t) = {s[order[k]].id : k \in DOMAIN t}
  BY <1>4, <1>5, <1>6, PlacedIs
<1>8. Ids(t) = {s[i].id : i \in picked}
  BY <1>3, <1>4, <1>5, <1>7
<1> QED BY <1>7, <1>8 DEF t

LEMMA OnlyIs ==
  ASSUME NEW s \in ShapedLists, NEW ids
  PROVE  /\ Only(s, ids) \in ShapedLists /\ Within(Only(s, ids), s) /\ Ids(Only(s, ids)) = Ids(s) \cap ids
         /\ Without(s, ids) \in ShapedLists /\ Within(Without(s, ids), s) /\ Ids(Without(s, ids)) = Ids(s) \ ids
<1>1. /\ Only(s, ids) \in ShapedLists /\ Within(Only(s, ids), s)
      /\ Ids(Only(s, ids)) = {s[i].id : i \in {j \in DOMAIN s : s[j].id \in ids}}
  BY PartIs DEF Only
<1>2. /\ Without(s, ids) \in ShapedLists /\ Within(Without(s, ids), s)
      /\ Ids(Without(s, ids)) = {s[i].id : i \in {j \in DOMAIN s : s[j].id \notin ids}}
  BY PartIs DEF Without
<1>3. /\ {s[i].id : i \in {j \in DOMAIN s : s[j].id \in ids}} = Ids(s) \cap ids
      /\ {s[i].id : i \in {j \in DOMAIN s : s[j].id \notin ids}} = Ids(s) \ ids
  BY DEF Ids
<1> QED BY <1>1, <1>2, <1>3

LEMMA UnmarkedIs ==
  ASSUME NEW s \in ShapedLists
  PROVE  /\ Unmarked(s) \in ShapedLists /\ Within(Unmarked(s), s)
         /\ Ids(Unmarked(s)) = {s[i].id : i \in {j \in DOMAIN s : s[j].kind # "marker"}}
BY PartIs DEF Unmarked
LEMMA SliceIs ==
  ASSUME NEW s \in ShapedLists, NEW i \in 1..(Len(s) + 1), NEW j \in 0..Len(s), i <= j + 1
  PROVE  /\ SubSeq(s, i, j) \in ShapedLists /\ Within(SubSeq(s, i, j), s)
         /\ Ids(SubSeq(s, i, j)) = {s[k].id : k \in i..j}
<1> DEFINE t == SubSeq(s, i, j)
           n == j - i + 1
           place == [k \in 1..n |-> i + k - 1]
<1>1. s \in Seq(ShapedMessages) /\ Len(s) \in Nat /\ DOMAIN s = 1..Len(s)
  BY DEF ShapedLists
<1>2. t \in Seq(ShapedMessages) /\ Len(t) = n /\ DOMAIN t = 1..n /\ \A k \in 1..n : t[k] = s[i + k - 1]
  BY <1>1
<1>3. \A k \in 1..n : i + k - 1 \in i..j /\ i + k - 1 \in 1..Len(s)
  BY <1>1
<1>4. \A k \in i..j : k - i + 1 \in 1..n /\ i + (k - i + 1) - 1 = k
  BY <1>1
<1>5. \A k, m \in 1..n : k < m => i + k - 1 < i + m - 1
  BY <1>1
<1>6. /\ place \in [DOMAIN t -> DOMAIN s] /\ \A k \in DOMAIN t : place[k] = i + k - 1
      /\ \A k, m \in DOMAIN t : k < m => place[k] < place[m]
  BY <1>1, <1>2, <1>3, <1>5
<1> HIDE DEF t, place, n
<1>7. \A k \in DOMAIN t : Like(t[k], s[place[k]])
  BY <1>2, <1>6 DEF Like
<1>8. t \in ShapedLists /\ Within(t, s) /\ Ids(t) = {s[place[k]].id : k \in DOMAIN t}
  BY <1>2, <1>6, <1>7, PlacedIs
<1>9. {s[place[k]].id : k \in DOMAIN t} = {s[k].id : k \in i..j}
  <2>1. \A k \in DOMAIN t : place[k] \in i..j
    BY <1>2, <1>3, <1>6
  <2>2. ASSUME NEW k \in i..j PROVE \E x \in DOMAIN t : place[x] = k
    <3>1. k - i + 1 \in DOMAIN t
      BY <1>2, <1>4
    <3>2. place[k - i + 1] = k
      BY <1>4, <1>6, <3>1
    <3> QED BY <3>1, <3>2
  <2> QED BY <2>1, <2>2
<1> QED BY <1>8, <1>9 DEF t

LEMMA SplitIs ==
  ASSUME NEW s \in ShapedLists, NEW cut \in 0..Len(s)
  PROVE  /\ Until(s, cut) \in ShapedLists /\ Within(Until(s, cut), s) /\ Ids(Until(s, cut)) = {s[k].id : k \in 1..cut}
         /\ Beyond(s, cut) \in ShapedLists /\ Within(Beyond(s, cut), s)
         /\ Ids(Beyond(s, cut)) = {s[k].id : k \in (cut + 1)..Len(s)}
<1>1. Len(s) \in Nat
  BY DEF ShapedLists
<1>2. 1 \in 1..(Len(s) + 1) /\ cut \in 0..Len(s) /\ 1 <= cut + 1
  BY <1>1
<1>3. cut + 1 \in 1..(Len(s) + 1) /\ Len(s) \in 0..Len(s) /\ cut + 1 <= Len(s) + 1
  BY <1>1
<1>4. Until(s, cut) \in ShapedLists /\ Within(Until(s, cut), s) /\ Ids(Until(s, cut)) = {s[k].id : k \in 1..cut}
  BY <1>2, SliceIs DEF Until
<1>5. /\ Beyond(s, cut) \in ShapedLists /\ Within(Beyond(s, cut), s)
      /\ Ids(Beyond(s, cut)) = {s[k].id : k \in (cut + 1)..Len(s)}
  BY <1>3, SliceIs DEF Beyond
<1> QED BY <1>4, <1>5

LEMMA ShortIs ==
  ASSUME NEW m \in ShapedMessages, NEW turn
  PROVE  Short(m, turn) \in ShapedMessages /\ Like(Short(m, turn), m) /\ (Short(m, turn) = m \/ Short(m, turn).short = TRUE)
<1>1. m \in Messages /\ Shaped(m)
  BY DEF ShapedMessages
<1>2. [m EXCEPT !.short = TRUE] \in Messages
  BY <1>1 DEF Messages
<1>3. /\ Like([m EXCEPT !.short = TRUE], m) /\ [m EXCEPT !.short = TRUE].short = TRUE
      /\ [m EXCEPT !.short = TRUE].calls = m.calls /\ [m EXCEPT !.short = TRUE].kind = m.kind
      /\ [m EXCEPT !.short = TRUE].call = m.call
  BY <1>1 DEF Messages, Like
<1>4. [m EXCEPT !.short = TRUE] \in ShapedMessages
  BY <1>1, <1>2, <1>3 DEF ShapedMessages, Shaped
<1>5. Like(m, m)
  BY DEF Like
<1>6. Short(m, turn) = m \/ Short(m, turn) = [m EXCEPT !.short = TRUE]
  BY DEF Short
<1> QED BY <1>3, <1>4, <1>5, <1>6

LEMMA ShortenIs ==
  ASSUME NEW s \in ShapedLists, NEW keep
  PROVE  /\ Shorten(s, keep) \in ShapedLists /\ Within(Shorten(s, keep), s)
         /\ Len(Shorten(s, keep)) = Len(s) /\ DOMAIN Shorten(s, keep) = DOMAIN s
         /\ \A i \in DOMAIN s : Like(Shorten(s, keep)[i], s[i])
         /\ Ids(Shorten(s, keep)) = Ids(s)
<1> DEFINE t == Shorten(s, keep)
           place == [k \in DOMAIN s |-> k]
<1>1. s \in Seq(ShapedMessages) /\ Len(s) \in Nat /\ DOMAIN s = 1..Len(s) /\ \A i \in DOMAIN s : s[i] \in ShapedMessages
  BY DEF ShapedLists
<1>2. DOMAIN t = DOMAIN s /\ \A i \in DOMAIN s : t[i] \in ShapedMessages /\ Like(t[i], s[i])
  <2>1. \A i \in DOMAIN s : t[i] = Short(s[i], Newest(TurnsIn(s)) - keep)
    BY DEF Shorten
  <2> QED BY <1>1, <2>1, ShortIs DEF Shorten
<1>3. t = [i \in 1..Len(s) |-> t[i]]
  BY <1>1 DEF Shorten
<1> HIDE DEF t
<1>4. t \in Seq(ShapedMessages) /\ Len(t) = Len(s)
  BY <1>1, <1>2, <1>3
<1>5. /\ place \in [DOMAIN t -> DOMAIN s] /\ \A k \in DOMAIN t : place[k] = k
      /\ \A k, m \in DOMAIN t : k < m => place[k] < place[m]
  BY <1>2
<1> HIDE DEF place
<1>6. \A k \in DOMAIN t : Like(t[k], s[place[k]])
  BY <1>2, <1>5
<1>7. t \in ShapedLists /\ Within(t, s) /\ Ids(t) = {s[place[k]].id : k \in DOMAIN t}
  BY <1>4, <1>5, <1>6, PlacedIs
<1>8. Ids(t) = Ids(s)
  <2>1. {s[place[k]].id : k \in DOMAIN t} = {s[k].id : k \in DOMAIN s}
    BY <1>2, <1>5
  <2> QED BY <1>7, <2>1 DEF Ids
<1> QED BY <1>2, <1>4, <1>7, <1>8 DEF t
-----------------------------------------------------------------------------
\* What the messages of a part stand for.
LEMMA CoversWithin ==
  ASSUME NEW t, NEW s, Within(t, s)
  PROVE  /\ Covers(t) \subseteq Covers(s)
         /\ \A q \in DOMAIN s : s[q].id \in Ids(t) => s[q].covers \subseteq Covers(t)
         /\ Ids(s) \subseteq Ids(t) => Covers(s) = Covers(t)
<1>1. ASSUME NEW p \in DOMAIN t PROVE \E q \in DOMAIN s : t[p].covers = s[q].covers
  <2>1. PICK q \in DOMAIN s : t[p].id = s[q].id
    BY DEF Within, Ids
  <2> QED BY <2>1 DEF Within, Alike, Like
<1>2. Covers(t) \subseteq Covers(s)
  BY <1>1 DEF Covers
<1>3. ASSUME NEW q \in DOMAIN s, s[q].id \in Ids(t) PROVE s[q].covers \subseteq Covers(t)
  <2>1. PICK p \in DOMAIN t : t[p].id = s[q].id
    BY <1>3 DEF Ids
  <2>2. t[p].covers = s[q].covers
    BY <2>1 DEF Within, Alike, Like
  <2> QED BY <2>2 DEF Covers
<1>4. ASSUME Ids(s) \subseteq Ids(t) PROVE Covers(s) \subseteq Covers(t)
  <2>1. \A q \in DOMAIN s : s[q].covers \subseteq Covers(t)
    BY <1>3, <1>4 DEF Ids
  <2> QED BY <2>1 DEF Covers
<1> QED BY <1>2, <1>3, <1>4

\* Two parts of a list, one before the other.
LEMMA PartsJoin ==
  ASSUME NEW s \in ShapedLists, NEW t \in ShapedLists, NEW r \in ShapedLists, Within(t, s), Within(r, s),
         \A i, j \in DOMAIN s : s[i].id \in Ids(t) /\ s[j].id \in Ids(r) => i < j
  PROVE  t \o r \in ShapedLists /\ Within(t \o r, s) /\ Ids(t \o r) = Ids(t) \cup Ids(r)
<1> DEFINE v == t \o r
           n == Len(t)
           place == [k \in DOMAIN v |-> CHOOSE q \in DOMAIN s : v[k].id = s[q].id]
<1>1. /\ t \in Seq(ShapedMessages) /\ r \in Seq(ShapedMessages) /\ s \in Seq(ShapedMessages)
      /\ Distinct(t) /\ Distinct(r) /\ Distinct(s) /\ DOMAIN s = 1..Len(s)
  BY DEF ShapedLists
<1>2. /\ v \in Seq(ShapedMessages) /\ n \in Nat /\ Len(r) \in Nat
      /\ DOMAIN t = 1..n /\ DOMAIN r = 1..Len(r) /\ DOMAIN v = 1..(n + Len(r))
      /\ \A k \in 1..n : v[k] = t[k]
      /\ \A k \in 1..Len(r) : v[n + k] = r[k]
      /\ \A k \in n + 1 .. n + Len(r) : v[k] = r[k - n] /\ k - n \in 1..Len(r)
  BY <1>1, Joined
<1> HIDE DEF v, n
<1>3. ASSUME NEW k \in DOMAIN v
      PROVE  \/ k <= n /\ k \in DOMAIN t /\ v[k] = t[k]
             \/ k > n /\ k - n \in DOMAIN r /\ v[k] = r[k - n]
  BY <1>2, <1>3
<1>4. ASSUME NEW k \in DOMAIN v PROVE \E q \in DOMAIN s : v[k].id = s[q].id
  BY <1>3 DEF Within, Ids
<1>5. ASSUME NEW k \in DOMAIN v PROVE place[k] \in DOMAIN s /\ v[k].id = s[place[k]].id
  BY <1>4
<1>6. place \in [DOMAIN v -> DOMAIN s]
  BY <1>5
<1> HIDE DEF place
<1>7. ASSUME NEW k \in DOMAIN v PROVE Like(v[k], s[place[k]])
  BY <1>3, <1>5 DEF Within, Alike
<1>8. ASSUME NEW k \in DOMAIN v, NEW m \in DOMAIN v, k < m PROVE place[k] < place[m]
  <2>1. /\ place[k] \in DOMAIN s /\ place[m] \in DOMAIN s
        /\ v[k].id = s[place[k]].id /\ v[m].id = s[place[m]].id
    BY <1>5
  <2>2. CASE m <= n
    <3>1. k \in DOMAIN t /\ m \in DOMAIN t /\ v[k] = t[k] /\ v[m] = t[m]
      BY <1>2, <1>8, <2>2
    <3> QED BY <1>8, <2>1, <3>1 DEF Within, Alike
  <2>3. CASE k > n
    <3>1. k - n \in DOMAIN r /\ m - n \in DOMAIN r /\ v[k] = r[k - n] /\ v[m] = r[m - n] /\ k - n < m - n
      BY <1>2, <1>8, <2>3
    <3> QED BY <2>1, <3>1 DEF Within, Alike
  <2>4. CASE k <= n /\ m > n
    <3>1. s[place[k]].id \in Ids(t) /\ s[place[m]].id \in Ids(r)
      BY <1>3, <2>1, <2>4, <1>2 DEF Ids
    <3> QED BY <2>1, <3>1
  <2> QED BY <1>2, <2>2, <2>3, <2>4
<1>9. v \in ShapedLists /\ Within(v, s)
  BY <1>2, <1>6, <1>7, <1>8, PlacedIs
<1>10. Ids(v) = Ids(t) \cup Ids(r)
  <2>1. \A k \in DOMAIN v : v[k].id \in Ids(t) \cup Ids(r)
    BY <1>3 DEF Ids
  <2>2. \A k \in DOMAIN t : k \in DOMAIN v /\ v[k] = t[k]
    BY <1>2
  <2>3. \A k \in DOMAIN r : n + k \in DOMAIN v /\ v[n + k] = r[k]
    BY <1>2
  <2> QED BY <2>1, <2>2, <2>3 DEF Ids
<1> QED BY <1>9, <1>10 DEF v

\* A new message before a list.
LEMMA HeadIs ==
  ASSUME NEW m \in ShapedMessages, NEW s \in ShapedLists, m.id \notin Ids(s)
  PROVE  /\ <<m>> \o s \in ShapedLists /\ Len(<<m>> \o s) = Len(s) + 1 /\ (<<m>> \o s)[1] = m
         /\ DOMAIN (<<m>> \o s) = 1..(Len(s) + 1)
         /\ \A i \in DOMAIN s : i + 1 \in DOMAIN (<<m>> \o s) /\ (<<m>> \o s)[i + 1] = s[i]
         /\ \A i \in DOMAIN (<<m>> \o s) : i = 1 \/ (i - 1 \in DOMAIN s /\ (<<m>> \o s)[i] = s[i - 1])
         /\ Ids(<<m>> \o s) = {m.id} \cup Ids(s) /\ Covers(<<m>> \o s) = m.covers \cup Covers(s)
<1> DEFINE v == <<m>> \o s
<1>1. s \in Seq(ShapedMessages) /\ Distinct(s) /\ DOMAIN s = 1..Len(s) /\ Len(s) \in Nat
  BY DEF ShapedLists
<1>2. <<m>> \in Seq(ShapedMessages) /\ Len(<<m>>) = 1 /\ <<m>>[1] = m
  OBVIOUS
<1>3. /\ v \in Seq(ShapedMessages) /\ Len(v) = 1 + Len(s) /\ DOMAIN v = 1..(1 + Len(s))
      /\ \A i \in 1..1 : v[i] = <<m>>[i]
      /\ \A i \in 1..Len(s) : v[1 + i] = s[i]
  BY <1>1, <1>2, Joined
<1> HIDE DEF v
<1>4. v[1] = m /\ 1 \in DOMAIN v
  BY <1>1, <1>2, <1>3
<1>5. \A i \in DOMAIN s : i + 1 \in DOMAIN v /\ v[i + 1] = s[i]
  BY <1>1, <1>3
<1>6. \A i \in DOMAIN v : i = 1 \/ (i - 1 \in DOMAIN s /\ v[i] = s[i - 1])
  <2>1. \A i \in DOMAIN v : i = 1 \/ (i - 1 \in 1..Len(s) /\ 1 + (i - 1) = i)
    BY <1>1, <1>3
  <2> QED BY <1>1, <1>3, <2>1
<1>7. Ids(v) = {m.id} \cup Ids(s)
  BY <1>4, <1>5, <1>6 DEF Ids
<1>8. Covers(v) = m.covers \cup Covers(s)
  BY <1>4, <1>5, <1>6 DEF Covers
<1>9. Distinct(v)
  <2> SUFFICES ASSUME NEW i \in DOMAIN v, NEW j \in DOMAIN v, v[i].id = v[j].id PROVE i = j
    BY DEF Distinct
  <2>1. i \in Int /\ j \in Int
    BY <1>1, <1>3
  <2>2. \A k \in DOMAIN s : s[k].id # m.id
    BY DEF Ids
  <2>3. i = 1 <=> j = 1
    BY <1>4, <1>6, <2>2
  <2>4. CASE i # 1 /\ j # 1
    <3>1. i - 1 = j - 1
      BY <1>1, <1>6, <2>4 DEF Distinct
    <3> QED BY <2>1, <3>1
  <2> QED BY <2>3, <2>4
<1> QED BY <1>1, <1>3, <1>4, <1>5, <1>6, <1>7, <1>8, <1>9 DEF v, ShapedLists

LEMMA HeadAlike ==
  ASSUME NEW m \in ShapedMessages, NEW s \in ShapedLists, NEW t \in ShapedLists, Within(t, s), m.id \notin Ids(s)
  PROVE  Alike(<<m>> \o t, s)
<1> DEFINE v == <<m>> \o t
<1>1. m.id \notin Ids(t) /\ \A q \in DOMAIN s : s[q].id # m.id
  BY DEF Within, Ids
<1>2. /\ v[1] = m /\ DOMAIN v = 1..(Len(t) + 1) /\ Len(t) \in Nat
      /\ \A i \in DOMAIN v : i = 1 \/ (i - 1 \in DOMAIN t /\ v[i] = t[i - 1])
  BY <1>1, HeadIs DEF ShapedLists
<1> HIDE DEF v
<1>3. ASSUME NEW i \in DOMAIN v, NEW q \in DOMAIN s, v[i].id = s[q].id
      PROVE  i - 1 \in DOMAIN t /\ v[i] = t[i - 1]
  BY <1>1, <1>2, <1>3
<1>4. \A i \in DOMAIN v, q \in DOMAIN s : v[i].id = s[q].id => Like(v[i], s[q])
  BY <1>3 DEF Within, Alike
<1>5. ASSUME NEW i \in DOMAIN v, NEW j \in DOMAIN v, NEW q \in DOMAIN s, NEW z \in DOMAIN s,
             v[i].id = s[q].id, v[j].id = s[z].id
      PROVE  i < j <=> q < z
  <2>1. (i - 1 < j - 1) <=> q < z
    BY <1>3, <1>5 DEF Within, Alike
  <2>2. i \in Int /\ j \in Int
    BY <1>2
  <2> QED BY <2>1, <2>2
<1> QED BY <1>4, <1>5 DEF Alike, v
-----------------------------------------------------------------------------
\* The user's latest message.
Latest(s, i) == i \in DOMAIN s /\ s[i].kind = "user" /\ \A j \in DOMAIN s : j > i => s[j].kind # "user"

LEMMA GoalIs ==
  ASSUME NEW s \in ShapedLists, NEW i, Latest(s, i)
  PROVE  Goal(s) = s[i].id /\ Goals(s) # {} /\ Newest(Goals(s)) = i
<1>1. DOMAIN s = 1..Len(s) /\ Len(s) \in Nat
  BY DEF ShapedLists
<1>2. i \in Goals(s) /\ i \in Nat /\ \A j \in Goals(s) : j <= i /\ j \in Nat
  BY <1>1 DEF Latest, Goals
<1>3. \A n \in Goals(s) : (\A m \in Goals(s) : m <= n) => n = i
  BY <1>2
<1> HIDE DEF Goals
<1>4. (CHOOSE n \in Goals(s) : \A m \in Goals(s) : m <= n) = i
  BY <1>2, <1>3
<1>5. Newest(Goals(s)) = i
  BY <1>2, <1>4 DEF Newest
<1> QED BY <1>2, <1>5 DEF Goal

LEMMA LatestAlike ==
  ASSUME NEW s \in ShapedLists, NEW t \in ShapedLists, Alike(t, s), NEW i, Latest(s, i), s[i].id \in Ids(t),
         \A p \in DOMAIN t : t[p].id \in Ids(s) \/ t[p].kind # "user"
  PROVE  \E p : Latest(t, p) /\ t[p].id = s[i].id /\ t[p].turn = s[i].turn
<1>1. PICK p \in DOMAIN t : t[p].id = s[i].id
  BY DEF Ids
<1>2. t[p].kind = "user" /\ t[p].turn = s[i].turn
  BY <1>1 DEF Latest, Alike, Like
<1>3. ASSUME NEW v \in DOMAIN t, v > p, t[v].kind = "user" PROVE FALSE
  <2>1. PICK q \in DOMAIN s : t[v].id = s[q].id
    BY <1>3 DEF Ids
  <2>2. s[q].kind = "user"
    BY <1>3, <2>1 DEF Alike, Like
  <2>3. p < v <=> i < q
    BY <1>1, <2>1 DEF Alike, Latest
  <2>4. p < v /\ p \in Int /\ v \in Int /\ i \in Int /\ q \in Int
    BY <1>3 DEF ShapedLists, Latest
  <2> QED BY <2>2, <2>3, <2>4 DEF Latest
<1> QED BY <1>1, <1>2, <1>3 DEF Latest

\* The calls that are open in one list are open in another one that has their answers.
LEMMA OpenCarries ==
  ASSUME NEW s \in ShapedLists, NEW t \in ShapedLists, Alike(t, s), NEW i \in 0..Len(t), NEW j \in 0..Len(s),
         \A p \in 1..i : t[p].calls # {} =>
           \E q \in 1..j : /\ s[q].id = t[p].id
                           /\ \A k \in q..j : s[k].call # NoCall => \E r \in 1..i : t[r].id = s[k].id
  PROVE  OpenAt(t, i) \subseteq OpenAt(s, j)
<1> SUFFICES ASSUME NEW c \in OpenAt(t, i) PROVE c \in OpenAt(s, j)
  OBVIOUS
<1>1. /\ DOMAIN s = 1..Len(s) /\ DOMAIN t = 1..Len(t) /\ Len(s) \in Nat /\ Len(t) \in Nat
      /\ \A p \in DOMAIN t : t[p].calls \subseteq Pairs \ {NoCall}
  BY ShapedListIs DEF Shaped
<1>2. PICK p \in 1..i : c \in t[p].calls /\ \A k \in p..i : t[k].call # c
  BY DEF OpenAt
<1>3. p \in DOMAIN t /\ c \in Pairs /\ c # NoCall /\ t[p].calls # {}
  BY <1>1, <1>2
<1>4. PICK q \in 1..j : /\ s[q].id = t[p].id
                        /\ \A k \in q..j : s[k].call # NoCall => \E r \in 1..i : t[r].id = s[k].id
  BY <1>2, <1>3
<1>5. q \in DOMAIN s /\ c \in s[q].calls
  <2>1. q \in DOMAIN s
    BY <1>1
  <2> QED BY <1>2, <1>3, <1>4, <2>1 DEF Alike, Like
<1>6. ASSUME NEW k \in q..j, s[k].call = c PROVE FALSE
  <2>1. PICK r \in 1..i : t[r].id = s[k].id
    BY <1>3, <1>4, <1>6
  <2>2. k \in DOMAIN s /\ r \in DOMAIN t /\ ~(k < q) /\ p \in Int /\ r \in Int
    BY <1>1, <1>6
  <2>3. t[r].call = c
    BY <1>6, <2>1, <2>2 DEF Alike, Like
  <2>4. r < p <=> k < q
    BY <1>3, <1>4, <1>5, <2>1, <2>2 DEF Alike
  <2>5. r \in p..i
    BY <2>2, <2>4
  <2> QED BY <1>2, <2>3, <2>5
<1> QED BY <1>3, <1>5, <1>6 DEF OpenAt

\* A list without calls and results is sound.
LEMMA QuietIsSound ==
  ASSUME NEW s \in ShapedLists, \A i \in DOMAIN s : s[i].calls = {} /\ s[i].kind # "result"
  PROVE  AllLegal(s) /\ StillOpen(s) = {}
<1>1. DOMAIN s = 1..Len(s) /\ Len(s) \in Nat
  BY DEF ShapedLists
<1>2. ASSUME NEW i \in 0..Len(s) PROVE OpenAt(s, i) = {}
  BY <1>1 DEF OpenAt
<1>3. \A i \in DOMAIN s : i - 1 \in 0..Len(s)
  BY <1>1
<1> QED BY <1>1, <1>2, <1>3 DEF AllLegal, Legal, StillOpen

\* What does not speak may join a sound list: markers, results of subagents, and a
\* checkpoint before the others.
LEMMA SoundAlike ==
  ASSUME NEW s \in ShapedLists, NEW t \in ShapedLists, Alike(t, s), AllLegal(s), StillOpen(s) = {}, Ids(s) \subseteq Ids(t),
         \A p \in DOMAIN t : \/ t[p].id \in Ids(s)
                             \/ t[p].kind \in {"marker", "subagent"}
                             \/ t[p].kind \in Heads /\ p = 1
  PROVE  AllLegal(t) /\ StillOpen(t) = {}
<1> DEFINE Level(i, j) == \A p \in DOMAIN t, q \in DOMAIN s : t[p].id = s[q].id => (p <= i <=> q <= j)
<1>1. /\ DOMAIN s = 1..Len(s) /\ DOMAIN t = 1..Len(t) /\ Len(s) \in Nat /\ Len(t) \in Nat
      /\ \A p \in DOMAIN t : Shaped(t[p])
  BY ShapedListIs
<1>2. \A p \in DOMAIN t : t[p].calls # {} \/ t[p].call # NoCall => t[p].id \in Ids(s)
  BY <1>1 DEF Shaped, Heads
<1>3. Alike(s, t)
  <2>1. \A q \in DOMAIN s, p \in DOMAIN t : s[q].id = t[p].id => Like(s[q], t[p])
    BY DEF Alike, Like
  <2>2. \A q, z \in DOMAIN s, p, v \in DOMAIN t : s[q].id = t[p].id /\ s[z].id = t[v].id => (q < z <=> p < v)
    BY DEF Alike
  <2> QED BY <2>1, <2>2 DEF Alike
<1>4. ASSUME NEW i \in 0..Len(t), NEW j \in 0..Len(s), Level(i, j) PROVE OpenAt(t, i) = OpenAt(s, j)
  <2>1. ASSUME NEW p \in 1..i, t[p].calls # {}
        PROVE  \E q \in 1..j : /\ s[q].id = t[p].id
                               /\ \A k \in q..j : s[k].call # NoCall => \E r \in 1..i : t[r].id = s[k].id
    <3>1. p \in DOMAIN t
      BY <1>1
    <3>2. PICK q \in DOMAIN s : s[q].id = t[p].id
      BY <1>2, <2>1, <3>1 DEF Ids
    <3>3. q \in 1..j
      BY <1>1, <1>4, <3>1, <3>2
    <3>4. ASSUME NEW k \in q..j PROVE \E r \in 1..i : t[r].id = s[k].id
      <4>1. k \in DOMAIN s /\ k <= j
        BY <1>1, <3>3
      <4>2. PICK r \in DOMAIN t : t[r].id = s[k].id
        BY <4>1 DEF Ids
      <4>3. r \in 1..i
        BY <1>1, <1>4, <4>1, <4>2
      <4> QED BY <4>2, <4>3
    <3> QED BY <3>2, <3>3, <3>4
  <2>2. OpenAt(t, i) \subseteq OpenAt(s, j)
    BY <2>1, OpenCarries
  <2>3. ASSUME NEW q \in 1..j, s[q].calls # {}
        PROVE  \E p \in 1..i : /\ t[p].id = s[q].id
                               /\ \A k \in p..i : t[k].call # NoCall => \E r \in 1..j : s[r].id = t[k].id
    <3>1. q \in DOMAIN s /\ q <= j
      BY <1>1
    <3>2. PICK p \in DOMAIN t : t[p].id = s[q].id
      BY <3>1 DEF Ids
    <3>3. p \in 1..i
      BY <1>1, <1>4, <3>1, <3>2
    <3>4. ASSUME NEW k \in p..i, t[k].call # NoCall PROVE \E r \in 1..j : s[r].id = t[k].id
      <4>1. k \in DOMAIN t /\ k <= i
        BY <1>1, <3>3
      <4>2. PICK r \in DOMAIN s : s[r].id = t[k].id
        BY <1>2, <3>4, <4>1 DEF Ids
      <4>3. r \in 1..j
        BY <1>1, <1>4, <4>1, <4>2
      <4> QED BY <4>2, <4>3
    <3> QED BY <3>2, <3>3, <3>4
  <2>4. OpenAt(s, j) \subseteq OpenAt(t, i)
    BY <1>3, <2>3, OpenCarries
  <2> QED BY <2>2, <2>4
<1>5. StillOpen(t) = {}
  <2>1. Level(Len(t), Len(s)) /\ Len(t) \in 0..Len(t) /\ Len(s) \in 0..Len(s)
    BY <1>1
  <2> HIDE DEF Level
  <2> QED BY <1>4, <2>1 DEF StillOpen
<1>6. ASSUME NEW p \in DOMAIN t PROVE Legal(t, p)
  <2>1. CASE t[p].kind \in {"marker", "subagent"}
    BY <2>1 DEF Legal
  <2>2. CASE t[p].kind \in Heads /\ p = 1
    <3>1. OpenAt(t, p - 1) = {}
      BY <2>2 DEF OpenAt
    <3> QED BY <2>2, <3>1 DEF Legal, Heads
  <2>3. CASE t[p].id \in Ids(s)
    <3>1. PICK q \in DOMAIN s : s[q].id = t[p].id
      BY <2>3 DEF Ids
    <3>2. p - 1 \in 0..Len(t) /\ q - 1 \in 0..Len(s) /\ p \in Int /\ q \in Int
      BY <1>1
    <3>3. Level(p - 1, q - 1)
      <4> SUFFICES ASSUME NEW v \in DOMAIN t, NEW z \in DOMAIN s, t[v].id = s[z].id
                   PROVE  v <= p - 1 <=> z <= q - 1
        OBVIOUS
      <4>1. v < p <=> z < q
        BY <3>1 DEF Alike
      <4>2. v \in Int /\ z \in Int
        BY <1>1
      <4> QED BY <3>2, <4>1, <4>2
    <3> HIDE DEF Level
    <3>4. OpenAt(t, p - 1) = OpenAt(s, q - 1)
      BY <1>4, <3>2, <3>3
    <3>5. Like(t[p], s[q]) /\ Legal(s, q)
      BY <3>1 DEF Alike, AllLegal
    <3> QED BY <3>4, <3>5 DEF Legal, Like

  <2> QED BY <2>1, <2>2, <2>3
<1> QED BY <1>5, <1>6 DEF AllLegal
\* Two parts of one list.
LEMMA PartsAlike ==
  ASSUME NEW s \in ShapedLists, NEW t, NEW r, Within(t, s), Within(r, s)
  PROVE  Alike(t, r)
<1>1. \A p \in DOMAIN t : \E k \in DOMAIN s : t[p].id = s[k].id
  BY DEF Within, Ids
<1>2. ASSUME NEW p \in DOMAIN t, NEW q \in DOMAIN r, t[p].id = r[q].id PROVE Like(t[p], r[q])
  <2>1. PICK k \in DOMAIN s : t[p].id = s[k].id
    BY <1>1
  <2>2. Like(t[p], s[k]) /\ Like(r[q], s[k])
    BY <1>2, <2>1 DEF Within, Alike
  <2> QED BY <2>2 DEF Like
<1>3. ASSUME NEW p \in DOMAIN t, NEW v \in DOMAIN t, NEW q \in DOMAIN r, NEW z \in DOMAIN r,
             t[p].id = r[q].id, t[v].id = r[z].id
      PROVE  p < v <=> q < z
  <2>1. PICK k \in DOMAIN s : t[p].id = s[k].id
    BY <1>1
  <2>2. PICK l \in DOMAIN s : t[v].id = s[l].id
    BY <1>1
  <2>3. p < v <=> k < l
    BY <2>1, <2>2 DEF Within, Alike
  <2>4. q < z <=> k < l
    <3>1. r[q].id = s[k].id /\ r[z].id = s[l].id
      BY <1>3, <2>1, <2>2
    <3> QED BY <3>1, SMTT(30) DEF Within, Alike
  <2> QED BY <2>3, <2>4
<1> QED BY <1>2, <1>3 DEF Alike

\* A sound part stays sound with other positions and lengths.
LEMMA SoundPart ==
  ASSUME NEW s \in ShapedLists, NEW t \in ShapedLists, NEW r \in ShapedLists, Within(t, s), Within(r, s),
         Ids(t) = Ids(r), AllLegal(r), StillOpen(r) = {}
  PROVE  AllLegal(t) /\ StillOpen(t) = {}
<1>1. Alike(t, r)
  BY PartsAlike
<1>2. \A p \in DOMAIN t : t[p].id \in Ids(r)
  BY DEF Ids
<1> QED BY <1>1, <1>2, SoundAlike

LEMMA WithinItself ==
  ASSUME NEW s \in ShapedLists
  PROVE  Within(s, s)
<1>1. \A p, q \in DOMAIN s : s[p].id = s[q].id => p = q
  BY ShapedListIs DEF Distinct
<1> QED BY <1>1 DEF Within, Alike, Like

\* The end of a sound list has no open calls, whatever stands before it.
LEMMA EndIsClosed ==
  ASSUME NEW s \in ShapedLists, NEW u \in ShapedLists, Within(u, s), NEW cut \in 0..Len(u),
         \A k \in DOMAIN s : s[k].call # NoCall => s[k].id \in Ids(u),
         NEW t \in ShapedLists, Alike(t, s), Ids(Beyond(u, cut)) \subseteq Ids(t), StillOpen(s) = {},
         \A p \in DOMAIN t : t[p].calls # {} => t[p].id \in Ids(Beyond(u, cut))
  PROVE  StillOpen(t) = {}
<1>1. /\ DOMAIN s = 1..Len(s) /\ DOMAIN t = 1..Len(t) /\ DOMAIN u = 1..Len(u)
      /\ Len(s) \in Nat /\ Len(t) \in Nat /\ Len(u) \in Nat /\ Len(s) \in 0..Len(s) /\ Len(t) \in 0..Len(t)
  BY ShapedListIs
<1>2. Ids(Beyond(u, cut)) = {u[k].id : k \in (cut + 1)..Len(u)}
  BY SplitIs
<1>3. ASSUME NEW p \in 1..Len(t), t[p].calls # {}
      PROVE  \E q \in 1..Len(s) : /\ s[q].id = t[p].id
                                  /\ \A k \in q..Len(s) : s[k].call # NoCall => \E r \in 1..Len(t) : t[r].id = s[k].id
  <2>1. PICK x \in (cut + 1)..Len(u) : t[p].id = u[x].id
    BY <1>1, <1>2, <1>3
  <2>2. x \in DOMAIN u
    BY <1>1
  <2>3. PICK q \in DOMAIN s : s[q].id = u[x].id
    <3>1. u[x].id \in Ids(u)
      BY <2>2 DEF Ids
    <3>2. u[x].id \in Ids(s)
      BY <3>1 DEF Within
    <3> QED BY <3>2 DEF Ids
  <2>4. ASSUME NEW k \in q..Len(s), s[k].call # NoCall PROVE \E r \in 1..Len(t) : t[r].id = s[k].id
    <3>1. k \in DOMAIN s /\ ~(k < q)
      BY <1>1, <2>3
    <3>2. PICK z \in DOMAIN u : s[k].id = u[z].id
      BY <2>4, <3>1 DEF Ids
    <3>3. z < x <=> k < q
      BY <2>2, <2>3, <3>1, <3>2 DEF Within, Alike
    <3>4. z \in (cut + 1)..Len(u)
      BY <1>1, <3>1, <3>2, <3>3
    <3>5. s[k].id \in Ids(t)
      BY <1>2, <3>2, <3>4
    <3> QED BY <1>1, <3>5 DEF Ids
  <2> QED BY <1>1, <2>1, <2>3, <2>4
<1>4. OpenAt(t, Len(t)) \subseteq OpenAt(s, Len(s))
  BY <1>1, <1>3, OpenCarries
<1> QED BY <1>4 DEF StillOpen

\* One message more.
LEMMA MoreIs ==
  ASSUME NEW s \in ShapedLists, NEW m \in ShapedMessages, m.id \notin Ids(s)
  PROVE  /\ Append(s, m) \in ShapedLists /\ DOMAIN Append(s, m) = 1..(Len(s) + 1) /\ Len(Append(s, m)) = Len(s) + 1
         /\ \A i \in DOMAIN s : i \in DOMAIN Append(s, m) /\ Append(s, m)[i] = s[i]
         /\ Append(s, m)[Len(s) + 1] = m
         /\ \A i \in DOMAIN Append(s, m) : i \in DOMAIN s \/ i = Len(s) + 1
         /\ Ids(Append(s, m)) = Ids(s) \cup {m.id} /\ Covers(Append(s, m)) = Covers(s) \cup m.covers
         /\ Within(s, Append(s, m))
<1> DEFINE t == Append(s, m)
           n == Len(s)
<1>1. s \in Seq(ShapedMessages) /\ Distinct(s) /\ DOMAIN s = 1..n /\ n \in Nat
  BY DEF ShapedLists
<1>2. /\ t \in Seq(ShapedMessages) /\ Len(t) = n + 1 /\ DOMAIN t = 1..(n + 1)
      /\ t[n + 1] = m /\ \A i \in 1..n : t[i] = s[i]
  BY <1>1, Appended
<1> HIDE DEF t, n
<1>3. (\A i \in 1..(n + 1) : i \in 1..n \/ i = n + 1) /\ (\A i \in 1..n : i \in 1..(n + 1)) /\ n + 1 \in 1..(n + 1)
  BY <1>1
<1>4. Ids(t) = Ids(s) \cup {m.id} /\ Covers(t) = Covers(s) \cup m.covers
  <2>1. Ids(t) = Ids(s) \cup {m.id}
    BY <1>1, <1>2, <1>3 DEF Ids
  <2>2. Covers(t) = Covers(s) \cup m.covers
    BY <1>1, <1>2, <1>3 DEF Covers
  <2> QED BY <2>1, <2>2
<1>5. \A i \in DOMAIN s : s[i].id # m.id
  BY DEF Ids
<1>6. Distinct(t)
  BY <1>1, <1>2, <1>3, <1>5 DEF Distinct
<1>7. Within(s, t)
  <2>1. ASSUME NEW p \in DOMAIN s, NEW q \in DOMAIN t, s[p].id = t[q].id PROVE p = q /\ Like(s[p], t[q])
    BY <1>1, <1>2, <1>3, <1>5, <2>1 DEF Distinct, Like
  <2>2. Alike(s, t)
    BY <2>1 DEF Alike
  <2> QED BY <1>4, <2>2 DEF Within
<1> QED BY <1>1, <1>2, <1>3, <1>4, <1>6, <1>7 DEF t, n, ShapedLists

LEMMA MoreIsLegal ==
  ASSUME NEW s \in ShapedLists, NEW m \in ShapedMessages, m.id \notin Ids(s), AllLegal(s),
         \/ m.kind = "subagent"
         \/ m.kind = "result" /\ m.call \in StillOpen(s)
         \/ m.kind # "result" /\ StillOpen(s) = {}
  PROVE  AllLegal(Append(s, m)) /\ StillOpen(Append(s, m)) = Answered(StillOpen(s), m)
<1> DEFINE t == Append(s, m)
           n == Len(s)
<1>1. /\ t \in ShapedLists /\ DOMAIN t = 1..(n + 1) /\ Len(t) = n + 1 /\ DOMAIN s = 1..n /\ n \in Nat
      /\ t \in Seq(ShapedMessages)
      /\ \A i \in DOMAIN s : t[i] = s[i]
      /\ t[n + 1] = m
  BY MoreIs DEF ShapedLists
<1> HIDE DEF t, n
<1>2. ASSUME NEW i \in 0..n PROVE OpenAt(t, i) = OpenAt(s, i)
  <2>1. \A j \in 1..i : t[j] = s[j] /\ \A k \in j..i : t[k] = s[k]
    BY <1>1
  <2> QED BY <2>1 DEF OpenAt
<1>3. n \in 0..n /\ n + 1 \in 1..(n + 1) /\ (n + 1) - 1 = n /\ \A i \in 1..n : i - 1 \in 0..n
  BY <1>1
<1>4. OpenAt(t, n) = StillOpen(s)
  BY <1>2, <1>3 DEF StillOpen, n
<1>5. StillOpen(t) = Answered(StillOpen(s), m)
  <2>1. OpenAt(t, n + 1) = Answered(OpenAt(t, (n + 1) - 1), t[n + 1])
    BY <1>1, <1>3, OpenFollows
  <2> QED BY <1>1, <1>3, <1>4, <2>1 DEF StillOpen
<1>6. ASSUME NEW i \in DOMAIN t PROVE Legal(t, i)
  <2>1. CASE i = n + 1
    BY <1>1, <1>3, <1>4, <2>1 DEF Legal
  <2>2. CASE i # n + 1
    <3>1. i \in DOMAIN s /\ i \in 1..n
      BY <1>1, <2>2
    <3>2. OpenAt(t, i - 1) = OpenAt(s, i - 1) /\ t[i] = s[i]
      BY <1>1, <1>2, <1>3, <3>1
    <3> QED BY <3>1, <3>2 DEF Legal, AllLegal
  <2> QED BY <2>1, <2>2
<1> QED BY <1>5, <1>6 DEF AllLegal, t
-----------------------------------------------------------------------------
\* Among the turns of some messages there is a newest and an oldest one.
LEMMA Extremes ==
  ASSUME NEW n \in Nat, NEW f \in [1..n -> Int]
  PROVE  n > 0 => /\ \E i \in 1..n : \A j \in 1..n : f[j] <= f[i]
                  /\ \E i \in 1..n : \A j \in 1..n : f[i] <= f[j]
<1> DEFINE Found(k) == k > 0 => /\ \E i \in 1..k : \A j \in 1..k : f[j] <= f[i]
                                /\ \E i \in 1..k : \A j \in 1..k : f[i] <= f[j]
           T == {k \in 0..n : Found(k)}
<1>1. 0 \in T
  OBVIOUS
<1>2. ASSUME NEW k \in 1..n, k - 1 \in T PROVE k \in T
  <2>1. \A j \in 1..k : j \in 1..n /\ f[j] \in Int /\ (j = k \/ j \in 1..(k - 1))
    OBVIOUS
  <2>2. \A j \in 1..(k - 1) : j \in 1..k
    OBVIOUS
  <2>3. k \in 1..k /\ k \in 0..n
    OBVIOUS
  <2>4. CASE k = 1
    <3>1. \A j \in 1..k : j = k
      BY <2>4
    <3>2. \A j \in 1..k : f[j] <= f[k] /\ f[k] <= f[j]
      BY <2>1, <2>3, <3>1
    <3>3. /\ \E i \in 1..k : \A j \in 1..k : f[j] <= f[i]
          /\ \E i \in 1..k : \A j \in 1..k : f[i] <= f[j]
      BY <2>3, <3>2
    <3> QED BY <2>3, <3>3
  <2>5. CASE k # 1
    <3>1. Found(k - 1) /\ k - 1 > 0
      BY <1>2, <2>5
    <3>2. PICK i \in 1..(k - 1) : \A j \in 1..(k - 1) : f[j] <= f[i]
      BY <3>1
    <3>3. \E x \in 1..k : \A j \in 1..k : f[j] <= f[x]
      <4>1. CASE f[k] <= f[i]
        BY <2>1, <2>2, <3>2, <4>1
      <4>2. CASE ~(f[k] <= f[i])
        <5>1. \A j \in 1..k : f[j] <= f[k]
          BY <2>1, <2>2, <2>3, <3>2, <4>2
        <5> QED BY <2>3, <5>1
      <4> QED BY <4>1, <4>2
    <3>4. PICK i2 \in 1..(k - 1) : \A j \in 1..(k - 1) : f[i2] <= f[j]
      BY <3>1
    <3>5. \E x \in 1..k : \A j \in 1..k : f[x] <= f[j]
      <4>1. CASE f[i2] <= f[k]
        BY <2>1, <2>2, <3>4, <4>1
      <4>2. CASE ~(f[i2] <= f[k])
        <5>1. \A j \in 1..k : f[k] <= f[j]
          BY <2>1, <2>2, <2>3, <3>4, <4>2
        <5> QED BY <2>3, <5>1
      <4> QED BY <4>1, <4>2
    <3> QED BY <2>3, <3>3, <3>5
  <2> QED BY <2>4, <2>5
<1> HIDE DEF T
<1>3. \A k \in 0..n : k \in T
  BY <1>1, <1>2, Induction, Zenon
<1>4. n \in T
  BY <1>3
<1> HIDE DEF Found
<1>5. Found(n)
  BY <1>4 DEF T
<1> QED BY <1>5 DEF Found

LEMMA TurnsAreInts ==
  ASSUME NEW s \in ShapedLists
  PROVE  /\ Newest(TurnsIn(s)) \in Int
         /\ s # <<>> => Oldest(TurnsIn(s)) \in Int
<1>1. /\ DOMAIN s = 1..Len(s) /\ Len(s) \in Nat /\ (s # <<>> => Len(s) > 0)
      /\ \A i \in DOMAIN s : s[i].turn \in Int
  <2>1. s \in Seq(ShapedMessages) /\ DOMAIN s = 1..Len(s) /\ Len(s) \in Nat /\ \A i \in DOMAIN s : s[i] \in Messages
    BY ShapedListIs
  <2> QED BY <2>1 DEF Messages
<1> DEFINE f == [i \in 1..Len(s) |-> s[i].turn]
<1>2. f \in [1..Len(s) -> Int] /\ \A i \in 1..Len(s) : f[i] = s[i].turn
  BY <1>1
<1> HIDE DEF f
<1>3. Len(s) > 0 => /\ \E i \in 1..Len(s) : \A j \in 1..Len(s) : f[j] <= f[i]
                    /\ \E i \in 1..Len(s) : \A j \in 1..Len(s) : f[i] <= f[j]
  BY <1>1, <1>2, Extremes
<1>4. TurnsIn(s) = {f[i] : i \in 1..Len(s)} /\ TurnsIn(s) \subseteq Int
  BY <1>1, <1>2 DEF TurnsIn
<1>5. s # <<>> => TurnsIn(s) # {}
  BY <1>1, <1>4
<1>6. TurnsIn(s) # {} => Len(s) > 0
  BY <1>1, <1>4
<1> DEFINE all == TurnsIn(s)
<1>7. Len(s) > 0 => /\ \E n \in all : \A m \in all : m <= n
                    /\ \E n \in all : \A m \in all : n <= m
  BY <1>3, <1>4, ZenonT(40)
<1> HIDE DEF all
<1>8. all # {} => (CHOOSE n \in all : \A m \in all : m <= n) \in all /\ (CHOOSE n \in all : \A m \in all : n <= m) \in all
  BY <1>6, <1>7 DEF all
<1>9. all \subseteq Int
  BY <1>4 DEF all
<1> QED BY <1>5, <1>8, <1>9 DEF Newest, Oldest, all

LEMMA PlainIsShaped ==
  ASSUME NEW id \in Nat, NEW kind \in MessageKinds, NEW turn \in Int, kind # "result"
  PROVE  /\ Plain(id, kind, turn) \in ShapedMessages
         /\ Plain(id, kind, turn) = [id |-> id, kind |-> kind, turn |-> turn, calls |-> {}, call |-> NoCall,
                                     covers |-> {id}, short |-> FALSE]
<1> DEFINE m == Plain(id, kind, turn)
<1>1. m = [id |-> id, kind |-> kind, turn |-> turn, calls |-> {}, call |-> NoCall, covers |-> {id}, short |-> FALSE]
  BY DEF Plain
<1>2. NoCall \in Nat \X Nat
  BY DEF NoCall
<1>3. m \in Messages /\ m.kind = kind /\ m.calls = {} /\ m.call = NoCall
  BY <1>1, <1>2 DEF Messages
<1> HIDE DEF m
<1>4. Shaped(m)
  BY <1>3 DEF Shaped
<1>5. m \in ShapedMessages
  BY <1>3, <1>4 DEF ShapedMessages
<1> QED BY <1>1, <1>5 DEF m

LEMMA CheckpointIsShaped ==
  ASSUME NEW id \in Nat, NEW kind \in MessageKinds, NEW turn \in Int, kind # "result", NEW covers \in SUBSET Nat
  PROVE  /\ Checkpoint(id, kind, turn, covers) \in ShapedMessages
         /\ Checkpoint(id, kind, turn, covers) =
              [id |-> id, kind |-> kind, turn |-> turn, calls |-> {}, call |-> NoCall, covers |-> covers, short |-> FALSE]
<1> DEFINE m == Checkpoint(id, kind, turn, covers)
           p == [id |-> id, kind |-> kind, turn |-> turn, calls |-> {}, call |-> NoCall, covers |-> {id}, short |-> FALSE]
<1>1. m = [p EXCEPT !.covers = covers]
  BY DEF Checkpoint, Plain
<1>2. m = [id |-> id, kind |-> kind, turn |-> turn, calls |-> {}, call |-> NoCall, covers |-> covers, short |-> FALSE]
  <2> HIDE DEF m
  <2> QED BY <1>1
<1>3. NoCall \in Nat \X Nat
  BY DEF NoCall
<1> HIDE DEF m
<1>4. m \in Messages /\ m.kind = kind /\ m.calls = {} /\ m.call = NoCall
  BY <1>2, <1>3 DEF Messages
<1>5. Shaped(m)
  BY <1>4 DEF Shaped
<1>6. m \in ShapedMessages
  BY <1>4, <1>5 DEF ShapedMessages
<1> QED BY <1>2, <1>6 DEF m

-----------------------------------------------------------------------------
\* What the messages of the window hold of the conversation.
CoversKept ==
  /\ \A i \in DOMAIN window : window[i].covers \subseteq said \cap (filed \cup Ids(window))
  /\ \A i \in DOMAIN window : window[i].short => window[i].id \in filed
  /\ said \subseteq Covers(window) \cup astray
\* Every message is legal where it is; a checkpoint stands before all others.
HeadsFirst(s) == \A i \in DOMAIN s : s[i].kind \in Heads => i = 1
WindowLegal == AllLegal(window) /\ HeadsFirst(window) /\ (stage # "tools" => StillOpen(window) = {})
\* The question of the run is the user's latest message.
GoalOf(s) == \E i \in DOMAIN s : Latest(s, i) /\ s[i].turn = round
GoalKept == (window = <<>> /\ stage = "idle" /\ round = 0) \/ GoalOf(window)
\* What a request does not know came from elsewhere, or stands for what it knew.
Familiar(s, seen) == \A i \in DOMAIN s : s[i].id \in seen \/ s[i].kind \in Extras
RequestsKnow ==
  /\ stage = "model" => Familiar(window, asked)
  /\ stage = "summary" => Familiar(window, job.seen)
  /\ stage = "summary" /\ job.way # "archive" => AllLegal(Only(window, job.seen)) /\ StillOpen(Only(window, job.seen)) = {}
WindowTyped ==
  /\ mode \in Modes /\ stage \in {"idle", "prepare", "model", "tools", "summary"}
  /\ window \in ShapedLists /\ Ids(window) \cup filed \subseteq 1..born /\ born \in Nat /\ round \in Int
  /\ tries \in 0..2 /\ asked \subseteq 1..born /\ job.seen \subseteq 1..born
  /\ astray \subseteq said /\ said \subseteq 1..born
  /\ job = [cause |-> job.cause, base |-> job.base, seen |-> job.seen, way |-> job.way]
CompactionInv == WindowTyped /\ CoversKept /\ WindowLegal /\ GoalKept /\ RequestsKnow

LEMMA CompactionStarts == CompactionInit => CompactionInv
<1> SUFFICES ASSUME CompactionInit PROVE CompactionInv
  OBVIOUS
<1> USE DEF CompactionInit
<1>1. DOMAIN window = {} /\ Len(window) = 0 /\ window \in Seq(ShapedMessages)
  OBVIOUS
<1>2. Ids(window) = {} /\ window \in ShapedLists
  BY <1>1 DEF Ids, ShapedLists, Distinct
<1>3. WindowTyped
  BY <1>2 DEF WindowTyped, NoJob
<1>4. CoversKept
  BY <1>1 DEF CoversKept
<1>5. WindowLegal
  BY <1>1 DEF WindowLegal, AllLegal, HeadsFirst, StillOpen, OpenAt
<1>6. GoalKept /\ RequestsKnow
  BY DEF GoalKept, RequestsKnow
<1> QED BY <1>3, <1>4, <1>5, <1>6 DEF CompactionInv

\* The invariant gives what is checked.
LEMMA CompactionHolds == CompactionInv => CompactionTypeOK /\ WindowIsFaithful
<1> SUFFICES ASSUME CompactionInv PROVE CompactionTypeOK /\ WindowIsFaithful
  OBVIOUS
<1>1. window \in ShapedLists /\ window \in Seq(ShapedMessages) /\ Distinct(window)
  BY ShapedListIs DEF CompactionInv, WindowTyped
<1>2. window \in Seq(Messages)
  BY <1>1 DEF ShapedMessages
<1>3. CompactionTypeOK
  BY <1>1, <1>2 DEF CompactionInv, WindowTyped, CompactionTypeOK, Distinct
<1>4. WindowIsSound
  BY <1>1, SoundIs DEF CompactionInv, WindowLegal, WindowIsSound
<1>5. GoalStays
  BY DEF CompactionInv, GoalKept, GoalOf, GoalStays, Goals, Latest
<1>6. SourcesRemain
  BY DEF CompactionInv, CoversKept, SourcesRemain
<1> QED BY <1>3, <1>4, <1>5, <1>6 DEF WindowIsFaithful

\* A message joins the window.
LEMMA JoiningKeeps ==
  ASSUME CompactionInv, NEW m \in ShapedMessages, Joins(m), m.id = born + 1, m.covers = {born + 1}, m.short = FALSE,
         m.kind \notin Heads, filed' = filed, astray' = astray, round' = round \/ m.kind = "user",
         \/ m.kind = "subagent"
         \/ m.kind = "result" /\ m.call \in StillOpen(window)
         \/ m.kind # "result" /\ StillOpen(window) = {}
  PROVE  /\ window' \in ShapedLists /\ Ids(window') \cup filed' \subseteq 1..born' /\ born' \in Nat /\ born' = born + 1
         /\ \A set \in SUBSET (1..born) : set \in SUBSET (1..born')
         /\ astray' \subseteq said' /\ said' \subseteq 1..born'
         /\ CoversKept' /\ AllLegal(window') /\ HeadsFirst(window') /\ StillOpen(window') = Answered(StillOpen(window), m)
         /\ Within(window, window')
         /\ m.kind # "user" /\ GoalOf(window) => GoalOf(window)'
         /\ m.kind = "user" /\ m.turn = round' => GoalOf(window)'
         /\ \A seen : Familiar(window, seen) /\ m.kind \in Extras => Familiar(window', seen)
         /\ m.id \in Ids(window') /\ Ids(window') = Ids(window) \cup {born + 1}
<1>1. /\ window \in ShapedLists /\ Ids(window) \cup filed \subseteq 1..born /\ born \in Nat
      /\ astray \subseteq said /\ said \subseteq 1..born /\ CoversKept
      /\ AllLegal(window) /\ HeadsFirst(window)
  BY DEF CompactionInv, WindowTyped, WindowLegal
<1>2. window' = Append(window, m) /\ born' = born + 1 /\ said' = said \cup {born + 1}
  BY DEF Joins
<1> DEFINE n == Len(window)
<1>3. m.id \notin Ids(window) /\ born + 1 \notin 1..born
  BY <1>1
<1>4. /\ window' \in ShapedLists /\ DOMAIN window' = 1..(n + 1) /\ DOMAIN window = 1..n /\ n \in Nat
      /\ \A i \in DOMAIN window : i \in DOMAIN window' /\ window'[i] = window[i]
      /\ window'[n + 1] = m
      /\ \A i \in DOMAIN window' : i \in DOMAIN window \/ i = n + 1
      /\ Ids(window') = Ids(window) \cup {m.id} /\ Covers(window') = Covers(window) \cup m.covers
      /\ Within(window, window')
  <2>1. DOMAIN window = 1..n /\ n \in Nat
    BY <1>1 DEF ShapedLists
  <2> QED BY <1>1, <1>2, <1>3, <2>1, MoreIs
<1>5. AllLegal(window') /\ StillOpen(window') = Answered(StillOpen(window), m)
  BY <1>1, <1>2, <1>3, MoreIsLegal
<1> HIDE DEF n
<1>6. Ids(window') \cup filed' \subseteq 1..born' /\ \A set \in SUBSET (1..born) : set \in SUBSET (1..born')
  BY <1>1, <1>2, <1>4
<1>7. astray' \subseteq said' /\ said' \subseteq 1..born'
  <2>1. \A x \in 1..born : x \in 1..born'
    BY <1>1, <1>2
  <2>2. born + 1 \in 1..born'
    BY <1>1, <1>2
  <2>3. astray' = astray
    OBVIOUS
  <2> QED BY <1>1, <1>2, <2>1, <2>2, <2>3
<1>8. CoversKept'
  <2>1. ASSUME NEW i \in DOMAIN window'
        PROVE  /\ window'[i].covers \subseteq said' \cap (filed' \cup Ids(window'))
               /\ window'[i].short => window'[i].id \in filed'
    <3>1. CASE i \in DOMAIN window
      BY <1>1, <1>2, <1>4, <3>1 DEF CoversKept
    <3>2. CASE i = n + 1
      BY <1>2, <1>4, <3>2
    <3> QED BY <1>4, <2>1, <3>1, <3>2
  <2>2. said' \subseteq Covers(window') \cup astray'
    BY <1>1, <1>2, <1>4 DEF CoversKept
  <2> QED BY <2>1, <2>2 DEF CoversKept
<1>9. HeadsFirst(window')
  BY <1>1, <1>4 DEF HeadsFirst
<1>10. m.kind # "user" /\ GoalOf(window) => GoalOf(window)'
  <2> SUFFICES ASSUME m.kind # "user", GoalOf(window) PROVE GoalOf(window)'
    OBVIOUS
  <2>1. PICK i \in DOMAIN window : Latest(window, i) /\ window[i].turn = round
    BY DEF GoalOf
  <2>2. round' = round
    OBVIOUS
  <2>3. Latest(window', i) /\ window'[i].turn = round' /\ i \in DOMAIN window'
    BY <1>4, <2>1, <2>2 DEF Latest
  <2> QED BY <2>3 DEF GoalOf
<1>11. m.kind = "user" /\ m.turn = round' => GoalOf(window)'
  <2> SUFFICES ASSUME m.kind = "user", m.turn = round' PROVE GoalOf(window)'
    OBVIOUS
  <2>1. n + 1 \in DOMAIN window' /\ \A j \in DOMAIN window' : ~(j > n + 1)
    BY <1>4
  <2>2. Latest(window', n + 1)
    BY <1>4, <2>1 DEF Latest
  <2> QED BY <1>4, <2>1, <2>2 DEF GoalOf
<1>12. \A seen : Familiar(window, seen) /\ m.kind \in Extras => Familiar(window', seen)
  BY <1>4 DEF Familiar
<1> QED BY <1>1, <1>2, <1>4, <1>5, <1>6, <1>7, <1>8, <1>9, <1>10, <1>11, <1>12
LEMMA OpenIsTyped ==
  ASSUME NEW s \in ShapedLists
  PROVE  StillOpen(s) \subseteq Pairs \ {NoCall}
<1>1. DOMAIN s = 1..Len(s) /\ \A i \in DOMAIN s : s[i].calls \subseteq Pairs \ {NoCall}
  BY ShapedListIs DEF Shaped
<1> QED BY <1>1 DEF StillOpen, OpenAt

\* A question of the user.
LEMMA QuestionKeeps ==
  ASSUME CompactionInv, NewQuestion
  PROVE  CompactionInv'
<1> DEFINE m == Plain(born + 1, "user", NextTurn)
<1>1. WindowTyped /\ stage = "idle" /\ StillOpen(window) = {} /\ window \in ShapedLists /\ born + 1 \in Nat
  BY DEF CompactionInv, NewQuestion, WindowLegal, WindowTyped
<1>2. NextTurn \in Int
  BY <1>1, TurnsAreInts DEF NextTurn
<1>3. /\ m \in ShapedMessages /\ m.id = born + 1 /\ m.kind = "user" /\ m.turn = NextTurn /\ m.calls = {}
      /\ m.call = NoCall /\ m.covers = {born + 1} /\ m.short = FALSE
  <2>1. "user" \in MessageKinds
    BY DEF MessageKinds, AsUser
  <2>2. /\ m \in ShapedMessages
        /\ m = [id |-> born + 1, kind |-> "user", turn |-> NextTurn, calls |-> {}, call |-> NoCall,
                covers |-> {born + 1}, short |-> FALSE]
    BY <1>1, <1>2, <2>1, PlainIsShaped
  <2> HIDE DEF m
  <2> QED BY <2>2
<1>4. /\ Joins(m) /\ round' = NextTurn /\ stage' = "prepare" /\ mode' = mode /\ filed' = filed /\ asked' = asked
      /\ job' = job /\ tries' = tries /\ astray' = astray
  BY DEF NewQuestion
<1> HIDE DEF m
<1>5. m.kind \notin Heads
  BY <1>3 DEF Heads
<1>6. /\ window' \in ShapedLists /\ Ids(window') \cup filed' \subseteq 1..born' /\ born' \in Nat
      /\ \A set \in SUBSET (1..born) : set \in SUBSET (1..born')
      /\ astray' \subseteq said' /\ said' \subseteq 1..born'
      /\ CoversKept' /\ AllLegal(window') /\ HeadsFirst(window') /\ StillOpen(window') = Answered(StillOpen(window), m)
      /\ GoalOf(window)'
  BY <1>1, <1>3, <1>4, <1>5, JoiningKeeps
<1>7. WindowTyped'
  BY <1>1, <1>2, <1>4, <1>6 DEF WindowTyped
<1>8. WindowLegal'
  BY <1>1, <1>3, <1>6 DEF WindowLegal, Answered
<1>9. RequestsKnow'
  BY <1>4 DEF RequestsKnow
<1> QED BY <1>6, <1>7, <1>8, <1>9 DEF CompactionInv, GoalKept

\* An answer of the model, and what it calls.
LEMMA SpeakingKeeps ==
  ASSUME CompactionInv, NEW n \in 0..2, ModelSays(n)
  PROVE  CompactionInv'
<1> DEFINE p == Plain(born + 1, "assistant", round)
           called == {<<born + 1, k>> : k \in 1..n}
           m == [p EXCEPT !.calls = called]
<1>1. /\ WindowTyped /\ stage = "model" /\ StillOpen(window) = {} /\ window \in ShapedLists /\ born + 1 \in Nat /\ born + 1 > 0
      /\ round \in Int /\ GoalOf(window)
  BY DEF CompactionInv, ModelSays, WindowLegal, WindowTyped, GoalKept
<1>2. /\ m \in ShapedMessages /\ m.id = born + 1 /\ m.kind = "assistant" /\ m.call = NoCall
      /\ m.calls = called /\ m.covers = {born + 1} /\ m.short = FALSE
  <2>1. /\ p \in ShapedMessages /\ p.id = born + 1 /\ p.kind = "assistant" /\ p.calls = {}
        /\ p.call = NoCall /\ p.covers = {born + 1} /\ p.short = FALSE
    <3>1. "assistant" \in MessageKinds
      BY DEF MessageKinds
    <3>2. /\ p \in ShapedMessages
          /\ p = [id |-> born + 1, kind |-> "assistant", turn |-> round, calls |-> {}, call |-> NoCall,
                  covers |-> {born + 1}, short |-> FALSE]
      BY <1>1, <3>1, PlainIsShaped
    <3> HIDE DEF p
    <3> QED BY <3>2
  <2>2. called \subseteq (Nat \X Nat) /\ NoCall \notin called
    BY <1>1 DEF NoCall
  <2>3. p \in Messages
    BY <2>1 DEF ShapedMessages
  <2> HIDE DEF p, called
  <2>4. /\ m \in Messages /\ m.id = p.id /\ m.kind = p.kind /\ m.call = p.call
        /\ m.calls = called /\ m.covers = p.covers /\ m.short = p.short
    BY <2>2, <2>3 DEF Messages
  <2> HIDE DEF m
  <2>5. Shaped(m)
    BY <2>1, <2>2, <2>4 DEF Shaped, Pairs
  <2> QED BY <2>1, <2>4, <2>5 DEF ShapedMessages
<1>3. /\ Joins(m) /\ round' = round /\ mode' = mode /\ filed' = filed /\ asked' = asked /\ job' = job /\ astray' = astray
      /\ IF n = 0 THEN stage' = "idle" /\ tries' = 0 ELSE stage' = "tools" /\ tries' = tries
  BY DEF ModelSays
<1> HIDE DEF m
<1>4. m.kind \notin Heads
  BY <1>2 DEF Heads
<1>5. /\ window' \in ShapedLists /\ Ids(window') \cup filed' \subseteq 1..born' /\ born' \in Nat
      /\ \A set \in SUBSET (1..born) : set \in SUBSET (1..born')
      /\ astray' \subseteq said' /\ said' \subseteq 1..born'
      /\ CoversKept' /\ AllLegal(window') /\ HeadsFirst(window') /\ StillOpen(window') = Answered(StillOpen(window), m)
      /\ GoalOf(window)'
  BY <1>1, <1>2, <1>3, <1>4, JoiningKeeps
<1>6. WindowTyped'
  BY <1>1, <1>3, <1>5 DEF WindowTyped
<1>7. WindowLegal'
  <2>1. n = 0 => m.calls = {}
    BY <1>2 DEF called
  <2> QED BY <1>1, <1>3, <1>5, <2>1 DEF WindowLegal, Answered
<1>8. RequestsKnow'
  BY <1>3 DEF RequestsKnow
<1> QED BY <1>5, <1>6, <1>7, <1>8 DEF CompactionInv, GoalKept

\* A result of a tool.
LEMMA FinishKeeps ==
  ASSUME CompactionInv, NEW call, Finish(call)
  PROVE  CompactionInv'
<1> DEFINE m == [Plain(born + 1, "result", round) EXCEPT !.call = call]
<1>1. /\ WindowTyped /\ stage = "tools" /\ window \in ShapedLists /\ born + 1 \in Nat /\ round \in Int /\ GoalOf(window)
  BY DEF CompactionInv, Finish, WindowTyped, GoalKept
<1>2. call \in StillOpen(window) /\ call \in Nat \X Nat /\ call # NoCall
  <2>1. Waiting = StillOpen(window)
    BY <1>1, SoundIs, ShapedListIs DEF Waiting
  <2>2. StillOpen(window) \subseteq Pairs \ {NoCall}
    BY <1>1, OpenIsTyped
  <2>3. call \in Waiting
    BY DEF Finish
  <2> QED BY <2>1, <2>2, <2>3 DEF Pairs
<1>3. /\ m \in ShapedMessages /\ m.id = born + 1 /\ m.kind = "result" /\ m.call = call
      /\ m.covers = {born + 1} /\ m.short = FALSE
  <2> DEFINE p == [id |-> born + 1, kind |-> "result", turn |-> round, calls |-> {}, call |-> NoCall,
                   covers |-> {born + 1}, short |-> FALSE]
  <2>p. m = [p EXCEPT !.call = call]
    BY DEF Plain
  <2>1. m = [id |-> born + 1, kind |-> "result", turn |-> round, calls |-> {}, call |-> call, covers |-> {born + 1},
             short |-> FALSE]
    <3> HIDE DEF m
    <3> QED BY <2>p
  <2>2. "result" \in MessageKinds
    BY DEF MessageKinds
  <2> HIDE DEF m
  <2>3. m \in Messages
    BY <1>1, <1>2, <2>1, <2>2 DEF Messages
  <2>4. Shaped(m)
    BY <1>2, <2>1 DEF Shaped
  <2> QED BY <2>1, <2>3, <2>4 DEF ShapedMessages
<1>4. /\ Joins(m) /\ round' = round /\ mode' = mode /\ filed' = filed /\ asked' = asked /\ job' = job /\ astray' = astray
      /\ stage' = stage /\ tries' = tries
  BY DEF Finish
<1> HIDE DEF m
<1>5. m.kind \notin Heads
  BY <1>3 DEF Heads
<1>6. /\ window' \in ShapedLists /\ Ids(window') \cup filed' \subseteq 1..born' /\ born' \in Nat
      /\ \A set \in SUBSET (1..born) : set \in SUBSET (1..born')
      /\ astray' \subseteq said' /\ said' \subseteq 1..born'
      /\ CoversKept' /\ AllLegal(window') /\ HeadsFirst(window')
      /\ GoalOf(window)'
  BY <1>1, <1>2, <1>3, <1>4, <1>5, JoiningKeeps
<1>7. WindowTyped'
  BY <1>1, <1>4, <1>6 DEF WindowTyped
<1>8. WindowLegal' /\ RequestsKnow'
  BY <1>1, <1>4, <1>6 DEF WindowLegal, RequestsKnow
<1> QED BY <1>6, <1>7, <1>8 DEF CompactionInv, GoalKept

\* The result of a subagent, at any time.
LEMMA ArrivalKeeps ==
  ASSUME CompactionInv, Arrives
  PROVE  CompactionInv'
<1> DEFINE m == Plain(born + 1, "subagent", NextTurn)
<1>1. /\ WindowTyped /\ window \in ShapedLists /\ born + 1 \in Nat /\ GoalOf(window) /\ job.seen \subseteq 1..born
      /\ born \in Nat
  BY DEF CompactionInv, Arrives, WindowTyped, GoalKept
<1>2. NextTurn \in Int
  BY <1>1, TurnsAreInts DEF NextTurn
<1>3. /\ m \in ShapedMessages /\ m.id = born + 1 /\ m.kind = "subagent" /\ m.calls = {}
      /\ m.call = NoCall /\ m.covers = {born + 1} /\ m.short = FALSE
  <2>1. "subagent" \in MessageKinds
    BY DEF MessageKinds, AsUser
  <2>2. /\ m \in ShapedMessages
        /\ m = [id |-> born + 1, kind |-> "subagent", turn |-> NextTurn, calls |-> {}, call |-> NoCall,
                covers |-> {born + 1}, short |-> FALSE]
    BY <1>1, <1>2, <2>1, PlainIsShaped
  <2> HIDE DEF m
  <2> QED BY <2>2
<1>4. /\ Joins(m) /\ round' = round /\ stage' = stage /\ mode' = mode /\ filed' = filed /\ asked' = asked
      /\ job' = job /\ tries' = tries /\ astray' = astray
  BY DEF Arrives
<1> HIDE DEF m
<1>5. m.kind \notin Heads /\ m.kind \in Extras
  BY <1>3 DEF Heads, Extras
<1>6. /\ window' \in ShapedLists /\ Ids(window') \cup filed' \subseteq 1..born' /\ born' \in Nat
      /\ \A set \in SUBSET (1..born) : set \in SUBSET (1..born')
      /\ astray' \subseteq said' /\ said' \subseteq 1..born'
      /\ CoversKept' /\ AllLegal(window') /\ HeadsFirst(window') /\ StillOpen(window') = Answered(StillOpen(window), m)
      /\ Within(window, window')
      /\ GoalOf(window)'
      /\ \A seen : Familiar(window, seen) => Familiar(window', seen)
      /\ Ids(window') = Ids(window) \cup {born + 1}
  BY <1>1, <1>3, <1>4, <1>5, JoiningKeeps
<1>7. WindowTyped'
  BY <1>1, <1>4, <1>6 DEF WindowTyped
<1>8. WindowLegal'
  <2>1. Answered(StillOpen(window), m) = StillOpen(window)
    BY <1>1, <1>3, OpenIsTyped DEF Answered
  <2> QED BY <1>4, <1>6, <2>1 DEF WindowLegal, CompactionInv
<1>9. RequestsKnow'
  <2> DEFINE r == Only(window, job.seen)
             t == Only(window', job.seen)
  <2>1. r \in ShapedLists /\ Within(r, window) /\ Ids(r) = Ids(window) \cap job.seen
    BY <1>1, OnlyIs
  <2>2. t \in ShapedLists /\ Within(t, window') /\ Ids(t) = Ids(window') \cap job.seen
    BY <1>6, OnlyIs
  <2> HIDE DEF r, t
  <2>3. Within(r, window')
    BY <1>6, <2>1, WithinTransitive
  <2>4. Ids(t) = Ids(r)
    <3>1. born + 1 \notin job.seen
      BY <1>1
    <3> QED BY <1>6, <2>1, <2>2, <3>1
  <2>5. AllLegal(r) /\ StillOpen(r) = {} => AllLegal(t) /\ StillOpen(t) = {}
    BY <1>6, <2>1, <2>2, <2>3, <2>4, SoundPart
  <2> QED BY <1>4, <1>6, <2>5 DEF RequestsKnow, CompactionInv, r, t
<1> QED BY <1>6, <1>7, <1>8, <1>9 DEF CompactionInv, GoalKept
-----------------------------------------------------------------------------
\* The steps that leave the window as it is: what is kept of it.
LEMMA RestingKeeps ==
  ASSUME CompactionInv, window' = window, born' = born, said' = said, astray' = astray, round' = round,
         filed' = filed \/ File, window # <<>>, stage' # "tools" => StillOpen(window) = {}
  PROVE  /\ window' \in ShapedLists /\ Ids(window') \cup filed' \subseteq 1..born'
         /\ CoversKept' /\ WindowLegal' /\ GoalKept'
<1>1. window \in ShapedLists /\ Ids(window) \cup filed \subseteq 1..born
  BY DEF CompactionInv, WindowTyped
<1>2. filed \subseteq filed' /\ filed' \subseteq filed \cup Ids(window)
  BY DEF File
<1>3. CoversKept'
  BY <1>2 DEF CompactionInv, CoversKept
<1>4. WindowLegal'
  BY DEF CompactionInv, WindowLegal
<1>5. GoalKept'
  BY DEF CompactionInv, GoalKept, GoalOf
<1> QED BY <1>1, <1>2, <1>3, <1>4, <1>5

LEMMA QuietKeeps ==
  ASSUME CompactionInv, Fits \/ NextStep \/ Blocked
  PROVE  CompactionInv'
<1>1. /\ window' = window /\ born' = born /\ said' = said /\ astray' = astray /\ round' = round /\ filed' = filed
      /\ mode' = mode /\ job' = job
      /\ stage' \in {"model", "prepare", "idle"} /\ (tries' = tries \/ tries' = 0)
      /\ asked' = (IF stage' = "model" THEN Ids(window) ELSE asked)
  BY DEF Fits, NextStep, Blocked
<1>2. stage # "idle" /\ WindowTyped /\ window \in ShapedLists
  BY DEF Fits, NextStep, Blocked, CompactionInv, WindowTyped
<1>3. window # <<>>
  BY <1>2 DEF CompactionInv, GoalKept, GoalOf
<1>4. StillOpen(window) = {}
  <2>1. CASE Fits
    BY <1>2, <2>1 DEF Fits, CompactionInv, WindowLegal
  <2>2. CASE Blocked
    BY <1>2, <2>2 DEF Blocked, CompactionInv, WindowLegal
  <2>3. CASE NextStep
    BY <1>2, <2>3, SoundIs, ShapedListIs DEF NextStep, Waiting
  <2> QED BY <2>1, <2>2, <2>3
<1>5. /\ window' \in ShapedLists /\ Ids(window') \cup filed' \subseteq 1..born'
      /\ CoversKept' /\ WindowLegal' /\ GoalKept'
  BY <1>1, <1>3, <1>4, RestingKeeps
<1>6. WindowTyped'
  BY <1>1, <1>2, <1>5 DEF WindowTyped
<1>7. RequestsKnow'
  BY <1>1 DEF RequestsKnow, Familiar, Ids
<1> QED BY <1>5, <1>6, <1>7 DEF CompactionInv

\* What the cause of a compaction says.
LEMMA CauseIs ==
  ASSUME CompactionInv, NEW cause \in Causes
  PROVE  /\ window # <<>> /\ GoalOf(window) /\ StillOpen(window) = {} /\ stage # "summary"
         /\ Seen(cause) \subseteq 1..born /\ Familiar(window, Seen(cause))
         /\ (cause = "provider" <=> stage = "model")
<1>1. WindowTyped /\ window \in ShapedLists /\ Ids(window) \subseteq 1..born /\ asked \subseteq 1..born
  BY DEF CompactionInv, WindowTyped
<1>2. Waiting = StillOpen(window)
  BY <1>1, SoundIs, ShapedListIs DEF Waiting
<1>3. \/ stage = "prepare" /\ cause \in {"soft", "hard"}
      \/ stage = "model" /\ cause = "provider"
      \/ stage = "tools" /\ Waiting = {} /\ cause = "agent"
      \/ stage = "idle" /\ window # <<>> /\ cause = "user"
  BY DEF Causes
<1>4. GoalOf(window)
  BY <1>3 DEF CompactionInv, GoalKept
<1>5. window # <<>>
  BY <1>4 DEF GoalOf
<1>6. StillOpen(window) = {}
  BY <1>2, <1>3 DEF CompactionInv, WindowLegal
<1>7. Familiar(window, Ids(window))
  BY DEF Familiar, Ids
<1>8. Seen(cause) \subseteq 1..born /\ Familiar(window, Seen(cause))
  BY <1>1, <1>3, <1>7 DEF Seen, CompactionInv, RequestsKnow
<1> QED BY <1>3, <1>4, <1>5, <1>6, <1>8

LEMMA BeginningKeeps ==
  ASSUME CompactionInv, NEW cause \in Causes, NEW way, BeginCompaction(cause, way)
  PROVE  CompactionInv'
<1> DEFINE working == Only(window, Seen(cause))
<1>1. WindowTyped /\ window \in ShapedLists
  BY DEF CompactionInv, WindowTyped
<1>2. /\ window # <<>> /\ GoalOf(window) /\ StillOpen(window) = {}
      /\ Seen(cause) \subseteq 1..born /\ Familiar(window, Seen(cause))
  BY CauseIs
<1>3. /\ window' = window /\ born' = born /\ said' = said /\ astray' = astray /\ round' = round /\ File
      /\ mode' = mode /\ stage' = "summary" /\ asked' = asked
      /\ job' = [cause |-> cause, base |-> window, seen |-> Seen(cause), way |-> way]
      /\ Sound(working, FALSE)
      /\ (cause = "provider" => tries < 2) /\ tries' = (IF cause = "provider" THEN tries + 1 ELSE tries)
  BY DEF BeginCompaction, Allowed, Counted, Working
<1>4. working \in ShapedLists
  BY <1>1, OnlyIs
<1> HIDE DEF working
<1>5. AllLegal(working) /\ StillOpen(working) = {}
  BY <1>3, <1>4, SoundIs, ShapedListIs
<1>6. /\ window' \in ShapedLists /\ Ids(window') \cup filed' \subseteq 1..born'
      /\ CoversKept' /\ WindowLegal' /\ GoalKept'
  BY <1>2, <1>3, RestingKeeps
<1>7. job'.seen = Seen(cause) /\ job' = [cause |-> job'.cause, base |-> job'.base, seen |-> job'.seen, way |-> job'.way]
  BY <1>3
<1>8. tries' \in 0..2
  BY <1>1, <1>3 DEF WindowTyped
<1>9. WindowTyped'
  BY <1>1, <1>2, <1>3, <1>6, <1>7, <1>8 DEF WindowTyped
<1>10. RequestsKnow'
  BY <1>2, <1>3, <1>5, <1>7 DEF RequestsKnow, working
<1> QED BY <1>6, <1>9, <1>10 DEF CompactionInv

LEMMA RefusalKeeps ==
  ASSUME CompactionInv, NativeRefused
  PROVE  CompactionInv'
<1>1. WindowTyped /\ window \in ShapedLists
  BY DEF CompactionInv, WindowTyped
<1>2. /\ stage = "summary" /\ job.way = "native"
      /\ window' = window /\ born' = born /\ said' = said /\ astray' = astray /\ round' = round /\ File
      /\ mode' = mode /\ stage' = stage /\ asked' = asked /\ tries' = tries
      /\ job' = [job EXCEPT !.way = "summary", !.base = window]
  BY DEF NativeRefused
<1>3. GoalOf(window) /\ StillOpen(window) = {}
  BY <1>2 DEF CompactionInv, GoalKept, WindowLegal
<1>4. window # <<>>
  BY <1>3 DEF GoalOf
<1>5. /\ window' \in ShapedLists /\ Ids(window') \cup filed' \subseteq 1..born'
      /\ CoversKept' /\ WindowLegal' /\ GoalKept'
  BY <1>2, <1>3, <1>4, RestingKeeps
<1>6. job'.seen = job.seen /\ job' = [cause |-> job'.cause, base |-> job'.base, seen |-> job'.seen, way |-> job'.way]
  <2> DEFINE seen == job.seen
             cause == job.cause
             origin == job.base
             way == job.way
  <2>1. job = [cause |-> cause, base |-> origin, seen |-> seen, way |-> way]
    BY <1>1 DEF WindowTyped
  <2> HIDE DEF seen, cause, origin, way
  <2>2. job' = [cause |-> cause, base |-> window, seen |-> seen, way |-> "summary"]
    BY <1>2, <2>1
  <2>3. job'.seen = seen /\ job' = [cause |-> job'.cause, base |-> job'.base, seen |-> job'.seen, way |-> job'.way]
    BY <2>2
  <2> QED BY <2>3 DEF seen
<1>7. WindowTyped'
  BY <1>1, <1>2, <1>5, <1>6 DEF WindowTyped
<1>8. RequestsKnow'
  BY <1>2, <1>6 DEF RequestsKnow, CompactionInv
<1> QED BY <1>5, <1>7, <1>8 DEF CompactionInv

LEMMA GivingUpKeeps ==
  ASSUME CompactionInv, GiveUp
  PROVE  CompactionInv'
<1>1. /\ WindowTyped /\ window \in ShapedLists /\ born + 1 \in Nat /\ round \in Int
      /\ stage = "summary" /\ StillOpen(window) = {} /\ GoalOf(window)
  BY DEF CompactionInv, WindowTyped, GiveUp, WindowLegal, GoalKept
<1>2. window # <<>>
  BY <1>1 DEF GoalOf
<1>3. /\ job' = NoJob /\ mode' = mode /\ filed' = filed /\ tries' = tries /\ round' = round /\ astray' = astray
      /\ asked' = IF stage' = "model" THEN Ids(window) ELSE asked
  BY DEF GiveUp
<1>4. job'.seen = {} /\ job' = [cause |-> job'.cause, base |-> job'.base, seen |-> job'.seen, way |-> job'.way]
  BY <1>3 DEF NoJob
<1>5. CASE window' = window /\ born' = born /\ said' = said /\ stage' \in {"model", "idle"}
  <2>1. /\ window' \in ShapedLists /\ Ids(window') \cup filed' \subseteq 1..born'
        /\ CoversKept' /\ WindowLegal' /\ GoalKept'
    BY <1>1, <1>2, <1>3, <1>5, RestingKeeps
  <2>2. WindowTyped'
    BY <1>1, <1>3, <1>4, <1>5, <2>1 DEF WindowTyped
  <2>3. RequestsKnow'
    BY <1>3, <1>5 DEF RequestsKnow, Familiar, Ids
  <2> QED BY <2>1, <2>2, <2>3 DEF CompactionInv
<1>6. CASE Joins(Plain(born + 1, "notice", round)) /\ stage' = "prepare"
  <2> DEFINE m == Plain(born + 1, "notice", round)
  <2>1. /\ m \in ShapedMessages
        /\ m = [id |-> born + 1, kind |-> "notice", turn |-> round, calls |-> {}, call |-> NoCall,
                covers |-> {born + 1}, short |-> FALSE]
    <3>1. "notice" \in MessageKinds
      BY DEF MessageKinds, AsUser
    <3> QED BY <1>1, <3>1, PlainIsShaped
  <2>2. Joins(m)
    BY <1>6
  <2> HIDE DEF m
  <2>3. /\ m.id = born + 1 /\ m.kind = "notice" /\ m.calls = {} /\ m.call = NoCall /\ m.covers = {born + 1}
        /\ m.short = FALSE /\ m.kind \notin Heads
    BY <2>1 DEF Heads
  <2>4. /\ window' \in ShapedLists /\ Ids(window') \cup filed' \subseteq 1..born' /\ born' \in Nat
        /\ \A set \in SUBSET (1..born) : set \in SUBSET (1..born')
        /\ astray' \subseteq said' /\ said' \subseteq 1..born'
        /\ CoversKept' /\ AllLegal(window') /\ HeadsFirst(window') /\ StillOpen(window') = Answered(StillOpen(window), m)
        /\ GoalOf(window)'
    BY <1>1, <1>3, <2>1, <2>2, <2>3, JoiningKeeps
  <2>5. WindowTyped'
    BY <1>1, <1>3, <1>4, <1>6, <2>4 DEF WindowTyped
  <2>6. WindowLegal'
    BY <1>1, <2>3, <2>4 DEF WindowLegal, Answered
  <2>7. RequestsKnow'
    BY <1>6 DEF RequestsKnow
  <2> QED BY <2>4, <2>5, <2>6, <2>7 DEF CompactionInv, GoalKept
<1> QED BY <1>5, <1>6 DEF GiveUp
-----------------------------------------------------------------------------
\* What may take the place of the window: `used` new messages, the rest from the window, and
\* what neither stands for is `forgotten`.
Candidate(c, used, forgotten) ==
  /\ c \in ShapedLists
  /\ \A p \in DOMAIN c : c[p].id \in Ids(window) \/ (c[p].id \in (born + 1)..(born + used) /\ c[p].short = FALSE)
  /\ HeadsFirst(c) /\ AllLegal(c) /\ StillOpen(c) = {} /\ GoalOf(c)
  /\ Covers(c) \subseteq Covers(window) /\ forgotten \subseteq Covers(window) /\ Covers(window) \subseteq Covers(c) \cup forgotten

LEMMA ReplacingKeeps ==
  ASSUME CompactionInv, NEW c, NEW used \in Nat, NEW forgotten, Candidate(c, used, forgotten),
         window' = c, File, born' = born + used, mode' = mode, said' = said, round' = round, astray' = astray \cup forgotten,
         tries' \in 0..2, stage' \in {"idle", "prepare", "model", "summary"},
         asked' \subseteq 1..born, job'.seen \subseteq 1..born,
         job' = [cause |-> job'.cause, base |-> job'.base, seen |-> job'.seen, way |-> job'.way],
         stage' = "model" => Familiar(c, asked'),
         stage' = "summary" => Familiar(c, job'.seen) /\ job'.way = "archive"
  PROVE  CompactionInv'
<1>1. /\ window \in ShapedLists /\ Ids(window) \cup filed \subseteq 1..born /\ born \in Nat /\ round \in Int
      /\ astray \subseteq said /\ said \subseteq 1..born /\ CoversKept /\ mode \in Modes
  BY DEF CompactionInv, WindowTyped
<1>2. born' \in Nat /\ \A x \in 1..born : x \in 1..born'
  BY <1>1
<1>3. \A x \in (born + 1)..(born + used) : x \in 1..born'
  BY <1>1
<1>4. Ids(c) \subseteq 1..born'
  BY <1>1, <1>2, <1>3 DEF Ids, Candidate
<1>5. filed' = filed \cup Ids(window)
  BY DEF File
<1>6. Covers(window) \subseteq said \cap filed'
  BY <1>1, <1>5 DEF CoversKept, Covers
<1>7. WindowTyped'
  <2>1. c \in ShapedLists
    BY DEF Candidate
  <2>2. Ids(window') \cup filed' \subseteq 1..born' /\ asked' \subseteq 1..born' /\ job'.seen \subseteq 1..born'
    BY <1>1, <1>2, <1>4, <1>5
  <2>3. astray' \subseteq said' /\ said' \subseteq 1..born'
    BY <1>1, <1>2, <1>6 DEF Candidate
  <2> QED BY <1>1, <1>2, <2>1, <2>2, <2>3 DEF WindowTyped
<1>8. CoversKept'
  <2>1. \A i \in DOMAIN c : c[i].covers \subseteq said \cap filed'
    BY <1>6 DEF Candidate, Covers
  <2>2. \A i \in DOMAIN c : c[i].short => c[i].id \in filed'
    BY <1>5 DEF Candidate
  <2>3. said \subseteq Covers(c) \cup astray'
    BY <1>1 DEF Candidate, CoversKept
  <2> QED BY <2>1, <2>2, <2>3 DEF CoversKept
<1>9. WindowLegal' /\ GoalKept'
  BY DEF Candidate, WindowLegal, GoalKept, GoalOf
<1>10. RequestsKnow'
  BY DEF RequestsKnow
<1> QED BY <1>7, <1>8, <1>9, <1>10 DEF CompactionInv

LEMMA InstallKeeps ==
  ASSUME CompactionInv, NEW c, NEW used \in Nat, NEW cause, NEW seen \in SUBSET (1..born), NEW forgotten, Candidate(c, used, forgotten),
         Install(c, used, cause, seen), mode' = mode, said' = said, round' = round, astray' = astray \cup forgotten,
         tries' \in 0..2, Familiar(c, seen)
  PROVE  CompactionInv'
<1>1. window' = c /\ File /\ born' = born + used /\ asked' = seen /\ Commits(cause, seen)
  BY DEF Install
<1>2. CASE stage' = Onward(cause) /\ job' = NoJob
  <2>1. stage' \in {"idle", "prepare", "model"}
    BY <1>2 DEF Onward
  <2>2. job'.seen = {} /\ job' = [cause |-> job'.cause, base |-> job'.base, seen |-> job'.seen, way |-> job'.way]
    BY <1>2 DEF NoJob
  <2> QED BY <1>1, <2>1, <2>2, ReplacingKeeps
<1>3. CASE stage' = "summary" /\ job' = [cause |-> cause, base |-> <<>>, seen |-> seen, way |-> "archive"]
  <2>1. /\ job'.seen = seen /\ job'.way = "archive"
        /\ job' = [cause |-> job'.cause, base |-> job'.base, seen |-> job'.seen, way |-> job'.way]
    BY <1>3
  <2> QED BY <1>1, <1>3, <2>1, ReplacingKeeps
<1> QED BY <1>1, <1>2, <1>3 DEF Commits

LEMMA CoversAreIds ==
  ASSUME CompactionInv
  PROVE  Covers(window) \subseteq Nat
<1>1. CoversKept /\ said \subseteq 1..born
  BY DEF CompactionInv, WindowTyped
<1>2. 1..born \subseteq Nat /\ said \subseteq 1..born
  BY <1>1
<1>3. \A i \in DOMAIN window : window[i].covers \subseteq Nat
  BY <1>1, <1>2 DEF CoversKept
<1> QED BY <1>3 DEF Covers

\* What a list stands for, in two parts.
LEMMA CoversSplit ==
  ASSUME NEW s \in ShapedLists, NEW ids
  PROVE  /\ Covers(s) = Covers(Only(s, ids)) \cup Covers(Without(s, ids))
<1>1. /\ Within(Only(s, ids), s) /\ Ids(Only(s, ids)) = Ids(s) \cap ids
      /\ Within(Without(s, ids), s) /\ Ids(Without(s, ids)) = Ids(s) \ ids
  BY OnlyIs
<1>2. Covers(Only(s, ids)) \subseteq Covers(s) /\ \A q \in DOMAIN s : s[q].id \in ids => s[q].covers \subseteq Covers(Only(s, ids))
  BY <1>1, CoversWithin DEF Ids
<1>3. /\ Covers(Without(s, ids)) \subseteq Covers(s)
      /\ \A q \in DOMAIN s : s[q].id \notin ids => s[q].covers \subseteq Covers(Without(s, ids))
  BY <1>1, CoversWithin DEF Ids
<1> QED BY <1>2, <1>3 DEF Covers

\* A checkpoint and a part of the window that has the user's latest message.
LEMMA HeadCandidate ==
  ASSUME CompactionInv, NEW g, Latest(window, g), window[g].turn = round,
         NEW used \in Nat, NEW forgotten, NEW m \in ShapedMessages, m.id \in (born + 1)..(born + used), m.kind \in Heads,
         m.short = FALSE, m.covers \subseteq Covers(window),
         NEW t \in ShapedLists, Within(t, window), \A p \in DOMAIN t : t[p].kind \notin Heads, window[g].id \in Ids(t),
         forgotten \subseteq Covers(window), Covers(window) \subseteq m.covers \cup Covers(t) \cup forgotten,
         AllLegal(<<m>> \o t), StillOpen(<<m>> \o t) = {}
  PROVE  Candidate(<<m>> \o t, used, forgotten)
<1> DEFINE c == <<m>> \o t
<1>1. window \in ShapedLists /\ Ids(window) \subseteq 1..born /\ born \in Nat
  BY DEF CompactionInv, WindowTyped
<1>2. m.id \notin Ids(window) /\ Ids(t) \subseteq Ids(window)
  BY <1>1 DEF Within
<1>3. /\ c \in ShapedLists /\ c[1] = m
      /\ \A i \in DOMAIN c : i = 1 \/ (i - 1 \in DOMAIN t /\ c[i] = t[i - 1])
      /\ Ids(c) = {m.id} \cup Ids(t) /\ Covers(c) = m.covers \cup Covers(t)
  BY SMTT(40), <1>2, HeadIs
<1>4. Alike(c, window)
  BY <1>1, <1>2, HeadAlike
<1> HIDE DEF c
<1>5. HeadsFirst(c)
  BY <1>3 DEF HeadsFirst
<1>6. \A p \in DOMAIN c : c[p].id \in Ids(window) \/ (c[p].id \in (born + 1)..(born + used) /\ c[p].short = FALSE)
  BY <1>2, <1>3 DEF Ids
<1>7. \A p \in DOMAIN c : c[p].id \in Ids(window) \/ c[p].kind # "user"
  BY <1>2, <1>3 DEF Ids, Heads
<1>8. GoalOf(c)
  <2>1. window[g].id \in Ids(c)
    BY <1>3
  <2>2. \E p : Latest(c, p) /\ c[p].id = window[g].id /\ c[p].turn = window[g].turn
    BY <1>1, <1>3, <1>4, <1>7, <2>1, LatestAlike
  <2> QED BY <2>2 DEF GoalOf, Latest
<1>9. Covers(t) \subseteq Covers(window)
  BY CoversWithin
<1> QED BY <1>3, <1>5, <1>6, <1>8, <1>9 DEF Candidate, c

\* A checkpoint and the user's latest message alone.
LEMMA HandoffCandidate ==
  ASSUME CompactionInv, NEW g, Latest(window, g), window[g].turn = round,
         NEW used \in Nat, NEW forgotten, NEW id \in (born + 1)..(born + used), NEW turn \in Int, NEW covers \in SUBSET Covers(window),
         NEW s \in ShapedLists, Within(s, window), window[g].id \in Ids(s),
         forgotten \subseteq Covers(window), Covers(window) \subseteq covers \cup window[g].covers \cup forgotten,
         NEW seen, window[g].id \in seen
  PROVE  /\ Candidate(<<Checkpoint(id, "handoff", turn, covers)>> \o Only(s, {window[g].id}), used, forgotten)
         /\ Familiar(<<Checkpoint(id, "handoff", turn, covers)>> \o Only(s, {window[g].id}), seen)
<1> DEFINE m == Checkpoint(id, "handoff", turn, covers)
           t == Only(s, {window[g].id})
           c == <<m>> \o t
<1>1. /\ window \in ShapedLists /\ Ids(window) \subseteq 1..born /\ born \in Nat /\ CoversKept /\ said \subseteq 1..born
  BY DEF CompactionInv, WindowTyped
<1>2. id \in Nat /\ covers \in SUBSET Nat
  <2>1. Covers(window) \subseteq Nat
    BY CoversAreIds
  <2> QED BY <1>1, <2>1
<1>3. /\ m \in ShapedMessages /\ m.id = id /\ m.kind = "handoff" /\ m.covers = covers /\ m.short = FALSE /\ m.calls = {}
  <2>1. "handoff" \in MessageKinds
    BY DEF MessageKinds, AsUser
  <2>2. /\ m \in ShapedMessages
        /\ m = [id |-> id, kind |-> "handoff", turn |-> turn, calls |-> {}, call |-> NoCall, covers |-> covers, short |-> FALSE]
    BY <1>2, <2>1, CheckpointIsShaped
  <2> HIDE DEF m
  <2> QED BY <2>2
<1>4. t \in ShapedLists /\ Within(t, s) /\ Ids(t) = {window[g].id}
  BY OnlyIs
<1>5. Within(t, window)
  BY <1>4, WithinTransitive
<1> HIDE DEF m, t
<1>6. g \in DOMAIN window /\ window[g].kind = "user" /\ Shaped(window[g])
  BY <1>1, ShapedListIs DEF Latest
<1>7. ASSUME NEW p \in DOMAIN t PROVE t[p].id = window[g].id /\ t[p].kind = "user" /\ t[p].calls = {}
  <2>1. t[p].id = window[g].id
    BY <1>4 DEF Ids
  <2>2. Like(t[p], window[g])
    BY <1>5, <1>6, <2>1 DEF Within, Alike
  <2> QED BY <1>6, <2>1, <2>2 DEF Like, Shaped
<1>8. m.id \notin Ids(t)
  BY <1>1, <1>3, <1>5 DEF Within
<1>9. c \in ShapedLists /\ \A i \in DOMAIN c : (i = 1 /\ c[i] = m) \/ (i - 1 \in DOMAIN t /\ c[i] = t[i - 1])
  BY <1>3, <1>4, <1>8, HeadIs
<1>10. AllLegal(c) /\ StillOpen(c) = {}
  <2>1. \A i \in DOMAIN c : c[i].calls = {} /\ c[i].kind # "result"
    BY <1>3, <1>7, <1>9
  <2> HIDE DEF c
  <2> QED BY <1>9, <2>1, QuietIsSound
<1>11. window[g].covers \subseteq Covers(t)
  BY <1>4, <1>5, <1>6, CoversWithin
<1>12. Candidate(c, used, forgotten)
  <2>1. \A p \in DOMAIN t : t[p].kind \notin Heads
    BY <1>7 DEF Heads
  <2>2. Covers(window) \subseteq m.covers \cup Covers(t) \cup forgotten /\ m.kind \in Heads
    BY <1>3, <1>11 DEF Heads
  <2> QED BY <1>3, <1>4, <1>5, <1>10, <2>1, <2>2, HeadCandidate
<1>13. Familiar(c, seen)
  BY <1>3, <1>7, <1>9 DEF Familiar, Extras
<1> QED BY <1>12, <1>13 DEF c, m, t

\* What a request knows has the user's latest message.
LEMMA WorkingIs ==
  ASSUME CompactionInv, NEW seen, Familiar(window, seen), GoalOf(window)
  PROVE  \E g : /\ Latest(window, g) /\ window[g].turn = round /\ window[g].id \in seen
                /\ \A s \in ShapedLists :
                     Within(s, window) /\ Ids(s) = Ids(window) \cap seen => window[g].id \in Ids(s)
                /\ \A s \in ShapedLists :
                     Within(s, window) /\ window[g].id \in Ids(s) =>
                       Goal(s) = window[g].id /\ Goals(s) # {} /\ Newest(Goals(s)) \in DOMAIN s /\ s[Newest(Goals(s))].id = window[g].id
<1>1. window \in ShapedLists
  BY DEF CompactionInv, WindowTyped
<1>2. PICK g : Latest(window, g) /\ window[g].turn = round
  BY DEF GoalOf
<1>3. window[g].id \in seen /\ window[g].id \in Ids(window)
  BY <1>2 DEF Latest, Familiar, Extras, Ids
<1>4. ASSUME NEW s \in ShapedLists, Within(s, window), window[g].id \in Ids(s)
      PROVE  Goal(s) = window[g].id /\ Goals(s) # {} /\ Newest(Goals(s)) \in DOMAIN s /\ s[Newest(Goals(s))].id = window[g].id
  <2>1. Alike(s, window) /\ \A p \in DOMAIN s : s[p].id \in Ids(window) \/ s[p].kind # "user"
    BY <1>4 DEF Within, Ids
  <2>2. PICK p : Latest(s, p) /\ s[p].id = window[g].id /\ s[p].turn = window[g].turn
    BY <1>1, <1>2, <1>4, <2>1, LatestAlike
  <2>3. Goal(s) = s[p].id /\ Goals(s) # {} /\ Newest(Goals(s)) = p
    BY <2>2, GoalIs
  <2> QED BY <2>2, <2>3 DEF Latest
<1>5. \A s \in ShapedLists : Within(s, window) /\ Ids(s) = Ids(window) \cap seen => window[g].id \in Ids(s)
  BY <1>3
<1>6. \A s \in ShapedLists :
        Within(s, window) /\ window[g].id \in Ids(s) =>
          Goal(s) = window[g].id /\ Goals(s) # {} /\ Newest(Goals(s)) \in DOMAIN s /\ s[Newest(Goals(s))].id = window[g].id
  BY <1>4
<1> QED BY <1>2, <1>3, <1>5, <1>6

\* A handoff in place of what a request knows.
LEMMA RewrittenIs ==
  ASSUME CompactionInv, NEW seen, Familiar(window, seen), GoalOf(window), mode # "client",
         NEW s \in ShapedLists, Within(s, window), Ids(s) = Ids(window) \cap seen,
         NEW used \in Nat, NEW id \in (born + 1)..(born + used), NEW candidate
  PROVE  /\ Candidate(Rewritten(s, candidate, id), used, Unseen(window, seen))
         /\ Familiar(Rewritten(s, candidate, id), seen)
<1>1. window \in ShapedLists /\ round \in Int
  BY DEF CompactionInv, WindowTyped
<1>2. PICK g : /\ Latest(window, g) /\ window[g].turn = round /\ window[g].id \in seen
               /\ window[g].id \in Ids(s) /\ Goal(s) = window[g].id
  BY WorkingIs
<1>3. Rewritten(s, candidate, id) = <<Checkpoint(id, "handoff", round, Covers(s))>> \o Only(s, {window[g].id})
  BY <1>2 DEF Rewritten
<1>4. /\ Covers(s) \in SUBSET Covers(window) /\ Unseen(window, seen) \subseteq Covers(window)
      /\ Covers(window) \subseteq Covers(s) \cup window[g].covers \cup Unseen(window, seen)
  <2>1. /\ Covers(window) = Covers(Only(window, seen)) \cup Covers(Without(window, seen))
        /\ Within(Only(window, seen), window) /\ Ids(Only(window, seen)) = Ids(window) \cap seen
    BY <1>1, CoversSplit, OnlyIs
  <2>2. Covers(Only(window, seen)) \subseteq Covers(s)
    <3>1. \A q \in DOMAIN window : window[q].id \in Ids(window) \cap seen => window[q].covers \subseteq Covers(s)
      BY CoversWithin
    <3>2. \A p \in DOMAIN Only(window, seen) : \E q \in DOMAIN window :
             Only(window, seen)[p].id = window[q].id /\ window[q].id \in Ids(window) \cap seen
      BY <2>1 DEF Ids
    <3>3. \A p \in DOMAIN Only(window, seen) : Only(window, seen)[p].covers \subseteq Covers(s)
      BY <2>1, <3>1, <3>2 DEF Within, Alike, Like
    <3> QED BY <3>3 DEF Covers
  <2>3. Covers(s) \subseteq Covers(window)
    BY CoversWithin
  <2> QED BY <2>1, <2>2, <2>3 DEF Unseen
<1> DEFINE next == <<Checkpoint(id, "handoff", round, Covers(s))>> \o Only(s, {window[g].id})
<1>5. Candidate(next, used, Unseen(window, seen)) /\ Familiar(next, seen)
  BY <1>1, <1>2, <1>4, HandoffCandidate
<1> QED BY <1>3, <1>5

\* A checkpoint stands first in a part as well.
LEMMA HeadsStay ==
  ASSUME NEW s \in ShapedLists, NEW t \in ShapedLists, Within(t, s), HeadsFirst(s)
  PROVE  HeadsFirst(t) /\ \A i \in DOMAIN t : t[i].kind \in Heads => t[i].id = s[1].id
<1>1. DOMAIN t = 1..Len(t) /\ Len(t) \in Nat /\ DOMAIN s = 1..Len(s) /\ Len(s) \in Nat
  BY ShapedListIs
<1>2. ASSUME NEW i \in DOMAIN t, t[i].kind \in Heads PROVE i = 1 /\ t[i].id = s[1].id
  <2>1. PICK q \in DOMAIN s : t[i].id = s[q].id
    BY DEF Within, Ids
  <2>2. q = 1
    BY <1>2, <2>1 DEF Within, Alike, Like, HeadsFirst
  <2>3. CASE i # 1
    <3>1. 1 \in DOMAIN t /\ 1 < i
      BY <1>1, <2>3
    <3>2. PICK z \in DOMAIN s : t[1].id = s[z].id
      BY <3>1 DEF Within, Ids
    <3>3. z < 1
      BY <2>1, <2>2, <3>1, <3>2 DEF Within, Alike
    <3> QED BY <1>1, <3>3
  <2> QED BY <2>1, <2>2, <2>3
<1> QED BY <1>2 DEF HeadsFirst

\* Shortening tool results.
LEMMA TrimmingKeeps ==
  ASSUME CompactionInv, NEW cause \in Causes, Trim(cause)
  PROVE  CompactionInv'
<1> DEFINE seen == Seen(cause)
           working == Only(window, seen)
           trimmed == Shorten(working, 1)
           forgotten == Unseen(window, seen)
           c == Rewritten(working, trimmed, born + 1)
<1>1. window \in ShapedLists /\ born \in Nat /\ tries \in 0..2 /\ HeadsFirst(window)
  BY DEF CompactionInv, WindowTyped, WindowLegal
<1>2. seen \in SUBSET (1..born) /\ Familiar(window, seen) /\ GoalOf(window)
  BY CauseIs
<1>3. /\ Install(c, 1, cause, seen) /\ mode' = mode /\ said' = said /\ round' = round /\ astray' = astray \cup forgotten
      /\ Sound(working, FALSE)
      /\ (cause = "provider" => tries < 2) /\ tries' = (IF cause = "provider" THEN tries + 1 ELSE tries)
  BY DEF Trim, Allowed, Counted, Working
<1> HIDE DEF seen
<1>4. working \in ShapedLists /\ Within(working, window) /\ Ids(working) = Ids(window) \cap seen
  BY <1>1, OnlyIs
<1>5. AllLegal(working) /\ StillOpen(working) = {}
  BY <1>3, <1>4, SoundIs, ShapedListIs
<1> HIDE DEF working
<1>6. Candidate(c, 1, forgotten) /\ Familiar(c, seen)
  <2>1. CASE mode # "client"
    <3>1. 1 \in Nat /\ born + 1 \in (born + 1)..(born + 1)
      BY <1>1
    <3> QED BY <1>2, <1>4, <2>1, <3>1, RewrittenIs
  <2>2. CASE mode = "client"
    <3>1. c = trimmed
      BY <2>2 DEF Rewritten
    <3>2. /\ trimmed \in ShapedLists /\ Within(trimmed, working) /\ Ids(trimmed) = Ids(working)
      BY <1>4, ShortenIs
    <3> HIDE DEF trimmed
    <3>3. Within(trimmed, window)
      BY <1>4, <3>2, WithinTransitive
    <3>4. AllLegal(trimmed) /\ StillOpen(trimmed) = {}
      BY <1>1, <1>4, <1>5, <3>2, <3>3, SoundPart
    <3>5. PICK g : Latest(window, g) /\ window[g].turn = round /\ window[g].id \in Ids(trimmed)
      BY <1>2, <1>4, <3>2, <3>3, WorkingIs
    <3>6. GoalOf(trimmed)
      <4>1. Alike(trimmed, window) /\ \A p \in DOMAIN trimmed : trimmed[p].id \in Ids(window) \/ trimmed[p].kind # "user"
        BY <3>3 DEF Within, Ids
      <4>2. \E p : Latest(trimmed, p) /\ trimmed[p].id = window[g].id /\ trimmed[p].turn = window[g].turn
        BY <1>1, <3>2, <3>5, <4>1, LatestAlike
      <4> QED BY <3>5, <4>2 DEF GoalOf, Latest
    <3>7. HeadsFirst(trimmed)
      BY <1>1, <3>2, <3>3, HeadsStay
    <3>8. /\ Covers(trimmed) \subseteq Covers(window) /\ forgotten \subseteq Covers(window)
          /\ Covers(window) \subseteq Covers(trimmed) \cup forgotten
      <4>1. Covers(window) = Covers(working) \cup Covers(Without(window, seen))
        BY <1>1, CoversSplit DEF working
      <4>2. Covers(working) = Covers(trimmed)
        BY <3>2, CoversWithin
      <4> QED BY <4>1, <4>2 DEF Unseen
    <3>9. \A p \in DOMAIN trimmed : trimmed[p].id \in Ids(window) /\ trimmed[p].id \in seen
      BY <1>4, <3>2 DEF Ids
    <3> QED BY <3>1, <3>2, <3>4, <3>6, <3>7, <3>8, <3>9 DEF Candidate, Familiar
  <2> QED BY <2>1, <2>2
<1>7. tries' \in 0..2
  BY <1>1, <1>3
<1> HIDE DEF c, forgotten
<1>8. 1 \in Nat
  OBVIOUS
<1> QED BY <1>2, <1>3, <1>6, <1>7, <1>8, InstallKeeps
LEMMA RebasingKeeps ==
  ASSUME CompactionInv, Rebase
  PROVE  CompactionInv'
<1> DEFINE recalled == Ids(window)
           covers == Covers(Without(window, {Goal(window)}))
<1>1. /\ window \in ShapedLists /\ recalled \subseteq 1..born /\ born \in Nat /\ tries \in 0..2 /\ asked \subseteq 1..born
      /\ job.seen \subseteq 1..born
      /\ job = [cause |-> job.cause, base |-> job.base, seen |-> job.seen, way |-> job.way]
  BY DEF CompactionInv, WindowTyped
<1>2. /\ window' = <<Checkpoint(born + 1, "handoff", 0, covers)>> \o Only(window, {Goal(window)}) /\ File
      /\ born' = born + 1 /\ stage' = "prepare" /\ stage # "idle"
      /\ mode' = mode /\ asked' = asked /\ job' = job /\ tries' = tries /\ round' = round /\ said' = said /\ astray' = astray
  BY DEF Rebase
<1>3. Familiar(window, recalled) /\ GoalOf(window)
  BY <1>2 DEF CompactionInv, GoalKept, Familiar, Ids
<1>4. Within(window, window)
  BY <1>1, WithinItself
<1>5. PICK g : /\ Latest(window, g) /\ window[g].turn = round /\ window[g].id \in recalled
               /\ Goal(window) = window[g].id
  BY <1>1, <1>3, <1>4, WorkingIs
<1>6. g \in DOMAIN window
  BY <1>5 DEF Latest
<1>7. covers \in SUBSET Covers(window) /\ Covers(window) \subseteq covers \cup window[g].covers \cup {}
  <2>1. /\ Covers(window) = Covers(Only(window, {window[g].id})) \cup covers
        /\ Within(Only(window, {window[g].id}), window) /\ Ids(Only(window, {window[g].id})) = Ids(window) \cap {window[g].id}
    BY <1>1, <1>5, CoversSplit, OnlyIs
  <2>2. Covers(Only(window, {window[g].id})) \subseteq window[g].covers
    <3>1. \A p \in DOMAIN Only(window, {window[g].id}) : Only(window, {window[g].id})[p].id = window[g].id
      BY <2>1 DEF Ids
    <3>2. \A p \in DOMAIN Only(window, {window[g].id}) : Only(window, {window[g].id})[p].covers = window[g].covers
      BY <1>6, <2>1, <3>1 DEF Within, Alike, Like
    <3> QED BY <3>2 DEF Covers
  <2> QED BY <2>1, <2>2
<1> HIDE DEF covers
<1> DEFINE c == <<Checkpoint(born + 1, "handoff", 0, covers)>> \o Only(window, {window[g].id})
<1>8. 1 \in Nat /\ born + 1 \in (born + 1)..(born + 1) /\ 0 \in Int /\ {} \subseteq Covers(window)
  BY <1>1
<1>9. Candidate(c, 1, {})
  BY <1>1, <1>4, <1>5, <1>7, <1>8, HandoffCandidate
<1>10. window' = c /\ astray' = astray \cup {} /\ stage' \in {"idle", "prepare", "model", "summary"}
  BY <1>2, <1>5
<1> HIDE DEF c, recalled
<1>11. stage' # "model" /\ stage' # "summary"
  BY <1>2
<1> QED BY <1>1, <1>2, <1>8, <1>9, <1>10, <1>11, ReplacingKeeps

\* A checkpoint in place of the first messages, and the messages after a cut.
LEMMA CutCandidate ==
  ASSUME CompactionInv, NEW g, Latest(window, g), window[g].turn = round, NEW seen, window[g].id \in seen,
         NEW w \in ShapedLists, Within(w, window), Ids(w) = Ids(window) \cap seen, StillOpen(w) = {},
         NEW u \in ShapedLists, Within(u, w), \A k \in DOMAIN w : w[k].kind = "marker" \/ w[k].id \in Ids(u),
         NEW cut \in 1..Len(u),
         NEW recent \in ShapedLists, Within(recent, w), Ids(recent) = Ids(Beyond(u, cut)) \cup {window[g].id},
         NEW used \in Nat, NEW m \in ShapedMessages, m.id \in (born + 1)..(born + used), m.kind \in Heads, m.short = FALSE,
         m.covers \subseteq Covers(window), \A k \in 1..cut : u[k].id = window[g].id \/ u[k].covers \subseteq m.covers,
         AllLegal(<<m>> \o recent),
         NEW forgotten, forgotten \subseteq Covers(window), Covers(window) \subseteq Covers(u) \cup forgotten
  PROVE  Candidate(<<m>> \o recent, used, forgotten) /\ Familiar(<<m>> \o recent, seen)
<1> DEFINE c == <<m>> \o recent
           tail == Beyond(u, cut)
<1>1. /\ window \in ShapedLists /\ HeadsFirst(window) /\ Ids(window) \subseteq 1..born /\ born \in Nat
  BY DEF CompactionInv, WindowTyped, WindowLegal
<1>2. /\ Within(recent, window) /\ Within(u, window)
  BY WithinTransitive
<1>3. DOMAIN u = 1..Len(u) /\ Len(u) \in Nat /\ cut \in 0..Len(u) /\ cut \in Nat
  BY ShapedListIs
<1>4. Ids(tail) = {u[k].id : k \in (cut + 1)..Len(u)}
  BY <1>3, SplitIs
<1>5. g \in DOMAIN window /\ window[g].kind = "user" /\ Shaped(window[g])
  BY <1>1, ShapedListIs DEF Latest
<1> HIDE DEF tail
<1>6. ASSUME NEW p \in DOMAIN recent, recent[p].id = window[g].id PROVE recent[p].kind = "user" /\ recent[p].calls = {}
  <2>1. Like(recent[p], window[g])
    BY <1>2, <1>5, <1>6 DEF Within, Alike
  <2> QED BY <1>5, <2>1 DEF Like, Shaped
<1>7. ASSUME NEW p \in DOMAIN recent PROVE recent[p].kind \notin Heads
  <2>1. recent[p].id \in Ids(tail) \/ recent[p].id = window[g].id
    BY DEF Ids, tail
  <2>2. CASE recent[p].id \in Ids(tail)
    <3>1. PICK k \in (cut + 1)..Len(u) : recent[p].id = u[k].id
      BY <1>4, <2>2
    <3>2. k \in DOMAIN u /\ k # 1
      BY <1>3
    <3>3. u[k].kind \notin Heads
      BY <1>1, <1>2, <3>2, HeadsStay DEF HeadsFirst
    <3>4. Alike(recent, u)
      BY PartsAlike
    <3>5. Like(recent[p], u[k])
      BY <3>1, <3>2, <3>4 DEF Alike
    <3> QED BY <3>3, <3>5 DEF Like
  <2>3. CASE recent[p].id = window[g].id
    BY <1>6, <2>3 DEF Heads
  <2> QED BY <2>1, <2>2, <2>3
<1>8. m.id \notin Ids(w) /\ m.id \notin Ids(recent) /\ m.calls = {}
  <2>1. m.id \notin Ids(window)
    BY <1>1
  <2>2. Shaped(m) /\ m.kind # "assistant"
    BY DEF ShapedMessages, Heads
  <2> QED BY <1>2, <2>1, <2>2 DEF Within, Shaped
<1>9. /\ c \in ShapedLists /\ Ids(c) = {m.id} \cup Ids(recent)
      /\ \A i \in DOMAIN c : (i = 1 /\ c[i] = m) \/ (i - 1 \in DOMAIN recent /\ c[i] = recent[i - 1])
  BY <1>8, HeadIs
<1>10. Alike(c, w)
  BY <1>8, HeadAlike
<1> HIDE DEF c
<1>11. StillOpen(c) = {}
  <2>1. ASSUME NEW k \in DOMAIN w, w[k].call # NoCall PROVE w[k].id \in Ids(u)
    <3>1. w[k].kind = "result"
      BY <2>1, ShapedListIs DEF Shaped
    <3> QED BY <3>1
  <2>2. Ids(Beyond(u, cut)) \subseteq Ids(c)
    BY <1>9
  <2>3. ASSUME NEW p \in DOMAIN c, c[p].calls # {} PROVE c[p].id \in Ids(Beyond(u, cut))
    <3>1. p - 1 \in DOMAIN recent /\ c[p] = recent[p - 1] /\ c[p].id \in Ids(recent)
      BY <1>8, <1>9, <2>3 DEF Ids
    <3> QED BY <1>6, <2>3, <3>1
  <2> QED BY <1>3, <1>9, <1>10, <2>1, <2>2, <2>3, EndIsClosed
<1>12. Covers(window) \subseteq m.covers \cup Covers(recent) \cup forgotten
  <2>1. ASSUME NEW k \in DOMAIN u PROVE u[k].covers \subseteq m.covers \cup Covers(recent)
    <3>0. Alike(recent, u)
      BY PartsAlike
    <3>1. k \in 1..cut \/ k \in (cut + 1)..Len(u)
      BY <1>3
    <3>2. u[k].id \in Ids(recent) => u[k].covers \subseteq Covers(recent)
      BY <3>0 DEF Ids, Alike, Like, Covers
    <3>3. CASE k \in 1..cut
      BY <3>2, <3>3
    <3>4. CASE k \in (cut + 1)..Len(u)
      <4>1. u[k].id \in Ids(tail)
        BY <1>4, <3>4
      <4> QED BY <3>2, <4>1 DEF tail
    <3> QED BY <3>1, <3>3, <3>4
  <2>2. Covers(u) \subseteq m.covers \cup Covers(recent)
    BY <2>1 DEF Covers
  <2> QED BY <2>2
<1>13. Candidate(c, used, forgotten)
  <2>1. window[g].id \in Ids(recent)
    OBVIOUS
  <2>2. AllLegal(c)
    BY DEF c
  <2> QED BY <1>2, <1>7, <1>11, <1>12, <2>1, <2>2, HeadCandidate DEF c
<1>14. Familiar(c, seen)
  <2>1. m.kind \in Extras
    BY DEF Heads, Extras
  <2>2. \A p \in DOMAIN recent : recent[p].id \in Ids(w)
    BY DEF Within, Ids
  <2> QED BY <1>9, <2>1, <2>2 DEF Familiar
<1> QED BY <1>13, <1>14 DEF c

\* The working copy a summary is made from.
LEMMA WorkingCovers ==
  ASSUME NEW s \in ShapedLists, NEW seen, NEW w \in ShapedLists, Within(w, s), Ids(w) = Ids(s) \cap seen
  PROVE  Covers(s) = Covers(w) \cup Unseen(s, seen)
<1> DEFINE o == Only(s, seen)
<1>1. /\ Covers(s) = Covers(o) \cup Covers(Without(s, seen))
      /\ o \in ShapedLists /\ Within(o, s) /\ Ids(o) = Ids(s) \cap seen
  BY CoversSplit, OnlyIs
<1> HIDE DEF o
<1>2. Alike(w, o) /\ Alike(o, w)
  BY <1>1, PartsAlike
<1>3. Within(w, o) /\ Ids(o) \subseteq Ids(w)
  BY <1>1, <1>2 DEF Within
<1>4. Covers(o) = Covers(w)
  BY <1>3, CoversWithin
<1> QED BY <1>1, <1>4 DEF Unseen

LEMMA RecentIs ==
  ASSUME NEW w \in ShapedLists, NEW u \in ShapedLists, Within(u, w), u = Unmarked(w), NEW cut \in DOMAIN u,
         Goal(w) \in Ids(u)
  PROVE  /\ Recent(w, cut) \in ShapedLists /\ Within(Recent(w, cut), w)
         /\ Ids(Recent(w, cut)) = Ids(Beyond(u, cut)) \cup {Goal(w)}
<1> DEFINE head == Until(u, cut)
           tail == Beyond(u, cut)
           goal == Only(w, {Goal(w)})
<1>1. DOMAIN u = 1..Len(u) /\ Len(u) \in Nat /\ cut \in 0..Len(u) /\ cut \in Nat
  BY ShapedListIs
<1>2. /\ head \in ShapedLists /\ Ids(head) = {u[k].id : k \in 1..cut}
      /\ tail \in ShapedLists /\ Within(tail, u) /\ Ids(tail) = {u[k].id : k \in (cut + 1)..Len(u)}
  BY <1>1, SplitIs
<1>3. goal \in ShapedLists /\ Within(goal, w) /\ Ids(goal) = Ids(w) \cap {Goal(w)} /\ Ids(u) \subseteq Ids(w)
  BY OnlyIs DEF Within
<1>4. Ids(goal) = {Goal(w)}
  BY <1>3
<1>5. Recent(w, cut) = IF Goal(w) \in Ids(head) THEN goal \o tail ELSE tail
  BY DEF Recent
<1> HIDE DEF head, tail, goal
<1>6. Within(tail, w)
  BY <1>2, WithinTransitive
<1>7. CASE Goal(w) \in Ids(head)
  <2>1. ASSUME NEW i \in DOMAIN w, NEW j \in DOMAIN w, w[i].id \in Ids(goal), w[j].id \in Ids(tail) PROVE i < j
    <3>1. PICK k \in 1..cut : u[k].id = w[i].id
      BY <1>2, <1>4, <1>7, <2>1
    <3>2. PICK l \in (cut + 1)..Len(u) : u[l].id = w[j].id
      BY <1>2, <2>1
    <3>3. k \in DOMAIN u /\ l \in DOMAIN u /\ k < l
      BY <1>1
    <3> QED BY <3>1, <3>2, <3>3 DEF Within, Alike
  <2>2. goal \o tail \in ShapedLists /\ Within(goal \o tail, w) /\ Ids(goal \o tail) = Ids(goal) \cup Ids(tail)
    BY <1>2, <1>3, <1>6, <2>1, PartsJoin
  <2> QED BY <1>4, <1>5, <1>7, <2>2 DEF tail
<1>8. CASE Goal(w) \notin Ids(head)
  <2>1. PICK k \in DOMAIN u : u[k].id = Goal(w)
    BY DEF Ids
  <2>2. k \in (cut + 1)..Len(u)
    BY <1>1, <1>2, <1>8, <2>1
  <2>3. Goal(w) \in Ids(tail)
    BY <1>2, <2>1, <2>2
  <2> QED BY <1>2, <1>5, <1>6, <1>8, <2>3 DEF tail
<1> QED BY <1>7, <1>8

\* The summary of what comes before a cut.
LEMMA SummarizingKeeps ==
  ASSUME CompactionInv, NEW cut, Summarized(cut)
  PROVE  CompactionInv'
<1> DEFINE seen == job.seen
           recalled == Only(window, seen)
           w == Shorten(recalled, 1)
           u == Unmarked(w)
           older == Older(w, cut)
           recent == Recent(w, cut)
           turn == IF recent = <<>> THEN round ELSE Oldest(TurnsIn(recent)) - 1
           m == Checkpoint(born + 1, "summary", turn, Covers(older))
           c == <<m>> \o recent
           next == Rewritten(w, c, born + 2)
           forgotten == Unseen(window, seen) \cup (IF mode = "client" THEN MarkedCovers(w) ELSE {})
<1>1. /\ window \in ShapedLists /\ born \in Nat /\ round \in Int /\ tries \in 0..2 /\ seen \in SUBSET (1..born)
      /\ CoversKept /\ said \subseteq 1..born
  BY DEF CompactionInv, WindowTyped
<1>2. /\ stage = "summary" /\ job.way = "summary" /\ job.base = window
      /\ cut \in DOMAIN u /\ Sound(next, TRUE) /\ Install(next, 2, job.cause, seen)
      /\ astray' = astray \cup Unseen(window, seen) \cup (IF mode = "client" THEN MarkedCovers(w) ELSE {})
      /\ mode' = mode /\ tries' = tries /\ round' = round /\ said' = said
  BY DEF Summarized, Fresh, Cuts
<1> HIDE DEF seen
<1>3. Familiar(window, seen) /\ GoalOf(window) /\ AllLegal(recalled) /\ StillOpen(recalled) = {}
  BY <1>2 DEF CompactionInv, RequestsKnow, GoalKept, seen
<1>4. recalled \in ShapedLists /\ Within(recalled, window) /\ Ids(recalled) = Ids(window) \cap seen
  BY <1>1, OnlyIs
<1> HIDE DEF recalled
<1>5. w \in ShapedLists /\ Within(w, recalled) /\ Ids(w) = Ids(recalled)
  BY <1>4, ShortenIs
<1> HIDE DEF w
<1>6. Within(w, window) /\ Ids(w) = Ids(window) \cap seen
  BY <1>4, <1>5, WithinTransitive
<1>7. AllLegal(w) /\ StillOpen(w) = {}
  BY <1>1, <1>3, <1>4, <1>5, <1>6, SoundPart
<1>8. /\ u \in ShapedLists /\ Within(u, w)
      /\ Ids(u) = {w[i].id : i \in {j \in DOMAIN w : w[j].kind # "marker"}}
  BY <1>5, UnmarkedIs
<1>u. u = Unmarked(w)
  OBVIOUS
<1> HIDE DEF u
<1>9. PICK g : /\ Latest(window, g) /\ window[g].turn = round /\ window[g].id \in seen
               /\ window[g].id \in Ids(w) /\ Goal(w) = window[g].id
  BY <1>3, <1>5, <1>6, WorkingIs
<1>10. Goal(w) \in Ids(u)
  <2>1. PICK p \in DOMAIN w : w[p].id = window[g].id
    BY <1>9 DEF Ids
  <2>2. w[p].kind = "user"
    BY <1>6, <1>9, <2>1 DEF Within, Alike, Like, Latest
  <2> QED BY <1>8, <1>9, <2>1, <2>2
<1>11. /\ recent \in ShapedLists /\ Within(recent, w)
       /\ Ids(recent) = Ids(Beyond(u, cut)) \cup {window[g].id}
  BY <1>2, <1>5, <1>8, <1>9, <1>10, <1>u, RecentIs
<1>12. turn \in Int
  BY <1>1, <1>11, TurnsAreInts
<1> HIDE DEF recent, turn
<1>13. cut \in 1..Len(u) /\ cut \in 0..Len(u) /\ DOMAIN u = 1..Len(u)
  BY <1>2, <1>8, ShapedListIs
<1>14. /\ Until(u, cut) \in ShapedLists /\ Within(Until(u, cut), u) /\ Ids(Until(u, cut)) = {u[k].id : k \in 1..cut}
  BY <1>8, <1>13, SplitIs
<1>15. /\ older \in ShapedLists /\ Within(older, Until(u, cut)) /\ Ids(older) = Ids(Until(u, cut)) \ {window[g].id}
  BY <1>9, <1>14, <1>u, OnlyIs DEF Older
<1> HIDE DEF older
<1>16. Within(older, u) /\ Within(older, w) /\ Within(older, window)
  <2>1. Within(older, u)
    BY <1>14, <1>15, WithinTransitive
  <2>2. Within(older, w)
    BY <1>8, <2>1, WithinTransitive
  <2> QED BY <1>6, <2>1, <2>2, WithinTransitive
<1>17. Covers(older) \subseteq Covers(window) /\ Covers(older) \in SUBSET Nat
  <2>1. Covers(older) \subseteq Covers(window)
    BY <1>16, CoversWithin
  <2> QED BY <2>1, CoversAreIds
<1>18. /\ m \in ShapedMessages /\ m.id = born + 1 /\ m.kind = "summary" /\ m.covers = Covers(older) /\ m.short = FALSE
  <2>1. "summary" \in MessageKinds /\ born + 1 \in Nat
    BY <1>1 DEF MessageKinds, AsUser
  <2>2. /\ m \in ShapedMessages
        /\ m = [id |-> born + 1, kind |-> "summary", turn |-> turn, calls |-> {}, call |-> NoCall,
                covers |-> Covers(older), short |-> FALSE]
    BY <1>12, <1>17, <2>1, CheckpointIsShaped
  <2> HIDE DEF m
  <2> QED BY <2>2
<1> HIDE DEF m
<1>19. 2 \in Nat /\ born + 1 \in (born + 1)..(born + 2) /\ born + 2 \in (born + 1)..(born + 2)
  BY <1>1
<1>20. Candidate(next, 2, forgotten) /\ Familiar(next, seen)
  <2>1. CASE mode # "client"
    <3>1. forgotten = Unseen(window, seen)
      BY <2>1
    <3>2. Candidate(Rewritten(w, c, born + 2), 2, Unseen(window, seen)) /\ Familiar(Rewritten(w, c, born + 2), seen)
      BY <1>3, <1>5, <1>6, <1>19, <2>1, RewrittenIs
    <3> QED BY <3>1, <3>2
  <2>2. CASE mode = "client"
    <3>1. next = c /\ forgotten = Unseen(window, seen) \cup MarkedCovers(w)
      BY <2>2 DEF Rewritten
    <3>2. AllLegal(c)
      <4>1. m.id \notin Ids(recent)
        <5>1. Ids(recent) \subseteq 1..born
          BY <1>1, <1>6, <1>11 DEF Within
        <5> QED BY <1>1, <1>18, <5>1
      <4>2. c \in Seq(ShapedMessages)
        BY <1>11, <1>18, <4>1, HeadIs, ShapedListIs
      <4> HIDE DEF c
      <4> QED BY <1>2, <3>1, <4>2, SoundIs
    <3>3. \A k \in DOMAIN w : w[k].kind = "marker" \/ w[k].id \in Ids(u)
      BY <1>8
    <3>4. ASSUME NEW k \in 1..cut PROVE u[k].id = window[g].id \/ u[k].covers \subseteq m.covers
      <4>1. k \in DOMAIN u
        BY <1>13
      <4>2. u[k].id # window[g].id => u[k].id \in Ids(older)
        BY <1>14, <1>15
      <4> QED BY <1>16, <1>18, <4>1, <4>2, CoversWithin
    <3>5. Covers(window) = Covers(w) \cup Unseen(window, seen)
      BY <1>1, <1>5, <1>6, WorkingCovers
    <3>6. Covers(w) \subseteq Covers(u) \cup MarkedCovers(w) /\ MarkedCovers(w) \subseteq Covers(w)
      <4>1. \A q \in DOMAIN w : w[q].id \in Ids(u) => w[q].covers \subseteq Covers(u)
        BY <1>8, CoversWithin
      <4>2. \A q \in DOMAIN w : w[q].kind = "marker" => w[q].covers \subseteq MarkedCovers(w)
        BY DEF MarkedCovers
      <4>3. \A q \in DOMAIN w : w[q].covers \subseteq Covers(u) \cup MarkedCovers(w)
        BY <3>3, <4>1, <4>2
      <4> QED BY <4>3 DEF Covers, MarkedCovers
    <3> DEFINE taken == Unseen(window, seen) \cup MarkedCovers(w)
    <3>7. taken \subseteq Covers(window) /\ Covers(window) \subseteq Covers(u) \cup taken
      BY <3>5, <3>6
    <3> HIDE DEF taken
    <3>8. m.kind \in Heads /\ m.id \in (born + 1)..(born + 2) /\ m.covers \subseteq Covers(window)
      BY <1>17, <1>18, <1>19 DEF Heads
    <3>9. Candidate(<<m>> \o recent, 2, taken) /\ Familiar(<<m>> \o recent, seen)
      BY <1>5, <1>6, <1>7, <1>8, <1>9, <1>11, <1>13, <1>18, <1>19, <3>2, <3>3, <3>4, <3>7, <3>8, CutCandidate, ZenonT(40)
    <3> QED BY <3>1, <3>9 DEF taken
  <2> QED BY <2>1, <2>2
<1>21. astray' = astray \cup forgotten
  BY <1>2
<1> HIDE DEF next, forgotten
<1> QED BY <1>1, <1>2, <1>19, <1>20, <1>21, InstallKeeps

\* The group of a position begins no later than it.
LEMMA GroupIs ==
  ASSUME NEW s \in ShapedLists, NEW i \in DOMAIN s
  PROVE  GroupOf(s, i) \in 1..i
<1> DEFINE starts == GroupStarts(s)
           before == {x \in starts : x <= i}
<1>1. DOMAIN s = 1..Len(s) /\ Len(s) \in Nat
  BY ShapedListIs
<1>2. starts \subseteq DOMAIN s /\ (1 \in DOMAIN s => 1 \in starts)
  BY DEF GroupStarts
<1> HIDE DEF starts
<1>3. 1 \in before /\ before \in SUBSET (1..i) /\ before \in SUBSET (0..i) /\ i \in Nat
  BY <1>1, <1>2
<1> HIDE DEF before
<1>4. before # {}
  BY <1>3
<1>5. \E n \in before : \A m \in before : m <= n
  BY <1>3, <1>4, NatGreatest
<1>6. GroupOf(s, i) = Newest(before)
  BY DEF GroupOf, before, starts
<1>7. Newest(before) \in before
  BY <1>4, <1>5 DEF Newest
<1> QED BY <1>3, <1>6, <1>7

\* The model service's own checkpoint.
LEMMA NativeKeeps ==
  ASSUME CompactionInv, NativeDone
  PROVE  CompactionInv'
<1> DEFINE seen == job.seen
           w == Only(window, seen)
           cut == GroupOf(w, Newest(Goals(w))) - 1
           earlier == Until(w, cut)
           recent == Beyond(w, cut)
           m == Checkpoint(born + 1, "native", round, Covers(earlier))
           c == <<m>> \o recent
           forgotten == Unseen(window, seen)
<1>1. /\ window \in ShapedLists /\ born \in Nat /\ round \in Int /\ tries \in 0..2 /\ seen \in SUBSET (1..born)
  BY DEF CompactionInv, WindowTyped
<1>2. stage = "summary" /\ job.way = "native" /\ job.base = window
  BY DEF NativeDone, Fresh
<1>3. Familiar(window, seen) /\ GoalOf(window) /\ AllLegal(w) /\ StillOpen(w) = {}
  BY <1>2 DEF CompactionInv, RequestsKnow, GoalKept
<1>4. w \in ShapedLists /\ Within(w, window) /\ Ids(w) = Ids(window) \cap seen
  BY <1>1, OnlyIs
<1>w. w = Only(job.base, job.seen)
  BY <1>2
<1>s. seen = job.seen
  OBVIOUS
<1> HIDE DEF w, seen
<1>5. PICK g : /\ Latest(window, g) /\ window[g].turn = round /\ window[g].id \in seen
               /\ window[g].id \in Ids(w) /\ Goals(w) # {} /\ Newest(Goals(w)) \in DOMAIN w
               /\ w[Newest(Goals(w))].id = window[g].id
  BY <1>3, <1>4, WorkingIs
<1>6. /\ earlier # <<>> /\ Sound(c, TRUE) /\ Install(c, 1, job.cause, seen) /\ astray' = astray \cup forgotten
      /\ mode' = mode /\ tries' = tries /\ round' = round /\ said' = said
  BY <1>2, <1>5, <1>w, <1>s DEF NativeDone
<1> DEFINE last == Newest(Goals(w))
<1>7. cut + 1 \in 1..last /\ cut \in Int
  BY <1>4, <1>5, GroupIs
<1> HIDE DEF cut
<1>8. DOMAIN w = 1..Len(w) /\ Len(w) \in Nat /\ w \in Seq(ShapedMessages)
  BY <1>4, ShapedListIs
<1>9. cut \in 0..Len(w) /\ cut # 0 /\ last \in (cut + 1)..Len(w)
  <2>1. cut = 0 => earlier = <<>>
    BY <1>8 DEF Until
  <2> QED BY <1>5, <1>6, <1>7, <1>8, <2>1
<1>10. /\ earlier \in ShapedLists /\ Within(earlier, w) /\ Ids(earlier) = {w[k].id : k \in 1..cut}
       /\ recent \in ShapedLists /\ Within(recent, w) /\ Ids(recent) = {w[k].id : k \in (cut + 1)..Len(w)}
  BY <1>4, <1>9, SplitIs
<1>11. recent = Beyond(w, cut) /\ Ids(recent) = Ids(Beyond(w, cut)) \cup {window[g].id}
  BY <1>5, <1>9, <1>10
<1> HIDE DEF earlier, recent
<1>12. Within(earlier, window) /\ Within(recent, window)
  BY <1>4, <1>10, WithinTransitive
<1>13. Covers(earlier) \subseteq Covers(window) /\ Covers(earlier) \in SUBSET Nat
  <2>1. Covers(earlier) \subseteq Covers(window)
    BY <1>12, CoversWithin
  <2> QED BY <2>1, CoversAreIds
<1>14. /\ m \in ShapedMessages /\ m.id = born + 1 /\ m.kind = "native" /\ m.covers = Covers(earlier) /\ m.short = FALSE
  <2>1. "native" \in MessageKinds /\ born + 1 \in Nat
    BY <1>1 DEF MessageKinds
  <2>2. /\ m \in ShapedMessages
        /\ m = [id |-> born + 1, kind |-> "native", turn |-> round, calls |-> {}, call |-> NoCall,
                covers |-> Covers(earlier), short |-> FALSE]
    BY <1>1, <1>13, <2>1, CheckpointIsShaped
  <2> HIDE DEF m
  <2> QED BY <2>2
<1> HIDE DEF m
<1>15. m.id \notin Ids(recent)
  <2>1. Ids(window) \subseteq 1..born
    BY DEF CompactionInv, WindowTyped
  <2> QED BY <1>1, <1>12, <1>14, <2>1 DEF Within
<1>16. AllLegal(c)
  <2>1. c \in Seq(ShapedMessages)
    BY <1>10, <1>14, <1>15, HeadIs, ShapedListIs
  <2> HIDE DEF c
  <2> QED BY <1>6, <2>1, SoundIs
<1>17. \A k \in 1..cut : w[k].id = window[g].id \/ w[k].covers \subseteq m.covers
  <2>1. \A k \in 1..cut : k \in DOMAIN w /\ w[k].id \in Ids(earlier)
    BY <1>8, <1>9, <1>10
  <2> QED BY <1>10, <1>14, <2>1, CoversWithin
<1>18. Within(w, w) /\ \A k \in DOMAIN w : w[k].kind = "marker" \/ w[k].id \in Ids(w)
  BY <1>4, WithinItself DEF Ids
<1>19. Covers(window) = Covers(w) \cup forgotten
  BY <1>1, <1>4, WorkingCovers
<1> HIDE DEF forgotten
<1>20. /\ 1 \in Nat /\ m.id \in (born + 1)..(born + 1) /\ m.kind \in Heads /\ m.covers \subseteq Covers(window)
       /\ cut \in 1..Len(w) /\ forgotten \subseteq Covers(window) /\ Covers(window) \subseteq Covers(w) \cup forgotten
  <2>1. cut \in 1..Len(w)
    BY <1>8, <1>9
  <2>2. forgotten \subseteq Covers(window) /\ Covers(window) \subseteq Covers(w) \cup forgotten
    BY <1>19
  <2>3. m.id \in (born + 1)..(born + 1)
    BY <1>1, <1>14
  <2> QED BY <1>13, <1>14, <2>1, <2>2, <2>3 DEF Heads
<1>21. Candidate(<<m>> \o recent, 1, forgotten) /\ Familiar(<<m>> \o recent, seen)
  BY <1>3, <1>4, <1>5, <1>10, <1>11, <1>14, <1>16, <1>17, <1>18, <1>20, CutCandidate
<1> QED BY <1>1, <1>6, <1>20, <1>21, InstallKeeps
-----------------------------------------------------------------------------
\* What is gone is in the run of a marker.
LEMMA RunCovers ==
  ASSUME NEW taken \in SUBSET (Nat \ {0}), NEW i \in taken
  PROVE  \E b \in RunStarts(taken) : b <= i /\ b..i \subseteq taken
<1> DEFINE begins == {b \in 1..i : b..i \subseteq taken}
<1>1. i \in begins /\ begins \in SUBSET Nat
  <2>1. i..i = {i} /\ i \in 1..i
    OBVIOUS
  <2> QED BY <2>1
<1>2. PICK b \in begins : \A x \in begins : b <= x
  <2> HIDE DEF begins
  <2>1. begins # {}
    BY <1>1
  <2> QED BY <1>1, <2>1, NatLeast
<1>3. b \in 1..i /\ b..i \subseteq taken /\ b \in taken
  <2>1. b \in 1..i /\ b..i \subseteq taken
    OBVIOUS
  <2>2. b \in b..i
    BY <2>1
  <2> QED BY <2>1, <2>2
<1>4. ASSUME b - 1 \in taken PROVE FALSE
  <2>1. b - 1 \in 1..i /\ \A x \in (b - 1)..i : x = b - 1 \/ x \in b..i
    BY <1>3, <1>4
  <2>2. b - 1 \in begins
    BY <1>3, <1>4, <2>1
  <2>3. b <= b - 1
    BY <1>2, <2>2
  <2> QED BY <1>3, <2>3
<1> QED BY <1>3, <1>4 DEF RunStarts

\* A list that shares messages with another one shares them with its parts.
LEMMA AlikePart ==
  ASSUME NEW s, NEW t, NEW r, Alike(t, s), Within(r, s)
  PROVE  Alike(t, r)
<1>1. \A q \in DOMAIN r : \E k \in DOMAIN s : r[q].id = s[k].id
  BY DEF Within, Ids
<1>2. ASSUME NEW p \in DOMAIN t, NEW q \in DOMAIN r, t[p].id = r[q].id PROVE Like(t[p], r[q])
  <2>1. PICK k \in DOMAIN s : r[q].id = s[k].id
    BY <1>1
  <2>2. Like(t[p], s[k]) /\ Like(r[q], s[k])
    BY <1>2, <2>1 DEF Within, Alike
  <2> QED BY <2>2 DEF Like
<1>3. ASSUME NEW p \in DOMAIN t, NEW v \in DOMAIN t, NEW q \in DOMAIN r, NEW z \in DOMAIN r,
             t[p].id = r[q].id, t[v].id = r[z].id
      PROVE  p < v <=> q < z
  <2>1. PICK k \in DOMAIN s : r[q].id = s[k].id
    BY <1>1
  <2>2. PICK l \in DOMAIN s : r[z].id = s[l].id
    BY <1>1
  <2>3. p < v <=> k < l
    BY <1>3, <2>1, <2>2 DEF Alike
  <2>4. q < z <=> k < l
    BY <2>1, <2>2 DEF Within, Alike
  <2> QED BY <2>3, <2>4
<1> QED BY <1>2, <1>3 DEF Alike

\* The number of a marker.
LEMMA RanksAre ==
  ASSUME NEW S, S \subseteq Nat, IsFiniteSet(S)
  PROVE  /\ Cardinality(S) \in Nat
         /\ \A i \in S : Cardinality({j \in S : j <= i}) \in 1..Cardinality(S)
         /\ \A i, k \in S : Cardinality({j \in S : j <= i}) = Cardinality({j \in S : j <= k}) => i = k
<1> DEFINE rank(i) == Cardinality({j \in S : j <= i})
           N == Cardinality(S)
           order == InOrder(S)
<1>1. /\ N \in Nat /\ \A i \in 1..N : rank(order[i]) = i
      /\ \A n \in S : \E i \in 1..N : order[i] = n
  BY InOrderRanks
<1> HIDE DEF rank, N, order
<1>2. \A i \in S : \E x \in 1..N : order[x] = i /\ rank(i) = x
  BY <1>1
<1>3. \A i \in S : rank(i) \in 1..N
  BY <1>2
<1>4. \A i, k \in S : rank(i) = rank(k) => i = k
  BY <1>2
<1> QED BY <1>1, <1>3, <1>4 DEF rank, N

\* The window with markers for what is gone.
MarkedBy(c, order, taken, used) ==
  /\ order \in [DOMAIN c -> DOMAIN window]
  /\ \A p, q \in DOMAIN c : p < q => order[p] < order[q]
  /\ \A i \in DOMAIN window : i \notin taken => \E k \in DOMAIN c : order[k] = i
  /\ \A b \in RunStarts(taken) : \E k \in DOMAIN c : order[k] = b
  /\ \A k \in DOMAIN c : c[k] \in ShapedMessages
  /\ \A k \in DOMAIN c : order[k] \notin taken => Like(c[k], window[order[k]])
  /\ \A k \in DOMAIN c : order[k] \in taken =>
       /\ order[k] \in RunStarts(taken)
       /\ c[k].kind = "marker" /\ c[k].short = FALSE /\ c[k].id \in (born + 1)..(born + used)
       /\ \A q \in DOMAIN c : order[q] \in taken /\ c[q].id = c[k].id => q = k
       /\ c[k].covers = UNION {window[j].covers : j \in {i \in taken : i >= order[k] /\ order[k]..i \subseteq taken}}

LEMMA MarkersAre ==
  ASSUME CompactionInv, NEW w, NEW taken \in SUBSET (DOMAIN window)
  PROVE  /\ Cardinality(RunStarts(taken)) \in Nat
         /\ CutToMarkers(w, taken) \in Seq(ShapedMessages)
         /\ \E order : MarkedBy(CutToMarkers(w, taken), order, taken, Cardinality(RunStarts(taken)))
<1> DEFINE places == (DOMAIN window \ taken) \cup RunStarts(taken)
           starts == RunStarts(taken)
           used == Cardinality(starts)
           N == Cardinality(places)
           order == InOrder(places)
           rank(i) == Cardinality({j \in starts : j <= i})
           run(i) == {j \in taken : j >= i /\ i..j \subseteq taken}
           stays(m) == IF mode = "client" /\ m.id \in Ids(w) THEN Short(m, m.turn) ELSE m
           marker(i) == Checkpoint(born + rank(i), "marker", round, UNION {window[j].covers : j \in run(i)})
           c == CutToMarkers(w, taken)
<1>1. /\ window \in ShapedLists /\ born \in Nat /\ round \in Int /\ Covers(window) \subseteq Nat
  BY CoversAreIds DEF CompactionInv, WindowTyped
<1>2. DOMAIN window = 1..Len(window) /\ Len(window) \in Nat /\ \A i \in DOMAIN window : window[i] \in ShapedMessages
  BY <1>1, ShapedListIs
<1>3. starts \subseteq taken /\ starts \subseteq DOMAIN window /\ places \subseteq DOMAIN window
  BY DEF RunStarts
<1>4. /\ starts \subseteq Nat /\ IsFiniteSet(starts) /\ places \subseteq Nat /\ IsFiniteSet(places)
  <2>1. IsFiniteSet(DOMAIN window)
    BY <1>2, FS_Interval
  <2>2. DOMAIN window \subseteq Nat
    BY <1>2
  <2> QED BY <1>3, <2>1, <2>2, FS_Subset
<1>5. used \in Nat /\ (\A i \in starts : rank(i) \in 1..used) /\ (\A i, k \in starts : rank(i) = rank(k) => i = k)
  BY <1>4, RanksAre, Zenon
<1>6. N \in Nat /\ order \in [1..N -> places] /\ DOMAIN order = 1..N /\ \A n \in places : \E i \in 1..N : order[i] = n
  BY <1>4, InOrderLists
<1>7. \A i, j \in 1..N : i < j => order[i] < order[j]
  BY <1>4, InOrderGrows
<1>8. c = [k \in DOMAIN order |-> IF order[k] \in taken THEN marker(order[k]) ELSE stays(window[order[k]])]
  BY DEF CutToMarkers
<1>9. ASSUME NEW i \in starts
      PROVE  /\ marker(i) \in ShapedMessages /\ marker(i).kind = "marker" /\ marker(i).short = FALSE
             /\ marker(i).id = born + rank(i) /\ marker(i).covers = UNION {window[j].covers : j \in run(i)}
  <2> DEFINE covers == UNION {window[j].covers : j \in run(i)}
             id == born + rank(i)
  <2>1. \A j \in run(i) : j \in DOMAIN window
    OBVIOUS
  <2>2. covers \subseteq Covers(window)
    BY <2>1 DEF Covers
  <2>3. rank(i) \in 1..used
    BY <1>5
  <2> HIDE DEF rank
  <2>4. id \in Nat
    BY <1>1, <1>5, <2>3
  <2>5. "marker" \in MessageKinds /\ covers \in SUBSET Nat
    BY <1>1, <2>2 DEF MessageKinds
  <2>6. marker(i) = Checkpoint(id, "marker", round, covers)
    OBVIOUS
  <2> HIDE DEF covers, id, run, marker
  <2>7. /\ marker(i) \in ShapedMessages
        /\ marker(i) = [id |-> id, kind |-> "marker", turn |-> round, calls |-> {}, call |-> NoCall,
                        covers |-> covers, short |-> FALSE]
    BY <1>1, <2>4, <2>5, <2>6, CheckpointIsShaped
  <2>8. marker(i).kind = "marker" /\ marker(i).short = FALSE /\ marker(i).id = id /\ marker(i).covers = covers
    BY <2>7
  <2> QED BY <2>7, <2>8 DEF covers, id
<1>10. ASSUME NEW i \in DOMAIN window PROVE stays(window[i]) \in ShapedMessages /\ Like(stays(window[i]), window[i])
  <2>1. Like(window[i], window[i])
    BY DEF Like
  <2>2. Short(window[i], window[i].turn) \in ShapedMessages /\ Like(Short(window[i], window[i].turn), window[i])
    BY <1>2, ShortIs
  <2> QED BY <1>2, <2>1, <2>2
<1> HIDE DEF c, order, N, used, marker, stays, rank, run
<1>11. DOMAIN c = 1..N
  BY <1>6, <1>8
<1>12. ASSUME NEW k \in DOMAIN c, order[k] \in taken
       PROVE  order[k] \in starts /\ c[k] = marker(order[k])
  <2>1. order[k] \in places
    BY <1>6, <1>11
  <2> QED BY <1>6, <1>8, <1>11, <1>12, <2>1
<1>13. ASSUME NEW k \in DOMAIN c, order[k] \notin taken
       PROVE  order[k] \in DOMAIN window /\ c[k] = stays(window[order[k]])
  <2>1. order[k] \in places
    BY <1>6, <1>11
  <2> QED BY <1>3, <1>6, <1>8, <1>11, <1>13, <2>1
<1>14. \A k \in DOMAIN c : c[k] \in ShapedMessages
  BY <1>9, <1>10, <1>12, <1>13
<1>15. c \in Seq(ShapedMessages)
  <2>1. c = [k \in 1..N |-> c[k]]
    BY <1>6, <1>8
  <2> QED BY <1>6, <1>11, <1>14, <2>1
<1>16. ASSUME NEW k \in DOMAIN c, order[k] \in taken
       PROVE  /\ order[k] \in starts
              /\ c[k].kind = "marker" /\ c[k].short = FALSE /\ c[k].id \in (born + 1)..(born + used)
              /\ \A q \in DOMAIN c : order[q] \in taken /\ c[q].id = c[k].id => q = k
              /\ c[k].covers = UNION {window[j].covers : j \in run(order[k])}
  <2>1. order[k] \in starts /\ c[k] = marker(order[k]) /\ rank(order[k]) \in 1..used
    BY <1>5, <1>12, <1>16
  <2>a. c[k].id = born + rank(order[k])
    BY <1>9, <2>1
  <2>2. c[k].id = born + rank(order[k]) /\ c[k].id \in (born + 1)..(born + used)
    <3>1. \A x \in 1..used : born + x \in (born + 1)..(born + used)
      BY <1>1, <1>5
    <3> QED BY <2>1, <2>a, <3>1
  <2>3. ASSUME NEW q \in DOMAIN c, order[q] \in taken, c[q].id = c[k].id PROVE q = k
    <3>1. order[q] \in starts /\ c[q] = marker(order[q]) /\ rank(order[q]) \in 1..used
      BY <1>5, <1>12, <2>3
    <3>2. c[q].id = born + rank(order[q])
      BY <1>9, <3>1
    <3>3. rank(order[q]) = rank(order[k])
      BY <1>1, <1>5, <2>1, <2>2, <2>3, <3>1, <3>2
    <3>4. order[q] = order[k]
      BY <1>5, <2>1, <3>1, <3>3
    <3>5. q \in 1..N /\ k \in 1..N /\ order[q] \in Int
      BY <1>2, <1>3, <1>11, <3>1
    <3> QED BY <1>7, <3>4, <3>5
  <2> QED BY <1>9, <2>1, <2>2, <2>3
<1>17. order \in [DOMAIN c -> DOMAIN window]
  BY <1>3, <1>6, <1>11
<1>18. \A p, q \in DOMAIN c : p < q => order[p] < order[q]
  BY <1>7, <1>11
<1>19. \A i \in DOMAIN window : i \notin taken => \E k \in DOMAIN c : order[k] = i
  BY <1>6, <1>11
<1>20. \A b \in starts : \E k \in DOMAIN c : order[k] = b
  BY <1>6, <1>11
<1>21. \A k \in DOMAIN c : order[k] \notin taken => Like(c[k], window[order[k]])
  BY <1>10, <1>13
<1>22. MarkedBy(c, order, taken, used)
  BY <1>14, <1>16, <1>17, <1>18, <1>19, <1>20, <1>21 DEF MarkedBy, run
<1> QED BY <1>5, <1>15, <1>22 DEF c, used

\* The archive cut, which asks no model.
LEMMA ArchivingKeeps ==
  ASSUME CompactionInv, NEW keep, Archive(keep)
  PROVE  CompactionInv'
<1> DEFINE seen == job.seen
           w == Only(window, seen)
           retained == Retained(w, keep)
           taken == CutOut(w, retained)
           used == Cardinality(RunStarts(taken))
           c == CutToMarkers(w, taken)
           s == Only(w, retained)
<1>1. /\ window \in ShapedLists /\ born \in Nat /\ tries \in 0..2 /\ seen \in SUBSET (1..born) /\ HeadsFirst(window)
      /\ Ids(window) \subseteq 1..born
  BY DEF CompactionInv, WindowTyped, WindowLegal
<1>2. /\ stage = "summary" /\ Sound(s, FALSE) /\ Install(c, used, job.cause, seen)
      /\ mode' = mode /\ tries' = tries /\ round' = round /\ said' = said /\ astray' = astray
  BY DEF Archive, Working
<1>3. Familiar(window, seen) /\ GoalOf(window)
  BY <1>2 DEF CompactionInv, RequestsKnow, GoalKept
<1>4. w \in ShapedLists /\ Within(w, window) /\ Ids(w) = Ids(window) \cap seen
  BY <1>1, OnlyIs
<1>5. s \in ShapedLists /\ Within(s, w) /\ Ids(s) = Ids(w) \cap retained
  BY <1>4, OnlyIs
<1> HIDE DEF seen, w
<1>6. PICK g : /\ Latest(window, g) /\ window[g].turn = round /\ window[g].id \in seen
               /\ window[g].id \in Ids(w) /\ Goal(w) = window[g].id
  BY <1>3, <1>4, WorkingIs
<1>7. window[g].id \in retained
  BY <1>6 DEF Retained
<1> HIDE DEF retained
<1>8. taken \in SUBSET (DOMAIN window) /\ \A i \in DOMAIN window : i \in taken <=> window[i].id \in Ids(w) \ retained
  BY DEF CutOut
<1> HIDE DEF taken, s
<1>9. DOMAIN window = 1..Len(window) /\ Len(window) \in Nat /\ DOMAIN window \subseteq Nat \ {0}
  BY <1>1, ShapedListIs
<1>10. used \in Nat /\ c \in Seq(ShapedMessages) /\ \E order : MarkedBy(c, order, taken, used)
  BY <1>8, MarkersAre
<1> HIDE DEF used, c
<1>11. PICK order : MarkedBy(c, order, taken, used)
  BY <1>10
<1>12. DOMAIN c = 1..Len(c) /\ Len(c) \in Nat
  BY <1>10
<1>13. /\ order \in [DOMAIN c -> DOMAIN window]
       /\ \A p, q \in DOMAIN c : p < q => order[p] < order[q]
       /\ \A i \in DOMAIN window : i \notin taken => \E k \in DOMAIN c : order[k] = i
       /\ \A b \in RunStarts(taken) : \E k \in DOMAIN c : order[k] = b
       /\ \A k \in DOMAIN c : order[k] \notin taken => Like(c[k], window[order[k]])
  BY <1>11 DEF MarkedBy
<1>14. ASSUME NEW k \in DOMAIN c, order[k] \in taken
       PROVE  /\ c[k].kind = "marker" /\ c[k].short = FALSE /\ c[k].id \in (born + 1)..(born + used)
              /\ \A q \in DOMAIN c : order[q] \in taken /\ c[q].id = c[k].id => q = k
              /\ c[k].covers = UNION {window[j].covers : j \in {i \in taken : i >= order[k] /\ order[k]..i \subseteq taken}}
  BY <1>11, <1>14 DEF MarkedBy
<1>15. ASSUME NEW p \in DOMAIN c, NEW q \in DOMAIN c PROVE p < q <=> order[p] < order[q]
  <2>1. order[p] \in Int /\ order[q] \in Int /\ p \in Int /\ q \in Int
    BY <1>9, <1>12, <1>13
  <2> QED BY <1>13, <2>1
<1>16. ASSUME NEW k \in DOMAIN c PROVE order[k] \notin taken <=> c[k].id \in Ids(window)
  <2>1. CASE order[k] \in taken
    <3>1. c[k].id \in (born + 1)..(born + used)
      BY <1>14, <2>1
    <3> QED BY <1>1, <1>10, <2>1, <3>1
  <2>2. CASE order[k] \notin taken
    <3>1. Like(c[k], window[order[k]]) /\ order[k] \in DOMAIN window
      BY <1>13, <2>2
    <3> QED BY <2>2, <3>1 DEF Like, Ids
  <2> QED BY <2>1, <2>2
<1>17. ASSUME NEW p \in DOMAIN c, NEW q \in DOMAIN window, c[p].id = window[q].id
       PROVE  order[p] = q /\ q \notin taken /\ Like(c[p], window[q])
  <2>1. order[p] \notin taken
    BY <1>16, <1>17 DEF Ids
  <2>2. Like(c[p], window[order[p]]) /\ order[p] \in DOMAIN window
    BY <1>13, <2>1
  <2>3. Distinct(window)
    BY <1>1, ShapedListIs
  <2> QED BY <1>17, <2>1, <2>2, <2>3 DEF Like, Distinct
<1>18. Alike(c, window)
  BY <1>15, <1>17 DEF Alike
<1>19. c \in ShapedLists
  <2>1. ASSUME NEW p \in DOMAIN c, NEW q \in DOMAIN c, c[p].id = c[q].id PROVE p = q
    <3>1. CASE order[p] \in taken
      <4>1. order[q] \in taken
        BY <1>16, <2>1, <3>1
      <4> QED BY <1>14, <2>1, <3>1, <4>1
    <3>2. CASE order[p] \notin taken
      <4>1. c[q].id \in Ids(window)
        BY <1>16, <2>1, <3>2
      <4>2. PICK z \in DOMAIN window : c[q].id = window[z].id
        BY <4>1 DEF Ids
      <4>3. order[p] = order[q]
        BY <1>17, <2>1, <4>2
      <4>4. ~(p < q) /\ ~(q < p) /\ p \in Int /\ q \in Int
        BY <1>9, <1>12, <1>13, <1>15, <4>3
      <4> QED BY <4>4
    <3> QED BY <3>1, <3>2
  <2> QED BY <1>10, <2>1 DEF ShapedLists, Distinct
<1>20. ASSUME NEW p \in DOMAIN c, c[p].kind \in Heads PROVE p = 1
  <2>1. order[p] \notin taken
    BY <1>14, <1>20 DEF Heads
  <2>2. Like(c[p], window[order[p]]) /\ order[p] \in DOMAIN window
    BY <1>13, <2>1
  <2>3. order[p] = 1
    BY <1>1, <1>20, <2>2 DEF Like, HeadsFirst
  <2>4. CASE p # 1
    <3>1. 1 \in DOMAIN c /\ 1 < p
      BY <1>12, <2>4
    <3>2. order[1] < 1 /\ order[1] \in DOMAIN window
      BY <1>13, <2>3, <3>1
    <3> QED BY <1>9, <3>2
  <2> QED BY <2>4
<1>21. AllLegal(c) /\ StillOpen(c) = {}
  <2>1. AllLegal(s) /\ StillOpen(s) = {}
    BY <1>2, <1>5, SoundIs, ShapedListIs
  <2>2. Within(s, window)
    BY <1>4, <1>5, WithinTransitive
  <2>3. Alike(c, s)
    BY <1>18, <2>2, AlikePart
  <2>4. Ids(s) \subseteq Ids(c)
    <3> SUFFICES ASSUME NEW x \in Ids(s) PROVE x \in Ids(c)
      OBVIOUS
    <3>1. PICK i \in DOMAIN window : window[i].id = x
      BY <2>2 DEF Within, Ids
    <3>2. i \notin taken
      BY <1>5, <1>8, <3>1
    <3>3. PICK k \in DOMAIN c : order[k] = i
      BY <1>13, <3>2
    <3>4. c[k].id = x
      BY <1>13, <3>1, <3>2, <3>3 DEF Like
    <3> QED BY <3>4 DEF Ids
  <2>5. ASSUME NEW p \in DOMAIN c
        PROVE  c[p].id \in Ids(s) \/ c[p].kind \in {"marker", "subagent"} \/ (c[p].kind \in Heads /\ p = 1)
    <3>1. CASE order[p] \in taken
      BY <1>14, <3>1
    <3>2. CASE order[p] \notin taken
      <4>1. Like(c[p], window[order[p]]) /\ order[p] \in DOMAIN window
        BY <1>13, <3>2
      <4>2. CASE window[order[p]].id \in Ids(w)
        <5>1. window[order[p]].id \in retained
          BY <1>8, <3>2, <4>1, <4>2
        <5> QED BY <1>5, <4>1, <4>2, <5>1 DEF Like
      <4>3. CASE window[order[p]].id \notin Ids(w)
        <5>1. window[order[p]].id \notin seen
          BY <1>4, <4>1, <4>3 DEF Ids
        <5>2. c[p].kind \in Extras
          BY <1>3, <4>1, <5>1 DEF Familiar, Like
        <5> QED BY <1>20, <5>2 DEF Extras, Heads
      <4> QED BY <4>2, <4>3
    <3> QED BY <3>1, <3>2
  <2> QED BY <1>5, <1>19, <2>1, <2>3, <2>4, <2>5, SoundAlike
<1>22. GoalOf(c)
  <2>1. window[g].id \in Ids(c)
    <3>1. g \in DOMAIN window /\ g \notin taken
      BY <1>6, <1>7, <1>8 DEF Latest
    <3>2. PICK k \in DOMAIN c : order[k] = g
      BY <1>13, <3>1
    <3>3. c[k].id = window[g].id
      BY <1>13, <3>1, <3>2 DEF Like
    <3> QED BY <3>3 DEF Ids
  <2>2. \A p \in DOMAIN c : c[p].id \in Ids(window) \/ c[p].kind # "user"
    BY <1>14, <1>16
  <2>3. \E p : Latest(c, p) /\ c[p].id = window[g].id /\ c[p].turn = window[g].turn
    BY <1>1, <1>6, <1>18, <1>19, <2>1, <2>2, LatestAlike
  <2> QED BY <1>6, <2>3 DEF GoalOf, Latest
<1>23. Covers(c) \subseteq Covers(window)
  <2>1. ASSUME NEW k \in DOMAIN c PROVE c[k].covers \subseteq Covers(window)
    <3>1. CASE order[k] \in taken
      <4>1. \A i \in taken : window[i].covers \subseteq Covers(window)
        BY <1>8 DEF Covers
      <4>2. c[k].covers = UNION {window[j].covers : j \in {i \in taken : i >= order[k] /\ order[k]..i \subseteq taken}}
        BY <1>14, <3>1
      <4>3. \A j \in {i \in taken : i >= order[k] /\ order[k]..i \subseteq taken} : window[j].covers \subseteq Covers(window)
        BY <4>1
      <4> QED BY <4>2, <4>3
    <3>2. CASE order[k] \notin taken
      BY <1>13, <3>2 DEF Like, Covers
    <3> QED BY <3>1, <3>2
  <2> QED BY <2>1 DEF Covers
<1>24. Covers(window) \subseteq Covers(c)
  <2>1. ASSUME NEW i \in DOMAIN window PROVE \E k \in DOMAIN c : window[i].covers \subseteq c[k].covers
    <3>1. CASE i \in taken
      <4>1. taken \in SUBSET (Nat \ {0})
        BY <1>8, <1>9
      <4>2. PICK b \in RunStarts(taken) : b <= i /\ b..i \subseteq taken
        BY <3>1, <4>1, RunCovers
      <4>3. PICK k \in DOMAIN c : order[k] = b
        BY <1>13
      <4>4. order[k] \in taken /\ i \in {j \in taken : j >= order[k] /\ order[k]..j \subseteq taken}
        <5>1. b \in taken /\ b \in Int /\ i \in Int
          BY <3>1, <4>1 DEF RunStarts
        <5> QED BY <3>1, <4>2, <4>3, <5>1
      <4>5. c[k].covers = UNION {window[j].covers : j \in {x \in taken : x >= order[k] /\ order[k]..x \subseteq taken}}
        BY <1>14, <4>4
      <4> QED BY <4>4, <4>5
    <3>2. CASE i \notin taken
      <4>1. PICK k \in DOMAIN c : order[k] = i
        BY <1>13, <3>2
      <4>2. Like(c[k], window[i])
        BY <1>13, <3>2, <4>1
      <4> QED BY <4>2 DEF Like
    <3> QED BY <3>1, <3>2
  <2> QED BY <2>1 DEF Covers
<1>25. Candidate(c, used, {})
  <2>1. \A p \in DOMAIN c : c[p].id \in Ids(window) \/ (c[p].id \in (born + 1)..(born + used) /\ c[p].short = FALSE)
    BY <1>14, <1>16
  <2>2. HeadsFirst(c)
    BY <1>20 DEF HeadsFirst
  <2> QED BY <1>19, <1>21, <1>22, <1>23, <1>24, <2>1, <2>2 DEF Candidate
<1>26. Familiar(c, seen)
  <2> SUFFICES ASSUME NEW k \in DOMAIN c PROVE c[k].id \in seen \/ c[k].kind \in Extras
    BY DEF Familiar
  <2>1. CASE order[k] \in taken
    BY <1>14, <2>1 DEF Extras
  <2>2. CASE order[k] \notin taken
    <3>1. Like(c[k], window[order[k]]) /\ order[k] \in DOMAIN window
      BY <1>13, <2>2
    <3> QED BY <1>3, <3>1 DEF Like, Familiar
  <2> QED BY <2>1, <2>2
<1>27. astray' = astray \cup {}
  BY <1>2
<1> QED BY <1>1, <1>2, <1>10, <1>25, <1>26, <1>27, InstallKeeps

\* Every step keeps the invariant, and so does a step of the rest of the system.
LEMMA CompactionSteps ==
  ASSUME CompactionInv, CompactionNext
  PROVE  CompactionInv'
<1>1. CASE NewQuestion
  BY <1>1, QuestionKeeps
<1>2. CASE Fits \/ NextStep \/ Blocked
  BY <1>2, QuietKeeps
<1>3. CASE Arrives
  BY <1>3, ArrivalKeeps
<1>4. CASE \E n \in 0..2 : ModelSays(n)
  BY <1>4, SpeakingKeeps
<1>5. CASE \E call \in Waiting : Finish(call)
  BY <1>5, FinishKeeps
<1>6. CASE \E cause \in Causes : Trim(cause)
  BY <1>6, TrimmingKeeps
<1>7. CASE \E cause \in Causes : \E way \in {"summary", "native"} : BeginCompaction(cause, way)
  BY <1>7, BeginningKeeps
<1>8. CASE \E cut \in 1..MaxMessages : Summarized(cut)
  BY <1>8, SummarizingKeeps
<1>9. CASE NativeDone
  BY <1>9, NativeKeeps
<1>10. CASE NativeRefused
  BY <1>10, RefusalKeeps
<1>11. CASE Rebase
  BY <1>11, RebasingKeeps
<1>12. CASE GiveUp
  BY <1>12, GivingUpKeeps
<1>13. CASE \E keep \in 0..2 : Archive(keep)
  BY <1>13, ArchivingKeeps
<1> QED BY <1>1, <1>2, <1>3, <1>4, <1>5, <1>6, <1>7, <1>8, <1>9, <1>10, <1>11, <1>12, <1>13 DEF CompactionNext

LEMMA CompactionRests ==
  ASSUME CompactionInv, UNCHANGED compactionVars
  PROVE  CompactionInv'
<1>1. /\ mode' = mode /\ window' = window /\ filed' = filed /\ stage' = stage /\ asked' = asked /\ job' = job
      /\ tries' = tries /\ round' = round /\ born' = born /\ said' = said /\ astray' = astray
  BY DEF compactionVars
<1>2. WindowTyped'
  BY <1>1 DEF CompactionInv, WindowTyped
<1>3. CoversKept' /\ WindowLegal'
  BY <1>1 DEF CompactionInv, CoversKept, WindowLegal
<1>4. GoalKept' /\ RequestsKnow'
  BY <1>1 DEF CompactionInv, GoalKept, GoalOf, RequestsKnow
<1> QED BY <1>2, <1>3, <1>4 DEF CompactionInv

LEMMA CompactionInvAlways == CompactionInit /\ [][CompactionNext]_compactionVars => []CompactionInv
<1>1. CompactionInit => CompactionInv
  BY CompactionStarts
<1>2. CompactionInv /\ [CompactionNext]_compactionVars => CompactionInv'
  BY CompactionSteps, CompactionRests
<1> QED BY <1>1, <1>2, PTL

-----------------------------------------------------------------------------
(* WorkspaceRuntime: no container goes with files that are only in it, and    *)
(* none is left behind                                                        *)

\* Who holds the lock: the command that prepares its container, or the API that makes one.
RuntimeLock ==
  /\ \A c \in Commands : In(c, InLock) => lock = c
  /\ remover = "creating" => lock = "api"

\* A row with a status names a container, and so does a listing; the name of the container
\* that is being made is in the row.
RowsNameBoxes ==
  /\ row.status # "missing" => row.box # 0
  /\ listing # NoRow => listing.box # 0
  /\ remover = "creating" => row.box # 0
  /\ \A c \in Commands : In(c, {"creating"}) => row.box # 0

\* A listing that is stale names a container that is gone.
ListingsAreGone == listing # NoRow /\ listing.box # row.box => listing.box \notin boxes

\* The row is that of container b, or a listing has written back one that has failed.
Followed(b) == row.box = b \/ (row.box \notin boxes /\ row.status = "failed")

\* The commands work in one container, with all the files that are not on the host.
Occupants == {c \in Commands : In(c, {"ready"} \cup Executing)}
UsersShareOne ==
  /\ \A c \in Occupants : cmd[c].box # 0 /\ Followed(cmd[c].box) /\ unsynced \subseteq {cmd[c].box}
  /\ \A c, d \in Occupants : cmd[c].box = cmd[d].box
  /\ \A b \in unsynced : Followed(b)

\* Who recovers, without the lock, is alone but for those that wait; nobody executes while
\* a container is made.
RecoversAlone ==
  \A c, d \in Commands : In(c, Recovering) /\ d # c => In(d, {"idle", "queued"})
MadeAlone ==
  remover = "creating" \/ (\E c \in Commands : In(c, {"creating"})) =>
    unsynced = {} /\ \A d \in Commands : ~In(d, Executing)

\* A marker is on the disk as long as a command may write, or has written; what a recovery
\* has captured is on the host.
MarksAreKept ==
  /\ \A c \in Commands : In(c, Executing \ {"removing"}) => Marked
  /\ unsynced # {} => Marked
  /\ Marked => row.box # 0
  /\ \A c \in Commands : In(c, {"captured", "removing"}) => unsynced = {}

\* As long as no listing has written back a row that was replaced, there is one container.
OneContainer ==
  raced = {} => boxes \subseteq {row.box} /\ \A c \in Occupants : cmd[c].box = row.box

RuntimeCore ==
  /\ RuntimeTypeOK /\ RuntimeLock /\ RowsNameBoxes /\ ListingsAreGone
  /\ UsersShareOne /\ RecoversAlone /\ MadeAlone /\ MarksAreKept /\ OneContainer
  /\ lost \subseteq {"fault", "interruption", "late"}

RuntimeInv == {"recovery", "late"} \cap raced = {} => RuntimeCore

USE RuntimeAssumption

-----------------------------------------------------------------------------
(* The operators of the model. *)

LEMMA WorksAndRows ==
  ASSUME NEW place \in {"idle", "queued"} \cup InLock \cup Executing, NEW b \in 0..MaxBoxes,
         NEW again \in BOOLEAN,
         NEW status \in {"missing", "provisioning", "running", "executing", "terminating", "failed", "collected"}
  PROVE  /\ Work(place, b, again) \in Works /\ Work(place, b, again).at = place
         /\ Work(place, b, again).box = b /\ Work(place, b, again).again = again
         /\ Row(status, b) \in RuntimeRows /\ Row(status, b).status = status /\ Row(status, b).box = b
BY DEF Work, Works, Row, RuntimeRows

LEMMA NullWorksAndRows ==
  /\ Asleep \in Works /\ Asleep.at = "idle" /\ Asleep.box = 0
  /\ NoRow \in RuntimeRows /\ NoRow.status = "missing" /\ NoRow.box = 0
BY DEF Asleep, Work, Works, NoRow, Row, RuntimeRows

LEMMA PutWork ==
  ASSUME cmd \in [Commands -> Works], NEW c \in Commands, NEW w \in Works, Put(c, w)
  PROVE  cmd' \in [Commands -> Works] /\ cmd'[c] = w /\ \A d \in Commands \ {c} : cmd'[d] = cmd[d]
BY DEF Put

LEMMA MoveWork ==
  ASSUME cmd \in [Commands -> Works], NEW c \in Commands,
         NEW place \in {"idle", "queued"} \cup InLock \cup Executing, Move(c, place)
  PROVE  /\ cmd' \in [Commands -> Works] /\ \A d \in Commands \ {c} : cmd'[d] = cmd[d]
         /\ cmd'[c].at = place /\ cmd'[c].box = cmd[c].box
<1>1. cmd[c].box \in 0..MaxBoxes /\ cmd[c].again \in BOOLEAN
  BY DEF Works
<1> QED
  BY <1>1, WorksAndRows, PutWork DEF Move

LEMMA RefreshedRow ==
  ASSUME NEW r \in RuntimeRows
  PROVE  /\ Refreshed(r) \in RuntimeRows /\ Refreshed(r).box = r.box
         /\ r.box = 0 => Refreshed(r) = r
         /\ r.box # 0 /\ r.box \notin boxes => Refreshed(r) = r \/ Refreshed(r).status = "failed"
         /\ r.box # 0 /\ r.box \notin boxes /\ r.status = "failed" => Refreshed(r).status = "failed"
<1>1. r.box \in 0..MaxBoxes
  BY DEF RuntimeRows
<1>2. /\ Row("failed", r.box) \in RuntimeRows /\ Row("failed", r.box).box = r.box
      /\ Row("failed", r.box).status = "failed"
      /\ Row("running", r.box) \in RuntimeRows /\ Row("running", r.box).box = r.box
  BY <1>1 DEF Row, RuntimeRows
<1> QED
  BY <1>2 DEF Refreshed

LEMMA NobodyRuns == ASSUME RunningCommands = 0 PROVE \A d \in Commands : ~In(d, Executing)
<1> DEFINE R == {d \in Commands : In(d, Executing)}
<1>1. IsFiniteSet(R)
  BY FS_Subset
<1> QED
  BY <1>1, FS_EmptySet DEF RunningCommands

LEMMA OneRuns ==
  ASSUME RunningCommands = 1, NEW c \in Commands, In(c, Executing)
  PROVE  \A d \in Commands \ {c} : ~In(d, Executing)
<1> DEFINE R == {d \in Commands : In(d, Executing)}
<1>1. IsFiniteSet(R)
  BY FS_Subset
<1>2. PICK x : R = {x}
  BY <1>1, FS_Singleton DEF RunningCommands
<1> QED
  BY <1>2

LEMMA OneIsActive ==
  ASSUME ActiveCommands <= 1, NEW c \in Commands, ~In(c, {"idle"})
  PROVE  \A d \in Commands \ {c} : In(d, {"idle"})
<1> DEFINE A == {d \in Commands : ~In(d, {"idle"})}
           B == {d \in Commands : cmd[d].again}
<1>1. IsFiniteSet(A) /\ IsFiniteSet(B)
  BY FS_Subset
<1>2. Cardinality(A) \in Nat /\ Cardinality(B) \in Nat /\ Cardinality(A) # 0
  BY <1>1, FS_CardinalityType, FS_EmptySet
<1>3. Cardinality(A) = 1
  BY <1>2 DEF ActiveCommands
<1>4. PICK x : A = {x}
  BY <1>1, <1>3, FS_Singleton
<1> QED
  BY <1>4

-----------------------------------------------------------------------------
(* The steps: those of one command before it is admitted. *)

\* A command is given up, whatever it was at: the marker it leaves is one it had.
LEMMA RuntimeGoes ==
  ASSUME RuntimeCore, NEW c \in Commands, Put(c, Asleep),
         UNCHANGED <<row, boxes, unsynced, remover, lost, listing, raced>>,
         faults' \in 0..MaxFaults, late' \subseteq DockerCommands,
         IF In(c, InLock) THEN lock' = Free ELSE lock' = lock,
         marked' = marked \/ (marked' = marked \cup {"failed"} /\ In(c, Executing \ {"removing"}))
  PROVE  RuntimeCore'
<1>1. cmd' \in [Commands -> Works] /\ cmd'[c].at = "idle" /\ \A d \in Commands \ {c} : cmd'[d] = cmd[d]
  BY PutWork, NullWorksAndRows DEF RuntimeCore, RuntimeTypeOK
<1>2. RuntimeTypeOK'
  BY <1>1 DEF RuntimeCore, RuntimeTypeOK
<1>3. RuntimeLock' /\ RowsNameBoxes' /\ ListingsAreGone'
  BY <1>1 DEF RuntimeCore, RuntimeLock, RowsNameBoxes, ListingsAreGone, In, InLock
<1>4. UsersShareOne' /\ OneContainer'
  BY <1>1 DEF RuntimeCore, UsersShareOne, OneContainer, Occupants, Followed, In, InLock, Executing, Recovering
<1>5. RecoversAlone' /\ MadeAlone' /\ MarksAreKept'
  BY <1>1 DEF RuntimeCore, RecoversAlone, MadeAlone, MarksAreKept, Marked, In, InLock, Executing, Recovering
<1> QED
  BY <1>2, <1>3, <1>4, <1>5 DEF RuntimeCore

LEMMA RuntimeLeaves ==
  ASSUME RuntimeCore, NEW c \in Commands, Put(c, Asleep),
         UNCHANGED <<row, boxes, unsynced, remover, lost, listing, raced, faults, late>>,
         IF In(c, InLock) THEN lock' = Free ELSE lock' = lock,
         marked' = marked \/ (marked' = marked \cup {"failed"} /\ In(c, Executing \ {"removing"}))
  PROVE  RuntimeCore'
<1>1. faults' \in 0..MaxFaults /\ late' \subseteq DockerCommands
  BY DEF RuntimeCore, RuntimeTypeOK
<1> QED
  BY <1>1, RuntimeGoes

\* What a command leaves to docker is a command of docker.
LEMMA LeavingBehind ==
  ASSUME faults \in 0..MaxFaults, late \subseteq DockerCommands,
         NEW left \in SUBSET DockerCommands, LeftBehind(left)
  PROVE  faults' \in 0..MaxFaults /\ late' \subseteq DockerCommands
BY DEF LeftBehind

\* A command is cut off while docker makes or removes a container for it.
LEMMA RuntimeCutsOff ==
  ASSUME RuntimeCore, NEW c \in Commands, CutOff(c)
  PROVE  RuntimeCore'
<1>1. PICK docker \in Awaited(c) : LeftBehind({docker})
  BY DEF CutOff
<1>2. {docker} \in SUBSET DockerCommands
  BY DEF Awaited
<1>3. faults' \in 0..MaxFaults /\ late' \subseteq DockerCommands
  BY <1>1, <1>2, LeavingBehind DEF RuntimeCore, RuntimeTypeOK
<1> QED
  BY <1>3, RuntimeGoes DEF CutOff

LEMMA RuntimeEnters ==
  ASSUME RuntimeCore, NEW c \in Commands, Enter(c)
  PROVE  RuntimeCore'
<1>1. UNCHANGED <<row, boxes, unsynced, marked, remover, lost, listing, raced, faults, late, lock>>
  BY DEF Enter
<1>2. /\ cmd' \in [Commands -> Works] /\ \A d \in Commands \ {c} : cmd'[d] = cmd[d]
      /\ cmd[c].at = "idle" /\ cmd'[c].at = "queued"
  BY MoveWork DEF RuntimeCore, RuntimeTypeOK, Enter, In, InLock
<1>3. RuntimeTypeOK'
  BY <1>1, <1>2 DEF RuntimeCore, RuntimeTypeOK
<1>4. RuntimeLock' /\ RowsNameBoxes' /\ ListingsAreGone'
  BY <1>1, <1>2 DEF RuntimeCore, RuntimeLock, RowsNameBoxes, ListingsAreGone, In, InLock
<1>5. UsersShareOne' /\ OneContainer'
  BY <1>1, <1>2 DEF RuntimeCore, UsersShareOne, OneContainer, Occupants, Followed, In, InLock, Executing, Recovering
<1>6. RecoversAlone' /\ MadeAlone' /\ MarksAreKept'
  BY <1>1, <1>2 DEF RuntimeCore, RecoversAlone, MadeAlone, MarksAreKept, Marked, In, InLock, Executing, Recovering
<1> QED
  BY <1>1, <1>3, <1>4, <1>5, <1>6 DEF RuntimeCore

LEMMA RuntimeGivesUp ==
  ASSUME RuntimeCore, NEW c \in Commands, WaitForOthers(c) \/ GiveUpWaiting(c) \/ GiveUpSync(c)
  PROVE  RuntimeCore'
BY RuntimeLeaves DEF WaitForOthers, GiveUpWaiting, GiveUpSync, Leave, In, InLock

LEMMA RuntimeTakes ==
  ASSUME RuntimeCore, NEW c \in Commands, Take(c), "recovery" \notin raced'
  PROVE  RuntimeCore'
<1>1. /\ UNCHANGED <<boxes, unsynced, marked, remover, lost, listing, raced, faults, late>>
      /\ lock = Free /\ lock' = c /\ row' = Refreshed(row)
      /\ \A d \in Commands : ~In(d, Recovering)
  BY DEF Take, Overlap
<1>2. /\ cmd' \in [Commands -> Works] /\ \A d \in Commands \ {c} : cmd'[d] = cmd[d]
      /\ cmd[c].at = "queued" /\ cmd'[c].at = "ensure"
  BY MoveWork DEF RuntimeCore, RuntimeTypeOK, Take, In, InLock
<1>3. /\ row' \in RuntimeRows /\ row'.box = row.box
      /\ row'.status # "missing" => row.box # 0
      /\ row.status = "failed" /\ row.box \notin boxes => row'.status = "failed"
  BY <1>1, RefreshedRow DEF RuntimeCore, RuntimeTypeOK, RowsNameBoxes
<1>4. RuntimeTypeOK'
  BY <1>1, <1>2, <1>3 DEF RuntimeCore, RuntimeTypeOK
<1>5. RuntimeLock' /\ RowsNameBoxes' /\ ListingsAreGone'
  BY <1>1, <1>2, <1>3 DEF RuntimeCore, RuntimeLock, RowsNameBoxes, ListingsAreGone, In, InLock
<1>6. UsersShareOne' /\ OneContainer'
  BY <1>1, <1>2, <1>3
  DEF RuntimeCore, UsersShareOne, OneContainer, Occupants, Followed, RowsNameBoxes, In, InLock, Executing, Recovering
<1>7. RecoversAlone' /\ MadeAlone' /\ MarksAreKept'
  BY <1>1, <1>2, <1>3
  DEF RuntimeCore, RecoversAlone, MadeAlone, MarksAreKept, Marked, In, InLock, Executing, Recovering
<1> QED
  BY <1>1, <1>4, <1>5, <1>6, <1>7 DEF RuntimeCore

\* A sync that is made up for leaves nothing in the container.
LEMMA RuntimeResyncs ==
  ASSUME RuntimeCore, NEW c \in Commands, Resync(c)
  PROVE  RuntimeCore'
<1>1. CASE Leave(c) /\ UNCHANGED <<unsynced, marked>>
  BY <1>1, RuntimeLeaves DEF Resync, Leave, In, InLock
<1>2. CASE ~(Leave(c) /\ UNCHANGED <<unsynced, marked>>)
  <2>1. /\ UNCHANGED <<row, boxes, remover, lost, listing, raced, faults, late, lock>>
        /\ RunningCommands = 0 /\ row.box \in boxes /\ unsynced' = unsynced \ {row.box} /\ marked' = {}
    BY <1>2 DEF Resync
  <2>2. /\ cmd' \in [Commands -> Works] /\ \A d \in Commands \ {c} : cmd'[d] = cmd[d]
        /\ cmd[c].at = "ensure" /\ cmd'[c].at = "provide"
    BY <1>2, MoveWork DEF RuntimeCore, RuntimeTypeOK, Resync, In, InLock
  <2>3. (\A d \in Commands : ~In(d, Executing)) /\ unsynced' = {}
    BY <2>1, NobodyRuns DEF RuntimeCore, UsersShareOne, Followed
  <2>4. RuntimeTypeOK'
    BY <2>1, <2>2, <2>3 DEF RuntimeCore, RuntimeTypeOK
  <2>5. RuntimeLock' /\ RowsNameBoxes' /\ ListingsAreGone'
    BY <2>1, <2>2 DEF RuntimeCore, RuntimeLock, RowsNameBoxes, ListingsAreGone, In, InLock
  <2>6. UsersShareOne' /\ OneContainer'
    BY <2>1, <2>2, <2>3
    DEF RuntimeCore, UsersShareOne, OneContainer, Occupants, Followed, In, InLock, Executing, Recovering
  <2>7. RecoversAlone' /\ MadeAlone' /\ MarksAreKept'
    BY <2>1, <2>2, <2>3
    DEF RuntimeCore, RecoversAlone, MadeAlone, MarksAreKept, Marked, In, InLock, Executing, Recovering
  <2> QED
    BY <2>1, <2>4, <2>5, <2>6, <2>7 DEF RuntimeCore
<1> QED
  BY <1>1, <1>2

\* A command takes the container as it is.
LEMMA RuntimeReuses ==
  ASSUME RuntimeCore, NEW c \in Commands, Reuse(c)
  PROVE  RuntimeCore'
<1>1. /\ UNCHANGED <<row, boxes, unsynced, marked, lock, remover, lost, listing, raced, faults, late>>
      /\ row.status \in {"running", "executing"} /\ row.box # 0 /\ row.box \in 0..MaxBoxes
  BY DEF Reuse, RuntimeCore, RuntimeTypeOK, RowsNameBoxes, RuntimeRows
<1>2. /\ cmd' \in [Commands -> Works] /\ \A d \in Commands \ {c} : cmd'[d] = cmd[d]
      /\ cmd[c].at \in {"ensure", "provide"} /\ cmd'[c].at = "ready" /\ cmd'[c].box = row.box
  <2>1. cmd[c].again \in BOOLEAN
    BY DEF RuntimeCore, RuntimeTypeOK, Works
  <2> QED
    BY <1>1, <2>1, WorksAndRows, PutWork DEF RuntimeCore, RuntimeTypeOK, Reuse, In, InLock
<1>3. RuntimeTypeOK'
  BY <1>1, <1>2 DEF RuntimeCore, RuntimeTypeOK
<1>4. RuntimeLock' /\ RowsNameBoxes' /\ ListingsAreGone'
  BY <1>1, <1>2 DEF RuntimeCore, RuntimeLock, RowsNameBoxes, ListingsAreGone, In, InLock
<1>5. UsersShareOne' /\ OneContainer'
  BY <1>1, <1>2 DEF RuntimeCore, UsersShareOne, OneContainer, Occupants, Followed, In, InLock, Executing, Recovering
<1>6. RecoversAlone' /\ MadeAlone' /\ MarksAreKept'
  BY <1>1, <1>2 DEF RuntimeCore, RecoversAlone, MadeAlone, MarksAreKept, Marked, In, InLock, Executing, Recovering
<1> QED
  BY <1>1, <1>3, <1>4, <1>5, <1>6 DEF RuntimeCore

LEMMA CollectedIs ==
  ASSUME row \in RuntimeRows, row.status # "missing" => row.box # 0
  PROVE  /\ Collected \in RuntimeRows /\ Collected.box = row.box
         /\ Collected.status # "missing" => Collected.box # 0
BY DEF Collected, Row, RuntimeRows

\* A container is replaced when no marker is on the disk, so that nobody works in it.
LEMMA RuntimeReplaces ==
  ASSUME RuntimeCore, NEW c \in Commands, ReplaceBox(c)
  PROVE  RuntimeCore'
<1>1. CASE row.box # 0 /\ Marked
  BY <1>1, RuntimeLeaves DEF ReplaceBox, Leave, In, InLock
<1>2. CASE ~(row.box # 0 /\ Marked) /\ row' = Row("provisioning", row.box + 1) /\ Move(c, "creating") /\ UNCHANGED lock
  <2>1. /\ UNCHANGED <<lock, marked, remover, listing, raced, faults, late>> /\ row.box < MaxBoxes
        /\ RemoveContainer(row.box, "removal") /\ row' = Row("provisioning", row.box + 1)
    BY <1>2 DEF ReplaceBox
  <2>2. /\ cmd' \in [Commands -> Works] /\ \A d \in Commands \ {c} : cmd'[d] = cmd[d]
        /\ cmd[c].at \in {"ensure", "provide"} /\ cmd'[c].at = "creating"
    BY <1>2, MoveWork DEF RuntimeCore, RuntimeTypeOK, ReplaceBox, In, InLock
  <2>3. /\ ~Marked /\ unsynced = {} /\ unsynced' = {} /\ lost' = lost /\ boxes' = boxes \ {row.box}
        /\ \A d \in Commands : ~In(d, Executing)
    BY <1>2, <2>1, <2>2 DEF RuntimeCore, MarksAreKept, RecoversAlone, RemoveContainer, In, Executing, Recovering
  <2>4. row.box + 1 \in 0..MaxBoxes /\ row.box + 1 # 0
    BY <2>1 DEF RuntimeCore, RuntimeTypeOK, RuntimeRows
  <2>5. row' \in RuntimeRows /\ row'.box = row.box + 1 /\ row'.status = "provisioning"
    BY <2>1, <2>4 DEF Row, RuntimeRows
  <2>6. RuntimeTypeOK'
    BY <2>1, <2>2, <2>3, <2>5 DEF RuntimeCore, RuntimeTypeOK
  <2>7. RuntimeLock' /\ RowsNameBoxes' /\ ListingsAreGone'
    BY <2>1, <2>2, <2>3, <2>4, <2>5
    DEF RuntimeCore, RuntimeLock, RowsNameBoxes, ListingsAreGone, In, InLock
  <2>8. UsersShareOne' /\ OneContainer'
    BY <2>1, <2>2, <2>3, <2>5
    DEF RuntimeCore, RuntimeLock, UsersShareOne, OneContainer, Occupants, Followed, In, InLock, Executing, Recovering
  <2>9. RecoversAlone' /\ MadeAlone' /\ MarksAreKept'
    BY <2>1, <2>2, <2>3
    DEF RuntimeCore, RecoversAlone, MadeAlone, MarksAreKept, Marked, In, InLock, Executing, Recovering
  <2> QED
    BY <2>1, <2>3, <2>6, <2>7, <2>8, <2>9 DEF RuntimeCore
<1>3. CASE ~(row.box # 0 /\ Marked) /\ row' = Collected /\ Leave(c)
  <2>1. /\ UNCHANGED <<marked, remover, listing, raced, faults, late>> /\ lock' = Free
        /\ RemoveContainer(row.box, "removal")
    BY <1>3 DEF ReplaceBox, Leave
  <2>2. /\ cmd' \in [Commands -> Works] /\ \A d \in Commands \ {c} : cmd'[d] = cmd[d]
        /\ cmd[c].at \in {"ensure", "provide"} /\ cmd'[c].at = "idle"
    BY <1>3, PutWork, NullWorksAndRows DEF RuntimeCore, RuntimeTypeOK, ReplaceBox, Leave, In
  <2>3. /\ ~Marked /\ unsynced = {} /\ unsynced' = {} /\ lost' = lost /\ boxes' = boxes \ {row.box}
        /\ \A d \in Commands : ~In(d, Executing)
    BY <1>3, <2>1, <2>2 DEF RuntimeCore, MarksAreKept, RecoversAlone, RemoveContainer, In, Executing, Recovering
  <2>4. row' \in RuntimeRows /\ row'.box = row.box /\ (row'.status # "missing" => row'.box # 0)
    BY <1>3, CollectedIs DEF RuntimeCore, RuntimeTypeOK, RowsNameBoxes
  <2>6. RuntimeTypeOK'
    BY <2>1, <2>2, <2>3, <2>4 DEF RuntimeCore, RuntimeTypeOK
  <2>7. RuntimeLock' /\ RowsNameBoxes' /\ ListingsAreGone'
    BY <2>1, <2>2, <2>3, <2>4
    DEF RuntimeCore, RuntimeLock, RowsNameBoxes, ListingsAreGone, In, InLock
  <2>8. UsersShareOne' /\ OneContainer'
    BY <2>1, <2>2, <2>3, <2>4
    DEF RuntimeCore, RuntimeLock, UsersShareOne, OneContainer, Occupants, Followed, In, InLock, Executing, Recovering
  <2>9. RecoversAlone' /\ MadeAlone' /\ MarksAreKept'
    BY <2>1, <2>2, <2>3
    DEF RuntimeCore, RecoversAlone, MadeAlone, MarksAreKept, Marked, In, InLock, Executing, Recovering
  <2> QED
    BY <2>1, <2>3, <2>6, <2>7, <2>8, <2>9 DEF RuntimeCore
<1> QED
  BY <1>1, <1>2, <1>3 DEF ReplaceBox

LEMMA MadeRow ==
  ASSUME RuntimeCore, row.box # 0, Created \/ NotCreated
  PROVE  /\ row' \in RuntimeRows /\ row'.box = row.box /\ row'.status \in {"running", "failed"}
         /\ boxes \subseteq boxes' /\ boxes' \subseteq boxes \cup {row.box} /\ boxes' \subseteq Boxes
<1>1. row.box \in 0..MaxBoxes /\ row.box \in Boxes /\ boxes \subseteq Boxes
  BY DEF RuntimeCore, RuntimeTypeOK, RuntimeRows, Boxes
<1>2. \A status \in {"running", "failed"} :
        /\ Row(status, row.box) \in RuntimeRows /\ Row(status, row.box).status = status
        /\ Row(status, row.box).box = row.box
  BY <1>1, WorksAndRows DEF Row, RuntimeRows
<1> QED
  BY <1>1, <1>2 DEF Created, NotCreated

LEMMA RuntimeCreates ==
  ASSUME RuntimeCore, NEW c \in Commands, CreateBox(c)
  PROVE  RuntimeCore'
<1>0. row.box \in 0..MaxBoxes
  BY DEF RuntimeCore, RuntimeTypeOK, RuntimeRows
<1>1. /\ UNCHANGED <<unsynced, marked, remover, lost, listing, raced>> /\ In(c, {"creating"})
      /\ lock' = lock \/ lock' = Free
      /\ row.box # 0 /\ unsynced = {} /\ \A d \in Commands : ~In(d, Executing)
  BY DEF CreateBox, Leave, RuntimeCore, RowsNameBoxes, MadeAlone
<1>2. /\ row' \in RuntimeRows /\ row'.box = row.box /\ row'.status \in {"running", "failed"}
      /\ boxes \subseteq boxes' /\ boxes' \subseteq boxes \cup {row.box} /\ boxes' \subseteq Boxes
  BY <1>1, MadeRow DEF CreateBox
<1>3. /\ cmd' \in [Commands -> Works] /\ \A d \in Commands \ {c} : cmd'[d] = cmd[d]
      /\ cmd[c].at = "creating"
      /\ (cmd'[c].at = "ready" /\ cmd'[c].box = row.box /\ lock' = lock) \/ cmd'[c].at = "idle"
  <2>1. cmd[c].again \in BOOLEAN /\ row.box \in 0..MaxBoxes
    BY DEF RuntimeCore, RuntimeTypeOK, Works, RuntimeRows
  <2>2. Work("ready", row.box, cmd[c].again) \in Works
    BY <2>1, WorksAndRows DEF InLock
  <2>3. Work("ready", row.box, cmd[c].again).at = "ready" /\ Work("ready", row.box, cmd[c].again).box = row.box
    BY DEF Work
  <2> QED
    BY <2>2, <2>3, PutWork, NullWorksAndRows DEF RuntimeCore, RuntimeTypeOK, CreateBox, Leave, In
<1>8. faults' \in 0..MaxFaults /\ late' \subseteq DockerCommands
  <2>1. {<<"rm", row.box>>} \in SUBSET DockerCommands
    BY <1>0, <1>1 DEF DockerCommands, Boxes
  <2>2. faults \in 0..MaxFaults /\ late \subseteq DockerCommands
    BY DEF RuntimeCore, RuntimeTypeOK
  <2> QED
    BY <2>1, <2>2, LeavingBehind DEF CreateBox
<1>4. RuntimeTypeOK'
  BY <1>1, <1>2, <1>3, <1>8 DEF RuntimeCore, RuntimeTypeOK
<1>5. RuntimeLock' /\ RowsNameBoxes' /\ ListingsAreGone'
  BY <1>1, <1>2, <1>3 DEF RuntimeCore, RuntimeLock, RowsNameBoxes, ListingsAreGone, In, InLock
<1>6. UsersShareOne' /\ OneContainer'
  BY <1>1, <1>2, <1>3
  DEF RuntimeCore, RuntimeLock, UsersShareOne, OneContainer, Occupants, Followed, In, InLock, Executing, Recovering
<1>7. RecoversAlone' /\ MadeAlone' /\ MarksAreKept'
  BY <1>1, <1>2, <1>3
  DEF RuntimeCore, RecoversAlone, MadeAlone, MarksAreKept, Marked, In, InLock, Executing, Recovering
<1> QED
  BY <1>1, <1>4, <1>5, <1>6, <1>7 DEF RuntimeCore

-----------------------------------------------------------------------------
(* The steps of a command that is admitted. *)

LEMMA RuntimeAdmits ==
  ASSUME RuntimeCore, NEW c \in Commands, Admit(c)
  PROVE  RuntimeCore'
<1>1. CASE Leave(c) /\ UNCHANGED <<unsynced, row, marked>>
  BY <1>1, RuntimeLeaves DEF Admit, Leave, In, InLock
<1>2. CASE ~(Leave(c) /\ UNCHANGED <<unsynced, row, marked>>)
  <2>1. /\ UNCHANGED <<boxes, remover, lost, listing, raced, faults, late>> /\ lock' = Free
        /\ unsynced' \subseteq unsynced /\ marked' = {"pending"}
        /\ row' = Row("executing", cmd[c].box)
    BY <1>2 DEF Admit
  <2>2. /\ cmd' \in [Commands -> Works] /\ \A d \in Commands \ {c} : cmd'[d] = cmd[d]
        /\ cmd[c].at = "ready" /\ cmd'[c].at = "executing" /\ cmd'[c].box = cmd[c].box
    BY <1>2, MoveWork DEF RuntimeCore, RuntimeTypeOK, Admit, In, InLock, Executing
  <2>3. /\ cmd[c].box \in 0..MaxBoxes /\ cmd[c].box # 0 /\ c \in Occupants
        /\ \A d \in Commands : ~In(d, Recovering)
    BY <2>2 DEF RuntimeCore, RuntimeTypeOK, Works, UsersShareOne, Occupants, In, RecoversAlone, Recovering
  <2>4. row' \in RuntimeRows /\ row'.box = cmd[c].box /\ row'.status = "executing"
    BY <2>1, <2>3 DEF Row, RuntimeRows
  <2>5. RuntimeTypeOK'
    BY <2>1, <2>2, <2>4 DEF RuntimeCore, RuntimeTypeOK
  <2>6. RuntimeLock' /\ RowsNameBoxes'
    BY <2>1, <2>2, <2>3, <2>4 DEF RuntimeCore, RuntimeLock, RowsNameBoxes, In, InLock
  <2>7. ListingsAreGone'
    BY <2>1, <2>3, <2>4 DEF RuntimeCore, ListingsAreGone, UsersShareOne, Followed
  <2>8. UsersShareOne' /\ OneContainer'
    BY <2>1, <2>2, <2>3, <2>4
    DEF RuntimeCore, UsersShareOne, OneContainer, Occupants, Followed, In, InLock, Executing, Recovering
  <2>9. RecoversAlone' /\ MadeAlone' /\ MarksAreKept'
    BY <2>1, <2>2, <2>3, <2>4
    DEF RuntimeCore, RuntimeLock, RecoversAlone, MadeAlone, MarksAreKept, Marked, In, InLock, Executing, Recovering
  <2> QED
    BY <2>1, <2>5, <2>6, <2>7, <2>8, <2>9 DEF RuntimeCore
<1> QED
  BY <1>1, <1>2

LEMMA RuntimeWrites ==
  ASSUME RuntimeCore, NEW c \in Commands, WriteFile(c)
  PROVE  RuntimeCore'
<1>1. /\ UNCHANGED <<row, boxes, marked, lock, cmd, remover, lost, listing, raced, faults, late>>
      /\ cmd[c].at = "executing" /\ cmd[c].box \in boxes /\ unsynced' = unsynced \cup {cmd[c].box}
  BY DEF WriteFile, In
<1>2. /\ c \in Occupants /\ \A d \in Commands : ~In(d, Recovering \cup {"creating"})
      /\ remover # "creating"
  BY <1>1 DEF RuntimeCore, Occupants, RecoversAlone, MadeAlone, In, Executing, Recovering
<1>3. RuntimeTypeOK' /\ RuntimeLock' /\ RowsNameBoxes' /\ ListingsAreGone' /\ RecoversAlone'
  BY <1>1 DEF RuntimeCore, RuntimeTypeOK, RuntimeLock, RowsNameBoxes, ListingsAreGone, RecoversAlone, In
<1>4. UsersShareOne' /\ OneContainer'
  BY <1>1, <1>2 DEF RuntimeCore, UsersShareOne, OneContainer, Occupants, Followed, In
<1>5. MadeAlone' /\ MarksAreKept'
  BY <1>1, <1>2 DEF RuntimeCore, MadeAlone, MarksAreKept, Marked, In, Executing, Recovering
<1> QED
  BY <1>1, <1>3, <1>4, <1>5 DEF RuntimeCore

LEMMA RuntimeEnds ==
  ASSUME RuntimeCore, NEW c \in Commands, EndCommand(c) \/ Interrupt(c)
  PROVE  RuntimeCore'
<1>1. /\ UNCHANGED <<row, boxes, unsynced, lock, remover, lost, listing, raced, faults, late>>
      /\ cmd[c].at = "executing" /\ marked' \in {marked, marked \cup {"failed"}}
  BY DEF EndCommand, Interrupt, In
<1>2. /\ cmd' \in [Commands -> Works] /\ \A d \in Commands \ {c} : cmd'[d] = cmd[d]
      /\ cmd'[c].at \in {"finished", "recovering", "stopping"} /\ cmd'[c].box = cmd[c].box
  BY MoveWork DEF RuntimeCore, RuntimeTypeOK, EndCommand, Interrupt, InLock, Executing, Recovering
<1>3. cmd'[c].at = "recovering" => \A d \in Commands \ {c} : cmd[d].at = "idle"
  <2>1. CASE ActiveCommands <= 1
    BY <1>1, <2>1, OneIsActive DEF In
  <2>2. CASE ~(ActiveCommands <= 1)
    BY <2>2, MoveWork DEF RuntimeCore, RuntimeTypeOK, EndCommand, Interrupt, InLock, Executing, Recovering
  <2> QED
    BY <2>1, <2>2
<1>4. RuntimeTypeOK'
  BY <1>1, <1>2 DEF RuntimeCore, RuntimeTypeOK
<1>5. RuntimeLock' /\ RowsNameBoxes' /\ ListingsAreGone'
  BY <1>1, <1>2 DEF RuntimeCore, RuntimeLock, RowsNameBoxes, ListingsAreGone, In, InLock
<1>6. UsersShareOne' /\ OneContainer'
  BY <1>1, <1>2 DEF RuntimeCore, UsersShareOne, OneContainer, Occupants, Followed, In, InLock, Executing, Recovering
<1>7. RecoversAlone' /\ MadeAlone' /\ MarksAreKept'
  BY <1>1, <1>2, <1>3
  DEF RuntimeCore, RecoversAlone, MadeAlone, MarksAreKept, Marked, In, InLock, Executing, Recovering
<1> QED
  BY <1>1, <1>4, <1>5, <1>6, <1>7 DEF RuntimeCore

\* The last command that executes brings its files to the host before it takes the marks.
LEMMA RuntimeSyncs ==
  ASSUME RuntimeCore, NEW c \in Commands, SyncFiles(c)
  PROVE  RuntimeCore'
<1>0. cmd[c].at = "finished" /\ lock = Free /\ c \in Occupants
  BY DEF SyncFiles, In, Occupants, Executing
<1>1. CASE marked' = marked \cup {"failed"} /\ UNCHANGED <<row, unsynced>>
  BY <1>0, <1>1, RuntimeLeaves DEF SyncFiles, In, InLock, Executing, Recovering
<1>2. CASE ~(marked' = marked \cup {"failed"} /\ UNCHANGED <<row, unsynced>>)
  <2>1. /\ UNCHANGED <<boxes, lock, remover, lost, listing, raced, faults, late>>
        /\ row' = Row("running", cmd[c].box)
        /\ \/ UNCHANGED <<unsynced, marked>>
           \/ RunningCommands = 1 /\ unsynced' = unsynced \ {cmd[c].box} /\ marked' = {}
    BY <1>2 DEF SyncFiles
  <2>2. cmd' \in [Commands -> Works] /\ cmd'[c].at = "idle" /\ \A d \in Commands \ {c} : cmd'[d] = cmd[d]
    BY PutWork, NullWorksAndRows DEF SyncFiles, RuntimeCore, RuntimeTypeOK
  <2>3. /\ cmd[c].box \in 0..MaxBoxes /\ cmd[c].box # 0 /\ unsynced \subseteq {cmd[c].box}
        /\ \A d \in Commands : ~In(d, InLock)
    BY <1>0 DEF RuntimeCore, RuntimeTypeOK, Works, UsersShareOne, RuntimeLock
  <2>4. row' \in RuntimeRows /\ row'.box = cmd[c].box /\ row'.status = "running"
    BY <2>1, <2>3 DEF Row, RuntimeRows
  <2>5. \/ UNCHANGED <<unsynced, marked>>
        \/ unsynced' = {} /\ marked' = {} /\ \A d \in Commands \ {c} : ~In(d, Executing)
    BY <1>0, <2>1, <2>3, OneRuns DEF In, Executing
  <2>6. RuntimeTypeOK'
    BY <2>1, <2>2, <2>4 DEF RuntimeCore, RuntimeTypeOK
  <2>7. RuntimeLock' /\ RowsNameBoxes'
    BY <2>1, <2>2, <2>3, <2>4 DEF RuntimeCore, RuntimeLock, RowsNameBoxes, In, InLock
  <2>8. ListingsAreGone'
    BY <1>0, <2>1, <2>3, <2>4 DEF RuntimeCore, ListingsAreGone, UsersShareOne, Followed
  <2>9. UsersShareOne' /\ OneContainer'
    BY <1>0, <2>1, <2>2, <2>3, <2>4, <2>5
    DEF RuntimeCore, UsersShareOne, OneContainer, Occupants, Followed, In, InLock, Executing, Recovering
  <2>10. RecoversAlone' /\ MadeAlone' /\ MarksAreKept'
    BY <1>0, <2>1, <2>2, <2>3, <2>4, <2>5
    DEF RuntimeCore, RecoversAlone, MadeAlone, MarksAreKept, Marked, In, InLock, Executing, Recovering
  <2> QED
    BY <2>1, <2>6, <2>7, <2>8, <2>9, <2>10 DEF RuntimeCore
<1> QED
  BY <1>1, <1>2

LEMMA RuntimeInterrupted ==
  ASSUME RuntimeCore, NEW c \in Commands, Interrupted(c)
  PROVE  RuntimeCore'
<1>1. /\ UNCHANGED <<marked, lock, remover, listing, raced, faults, late>>
      /\ boxes' \subseteq boxes /\ unsynced' \subseteq unsynced /\ lost' \subseteq lost \cup {"interruption"}
      /\ unsynced' \subseteq boxes' /\ cmd[c].at = "stopping" /\ c \in Occupants
  BY DEF Interrupted, RemoveContainer, RuntimeCore, RuntimeTypeOK, In, Occupants, Executing
<1>2. cmd' \in [Commands -> Works] /\ cmd'[c].at = "idle" /\ \A d \in Commands \ {c} : cmd'[d] = cmd[d]
  BY PutWork, NullWorksAndRows DEF Interrupted, RuntimeCore, RuntimeTypeOK
<1>3. cmd[c].box \in 0..MaxBoxes /\ cmd[c].box # 0 /\ unsynced \subseteq {cmd[c].box}
  BY <1>1 DEF RuntimeCore, RuntimeTypeOK, Works, UsersShareOne
<1>4. row' \in RuntimeRows /\ row'.box = cmd[c].box
  BY <1>3 DEF Interrupted, Row, RuntimeRows
<1>5. RuntimeTypeOK'
  BY <1>1, <1>2, <1>4 DEF RuntimeCore, RuntimeTypeOK
<1>6. RuntimeLock' /\ RowsNameBoxes'
  BY <1>1, <1>2, <1>3, <1>4 DEF RuntimeCore, RuntimeLock, RowsNameBoxes, In, InLock
<1>7. ListingsAreGone'
  BY <1>1, <1>3, <1>4 DEF RuntimeCore, ListingsAreGone, UsersShareOne, Followed
<1>8. UsersShareOne' /\ OneContainer'
  BY <1>1, <1>2, <1>3, <1>4
  DEF RuntimeCore, UsersShareOne, OneContainer, Occupants, Followed, In, InLock, Executing, Recovering
<1>9. RecoversAlone' /\ MadeAlone' /\ MarksAreKept'
  BY <1>1, <1>2, <1>3, <1>4
  DEF RuntimeCore, RecoversAlone, MadeAlone, MarksAreKept, Marked, In, InLock, Executing, Recovering
<1> QED
  BY <1>1, <1>5, <1>6, <1>7, <1>8, <1>9 DEF RuntimeCore

\* The recovery captures the files, takes its marker and removes the container of the row.
LEMMA RuntimeCaptures ==
  ASSUME RuntimeCore, NEW c \in Commands, RecoverySync(c)
  PROVE  RuntimeCore'
<1>1. CASE marked' = marked \cup {"failed"} /\ Put(c, Asleep) /\ UNCHANGED unsynced
  BY <1>1, RuntimeLeaves DEF RecoverySync, In, InLock, Executing, Recovering
<1>2. CASE ~(marked' = marked \cup {"failed"} /\ Put(c, Asleep) /\ UNCHANGED unsynced)
  <2>1. /\ UNCHANGED <<row, boxes, marked, lock, remover, lost, listing, raced, faults, late>>
        /\ cmd[c].at = "recovering" /\ c \in Occupants /\ unsynced' = unsynced \ {cmd[c].box}
    BY <1>2 DEF RecoverySync, In, Occupants, Executing, Recovering
  <2>2. /\ cmd' \in [Commands -> Works] /\ \A d \in Commands \ {c} : cmd'[d] = cmd[d]
        /\ cmd'[c].at = "captured" /\ cmd'[c].box = cmd[c].box
    BY <1>2, MoveWork DEF RuntimeCore, RuntimeTypeOK, RecoverySync, Executing, Recovering
  <2>3. unsynced' = {} /\ \A d \in Commands \ {c} : In(d, {"idle", "queued"})
    BY <2>1 DEF RuntimeCore, UsersShareOne, RecoversAlone, In, Recovering
  <2>4. RuntimeTypeOK'
    BY <2>1, <2>2, <2>3 DEF RuntimeCore, RuntimeTypeOK
  <2>5. RuntimeLock' /\ RowsNameBoxes' /\ ListingsAreGone'
    BY <2>1, <2>2 DEF RuntimeCore, RuntimeLock, RowsNameBoxes, ListingsAreGone, In, InLock
  <2>6. UsersShareOne' /\ OneContainer'
    BY <2>1, <2>2, <2>3
    DEF RuntimeCore, UsersShareOne, OneContainer, Occupants, Followed, In, InLock, Executing, Recovering
  <2>7. RecoversAlone' /\ MadeAlone' /\ MarksAreKept'
    BY <2>1, <2>2, <2>3
    DEF RuntimeCore, RecoversAlone, MadeAlone, MarksAreKept, Marked, In, InLock, Executing, Recovering
  <2> QED
    BY <2>1, <2>4, <2>5, <2>6, <2>7 DEF RuntimeCore
<1> QED
  BY <1>1, <1>2

LEMMA RuntimeClears ==
  ASSUME RuntimeCore, NEW c \in Commands, RecoveryClears(c)
  PROVE  RuntimeCore'
<1>1. /\ UNCHANGED <<row, boxes, unsynced, lock, remover, lost, listing, raced, faults, late>>
      /\ cmd[c].at = "captured" /\ marked' = marked \ {"pending"}
      /\ Put(c, IF "failed" \in marked THEN Asleep ELSE Work("removing", row.box, cmd[c].again))
  BY DEF RecoveryClears, In
<1>2. /\ unsynced = {} /\ row.box # 0 /\ \A d \in Commands \ {c} : In(d, {"idle", "queued"})
  BY <1>1 DEF RuntimeCore, MarksAreKept, RecoversAlone, In, Executing, Recovering
<1>3. /\ cmd' \in [Commands -> Works] /\ \A d \in Commands \ {c} : cmd'[d] = cmd[d]
      /\ cmd'[c].at = "idle" \/ (cmd'[c].at = "removing" /\ cmd'[c].box = row.box)
  <2>1. cmd[c].again \in BOOLEAN /\ row.box \in 0..MaxBoxes
    BY DEF RuntimeCore, RuntimeTypeOK, Works, RuntimeRows
  <2>2. /\ Work("removing", row.box, cmd[c].again) \in Works
        /\ Work("removing", row.box, cmd[c].again).at = "removing"
        /\ Work("removing", row.box, cmd[c].again).box = row.box
    BY <2>1 DEF Work, Works, Executing, Recovering
  <2> QED
    BY <1>1, <2>2, PutWork, NullWorksAndRows DEF RuntimeCore, RuntimeTypeOK
<1>4. RuntimeTypeOK'
  BY <1>1, <1>3 DEF RuntimeCore, RuntimeTypeOK
<1>5. RuntimeLock' /\ RowsNameBoxes' /\ ListingsAreGone'
  BY <1>1, <1>3 DEF RuntimeCore, RuntimeLock, RowsNameBoxes, ListingsAreGone, In, InLock
<1>6. UsersShareOne' /\ OneContainer'
  BY <1>1, <1>2, <1>3
  DEF RuntimeCore, UsersShareOne, OneContainer, Occupants, Followed, In, InLock, Executing, Recovering
<1>7. RecoversAlone' /\ MadeAlone' /\ MarksAreKept'
  BY <1>1, <1>2, <1>3
  DEF RuntimeCore, RecoversAlone, MadeAlone, MarksAreKept, Marked, In, InLock, Executing, Recovering
<1> QED
  BY <1>1, <1>4, <1>5, <1>6, <1>7 DEF RuntimeCore

LEMMA RuntimeRecovers ==
  ASSUME RuntimeCore, NEW c \in Commands, RecoveryRemoves(c)
  PROVE  RuntimeCore'
<1>1. /\ UNCHANGED <<marked, lock, remover, listing, raced, faults, late>>
      /\ cmd[c].at = "removing" /\ c \in Occupants
      /\ boxes' = boxes \ {cmd[c].box} /\ unsynced' = unsynced \ {cmd[c].box}
      /\ cmd[c].box \notin unsynced => lost' = lost
      /\ row' = IF cmd[c].box = 0 THEN row ELSE Row("collected", cmd[c].box)
  BY DEF RecoveryRemoves, RemoveContainer, In, Occupants, Executing, Recovering
<1>2. /\ cmd[c].box \in 0..MaxBoxes /\ cmd[c].box # 0 /\ unsynced = {} /\ Followed(cmd[c].box)
      /\ \A d \in Commands \ {c} : In(d, {"idle", "queued"})
  BY <1>1 DEF RuntimeCore, RuntimeTypeOK, Works, UsersShareOne, MarksAreKept, RecoversAlone, In, Recovering
<1>3. cmd' \in [Commands -> Works] /\ cmd'[c].at = "queued" /\ \A d \in Commands \ {c} : cmd'[d] = cmd[d]
  <2>1. Work("queued", 0, TRUE) \in Works /\ Work("queued", 0, TRUE).at = "queued"
    BY DEF Work, Works
  <2> QED
    BY <2>1, PutWork DEF RecoveryRemoves, RuntimeCore, RuntimeTypeOK
<1>4. row' \in RuntimeRows /\ row'.box = cmd[c].box
  BY <1>1, <1>2 DEF Row, RuntimeRows
<1>5. RuntimeTypeOK'
  BY <1>1, <1>2, <1>3, <1>4 DEF RuntimeCore, RuntimeTypeOK
<1>6. RuntimeLock' /\ RowsNameBoxes'
  BY <1>1, <1>2, <1>3, <1>4 DEF RuntimeCore, RuntimeLock, RowsNameBoxes, In, InLock
<1>7. ListingsAreGone'
  BY <1>1, <1>2, <1>4 DEF RuntimeCore, ListingsAreGone, Followed
<1>8. UsersShareOne' /\ OneContainer'
  BY <1>1, <1>2, <1>3, <1>4
  DEF RuntimeCore, UsersShareOne, OneContainer, Occupants, Followed, In, InLock, Executing, Recovering
<1>9. RecoversAlone' /\ MadeAlone' /\ MarksAreKept'
  BY <1>1, <1>2, <1>3, <1>4
  DEF RuntimeCore, RecoversAlone, MadeAlone, MarksAreKept, Marked, In, InLock, Executing, Recovering
<1> QED
  BY <1>1, <1>2, <1>5, <1>6, <1>7, <1>8, <1>9 DEF RuntimeCore

-----------------------------------------------------------------------------
(* The steps of the API, of those who look, and of the machine. *)

LEMMA RuntimeRemoves ==
  ASSUME RuntimeCore, RemoveBox, "recovery" \notin raced'
  PROVE  RuntimeCore'
<1>1. /\ UNCHANGED <<marked, cmd, listing, faults, late, raced>> /\ lock = Free
      /\ \A d \in Commands : ~In(d, Recovering)
  BY DEF RemoveBox, Overlap
<1>2. CASE row.box # 0 /\ Marked
  <2>1. UNCHANGED <<row, boxes, unsynced, lock, lost>> /\ remover' = "none"
    BY <1>2 DEF RemoveBox
  <2>2. RuntimeTypeOK' /\ RuntimeLock' /\ RowsNameBoxes' /\ ListingsAreGone' /\ RecoversAlone'
    BY <1>1, <2>1
    DEF RuntimeCore, RuntimeTypeOK, RuntimeLock, RowsNameBoxes, ListingsAreGone, RecoversAlone, In
  <2>3. UsersShareOne' /\ OneContainer' /\ MadeAlone' /\ MarksAreKept'
    BY <1>1, <2>1
    DEF RuntimeCore, UsersShareOne, OneContainer, Occupants, Followed, MadeAlone, MarksAreKept, Marked, In
  <2> QED
    BY <1>1, <2>1, <2>2, <2>3 DEF RuntimeCore
<1>3. CASE ~(row.box # 0 /\ Marked)
  <2>1. /\ RemoveContainer(row.box, "removal")
        /\ \/ /\ row.box < MaxBoxes /\ row' = Row("provisioning", row.box + 1)
              /\ remover' = "creating" /\ lock' = "api"
           \/ remover' = "none" /\ lock' = Free /\ row' \in {NoRow, Collected}
    BY <1>3 DEF RemoveBox
  <2>2. /\ ~Marked /\ unsynced = {} /\ unsynced' = {} /\ lost' = lost /\ boxes' = boxes \ {row.box}
        /\ \A d \in Commands : ~In(d, Executing \cup InLock)
    BY <1>1, <1>3, <2>1
    DEF RuntimeCore, MarksAreKept, RuntimeLock, RemoveContainer, In, Executing, Recovering, InLock
  <2>3. row.box \in 0..MaxBoxes
    BY DEF RuntimeCore, RuntimeTypeOK, RuntimeRows
  <2>4. /\ row' \in RuntimeRows
        /\ row'.status # "missing" => row'.box # 0
        /\ remover' = "creating" => row'.box # 0
        /\ row'.box \in {0, row.box, row.box + 1}
    <3>1. CASE row' = Row("provisioning", row.box + 1) /\ row.box < MaxBoxes
      BY <2>3, <3>1 DEF Row, RuntimeRows
    <3>2. CASE row' \in {NoRow, Collected} /\ remover' = "none"
      BY <3>2, NullWorksAndRows, CollectedIs DEF RuntimeCore, RuntimeTypeOK, RowsNameBoxes
    <3> QED
      BY <2>1, <3>1, <3>2
  <2>5. RuntimeTypeOK'
    BY <1>1, <2>1, <2>2, <2>4 DEF RuntimeCore, RuntimeTypeOK
  <2>6. RuntimeLock' /\ RowsNameBoxes' /\ ListingsAreGone'
    BY <1>1, <2>1, <2>2, <2>3, <2>4
    DEF RuntimeCore, RuntimeLock, RowsNameBoxes, ListingsAreGone, In, InLock
  <2>7. UsersShareOne' /\ OneContainer' /\ RecoversAlone'
    BY <1>1, <2>2
    DEF RuntimeCore, UsersShareOne, OneContainer, RecoversAlone, Occupants, Followed, In, InLock, Executing, Recovering
  <2>8. MadeAlone' /\ MarksAreKept'
    BY <1>1, <2>1, <2>2 DEF RuntimeCore, MadeAlone, MarksAreKept, Marked, In, InLock, Executing, Recovering
  <2> QED
    BY <1>1, <2>2, <2>5, <2>6, <2>7, <2>8 DEF RuntimeCore
<1> QED
  BY <1>2, <1>3

LEMMA RuntimeRebuilds ==
  ASSUME RuntimeCore, Ask2Remove("collect") \/ Ask2Remove("rebuild") \/ Ask2Remove("delete") \/ Rebuild
  PROVE  RuntimeCore'
<1>1. CASE remover = "none"
  <2>1. /\ UNCHANGED <<row, boxes, unsynced, marked, lock, cmd, lost, listing, raced, faults, late>>
        /\ remover' \in {"collect", "rebuild", "delete"}
    BY <1>1 DEF Ask2Remove, Rebuild
  <2>2. RuntimeTypeOK' /\ RuntimeLock' /\ RowsNameBoxes' /\ ListingsAreGone' /\ RecoversAlone'
    BY <2>1
    DEF RuntimeCore, RuntimeTypeOK, RuntimeLock, RowsNameBoxes, ListingsAreGone, RecoversAlone, In
  <2>3. UsersShareOne' /\ OneContainer' /\ MadeAlone' /\ MarksAreKept'
    BY <2>1 DEF RuntimeCore, UsersShareOne, OneContainer, Occupants, Followed, MadeAlone, MarksAreKept, Marked, In
  <2> QED
    BY <2>1, <2>2, <2>3 DEF RuntimeCore
<1>2. CASE remover # "none"
  <2>1. /\ UNCHANGED <<unsynced, marked, cmd, lost, listing, raced>>
        /\ remover = "creating" /\ remover' = "none" /\ lock' = Free /\ (Created \/ NotCreated)
        /\ UNCHANGED <<faults, late>> \/ LeftBehind({<<"rm", row.box>>})
    BY <1>2 DEF Ask2Remove, Rebuild
  <2>2. /\ unsynced = {} /\ row.box # 0 /\ lock = "api"
        /\ \A d \in Commands : ~In(d, Executing) /\ ~In(d, InLock)
    BY <2>1 DEF RuntimeCore, MadeAlone, RowsNameBoxes, RuntimeLock
  <2>3. /\ row' \in RuntimeRows /\ row'.box = row.box /\ row'.status \in {"running", "failed"}
        /\ boxes \subseteq boxes' /\ boxes' \subseteq boxes \cup {row.box} /\ boxes' \subseteq Boxes
    BY <2>1, <2>2, MadeRow
  <2>6. faults' \in 0..MaxFaults /\ late' \subseteq DockerCommands
    <3>1. faults \in 0..MaxFaults /\ late \subseteq DockerCommands /\ row.box \in 0..MaxBoxes
      BY DEF RuntimeCore, RuntimeTypeOK, RuntimeRows
    <3>2. {<<"rm", row.box>>} \in SUBSET DockerCommands
      BY <2>2, <3>1 DEF DockerCommands, Boxes
    <3> QED
      BY <2>1, <3>1, <3>2, LeavingBehind
  <2>4. RuntimeTypeOK' /\ RuntimeLock' /\ RowsNameBoxes' /\ ListingsAreGone' /\ RecoversAlone'
    BY <2>1, <2>2, <2>3, <2>6
    DEF RuntimeCore, RuntimeTypeOK, RuntimeLock, RowsNameBoxes, ListingsAreGone, RecoversAlone, In, InLock
  <2>5. UsersShareOne' /\ OneContainer' /\ MadeAlone' /\ MarksAreKept'
    BY <2>1, <2>2, <2>3
    DEF RuntimeCore, UsersShareOne, OneContainer, Occupants, Followed, MadeAlone, MarksAreKept, Marked, In, InLock,
        Executing, Recovering
  <2> QED
    BY <2>1, <2>4, <2>5 DEF RuntimeCore
<1> QED
  BY <1>1, <1>2

\* A rebuild, a collection or a deletion is cut off while docker works for it.
LEMMA RuntimeCutsOffApi ==
  ASSUME RuntimeCore, CutOffApi, "recovery" \notin raced'
  PROVE  RuntimeCore'
<1>1. /\ UNCHANGED <<row, boxes, unsynced, marked, cmd, lost, listing, raced>>
      /\ remover' = "none" /\ lock' = Free
      /\ remover = "creating" \/ lock = Free
      /\ \A c \in Commands : ~In(c, InLock)
  BY DEF CutOffApi, AwaitedByApi, Overlap, RuntimeCore, RuntimeLock
<1>2. faults' \in 0..MaxFaults /\ late' \subseteq DockerCommands
  <2>1. PICK docker \in AwaitedByApi : LeftBehind({docker})
    BY DEF CutOffApi
  <2>2. {docker} \in SUBSET DockerCommands
    BY DEF AwaitedByApi
  <2> QED
    BY <2>1, <2>2, LeavingBehind DEF RuntimeCore, RuntimeTypeOK
<1>3. RuntimeTypeOK' /\ RuntimeLock' /\ RowsNameBoxes' /\ ListingsAreGone' /\ RecoversAlone'
  BY <1>1, <1>2
  DEF RuntimeCore, RuntimeTypeOK, RuntimeLock, RowsNameBoxes, ListingsAreGone, RecoversAlone, In
<1>4. UsersShareOne' /\ OneContainer' /\ MadeAlone' /\ MarksAreKept'
  BY <1>1 DEF RuntimeCore, UsersShareOne, OneContainer, Occupants, Followed, MadeAlone, MarksAreKept, Marked, In
<1> QED
  BY <1>1, <1>3, <1>4 DEF RuntimeCore

\* A listing that is stale writes the row of a container that is gone, as failed.
LEMMA RuntimeLooks ==
  ASSUME RuntimeCore, ViewRead \/ ViewWrite
  PROVE  RuntimeCore'
<1>1. /\ UNCHANGED <<boxes, unsynced, marked, lock, cmd, remover, lost, faults, late>>
      /\ raced \subseteq raced' /\ raced' \subseteq raced \cup {"view"}
  BY DEF ViewRead, ViewWrite
<1>2. /\ row' \in RuntimeRows /\ listing' \in RuntimeRows
      /\ row'.status # "missing" => row'.box # 0
      /\ listing' # NoRow => listing'.box # 0 /\ listing'.box = row'.box
      /\ row.box # 0 => row'.box # 0
      /\ row'.box # row.box => row'.box \notin boxes /\ row'.status = "failed" /\ raced' # {}
      /\ row.status = "failed" /\ row.box \notin boxes => row'.box \notin boxes /\ row'.status = "failed"
  <2>1. CASE UNCHANGED row
    BY <2>1, NullWorksAndRows
    DEF RuntimeCore, RuntimeTypeOK, RowsNameBoxes, ListingsAreGone, ViewRead, ViewWrite
  <2>2. CASE row' # row
    <3>1. /\ listing # NoRow /\ listing' = NoRow /\ row' = Refreshed(listing) /\ Refreshed(listing) # listing
          /\ row.box # listing.box => "view" \in raced'
          /\ listing.box # 0
      BY <2>2 DEF ViewRead, ViewWrite, RuntimeCore, RowsNameBoxes
    <3>2. /\ row' \in RuntimeRows /\ row'.box = listing.box
          /\ listing.box \notin boxes => row'.status = "failed"
      BY <3>1, RefreshedRow DEF RuntimeCore, RuntimeTypeOK
    <3>3. row.box # listing.box => listing.box \notin boxes
      BY <3>1 DEF RuntimeCore, ListingsAreGone
    <3> QED
      BY <3>1, <3>2, <3>3, NullWorksAndRows
  <2> QED
    BY <2>1, <2>2
<1>3. RuntimeTypeOK'
  BY <1>1, <1>2 DEF RuntimeCore, RuntimeTypeOK
<1>4. RuntimeLock' /\ RowsNameBoxes' /\ ListingsAreGone'
  BY <1>1, <1>2 DEF RuntimeCore, RuntimeLock, RowsNameBoxes, ListingsAreGone, In
<1>5. UsersShareOne' /\ OneContainer'
  BY <1>1, <1>2 DEF RuntimeCore, UsersShareOne, OneContainer, Occupants, Followed, In
<1>6. RecoversAlone' /\ MadeAlone' /\ MarksAreKept'
  BY <1>1, <1>2 DEF RuntimeCore, RecoversAlone, MadeAlone, MarksAreKept, Marked, In
<1> QED
  BY <1>1, <1>3, <1>4, <1>5, <1>6 DEF RuntimeCore

LEMMA RuntimeFaults ==
  ASSUME RuntimeCore, ApiRestart \/ \E b \in Boxes : BoxDies(b) \/ LateRemoval(b)
  PROVE  RuntimeCore'
<1>1. CASE ApiRestart
  <2>5. faults' \in 0..MaxFaults /\ late' \subseteq DockerCommands
    <3>1. PICK left \in SUBSET (AwaitedByApi \cup UNION {Awaited(c) : c \in Commands}) : LeftBehind(left)
      BY <1>1 DEF ApiRestart
    <3>2. left \in SUBSET DockerCommands
      BY DEF AwaitedByApi, Awaited
    <3> QED
      BY <3>1, <3>2, LeavingBehind DEF RuntimeCore, RuntimeTypeOK
  <2>1. /\ UNCHANGED <<row, boxes, unsynced, marked, lost, raced>>
        /\ lock' = Free /\ remover' = "none" /\ listing' = NoRow
        /\ cmd' \in [Commands -> Works] /\ \A d \in Commands : cmd'[d].at = "idle"
    BY <1>1, NullWorksAndRows DEF ApiRestart, RuntimeCore, RuntimeTypeOK
  <2>2. RuntimeTypeOK'
    BY <2>1, <2>5, NullWorksAndRows DEF RuntimeCore, RuntimeTypeOK
  <2>3. RuntimeLock' /\ RowsNameBoxes' /\ ListingsAreGone' /\ RecoversAlone'
    BY <2>1 DEF RuntimeCore, RuntimeLock, RowsNameBoxes, ListingsAreGone, RecoversAlone, In, InLock, Recovering
  <2>4. UsersShareOne' /\ OneContainer' /\ MadeAlone' /\ MarksAreKept'
    BY <2>1
    DEF RuntimeCore, UsersShareOne, OneContainer, Occupants, Followed, MadeAlone, MarksAreKept, Marked, In, Executing,
        Recovering
  <2> QED
    BY <2>1, <2>2, <2>3, <2>4 DEF RuntimeCore
<1>2. ASSUME NEW b \in Boxes, BoxDies(b) \/ LateRemoval(b) PROVE RuntimeCore'
  <2>1. /\ UNCHANGED <<row, marked, lock, cmd, remover, listing, raced>>
        /\ faults' \in 0..MaxFaults /\ late' \subseteq DockerCommands
        /\ boxes' = boxes \ {b} /\ unsynced' = unsynced \ {b} /\ lost' \subseteq lost \cup {"fault", "late"}
    BY <1>2 DEF BoxDies, LateRemoval, RemoveContainer, RuntimeCore, RuntimeTypeOK
  <2>2. RuntimeTypeOK'
    BY <2>1 DEF RuntimeCore, RuntimeTypeOK
  <2>3. RuntimeLock' /\ RowsNameBoxes' /\ ListingsAreGone' /\ RecoversAlone'
    BY <2>1 DEF RuntimeCore, RuntimeLock, RowsNameBoxes, ListingsAreGone, RecoversAlone, In
  <2>4. UsersShareOne' /\ OneContainer' /\ MadeAlone' /\ MarksAreKept'
    BY <2>1
    DEF RuntimeCore, UsersShareOne, OneContainer, Occupants, Followed, MadeAlone, MarksAreKept, Marked, In
  <2> QED
    BY <2>1, <2>2, <2>3, <2>4 DEF RuntimeCore
<1> QED
  BY <1>1, <1>2

\* A container that docker makes too late is that of the row, or it is noted.
LEMMA RuntimeRunsLate ==
  ASSUME RuntimeCore, NEW b \in Boxes, LateRun(b), "late" \notin raced'
  PROVE  RuntimeCore'
<1>1. /\ UNCHANGED <<row, unsynced, marked, lock, cmd, remover, lost, listing, faults, raced>>
      /\ late' \subseteq DockerCommands
      /\ boxes' = boxes \/ (boxes' = boxes \cup {b} /\ raced = {} /\ row.box = b)
  BY DEF LateRun, RuntimeCore, RuntimeTypeOK
<1>2. RuntimeTypeOK' /\ RuntimeLock' /\ RowsNameBoxes' /\ ListingsAreGone' /\ RecoversAlone'
  BY <1>1
  DEF RuntimeCore, RuntimeTypeOK, RuntimeLock, RowsNameBoxes, ListingsAreGone, RecoversAlone, In
<1>3. UsersShareOne' /\ OneContainer' /\ MadeAlone' /\ MarksAreKept'
  BY <1>1
  DEF RuntimeCore, RuntimeTypeOK, UsersShareOne, OneContainer, Occupants, Followed, MadeAlone, MarksAreKept, Marked, In
<1> QED
  BY <1>1, <1>2, <1>3 DEF RuntimeCore

-----------------------------------------------------------------------------
LEMMA RuntimeStart == RuntimeInit => RuntimeInv
<1> SUFFICES ASSUME RuntimeInit PROVE RuntimeCore
  BY DEF RuntimeInv
<1>1. \A c \in Commands : cmd[c].at = "idle"
  BY NullWorksAndRows DEF RuntimeInit
<1>2. RuntimeTypeOK
  BY NullWorksAndRows DEF RuntimeInit, RuntimeTypeOK
<1>3. RuntimeLock /\ RowsNameBoxes /\ ListingsAreGone /\ RecoversAlone
  BY <1>1, NullWorksAndRows
  DEF RuntimeInit, RuntimeLock, RowsNameBoxes, ListingsAreGone, RecoversAlone, In, InLock, Recovering
<1>4. UsersShareOne /\ OneContainer /\ MadeAlone /\ MarksAreKept
  BY <1>1 DEF RuntimeInit, UsersShareOne, OneContainer, Occupants, MadeAlone, MarksAreKept, Marked, In, Executing,
     Recovering
<1> QED
  BY <1>2, <1>3, <1>4 DEF RuntimeInit, RuntimeCore

\* What was raced stays so.
LEMMA RacedStays == RuntimeNext => raced \subseteq raced'
<1> SUFFICES ASSUME RuntimeNext PROVE raced \subseteq raced'
  OBVIOUS
<1>1. raced \subseteq Overlap
  BY DEF Overlap
<1>2. ASSUME NEW c \in Commands,
             \/ Enter(c) \/ Take(c) \/ GiveUpWaiting(c) \/ Resync(c) \/ Reuse(c) \/ ReplaceBox(c)
             \/ WaitForOthers(c) \/ CreateBox(c) \/ Admit(c) \/ WriteFile(c) \/ EndCommand(c)
             \/ SyncFiles(c) \/ Interrupt(c) \/ Interrupted(c) \/ GiveUpSync(c)
             \/ RecoverySync(c) \/ RecoveryClears(c) \/ RecoveryRemoves(c) \/ CutOff(c)
      PROVE  raced \subseteq raced'
  BY <1>1, <1>2
  DEF Enter, Take, GiveUpWaiting, Resync, Reuse, ReplaceBox, WaitForOthers, CreateBox, Admit, WriteFile,
      EndCommand, SyncFiles, Interrupt, Interrupted, GiveUpSync, RecoverySync, RecoveryClears, RecoveryRemoves, CutOff
<1>3. ASSUME \/ \E kind \in {"collect", "rebuild", "delete"} : Ask2Remove(kind)
             \/ RemoveBox \/ Rebuild \/ CutOffApi \/ ViewRead \/ ViewWrite \/ ApiRestart
             \/ \E b \in Boxes : BoxDies(b) \/ LateRun(b) \/ LateRemoval(b)
      PROVE  raced \subseteq raced'
  BY <1>1, <1>3 DEF Ask2Remove, RemoveBox, Rebuild, CutOffApi, ViewRead, ViewWrite, ApiRestart, BoxDies, LateRun, LateRemoval
<1> QED
  BY <1>2, <1>3 DEF RuntimeNext

LEMMA RuntimeStep == RuntimeInv /\ [RuntimeNext]_runtimeVars => RuntimeInv'
<1> SUFFICES ASSUME RuntimeInv, [RuntimeNext]_runtimeVars, {"recovery", "late"} \cap raced' = {} PROVE RuntimeCore'
  BY DEF RuntimeInv
<1>1. CASE UNCHANGED runtimeVars
  <2>1. /\ UNCHANGED <<row, boxes, unsynced, marked, lock, cmd, remover, lost, listing, raced, faults, late>>
        /\ RuntimeCore
    BY <1>1 DEF runtimeVars, RuntimeInv
  <2>2. RuntimeTypeOK' /\ RuntimeLock' /\ RowsNameBoxes' /\ ListingsAreGone' /\ RecoversAlone'
    BY <2>1 DEF RuntimeCore, RuntimeTypeOK, RuntimeLock, RowsNameBoxes, ListingsAreGone, RecoversAlone, In
  <2>3. UsersShareOne' /\ OneContainer' /\ MadeAlone' /\ MarksAreKept'
    BY <2>1 DEF RuntimeCore, UsersShareOne, OneContainer, Occupants, Followed, MadeAlone, MarksAreKept, Marked, In
  <2> QED
    BY <2>1, <2>2, <2>3 DEF RuntimeCore
<1>2. CASE RuntimeNext
  <2>1. RuntimeCore
    BY <1>2, RacedStays DEF RuntimeInv
  <2>2. ASSUME NEW c \in Commands,
               \/ Enter(c) \/ Take(c) \/ GiveUpWaiting(c) \/ Resync(c) \/ Reuse(c) \/ ReplaceBox(c)
               \/ WaitForOthers(c) \/ CreateBox(c) \/ Admit(c) \/ WriteFile(c) \/ EndCommand(c)
               \/ SyncFiles(c) \/ Interrupt(c) \/ Interrupted(c) \/ GiveUpSync(c)
               \/ RecoverySync(c) \/ RecoveryClears(c) \/ RecoveryRemoves(c) \/ CutOff(c)
        PROVE  RuntimeCore'
    BY <2>1, <2>2, RuntimeEnters, RuntimeGivesUp, RuntimeTakes, RuntimeResyncs, RuntimeReuses, RuntimeReplaces,
       RuntimeCreates, RuntimeAdmits, RuntimeWrites, RuntimeEnds, RuntimeSyncs, RuntimeInterrupted,
       RuntimeCaptures, RuntimeClears, RuntimeRecovers, RuntimeCutsOff
  <2> QED
    BY <1>2, <2>1, <2>2, RuntimeRemoves, RuntimeRebuilds, RuntimeCutsOffApi, RuntimeLooks,
       RuntimeFaults, RuntimeRunsLate DEF RuntimeNext
<1> QED
  BY <1>1, <1>2

\* No container is removed with files that are only in it, and none is left behind
\* (WorkspaceRuntimeService), for any number of commands that run, are interrupted, recover
\* or are cut off by a restart, and of rebuilds, collections, deletions and stale listings;
\* what docker does after who asked for it was cut off is told apart.
THEOREM RuntimesAreSafe == RuntimeSpec => []RuntimeIsSafe
<1>1. RuntimeInv => RuntimeIsSafe
  BY DEF RuntimeInv, RuntimeCore, OneContainer, RuntimeIsSafe, NothingUnsyncedIsRemoved, NoOrphanBox
<1> QED
  BY <1>1, RuntimeStart, RuntimeStep, PTL DEF RuntimeSpec

-----------------------------------------------------------------------------
(* The types of the containers' state, also when a recovery was raced. *)

Named == {"ready", "executing", "finished", "stopping", "recovering", "captured"}
RuntimeTypesInv ==
  /\ RuntimeTypeOK /\ RuntimeLock /\ RowsNameBoxes
  /\ \A c \in Commands : In(c, Named) => cmd[c].box # 0

\* Where the commands are after a step decides most of it.
LEMMA RuntimeTyped ==
  ASSUME RuntimeTypesInv, row' \in RuntimeRows, listing' \in RuntimeRows, boxes' \subseteq Boxes, unsynced' \subseteq boxes',
         marked' \subseteq {"pending", "failed"}, cmd' \in [Commands -> Works],
         lock' \in Commands \cup {"api", Free},
         remover' \in {"none", "collect", "rebuild", "delete", "creating"},
         lost' \subseteq {"fault", "interruption", "recovery", "removal", "late"},
         raced' \subseteq {"recovery", "view", "late"}, faults' \in 0..MaxFaults,
         late' \subseteq DockerCommands,
         \A c \in Commands : cmd'[c].at \in InLock => lock' = c,
         remover' = "creating" => lock' = "api" /\ row'.box # 0,
         row'.status # "missing" => row'.box # 0,
         listing' # NoRow => listing'.box # 0,
         \A c \in Commands : cmd'[c].at = "creating" => row'.box # 0,
         \A c \in Commands : cmd'[c].at \in Named => cmd'[c].box # 0
  PROVE  RuntimeTypesInv'
BY DEF RuntimeTypesInv, RuntimeTypeOK, RuntimeLock, RowsNameBoxes, In

LEMMA RuntimeTypesStart == RuntimeInit => RuntimeTypesInv
<1> SUFFICES ASSUME RuntimeInit PROVE RuntimeTypesInv
  OBVIOUS
<1>1. \A c \in Commands : cmd[c].at = "idle"
  BY NullWorksAndRows DEF RuntimeInit
<1> QED
  BY <1>1, NullWorksAndRows
  DEF RuntimeInit, RuntimeTypesInv, RuntimeTypeOK, RuntimeLock, RowsNameBoxes, In, InLock, Named

CommandPlaces == {"idle", "queued"} \cup InLock \cup Executing

LEMMA PlaceNames ==
  /\ "queued" \in CommandPlaces /\ "ensure" \in CommandPlaces /\ "provide" \in CommandPlaces /\ "creating" \in CommandPlaces
  /\ "ready" \in CommandPlaces /\ "executing" \in CommandPlaces /\ "finished" \in CommandPlaces /\ "stopping" \in CommandPlaces
  /\ "recovering" \in CommandPlaces /\ "captured" \in CommandPlaces /\ "removing" \in CommandPlaces
BY DEF CommandPlaces, InLock, Executing, Recovering

\* A command moves on and keeps its container, is given another place, or leaves.
LEMMA RuntimeMoves ==
  ASSUME RuntimeTypesInv, NEW c \in Commands, NEW place \in CommandPlaces, Move(c, place)
  PROVE  /\ cmd' \in [Commands -> Works] /\ cmd'[c].at = place /\ cmd'[c].box = cmd[c].box
         /\ \A d \in Commands \ {c} : cmd'[d] = cmd[d]
BY MoveWork DEF RuntimeTypesInv, RuntimeTypeOK, CommandPlaces

LEMMA RuntimePlaces ==
  ASSUME RuntimeTypesInv, NEW c \in Commands, NEW place \in CommandPlaces, NEW b \in 0..MaxBoxes, NEW again \in BOOLEAN,
         Put(c, Work(place, b, again))
  PROVE  /\ cmd' \in [Commands -> Works] /\ cmd'[c].at = place /\ cmd'[c].box = b
         /\ \A d \in Commands \ {c} : cmd'[d] = cmd[d]
<1>1. Work(place, b, again) \in Works /\ Work(place, b, again).at = place /\ Work(place, b, again).box = b
  BY WorksAndRows DEF CommandPlaces
<1> QED BY <1>1, PutWork DEF RuntimeTypesInv, RuntimeTypeOK

LEMMA RuntimeSleeps ==
  ASSUME RuntimeTypesInv, NEW c \in Commands, Put(c, Asleep)
  PROVE  /\ cmd' \in [Commands -> Works] /\ cmd'[c].at = "idle"
         /\ \A d \in Commands \ {c} : cmd'[d] = cmd[d]
BY PutWork, NullWorksAndRows DEF RuntimeTypesInv, RuntimeTypeOK

LEMMA RuntimeKnows ==
  ASSUME RuntimeTypesInv
  PROVE  /\ row \in RuntimeRows /\ row.box \in 0..MaxBoxes /\ listing \in RuntimeRows /\ listing.box \in 0..MaxBoxes
         /\ row = Row(row.status, row.box)
         /\ boxes \subseteq Boxes /\ unsynced \subseteq boxes /\ marked \subseteq {"pending", "failed"}
         /\ lock \in Commands \cup {"api", Free} /\ cmd \in [Commands -> Works]
         /\ remover \in {"none", "collect", "rebuild", "delete", "creating"}
         /\ lost \subseteq {"fault", "interruption", "recovery", "removal", "late"}
         /\ raced \subseteq {"recovery", "view", "late"} /\ Overlap \subseteq {"recovery", "view", "late"} /\ faults \in 0..MaxFaults
         /\ late \subseteq DockerCommands
         /\ \A c \in Commands : cmd[c].at \in InLock => lock = c
         /\ \A c \in Commands : /\ cmd[c].box \in 0..MaxBoxes /\ cmd[c].again \in BOOLEAN
                                /\ cmd[c].at \in {"idle", "queued"} \cup InLock \cup Executing
         /\ remover = "creating" => lock = "api" /\ row.box # 0
         /\ row.status # "missing" => row.box # 0
         /\ listing # NoRow => listing.box # 0
         /\ \A c \in Commands : cmd[c].at = "creating" => row.box # 0
         /\ \A c \in Commands : cmd[c].at \in Named => cmd[c].box # 0
BY DEF RuntimeTypesInv, RuntimeTypeOK, RuntimeLock, RowsNameBoxes, In, Works, RuntimeRows, Row, Overlap

\* The steps of one command that leave the containers and their files where they are.
LEMMA RuntimeTypesOfCommands ==
  ASSUME RuntimeTypesInv, NEW c \in Commands,
         \/ Enter(c) \/ Take(c) \/ GiveUpWaiting(c) \/ Reuse(c) \/ WaitForOthers(c)
         \/ EndCommand(c) \/ Interrupt(c) \/ GiveUpSync(c) \/ CutOff(c)
  PROVE  RuntimeTypesInv'
<1> USE RuntimeKnows
<1> DEFINE moved == cmd' \in [Commands -> Works] /\ \A d \in Commands \ {c} : cmd'[d] = cmd[d]
<1>1. CASE Enter(c)
  <2>1. moved /\ cmd'[c].at = "queued"
    BY <1>1, RuntimeMoves, RuntimePlaces, RuntimeSleeps, PlaceNames DEF Enter
  <2> QED BY <1>1, <2>1, RuntimeTyped DEF Enter, Named, InLock, Executing, Recovering
<1>2. CASE Take(c)
  <2>1. moved /\ cmd'[c].at = "ensure"
    BY <1>2, RuntimeMoves, RuntimePlaces, RuntimeSleeps, PlaceNames DEF Take
  <2>2. row' \in RuntimeRows /\ row'.box = row.box /\ (row.box = 0 => row' = row)
    BY <1>2, RefreshedRow DEF Take
  <2>3. \A d \in Commands \ {c} : d # lock /\ cmd[d].at \notin InLock
    BY <1>2 DEF Take
  <2> QED BY <1>2, <2>1, <2>2, <2>3, RuntimeTyped DEF Take, Named, InLock, Executing, Recovering
<1>3. CASE GiveUpWaiting(c)
  <2>1. moved /\ cmd'[c].at = "idle"
    BY <1>3, RuntimeMoves, RuntimePlaces, RuntimeSleeps, PlaceNames DEF GiveUpWaiting
  <2> QED BY <1>3, <2>1, RuntimeTyped DEF GiveUpWaiting, In, Named, InLock, Executing, Recovering
<1>4. CASE Reuse(c)
  <2>1. moved /\ cmd'[c].at = "ready" /\ cmd'[c].box = row.box /\ row.box # 0
    BY <1>4, RuntimeMoves, RuntimePlaces, RuntimeSleeps, PlaceNames DEF Reuse
  <2> QED BY <1>4, <2>1, RuntimeTyped DEF Reuse, In, Named, InLock, Executing, Recovering
<1>5. CASE WaitForOthers(c)
  <2>1. moved /\ cmd'[c].at = "idle"
    BY <1>5, RuntimeMoves, RuntimePlaces, RuntimeSleeps, PlaceNames DEF WaitForOthers, Leave
  <2> QED BY <1>5, <2>1, RuntimeTyped DEF WaitForOthers, Leave, In, Named, InLock, Executing, Recovering
<1>6. CASE EndCommand(c)
  <2>1. moved /\ cmd'[c].at \in {"finished", "recovering"} /\ cmd'[c].box = cmd[c].box
    BY <1>6, RuntimeMoves, RuntimePlaces, RuntimeSleeps, PlaceNames DEF EndCommand
  <2> QED BY <1>6, <2>1, RuntimeTyped DEF EndCommand, In, Named, InLock, Executing, Recovering
<1>7. CASE Interrupt(c)
  <2>1. moved /\ cmd'[c].at = "stopping" /\ cmd'[c].box = cmd[c].box
    BY <1>7, RuntimeMoves, RuntimePlaces, RuntimeSleeps, PlaceNames DEF Interrupt
  <2> QED BY <1>7, <2>1, RuntimeTyped DEF Interrupt, In, Named, InLock, Executing, Recovering
<1>8. CASE GiveUpSync(c)
  <2>1. moved /\ cmd'[c].at = "idle"
    BY <1>8, RuntimeMoves, RuntimePlaces, RuntimeSleeps, PlaceNames DEF GiveUpSync
  <2> QED BY <1>8, <2>1, RuntimeTyped DEF GiveUpSync, Named, InLock, Executing, Recovering
<1>9. CASE CutOff(c)
  <2>1. moved /\ cmd'[c].at = "idle"
    BY <1>9, RuntimeMoves, RuntimePlaces, RuntimeSleeps, PlaceNames DEF CutOff
  <2>2. PICK docker \in Awaited(c) : LeftBehind({docker})
    BY <1>9 DEF CutOff
  <2>3. {docker} \in SUBSET DockerCommands
    BY DEF Awaited
  <2>4. faults' \in 0..MaxFaults /\ late' \subseteq DockerCommands
    BY <2>2, <2>3, LeavingBehind
  <2> QED BY <1>9, <2>1, <2>4, RuntimeTyped DEF CutOff, In, Named, InLock, Executing, Recovering
<1> QED BY <1>1, <1>2, <1>3, <1>4, <1>5, <1>6, <1>7, <1>8, <1>9

\* The steps of one command that make a container, fill it, empty it or remove it.
LEMMA RuntimeTypesOfContainers ==
  ASSUME RuntimeTypesInv, NEW c \in Commands,
         \/ Resync(c) \/ ReplaceBox(c) \/ CreateBox(c) \/ Admit(c) \/ WriteFile(c) \/ SyncFiles(c)
         \/ Interrupted(c) \/ RecoverySync(c) \/ RecoveryClears(c) \/ RecoveryRemoves(c)
  PROVE  RuntimeTypesInv'
<1> USE RuntimeKnows
<1> DEFINE moved == cmd' \in [Commands -> Works] /\ \A d \in Commands \ {c} : cmd'[d] = cmd[d]
<1>1. CASE Resync(c)
  <2>1. moved /\ ((cmd'[c].at = "idle" /\ lock' = Free) \/ (cmd'[c].at = "provide" /\ lock' = lock))
    BY <1>1, RuntimeMoves, RuntimePlaces, RuntimeSleeps, PlaceNames DEF Resync, Leave
  <2> QED BY <1>1, <2>1, RuntimeTyped DEF Resync, Leave, In, Named, InLock, Executing, Recovering
<1>2. CASE ReplaceBox(c)
  <2>1. \/ /\ UNCHANGED <<row, boxes, unsynced, lost>> /\ moved /\ cmd'[c].at = "idle" /\ lock' = Free
        \/ /\ RemoveContainer(row.box, "removal") /\ row' = Row("provisioning", row.box + 1)
           /\ moved /\ cmd'[c].at = "creating" /\ lock' = lock
        \/ /\ RemoveContainer(row.box, "removal") /\ row' = Collected
           /\ moved /\ cmd'[c].at = "idle" /\ lock' = Free
    BY <1>2, RuntimeMoves, RuntimePlaces, RuntimeSleeps, PlaceNames DEF ReplaceBox, Leave
  <2>2. row.box < MaxBoxes /\ row.box + 1 \in 0..MaxBoxes /\ row.box + 1 # 0
    BY <1>2 DEF ReplaceBox
  <2>3. Row("provisioning", row.box + 1) \in RuntimeRows /\ Row("provisioning", row.box + 1).box = row.box + 1
    BY <2>2, WorksAndRows
  <2>4. /\ boxes' \subseteq Boxes /\ unsynced' \subseteq boxes'
        /\ lost' \subseteq {"fault", "interruption", "recovery", "removal", "late"}
    BY <2>1 DEF RemoveContainer
  <2>5. remover' = remover /\ remover # "creating"
    BY <1>2 DEF ReplaceBox, In, InLock
  <2>6. Collected \in RuntimeRows /\ (Collected.status # "missing" => Collected.box # 0)
    BY CollectedIs DEF RuntimeTypesInv
  <2> QED BY <1>2, <2>1, <2>2, <2>3, <2>4, <2>5, <2>6, RuntimeTyped DEF ReplaceBox, In, Named, InLock, Executing, Recovering
<1>3. CASE CreateBox(c)
  <2>1. row.box # 0 /\ row.box \in Boxes
    BY <1>3 DEF CreateBox, In, Boxes
  <2>2. \/ Created /\ moved /\ cmd'[c].at = "ready" /\ cmd'[c].box = row.box /\ lock' = lock
        \/ (Created \/ NotCreated) /\ moved /\ cmd'[c].at = "idle" /\ lock' = Free
    BY <1>3, RuntimeMoves, RuntimePlaces, RuntimeSleeps, PlaceNames DEF CreateBox, Leave
  <2>3. row' \in RuntimeRows /\ row'.box = row.box /\ boxes \subseteq boxes' /\ boxes' \subseteq Boxes
    BY <2>1, <2>2, WorksAndRows DEF Created, NotCreated
  <2>4. {<<"rm", row.box>>} \in SUBSET DockerCommands
    BY <2>1 DEF DockerCommands
  <2>5. faults' \in 0..MaxFaults /\ late' \subseteq DockerCommands
    BY <1>3, <2>4, LeavingBehind DEF CreateBox
  <2> QED BY <1>3, <2>1, <2>2, <2>3, <2>5, RuntimeTyped DEF CreateBox, In, Named, InLock, Executing, Recovering
<1>4. CASE Admit(c)
  <2>1. cmd[c].box # 0 /\ lock = c
    BY <1>4 DEF Admit, In, Named, InLock
  <2>2. \/ row' = Row("executing", cmd[c].box) /\ moved /\ cmd'[c].at = "executing" /\ cmd'[c].box = cmd[c].box
        \/ row' = row /\ moved /\ cmd'[c].at = "idle"
    BY <1>4, RuntimeMoves, RuntimePlaces, RuntimeSleeps, PlaceNames DEF Admit, Leave
  <2>3. Row("executing", cmd[c].box) \in RuntimeRows /\ Row("executing", cmd[c].box).box = cmd[c].box
    BY WorksAndRows
  <2>4. lock' = Free /\ marked' \subseteq {"pending", "failed"} /\ unsynced' \subseteq unsynced
    BY <1>4 DEF Admit, Leave
  <2>5. UNCHANGED <<boxes, remover, lost, listing, raced, faults, late>>
    BY <1>4 DEF Admit
  <2> QED BY <2>1, <2>2, <2>3, <2>4, <2>5, RuntimeTyped DEF Named, InLock, Executing, Recovering
<1>5. CASE WriteFile(c)
  BY <1>5, RuntimeTyped DEF WriteFile, In, Named, InLock, Executing, Recovering
<1>6. CASE SyncFiles(c)
  <2>1. moved /\ cmd'[c].at = "idle" /\ cmd[c].box # 0
    BY <1>6, RuntimeMoves, RuntimePlaces, RuntimeSleeps, PlaceNames DEF SyncFiles, In, Named
  <2>2. Row("running", cmd[c].box) \in RuntimeRows /\ Row("running", cmd[c].box).box = cmd[c].box
    BY WorksAndRows
  <2> QED BY <1>6, <2>1, <2>2, RuntimeTyped DEF SyncFiles, Named, InLock, Executing, Recovering
<1>7. CASE Interrupted(c)
  <2>1. moved /\ cmd'[c].at = "idle" /\ cmd[c].box # 0
    BY <1>7, RuntimeMoves, RuntimePlaces, RuntimeSleeps, PlaceNames DEF Interrupted, In, Named
  <2>2. row' \in RuntimeRows /\ row'.box = cmd[c].box
    BY <1>7, WorksAndRows DEF Interrupted
  <2>3. /\ boxes' \subseteq Boxes /\ unsynced' \subseteq boxes'
        /\ lost' \subseteq {"fault", "interruption", "recovery", "removal", "late"}
    BY <1>7 DEF Interrupted, RemoveContainer
  <2> QED BY <1>7, <2>1, <2>2, <2>3, RuntimeTyped DEF Interrupted, Named, InLock, Executing, Recovering
<1>8. CASE RecoverySync(c)
  <2>1. moved /\ cmd'[c].at \in {"idle", "captured"} /\ (cmd'[c].at = "captured" => cmd'[c].box = cmd[c].box)
        /\ cmd[c].box # 0
    BY <1>8, RuntimeMoves, RuntimePlaces, RuntimeSleeps, PlaceNames DEF RecoverySync, In, Named
  <2> QED BY <1>8, <2>1, RuntimeTyped DEF RecoverySync, Named, InLock, Executing, Recovering
<1>9. CASE RecoveryClears(c)
  <2>1. moved /\ cmd'[c].at \in {"idle", "removing"}
    BY <1>9, RuntimeMoves, RuntimePlaces, RuntimeSleeps, PlaceNames DEF RecoveryClears
  <2> QED BY <1>9, <2>1, RuntimeTyped DEF RecoveryClears, Named, InLock, Executing, Recovering
<1>10. CASE RecoveryRemoves(c)
  <2>1. moved /\ cmd'[c].at = "queued"
    <3>1. 0 \in 0..MaxBoxes /\ TRUE \in BOOLEAN
      BY RuntimeAssumption
    <3>2. Put(c, Work("queued", 0, TRUE))
      BY <1>10 DEF RecoveryRemoves
    <3> QED BY <3>1, <3>2, RuntimePlaces, PlaceNames
  <2>2. cmd[c].box # 0 => row' \in RuntimeRows /\ row'.box = cmd[c].box
    BY <1>10, WorksAndRows DEF RecoveryRemoves
  <2>3. /\ boxes' \subseteq Boxes /\ unsynced' \subseteq boxes'
        /\ lost' \subseteq {"fault", "interruption", "recovery", "removal", "late"}
    BY <1>10 DEF RecoveryRemoves, RemoveContainer
  <2>4. cmd[c].box = 0 => row' = row
    BY <1>10 DEF RecoveryRemoves
  <2> QED BY <1>10, <2>1, <2>2, <2>3, <2>4, RuntimeTyped DEF RecoveryRemoves, Named, InLock, Executing, Recovering
<1> QED BY <1>1, <1>2, <1>3, <1>4, <1>5, <1>6, <1>7, <1>8, <1>9, <1>10

\* The steps of those who remove a container, list it, or lose it.
LEMMA RuntimeTypesOfRemovals ==
  ASSUME RuntimeTypesInv,
         \/ \E kind \in {"collect", "rebuild", "delete"} : Ask2Remove(kind)
         \/ RemoveBox \/ Rebuild \/ CutOffApi \/ ViewRead \/ ViewWrite \/ ApiRestart
         \/ \E b \in Boxes : BoxDies(b) \/ LateRun(b) \/ LateRemoval(b)
  PROVE  RuntimeTypesInv'
<1> USE RuntimeKnows
<1>1. CASE \E kind \in {"collect", "rebuild", "delete"} : Ask2Remove(kind)
  BY <1>1, RuntimeTyped DEF Ask2Remove, Named, InLock, Executing, Recovering
<1>2. CASE RemoveBox
  <2>1. lock = Free /\ raced' = Overlap /\ UNCHANGED <<marked, cmd, listing, faults, late>>
    BY <1>2 DEF RemoveBox
  <2>2. \A c \in Commands : cmd[c].at \notin InLock
    BY <2>1
  <2>3. CASE remover' = "none" /\ UNCHANGED <<row, boxes, unsynced, lock, lost>>
    BY <2>1, <2>2, <2>3, RuntimeTyped DEF Named, InLock, Executing, Recovering
  <2>4. CASE /\ RemoveContainer(row.box, "removal") /\ (remover = "rebuild" => row.box < MaxBoxes)
             /\ \/ /\ remover = "rebuild" /\ remover' = "creating" /\ lock' = "api"
                   /\ row' = Row("provisioning", row.box + 1)
                \/ /\ remover' = "none" /\ lock' = Free
                   /\ row' = IF remover = "delete" THEN NoRow ELSE Collected
    <3>1. /\ boxes' \subseteq Boxes /\ unsynced' \subseteq boxes'
          /\ lost' \subseteq {"fault", "interruption", "recovery", "removal", "late"}
      BY <2>4 DEF RemoveContainer
    <3>2. CASE /\ remover = "rebuild" /\ remover' = "creating" /\ lock' = "api"
               /\ row' = Row("provisioning", row.box + 1)
      <4>1. row.box + 1 \in 0..MaxBoxes /\ row.box + 1 # 0
        BY <2>4, <3>2
      <4>2. row' \in RuntimeRows /\ row'.box = row.box + 1
        BY <2>4, <3>2, <4>1, WorksAndRows
      <4> QED BY <2>1, <2>2, <2>4, <3>1, <3>2, <4>1, <4>2, RuntimeTyped DEF Named, InLock, Executing, Recovering
    <3>3. CASE /\ remover' = "none" /\ lock' = Free
               /\ row' = IF remover = "delete" THEN NoRow ELSE Collected
      <4>1. row' \in RuntimeRows
        BY <3>3, NullWorksAndRows, CollectedIs
      <4>2. row'.status # "missing" => row'.box # 0
        BY <3>3, NullWorksAndRows, CollectedIs
      <4> QED BY <2>1, <2>2, <2>4, <3>1, <3>3, <4>1, <4>2, RuntimeTyped DEF Named, InLock, Executing, Recovering
    <3> QED BY <2>4, <3>2, <3>3
  <2> QED BY <1>2, <2>3, <2>4 DEF RemoveBox
<1>3. CASE Rebuild
  <2>1. row.box \in Boxes /\ lock = "api"
    BY <1>3 DEF Rebuild, Boxes
  <2>2. row' \in RuntimeRows /\ row'.box = row.box /\ boxes \subseteq boxes' /\ boxes' \subseteq Boxes
    BY <1>3, <2>1 DEF Rebuild, Created, NotCreated, Row, RuntimeRows
  <2>3. \A c \in Commands : cmd[c].at \notin InLock
    BY <2>1
  <2>4. {<<"rm", row.box>>} \in SUBSET DockerCommands
    BY <2>1 DEF DockerCommands
  <2>5. faults' \in 0..MaxFaults /\ late' \subseteq DockerCommands
    BY <1>3, <2>4, LeavingBehind DEF Rebuild
  <2> QED BY <1>3, <2>1, <2>2, <2>3, <2>5, RuntimeTyped DEF Rebuild, Boxes, Named, InLock, Executing, Recovering
<1>4. CASE ViewRead
  BY <1>4, RuntimeTyped DEF ViewRead, Named, InLock, Executing, Recovering
<1>5. CASE ViewWrite
  <2>1. listing' = NoRow /\ NoRow \in RuntimeRows
    BY <1>5, NullWorksAndRows DEF ViewWrite
  <2>2. Refreshed(listing) \in RuntimeRows /\ Refreshed(listing).box = listing.box /\ listing.box # 0
    BY <1>5, RefreshedRow DEF ViewWrite
  <2> QED BY <1>5, <2>1, <2>2, RuntimeTyped DEF ViewWrite, Named, InLock, Executing, Recovering
<1>6. CASE ApiRestart
  <2>1. cmd' \in [Commands -> Works] /\ (\A c \in Commands : cmd'[c].at = "idle") /\ listing' = NoRow /\ NoRow \in RuntimeRows
    BY <1>6, NullWorksAndRows DEF ApiRestart
  <2>2. faults' \in 0..MaxFaults /\ late' \subseteq DockerCommands
    <3>1. PICK left \in SUBSET (AwaitedByApi \cup UNION {Awaited(c) : c \in Commands}) : LeftBehind(left)
      BY <1>6 DEF ApiRestart
    <3>2. left \in SUBSET DockerCommands
      BY DEF AwaitedByApi, Awaited
    <3> QED BY <3>1, <3>2, LeavingBehind
  <2> QED BY <1>6, <2>1, <2>2, RuntimeTyped DEF ApiRestart, Named, InLock, Executing, Recovering
<1>7. CASE \E b \in Boxes : BoxDies(b)
  <2>1. PICK b \in Boxes : BoxDies(b)
    BY <1>7
  <2>2. /\ boxes' \subseteq Boxes /\ unsynced' \subseteq boxes' /\ faults' \in 0..MaxFaults
        /\ lost' \subseteq {"fault", "interruption", "recovery", "removal", "late"}
    BY <2>1 DEF BoxDies, RemoveContainer
  <2> QED BY <2>1, <2>2, RuntimeTyped DEF BoxDies, Named, InLock, Executing, Recovering
<1>8. CASE CutOffApi
  <2>1. /\ UNCHANGED <<row, boxes, unsynced, marked, cmd, lost, listing>>
        /\ remover' = "none" /\ lock' = Free /\ raced' = Overlap
        /\ remover = "creating" \/ lock = Free
    BY <1>8 DEF CutOffApi, AwaitedByApi
  <2>2. \A c \in Commands : cmd[c].at \notin InLock
    BY <2>1
  <2>3. PICK docker \in AwaitedByApi : LeftBehind({docker})
    BY <1>8 DEF CutOffApi
  <2>4. {docker} \in SUBSET DockerCommands
    BY DEF AwaitedByApi
  <2>5. faults' \in 0..MaxFaults /\ late' \subseteq DockerCommands
    BY <2>3, <2>4, LeavingBehind
  <2> QED BY <2>1, <2>2, <2>5, RuntimeTyped DEF Named, InLock, Executing, Recovering
<1>9. ASSUME NEW b \in Boxes, LateRun(b) PROVE RuntimeTypesInv'
  <2>1. /\ UNCHANGED <<row, unsynced, marked, lock, cmd, remover, lost, listing, faults>>
        /\ boxes \subseteq boxes' /\ boxes' \subseteq Boxes /\ late' \subseteq late
        /\ raced' \subseteq {"recovery", "view", "late"}
    BY <1>9 DEF LateRun
  <2> QED BY <2>1, RuntimeTyped DEF Named, InLock, Executing, Recovering
<1>10. ASSUME NEW b \in Boxes, LateRemoval(b) PROVE RuntimeTypesInv'
  <2>1. /\ UNCHANGED <<row, marked, lock, cmd, remover, listing, raced, faults>>
        /\ boxes' \subseteq Boxes /\ unsynced' \subseteq boxes' /\ late' \subseteq late
        /\ lost' \subseteq {"fault", "interruption", "recovery", "removal", "late"}
    BY <1>10 DEF LateRemoval, RemoveContainer
  <2> QED BY <2>1, RuntimeTyped DEF Named, InLock, Executing, Recovering
<1> QED BY <1>1, <1>2, <1>3, <1>4, <1>5, <1>6, <1>7, <1>8, <1>9, <1>10

\* What the service keeps of its containers has the types it should have.
LEMMA RuntimeTypesAlways == RuntimeSpec => []RuntimeTypeOK
<1>1. RuntimeTypesInv /\ [RuntimeNext]_runtimeVars => RuntimeTypesInv'
  <2> SUFFICES ASSUME RuntimeTypesInv, [RuntimeNext]_runtimeVars PROVE RuntimeTypesInv'
    OBVIOUS
  <2>1. CASE UNCHANGED runtimeVars
    BY <2>1 DEF runtimeVars, RuntimeTypesInv, RuntimeTypeOK, RuntimeLock, RowsNameBoxes, In
  <2>2. CASE RuntimeNext
    BY <2>2, RuntimeTypesOfCommands, RuntimeTypesOfContainers, RuntimeTypesOfRemovals DEF RuntimeNext
  <2> QED BY <2>1, <2>2
<1>2. RuntimeTypesInv => RuntimeTypeOK
  BY DEF RuntimeTypesInv
<1> QED BY <1>1, <1>2, RuntimeTypesStart, PTL DEF RuntimeSpec

HIDE RuntimeAssumption
=============================================================================
