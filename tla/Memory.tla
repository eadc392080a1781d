-------------------------------- MODULE Memory --------------------------------
(***************************************************************************)
(* One memory of one agent in its stores: Dolt keeps it, the outbox queues *)
(* its embedding, Qdrant keeps a vector per embedding and Postgres a       *)
(* full-text index.  store_memory and delete_memory write them one after   *)
(* the other, the embedding worker works the outbox off with retries, and  *)
(* the heartbeat copies from Dolt to the index.  No transaction spans two  *)
(* of these steps.                                                         *)
(***************************************************************************)
EXTENDS Integers, FiniteSets

CONSTANTS
    Calls,        \* store_memory and delete_memory requests in flight
    Workers,      \* embedding workers
    MaxAttempts,  \* MAX_ATTEMPTS
    BatchSize,    \* BATCH_SIZE
    MaxStores,    \* a bound on the stores
    MaxRows       \* a bound on the rows of the outbox

ASSUME MemoryAssumption ==
    /\ {MaxAttempts, BatchSize, MaxStores, MaxRows} \subseteq Nat
    /\ MaxAttempts > 0 /\ BatchSize > 0

VARIABLES
    memory,   \* the row of agent_memory
    stores,   \* stores so far: versions of the content, and a clock for updated_at
    outbox,   \* outbox
    points,   \* the vectors in Qdrant, by the row that made them; "partly" when
              \* some chunks failed, or all of them
    index,    \* the row of memory_search_index
    call,     \* locals of the requests
    worker,   \* locals of poll_loop
    sync,     \* what sync_memory_search_index has read
    errors,   \* history: attempts of a row that failed, counted up to MaxAttempts
    mishap    \* history: a crash, or at least a write that failed or requests that
              \* overlapped

memoryVars ==
    <<memory, stores, outbox, points, index, call, worker, sync, errors, mishap>>

-----------------------------------------------------------------------------
Versions == 0..MaxStores   \* 0 for none
Rows == 1..MaxRows         \* in the order of created_at

\* id is the version that inserted the row, as an update keeps it.
NoMemory == [id |-> 0, version |-> 0, ref |-> 0]
Memories == [id : Versions, version : Versions, ref : Versions]

\* What a row asks for: a vector, several, none because the content is empty, or
\* entities alone.
Kinds == {"embed", "chunks", "empty", "extract"}
OutboxRows ==
    [status : {"absent", "pending", "processing", "done", "failed"}, kind : Kinds,
     id : Versions, version : Versions, tries : Nat]
NoRow == [status |-> "absent", kind |-> "embed", id |-> 0, version |-> 0, tries |-> 0]

\* at is when the entry was written.
NoEntry == [version |-> 0, at |-> 0]
Entries == [version : Versions, at : Versions]

NoCall == [pc |-> "idle", version |-> 0]
CallStates == [pc : {"idle", "queue", "index", "unindex", "wipe"}, version : Versions]

\* The rows of a batch, with the attempts that were read.
Picks == [row : Rows, tries : Nat]
AtRest == [pc |-> "idle", todo |-> {}, row |-> 0, tries |-> 0]
WorkerStates ==
    {AtRest}
    \cup [pc : {"take"}, todo : (SUBSET Picks) \ {{}}, row : {0}, tries : {0}]
    \cup [pc : {"embed", "ref", "finish", "fail"}, todo : SUBSET Picks, row : Rows, tries : Nat]

MemoryInit ==
    /\ memory = NoMemory
    /\ stores = 0
    /\ outbox = [r \in Rows |-> NoRow]
    /\ points = [r \in Rows |-> "none"]
    /\ index = NoEntry
    /\ call = [c \in Calls |-> NoCall]
    /\ worker = [w \in Workers |-> AtRest]
    /\ sync = 0
    /\ errors = [r \in Rows |-> 0]
    /\ mishap = "none"

Goes(c, pc, v) == call' = [call EXCEPT ![c] = [pc |-> pc, version |-> v]]
Returns(c) == call' = [call EXCEPT ![c] = NoCall]

Quiet == sync = 0 /\ \A c \in Calls : call[c] = NoCall
Mars == mishap' = IF mishap = "crash" THEN "crash" ELSE "minor"
Begins == IF Quiet THEN UNCHANGED mishap ELSE Mars
Crashes == mishap' = "crash"

-----------------------------------------------------------------------------
(* store_memory.                                                           *)

StoreMemory(c) ==
    /\ call[c] = NoCall
    /\ stores < MaxStores
    /\ stores' = stores + 1
    /\ memory' = IF memory = NoMemory
                   THEN [id |-> stores', version |-> stores', ref |-> 0]
                   ELSE [memory EXCEPT !.version = stores']
    /\ Goes(c, "queue", stores')
    /\ Begins
    /\ UNCHANGED <<outbox, points, index, worker, sync, errors>>

Append(row) ==
    \E r \in Rows :
      /\ \A s \in Rows : outbox[s].status = "absent" <=> s >= r
      /\ outbox' = [outbox EXCEPT ![r] = row]

\* The memory's id is read back first, and is 0 when the memory is gone; an
\* outbox that cannot be written ends the call.
QueueRow(c) ==
    /\ call[c].pc = "queue"
    /\ \/ /\ \E kind \in Kinds \ {"extract"} :
               Append([status |-> "pending", kind |-> kind, id |-> memory.id,
                       version |-> call[c].version, tries |-> 0])
          /\ Goes(c, "index", call[c].version)
          /\ UNCHANGED mishap
       \/ /\ Returns(c)
          /\ Mars
          /\ UNCHANGED outbox
    /\ UNCHANGED <<memory, stores, points, index, worker, sync, errors>>

\* Mutant: an entry that exists is left as it is.
IndexMemoryOnce(c) ==
    /\ call[c].pc = "index"
    /\ index' = IF index = NoEntry THEN [version |-> call[c].version, at |-> stores] ELSE index
    /\ Returns(c)
    /\ UNCHANGED <<memory, stores, outbox, points, worker, sync, errors, mishap>>

\* A failure is logged and no more.
IndexMemory(c) ==
    /\ call[c].pc = "index"
    /\ \/ index' = [version |-> call[c].version, at |-> stores] /\ UNCHANGED mishap
       \/ UNCHANGED index /\ Mars
    /\ Returns(c)
    /\ UNCHANGED <<memory, stores, outbox, points, worker, sync, errors>>

-----------------------------------------------------------------------------
(* delete_memory.                                                          *)

DeleteMemory(c) ==
    /\ call[c] = NoCall
    /\ memory' = NoMemory
    /\ Goes(c, "unindex", 0)
    /\ Begins
    /\ UNCHANGED <<stores, outbox, points, index, worker, sync, errors>>

UnindexMemory(c) ==
    /\ call[c].pc = "unindex"
    /\ \/ index' = NoEntry /\ UNCHANGED mishap
       \/ UNCHANGED index /\ Mars
    /\ Goes(c, "wipe", 0)
    /\ UNCHANGED <<memory, stores, outbox, points, worker, sync, errors>>

\* By topic, which the vectors of a chunked content do not have; not at all
\* when the breaker is open.
WipeVectors(c) ==
    /\ call[c].pc = "wipe"
    /\ \/ /\ points' = [r \in Rows |->
               IF points[r] = "there" /\ outbox[r].kind = "embed" THEN "wiped" ELSE points[r]]
          /\ UNCHANGED mishap
       \/ UNCHANGED points /\ Mars
    /\ Returns(c)
    /\ UNCHANGED <<memory, stores, outbox, index, worker, sync, errors>>

-----------------------------------------------------------------------------
(* The heartbeat.                                                          *)

\* sync_kg_unprocessed_memories.
QueueExtract ==
    /\ memory # NoMemory
    /\ Append([status |-> "pending", kind |-> "extract", id |-> memory.id,
               version |-> memory.version, tries |-> 0])
    /\ UNCHANGED <<memory, stores, points, index, call, worker, sync, errors, mishap>>

\* sync_memory_search_index: a memory whose updated_at is after the index's.
ReadNewer ==
    /\ sync = 0
    /\ memory.version > index.at
    /\ sync' = memory.version
    /\ Begins
    /\ UNCHANGED <<memory, stores, outbox, points, index, call, worker, errors>>

\* The entry gets the memory's updated_at, not the time of the copy.
CopyToIndex ==
    /\ sync # 0
    /\ \/ index' = [version |-> sync, at |-> sync] /\ UNCHANGED mishap
       \/ UNCHANGED index /\ Mars
    /\ sync' = 0
    /\ UNCHANGED <<memory, stores, outbox, points, call, worker, errors>>

-----------------------------------------------------------------------------
(* poll_loop, process_outbox_row and handle_failure of the embedding       *)
(* worker.  The locks of FOR UPDATE SKIP LOCKED end with the SELECT.       *)

Pending == {r \in Rows : outbox[r].status = "pending"}
Oldest(some, all) ==
    /\ \A r \in some, s \in all \ some : r < s
    /\ \/ Cardinality(some) = BatchSize
       \/ some = all /\ Cardinality(all) < BatchSize

\* The worker has these rows left to take.
HasLeft(w, picks) ==
    worker' = [worker EXCEPT ![w] =
      IF picks = {} THEN AtRest ELSE [pc |-> "take", todo |-> picks, row |-> 0, tries |-> 0]]
Reads(w, some) == HasLeft(w, {[row |-> r, tries |-> outbox[r].tries] : r \in some})

\* Mutant: whatever is not done is taken again.
FetchBatchUndone(w) ==
    /\ worker[w] = AtRest
    /\ \E r \in Rows : outbox[r].status \notin {"absent", "done"} /\ Reads(w, {r})
    /\ UNCHANGED <<memory, stores, outbox, points, index, call, sync, errors, mishap>>

FetchBatch(w) ==
    /\ worker[w] = AtRest
    /\ \E some \in SUBSET Pending : some # {} /\ Oldest(some, Pending) /\ Reads(w, some)
    /\ UNCHANGED <<memory, stores, outbox, points, index, call, sync, errors, mishap>>

Moves(w, pc) == worker' = [worker EXCEPT ![w].pc = pc]
NextRow(w) == HasLeft(w, worker[w].todo)
Marks(w, status) == outbox' = [outbox EXCEPT ![worker[w].row].status = status]

IsNext(w, p) == \A q \in worker[w].todo : p.row <= q.row

\* The oldest row that is left, whatever became of it; one with empty content is
\* done without an embedding.
TakeRow(w) ==
    /\ worker[w].pc = "take"
    /\ \E p \in worker[w].todo :
         /\ IsNext(w, p)
         /\ outbox' = [outbox EXCEPT ![p.row].status = "processing"]
         /\ worker' = [worker EXCEPT ![w] =
              [pc |-> IF outbox[p.row].kind \in {"extract", "empty"} THEN "finish" ELSE "embed",
               todo |-> worker[w].todo \ {p}, row |-> p.row, tries |-> p.tries]]
    /\ UNCHANGED <<memory, stores, points, index, call, sync, errors, mishap>>

\* Mutant: a failure is skipped for a single vector as well.
EmbedRowAnyway(w) ==
    /\ worker[w].pc = "embed"
    /\ \/ points' = [points EXCEPT ![worker[w].row] = "there"]
       \/ UNCHANGED points
    /\ Moves(w, "ref")
    /\ UNCHANGED <<memory, stores, outbox, index, call, sync, errors, mishap>>

\* The embedding fails, or the request that stores the vector does, which may
\* have been carried out; of several chunks those that fail are skipped.
EmbedRow(w) ==
    LET r == worker[w].row IN
    /\ worker[w].pc = "embed"
    /\ \/ points' = [points EXCEPT ![r] = "there"] /\ Moves(w, "ref") /\ UNCHANGED mishap
       \/ /\ outbox[r].kind = "chunks"
          /\ points' = [points EXCEPT ![r] = IF @ = "none" THEN "partly" ELSE @]
          /\ Moves(w, "ref")
          /\ Mars
       \/ /\ outbox[r].kind = "embed"
          /\ points' = [points EXCEPT ![r] = "there"] \/ UNCHANGED points
          /\ Moves(w, "fail")
          /\ UNCHANGED mishap
    /\ UNCHANGED <<memory, stores, outbox, index, call, sync, errors>>

\* By the id of the memory, which may have been deleted; the entities that are
\* extracted next concern the knowledge graph alone.
SetRef(w) ==
    LET row == outbox[worker[w].row] IN
    /\ worker[w].pc = "ref"
    /\ \/ /\ memory' = IF memory # NoMemory /\ memory.id = row.id
                         THEN [memory EXCEPT !.ref = row.version] ELSE memory
          /\ UNCHANGED mishap
       \/ UNCHANGED memory /\ Mars
    /\ Moves(w, "finish")
    /\ UNCHANGED <<stores, outbox, points, index, call, sync, errors>>

FinishRow(w) ==
    /\ worker[w].pc = "finish"
    /\ Marks(w, "done")
    /\ NextRow(w)
    /\ UNCHANGED <<memory, stores, points, index, call, sync, errors, mishap>>

Exhausted(w) == worker[w].tries + 1 >= MaxAttempts
Errs(w) ==
    errors' = [errors EXCEPT ![worker[w].row] = IF @ < MaxAttempts THEN @ + 1 ELSE @]

\* Mutant: one attempt less.
FailRowEarly(w) ==
    LET r == worker[w].row IN
    /\ worker[w].pc = "fail"
    /\ outbox' = [outbox EXCEPT
         ![r].status = IF worker[w].tries + 2 >= MaxAttempts THEN "failed" ELSE "pending",
         ![r].tries = IF worker[w].tries + 2 >= MaxAttempts THEN @ ELSE @ + 1]
    /\ Errs(w) /\ NextRow(w)
    /\ UNCHANGED <<memory, stores, points, index, call, sync, mishap>>

\* Mutant: the attempt is not counted.
FailRowUncounted(w) ==
    /\ worker[w].pc = "fail"
    /\ Marks(w, IF Exhausted(w) THEN "failed" ELSE "pending")
    /\ Errs(w) /\ NextRow(w)
    /\ UNCHANGED <<memory, stores, points, index, call, sync, mishap>>

\* Mutant: the attempt is counted, and the status left.
FailRowStays(w) ==
    LET r == worker[w].row IN
    /\ worker[w].pc = "fail"
    /\ outbox' = IF Exhausted(w) THEN [outbox EXCEPT ![r].status = "failed"]
                                 ELSE [outbox EXCEPT ![r].tries = @ + 1]
    /\ Errs(w) /\ NextRow(w)
    /\ UNCHANGED <<memory, stores, points, index, call, sync, mishap>>

\* The limit is compared with the attempts that were read with the batch.
FailRow(w) ==
    LET r == worker[w].row IN
    /\ worker[w].pc = "fail"
    /\ outbox' = [outbox EXCEPT
         ![r].status = IF Exhausted(w) THEN "failed" ELSE "pending",
         ![r].tries = IF Exhausted(w) THEN @ ELSE @ + 1]
    /\ Errs(w) /\ NextRow(w)
    /\ UNCHANGED <<memory, stores, points, index, call, sync, mishap>>

-----------------------------------------------------------------------------
(* Faults.                                                                 *)

\* The statement that would mark a row fails: the row is left as it is.
MarkFails(w) ==
    /\ worker[w].pc \in {"take", "finish", "fail"}
    /\ IF worker[w].pc # "take" THEN NextRow(w)
       ELSE \E p \in worker[w].todo : IsNext(w, p) /\ HasLeft(w, worker[w].todo \ {p})
    /\ Crashes
    /\ UNCHANGED <<memory, stores, outbox, points, index, call, sync, errors>>

WorkerCrash(w) ==
    /\ worker[w] # AtRest
    /\ worker' = [worker EXCEPT ![w] = AtRest]
    /\ Crashes
    /\ UNCHANGED <<memory, stores, outbox, points, index, call, sync, errors>>

\* The bridge or the heartbeat crashes, or the heartbeat's cycle times out.
CallsCrash ==
    /\ ~Quiet
    /\ call' = [c \in Calls |-> NoCall]
    /\ sync' = 0
    /\ Crashes
    /\ UNCHANGED <<memory, stores, outbox, points, index, worker, errors>>

-----------------------------------------------------------------------------
CallNext(c) ==
    \/ StoreMemory(c) \/ QueueRow(c) \/ IndexMemory(c)
    \/ DeleteMemory(c) \/ UnindexMemory(c) \/ WipeVectors(c)

WorkerNext(w) ==
    \/ FetchBatch(w) \/ TakeRow(w) \/ EmbedRow(w) \/ SetRef(w)
    \/ FinishRow(w) \/ FailRow(w)

MemoryNext ==
    \/ \E c \in Calls : CallNext(c)
    \/ \E w \in Workers : WorkerNext(w) \/ MarkFails(w) \/ WorkerCrash(w)
    \/ QueueExtract \/ ReadNewer \/ CopyToIndex \/ CallsCrash

MemorySpec == MemoryInit /\ [][MemoryNext]_memoryVars

\* A worker's loop goes on; Ollama and Qdrant owe nothing.
MemoryFairSpec == MemorySpec /\ \A w \in Workers : WF_memoryVars(WorkerNext(w))

-----------------------------------------------------------------------------
(* Properties.                                                             *)

MemoryTypeOK ==
    /\ memory \in Memories
    /\ stores \in Versions
    /\ outbox \in [Rows -> OutboxRows]
    /\ points \in [Rows -> {"none", "partly", "there", "wiped"}]
    /\ index \in Entries
    /\ call \in [Calls -> CallStates]
    /\ worker \in [Workers -> WorkerStates]
    /\ sync \in Versions
    /\ errors \in [Rows -> 0..MaxAttempts]
    /\ mishap \in {"none", "minor", "crash"}

\* A row in processing is in some worker's hands, whichever of its attempts
\* fails: nothing else would ever take it up again, as only pending rows are
\* fetched (process_outbox_row marks it before the first thing that can fail).
ProcessingIsHeld ==
    mishap # "crash" =>
      \A r \in Rows : outbox[r].status = "processing" => \E w \in Workers : worker[w].row = r

\* A row is given up only when it has failed as often as it may, though the
\* attempts compared are those read with the batch (handle_failure).
FailedIsExhausted ==
    \A r \in Rows : outbox[r].status = "failed" => errors[r] = MaxAttempts

\* A row that is done had its vector stored, whatever failed, timed out or was
\* taken by several workers; a delete_memory may have taken it away since.  A row
\* of several chunks has had them all tried, and those that failed are missing for
\* good, up to every one of them; empty content is done without any
\* (process_outbox_row).
DoneIsEmbedded ==
    \A r \in Rows : outbox[r].status = "done" =>
      /\ outbox[r].kind = "embed" => points[r] \in {"there", "wiped"}
      /\ outbox[r].kind = "chunks" => points[r] # "none"

\* With one worker, what is done or given up is not taken up again.
SettledIsFinal ==
    [][\A r \in Rows : outbox[r].status \in {"done", "failed"}
         => outbox'[r].status = outbox[r].status]_memoryVars

ContentIsEmbedded ==
    \E r \in Rows :
      /\ outbox[r].version = memory.version
      /\ outbox[r].kind = "empty" \/ points[r] = "there"

\* When requests came one after the other, no write failed and the outbox is
\* worked off, the stores agree: the index has the memory's newest content, or
\* nothing when it is deleted, and the content has all its vectors, unless it is
\* empty and gets none.
StoresAgree ==
    /\ mishap = "none" /\ Quiet
    /\ \A r \in Rows : outbox[r].status \in {"absent", "done"}
    =>
    /\ index.version = memory.version
    /\ memory # NoMemory => ContentIsEmbedded

\* Without a crash a row is not left in the outbox: it is done or, after its
\* attempts, given up.
PendingIsSettled ==
    \A r \in Rows :
      outbox[r].status = "pending" ~>
        outbox[r].status \in {"done", "failed"} \/ mishap = "crash"

-----------------------------------------------------------------------------
(* What one would expect and the code does not do.                         *)

\* embedding_ref names the vectors of the newest content once it has them.
RefIsNewest ==
    /\ mishap = "none" /\ Quiet /\ memory # NoMemory
    /\ \A r \in Rows : outbox[r].status \in {"absent", "done"}
    /\ \E r \in Rows : outbox[r].version = memory.version /\ points[r] = "there"
    => memory.ref = memory.version

\* A memory that was deleted has no vector left.
DeletedIsGone ==
    /\ mishap = "none" /\ Quiet /\ memory = NoMemory
    /\ \A r \in Rows : outbox[r].status \in {"absent", "done"}
    => \A r \in Rows : points[r] # "there"
=============================================================================
