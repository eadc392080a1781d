----------------------------- MODULE MemoryProofs -----------------------------
(* Proofs about Memory, for any number of requests, workers, rows and       *)
(* attempts.                                                                *)
EXTENDS Memory, TLAPS

PCs == {"idle", "take", "embed", "ref", "finish", "fail"}
Working == {"embed", "ref", "finish", "fail"}

\* An attempt counter never runs ahead of the failures.
Counted(r, n) == errors[r] = MaxAttempts \/ n <= errors[r]

CountedOK ==
    /\ \A r \in Rows : Counted(r, outbox[r].tries)
    /\ \A w \in Workers : \A p \in worker[w].todo : Counted(p.row, p.tries)
    /\ \A w \in Workers : worker[w].pc \in Working => Counted(worker[w].row, worker[w].tries)

\* The rows a worker has read exist.
KnownOK ==
    /\ \A w \in Workers : \A p \in worker[w].todo : outbox[p.row].status # "absent"
    /\ \A w \in Workers : worker[w].pc \in Working => outbox[worker[w].row].status # "absent"

\* What a row must have before it is done.
Stored(r) ==
    /\ outbox[r].kind = "embed" => points[r] \in {"there", "wiped"}
    /\ outbox[r].kind = "chunks" => points[r] # "none"

\* A worker past the embedding has stored it.
StoredOK == \A w \in Workers : worker[w].pc \in {"ref", "finish"} => Stored(worker[w].row)

MInv ==
    /\ MemoryTypeOK /\ CountedOK /\ KnownOK /\ StoredOK
    /\ ProcessingIsHeld /\ FailedIsExhausted /\ DoneIsEmbedded

-----------------------------------------------------------------------------
(* The states of a worker.                                                  *)

LEMMA RowsAndVersions == Rows \subseteq Nat /\ 0 \notin Rows /\ 0 \in Versions /\ Versions \subseteq Nat
BY MemoryAssumption DEF Rows, Versions

LEMMA WorkerParts ==
    ASSUME worker \in [Workers -> WorkerStates], NEW w \in Workers
    PROVE  /\ worker[w].pc \in PCs /\ worker[w].todo \subseteq Picks
           /\ worker[w].tries \in Nat
           /\ worker[w].pc \in Working => worker[w].row \in Rows
           /\ worker[w].pc \in {"idle", "take"} => worker[w].row = 0
           /\ worker[w] = [pc |-> worker[w].pc, todo |-> worker[w].todo,
                           row |-> worker[w].row, tries |-> worker[w].tries]
<1>1. worker[w] \in WorkerStates
  OBVIOUS
<1>2. CASE worker[w] = AtRest
  BY <1>2 DEF AtRest, PCs, Working
<1>3. CASE worker[w] \in [pc : {"take"}, todo : (SUBSET Picks) \ {{}}, row : {0}, tries : {0}]
  BY <1>3 DEF PCs, Working
<1>4. CASE worker[w] \in [pc : {"embed", "ref", "finish", "fail"}, todo : SUBSET Picks,
                          row : Rows, tries : Nat]
  BY <1>4 DEF PCs, Working
<1> QED BY <1>1, <1>2, <1>3, <1>4 DEF WorkerStates

LEMMA HasLeftType ==
    ASSUME worker \in [Workers -> WorkerStates], NEW w \in Workers,
           NEW picks \in SUBSET Picks, HasLeft(w, picks)
    PROVE  /\ worker' \in [Workers -> WorkerStates]
           /\ worker'[w].pc \in {"idle", "take"} /\ worker'[w].row = 0
           /\ worker'[w].todo = picks
           /\ \A v \in Workers \ {w} : worker'[v] = worker[v]
<1>1. CASE picks = {}
  BY <1>1 DEF HasLeft, AtRest, WorkerStates
<1>2. CASE picks # {}
  <2>1. [pc |-> "take", todo |-> picks, row |-> 0, tries |-> 0] \in WorkerStates
    BY <1>2 DEF WorkerStates
  <2> QED BY <1>2, <2>1 DEF HasLeft
<1> QED BY <1>1, <1>2

LEMMA MovesType ==
    ASSUME worker \in [Workers -> WorkerStates], NEW w \in Workers, NEW pc \in Working,
           worker[w].pc \in Working, Moves(w, pc)
    PROVE  /\ worker' \in [Workers -> WorkerStates]
           /\ worker'[w].pc = pc /\ worker'[w].row = worker[w].row
           /\ worker'[w].todo = worker[w].todo /\ worker'[w].tries = worker[w].tries
           /\ \A v \in Workers \ {w} : worker'[v] = worker[v]
<1> DEFINE next == [pc |-> pc, todo |-> worker[w].todo, row |-> worker[w].row,
                    tries |-> worker[w].tries]
<1>1. next \in WorkerStates
  BY WorkerParts DEF WorkerStates, Working
<1>2. worker' = [worker EXCEPT ![w] = [worker[w] EXCEPT !.pc = pc]]
  BY DEF Moves
<1>3. [worker[w] EXCEPT !.pc = pc] = next
  BY WorkerParts
<1>4. worker' = [worker EXCEPT ![w] = next]
  BY <1>2, <1>3
<1> QED BY <1>1, <1>4

-----------------------------------------------------------------------------
(* Steps of the requests and of the heartbeat.                              *)

\* A vector that was stored is there or was wiped.
VectorsKept ==
    \A r \in Rows :
      /\ points[r] # "none" => points'[r] # "none"
      /\ points[r] \in {"there", "wiped"} => points'[r] \in {"there", "wiped"}

LEMMA StoredStays ==
    ASSUME NEW r \in Rows, Stored(r), VectorsKept, outbox'[r].kind = outbox[r].kind
    PROVE  Stored(r)'
BY DEF Stored, VectorsKept

\* What they do to the workers' part of the state: they may append a row and
\* take a vector away.
Outside ==
    /\ worker' = worker /\ errors' = errors
    /\ mishap = "crash" => mishap' = "crash"
    /\ VectorsKept
    /\ \A r \in Rows :
         \/ outbox'[r] = outbox[r]
         \/ /\ outbox[r].status = "absent" /\ outbox'[r].status = "pending"
            /\ outbox'[r].tries = 0

LEMMA AppendType ==
    ASSUME outbox \in [Rows -> OutboxRows], NEW row \in OutboxRows, Append(row)
    PROVE  /\ outbox' \in [Rows -> OutboxRows]
           /\ \A r \in Rows : \/ outbox'[r] = outbox[r]
                              \/ outbox[r].status = "absent" /\ outbox'[r] = row
<1>1. PICK r \in Rows : /\ \A s \in Rows : outbox[s].status = "absent" <=> s >= r
                        /\ outbox' = [outbox EXCEPT ![r] = row]
  BY DEF Append
<1>2. outbox[r].status = "absent"
  BY <1>1, RowsAndVersions
<1>3. outbox' = [outbox EXCEPT ![r] = row]
  BY <1>1
<1> QED BY <1>2, <1>3

LEMMA CallParts ==
    ASSUME call \in [Calls -> CallStates], NEW c \in Calls, NEW v \in Versions
    PROVE  /\ call[c].version \in Versions
           /\ \A pc \in {"queue", "index", "unindex", "wipe"} :
                Goes(c, pc, v) => call' \in [Calls -> CallStates]
           /\ Returns(c) => call' \in [Calls -> CallStates]
BY RowsAndVersions DEF Goes, Returns, NoCall, CallStates

LEMMA MishapType ==
    ASSUME mishap \in {"none", "minor", "crash"}, mishap' = mishap \/ Mars \/ Begins \/ Crashes
    PROVE  mishap' \in {"none", "minor", "crash"} /\ (mishap = "crash" => mishap' = "crash")
BY DEF Mars, Begins, Crashes

LEMMA CallStep ==
    ASSUME MemoryTypeOK, NEW c \in Calls, CallNext(c)
    PROVE  MemoryTypeOK' /\ Outside
<1> USE DEF MemoryTypeOK
<1> USE RowsAndVersions
<1>1. CASE StoreMemory(c)
  <2>1. stores + 1 \in Versions /\ stores' = stores + 1
    BY <1>1, MemoryAssumption DEF StoreMemory, Versions
  <2>2. PICK n \in Versions : stores' = n
    BY <2>1
  <2>3. /\ memory' = IF memory = NoMemory THEN [id |-> n, version |-> n, ref |-> 0]
                                        ELSE [memory EXCEPT !.version = n]
        /\ Goes(c, "queue", n)
    BY <1>1, <2>2 DEF StoreMemory, Goes
  <2>4. memory' \in Memories
    BY <2>3 DEF Memories
  <2>5. call' \in [Calls -> CallStates]
    BY <2>3, CallParts
  <2>6. Begins /\ UNCHANGED <<outbox, points, index, worker, sync, errors>>
    BY <1>1 DEF StoreMemory
  <2>7. mishap' \in {"none", "minor", "crash"} /\ (mishap = "crash" => mishap' = "crash")
    BY <2>6, MishapType
  <2> QED BY <2>2, <2>4, <2>5, <2>6, <2>7 DEF Outside, VectorsKept
<1>2. CASE QueueRow(c)
  <2>1. call' \in [Calls -> CallStates]
    BY <1>2, CallParts DEF QueueRow
  <2>2. CASE UNCHANGED outbox
    BY <1>2, <2>1, <2>2, MishapType DEF QueueRow, Outside, VectorsKept
  <2>3. ASSUME NEW kind \in Kinds \ {"extract"},
               Append([status |-> "pending", kind |-> kind, id |-> memory.id,
                       version |-> call[c].version, tries |-> 0])
        PROVE  MemoryTypeOK' /\ Outside
    <3> DEFINE new == [status |-> "pending", kind |-> kind, id |-> memory.id,
                       version |-> call[c].version, tries |-> 0]
    <3>1. new \in OutboxRows
      BY CallParts DEF OutboxRows, Kinds, Memories
    <3>2. new.status = "pending" /\ new.tries = 0
      OBVIOUS
    <3>3. Append(new)
      BY <2>3
    <3> HIDE DEF new
    <3> QED BY <1>2, <2>1, <3>1, <3>2, <3>3, AppendType, MishapType
            DEF QueueRow, Outside, VectorsKept
  <2> QED BY <1>2, <2>2, <2>3 DEF QueueRow
<1>3. CASE IndexMemory(c)
  <2>1. call' \in [Calls -> CallStates] /\ index' \in Entries
    BY <1>3, CallParts DEF IndexMemory, Entries
  <2> QED BY <1>3, <2>1, MishapType DEF IndexMemory, Outside, VectorsKept
<1>4. CASE DeleteMemory(c)
  <2>1. call' \in [Calls -> CallStates] /\ memory' \in Memories
    BY <1>4, CallParts DEF DeleteMemory, NoMemory, Memories
  <2>2. mishap' = mishap \/ Begins
    BY <1>4 DEF DeleteMemory
  <2> QED BY <1>4, <2>1, <2>2, MishapType DEF DeleteMemory, Outside, VectorsKept
<1>5. CASE UnindexMemory(c)
  <2>1. call' \in [Calls -> CallStates] /\ index' \in Entries
    BY <1>5, CallParts DEF UnindexMemory, NoEntry, Entries
  <2> QED BY <1>5, <2>1, MishapType DEF UnindexMemory, Outside, VectorsKept
<1>6. CASE WipeVectors(c)
  <2>1. call' \in [Calls -> CallStates]
    BY <1>6, CallParts DEF WipeVectors
  <2>2. /\ points' \in [Rows -> {"none", "partly", "there", "wiped"}]
        /\ VectorsKept
    BY <1>6 DEF WipeVectors, VectorsKept
  <2> QED BY <1>6, <2>1, <2>2, MishapType DEF WipeVectors, Outside, VectorsKept
<1> QED BY <1>1, <1>2, <1>3, <1>4, <1>5, <1>6 DEF CallNext

LEMMA HeartbeatStep ==
    ASSUME MemoryTypeOK, QueueExtract \/ ReadNewer \/ CopyToIndex \/ CallsCrash
    PROVE  MemoryTypeOK' /\ Outside
<1> USE DEF MemoryTypeOK
<1> USE RowsAndVersions
<1>1. CASE QueueExtract
  <2> DEFINE new == [status |-> "pending", kind |-> "extract", id |-> memory.id,
                     version |-> memory.version, tries |-> 0]
  <2>1. new \in OutboxRows
    BY DEF OutboxRows, Kinds, Memories
  <2>2. new.status = "pending" /\ new.tries = 0
    OBVIOUS
  <2>3. Append(new)
    BY <1>1 DEF QueueExtract
  <2> HIDE DEF new
  <2> QED BY <1>1, <2>1, <2>2, <2>3, AppendType DEF QueueExtract, Outside, VectorsKept
<1>2. CASE ReadNewer
  <2>1. mishap' = mishap \/ Begins
    BY <1>2 DEF ReadNewer
  <2> QED BY <1>2, <2>1, MishapType DEF ReadNewer, Outside, Memories, VectorsKept
<1>3. CASE CopyToIndex
  BY <1>3, MishapType DEF CopyToIndex, Outside, Entries, VectorsKept
<1>4. CASE CallsCrash
  BY <1>4, MishapType DEF CallsCrash, Crashes, Outside, NoCall, CallStates, VectorsKept
<1> QED BY <1>1, <1>2, <1>3, <1>4

\* Such a step keeps the invariant.
LEMMA OutsideKeeps ==
    ASSUME MInv, MemoryTypeOK', Outside
    PROVE  MInv'
<1> USE DEF MInv
<1> USE RowsAndVersions
<1>0. /\ worker \in [Workers -> WorkerStates] /\ worker' = worker /\ errors' = errors
      /\ outbox \in [Rows -> OutboxRows] /\ errors \in [Rows -> 0..MaxAttempts]
  BY DEF Outside, MemoryTypeOK
<1>1. CountedOK'
  <2>1. ASSUME NEW r \in Rows PROVE Counted(r, outbox[r].tries)'
    <3>1. CASE outbox'[r] = outbox[r]
      BY <1>0, <3>1 DEF CountedOK, Counted
    <3>2. CASE outbox'[r].tries = 0
      BY <1>0, <3>2, MemoryAssumption DEF Counted
    <3> QED BY <3>1, <3>2 DEF Outside
  <2> QED BY <1>0, <2>1 DEF CountedOK, Counted
<1>2. KnownOK'
  <2>1. ASSUME NEW r \in Rows, outbox[r].status # "absent" PROVE outbox'[r] = outbox[r]
    BY <2>1 DEF Outside
  <2>2. \A w \in Workers : \A p \in worker[w].todo : p.row \in Rows
    BY <1>0, WorkerParts DEF Picks
  <2> QED BY <1>0, <2>1, <2>2, WorkerParts DEF KnownOK
<1>3. StoredOK'
  <2> SUFFICES ASSUME NEW w \in Workers, worker[w].pc \in {"ref", "finish"}
               PROVE  Stored(worker[w].row)'
    BY <1>0 DEF StoredOK
  <2>1. worker[w].row \in Rows /\ worker[w].pc \in Working
    BY <1>0, WorkerParts DEF Working
  <2>2. outbox'[worker[w].row] = outbox[worker[w].row]
    BY <2>1 DEF KnownOK, Outside
  <2>3. Stored(worker[w].row) /\ VectorsKept
    BY DEF StoredOK, Outside
  <2>4. \A r \in Rows : r = worker[w].row => Stored(r)'
    BY <2>2, <2>3, StoredStays
  <2> QED BY <1>0, <2>1, <2>4 DEF Stored
<1>4. ProcessingIsHeld'
  BY <1>0 DEF ProcessingIsHeld, Outside
<1>5. FailedIsExhausted'
  BY <1>0 DEF FailedIsExhausted, Outside
<1>6. DoneIsEmbedded'
  <2> SUFFICES ASSUME NEW r \in Rows, outbox'[r].status = "done" PROVE Stored(r)'
    BY DEF DoneIsEmbedded, Stored
  <2>1. outbox'[r] = outbox[r] /\ VectorsKept
    BY DEF Outside
  <2>2. Stored(r)
    BY <2>1 DEF DoneIsEmbedded, Stored
  <2> QED BY <2>1, <2>2, StoredStays
<1> QED BY <1>1, <1>2, <1>3, <1>4, <1>5, <1>6

-----------------------------------------------------------------------------
(* Steps of a worker.                                                       *)

LEMMA FetchStep ==
    ASSUME MInv, NEW w \in Workers, FetchBatch(w)
    PROVE  MInv'
<1> USE DEF MInv
<1> USE RowsAndVersions
<1>0. /\ worker \in [Workers -> WorkerStates] /\ outbox \in [Rows -> OutboxRows]
      /\ UNCHANGED <<memory, stores, outbox, points, index, call, sync, errors, mishap>>
      /\ worker[w] = AtRest
  BY DEF FetchBatch, MemoryTypeOK
<1>1. PICK some \in SUBSET Pending : Reads(w, some)
  BY DEF FetchBatch
<1> DEFINE picks == {[row |-> r, tries |-> outbox[r].tries] : r \in some}
<1>2. \A p \in picks : /\ p \in Picks /\ p.row \in Rows /\ p.tries = outbox[p.row].tries
                      /\ outbox[p.row].status = "pending"
  BY <1>0, <1>1 DEF Pending, Picks, OutboxRows
<1>3. picks \in SUBSET Picks /\ HasLeft(w, picks)
  BY <1>1, <1>2 DEF Reads
<1> HIDE DEF picks
<1>4. /\ worker' \in [Workers -> WorkerStates]
      /\ worker'[w].pc \in {"idle", "take"} /\ worker'[w].row = 0 /\ worker'[w].todo = picks
      /\ \A v \in Workers \ {w} : worker'[v] = worker[v]
  BY <1>0, <1>3, HasLeftType
<1>5. MemoryTypeOK'
  BY <1>0, <1>4 DEF MemoryTypeOK
<1>6. CountedOK'
  BY <1>0, <1>2, <1>4 DEF CountedOK, Counted, Working
<1>7. KnownOK' /\ StoredOK'
  BY <1>0, <1>2, <1>4 DEF KnownOK, StoredOK, Stored, Working
<1>8. ProcessingIsHeld'
  <2>1. worker[w].row = 0
    BY <1>0 DEF AtRest
  <2> QED BY <1>0, <1>4, <2>1 DEF ProcessingIsHeld
<1> QED BY <1>0, <1>5, <1>6, <1>7, <1>8 DEF FailedIsExhausted, DoneIsEmbedded

LEMMA TakeStep ==
    ASSUME MInv, NEW w \in Workers, TakeRow(w)
    PROVE  MInv'
<1> USE DEF MInv
<1> USE RowsAndVersions
<1>0. /\ worker \in [Workers -> WorkerStates] /\ outbox \in [Rows -> OutboxRows]
      /\ UNCHANGED <<memory, stores, points, index, call, sync, errors, mishap>>
      /\ worker[w].pc = "take"
  BY DEF TakeRow, MemoryTypeOK
<1> DEFINE pc(p) == IF outbox[p.row].kind \in {"extract", "empty"} THEN "finish" ELSE "embed"
           next(p) == [pc |-> pc(p), todo |-> worker[w].todo \ {p}, row |-> p.row,
                       tries |-> p.tries]
<1>1. PICK p \in worker[w].todo :
           /\ outbox' = [outbox EXCEPT ![p.row].status = "processing"]
           /\ worker' = [worker EXCEPT ![w] = next(p)]
  BY DEF TakeRow
<1>2. p \in Picks /\ p.row \in Rows /\ p.tries \in Nat /\ worker[w].row = 0
  BY <1>0, WorkerParts DEF Picks
<1>3. /\ pc(p) \in {"embed", "finish"}
      /\ pc(p) = "finish" => outbox[p.row].kind \in {"extract", "empty"}
  OBVIOUS
<1>4. next(p) \in WorkerStates
  BY <1>0, <1>2, <1>3, WorkerParts DEF WorkerStates
<1>5. /\ worker' \in [Workers -> WorkerStates]
      /\ worker'[w].pc = pc(p) /\ worker'[w].row = p.row /\ worker'[w].tries = p.tries
      /\ worker'[w].todo = worker[w].todo \ {p}
      /\ \A v \in Workers \ {w} : worker'[v] = worker[v]
  BY <1>0, <1>1, <1>4
<1> HIDE DEF pc, next
<1>6. /\ outbox' \in [Rows -> OutboxRows] /\ outbox'[p.row].status = "processing"
      /\ \A r \in Rows : outbox'[r].kind = outbox[r].kind /\ outbox'[r].tries = outbox[r].tries
      /\ \A r \in Rows \ {p.row} : outbox'[r] = outbox[r]
  BY <1>0, <1>1, <1>2 DEF OutboxRows
<1>7. MemoryTypeOK'
  BY <1>0, <1>5, <1>6 DEF MemoryTypeOK
<1>8. CountedOK'
  BY <1>0, <1>1, <1>2, <1>5, <1>6 DEF CountedOK, Counted, Working
<1>a. \A v \in Workers : /\ \A q \in worker[v].todo : q.row \in Rows
                         /\ worker[v].pc \in Working => worker[v].row \in Rows
  BY <1>0, WorkerParts DEF Picks
<1>9. KnownOK'
  <2>1. \A r \in Rows : outbox[r].status # "absent" => outbox'[r].status # "absent"
    BY <1>6
  <2>2. ASSUME NEW v \in Workers, NEW q \in worker'[v].todo PROVE outbox'[q.row].status # "absent"
    <3>1. q \in worker[v].todo
      BY <1>5
    <3> QED BY <2>1, <3>1, <1>a DEF KnownOK
  <2>3. ASSUME NEW v \in Workers, worker'[v].pc \in Working
        PROVE  outbox'[worker'[v].row].status # "absent"
    BY <2>1, <2>3, <1>2, <1>5, <1>6, <1>a DEF KnownOK
  <2> QED BY <2>2, <2>3 DEF KnownOK
<1>10. StoredOK'
  <2> SUFFICES ASSUME NEW v \in Workers, worker'[v].pc \in {"ref", "finish"}
               PROVE  Stored(worker[v].row)'
    BY DEF StoredOK
  <2>1. CASE v = w
    <3>1. outbox'[p.row].kind \in {"extract", "empty"} /\ worker'[v].row = p.row
      BY <1>2, <1>3, <1>5, <1>6, <2>1
    <3> QED BY <3>1 DEF Stored
  <2>2. CASE v # w
    <3>1. worker'[v] = worker[v] /\ worker[v].row \in Rows
      BY <1>5, <1>a, <2>2 DEF Working
    <3>2. Stored(worker[v].row)
      BY <3>1 DEF StoredOK
    <3> QED BY <1>0, <1>6, <3>1, <3>2 DEF Stored
  <2> QED BY <2>1, <2>2
<1>11. ProcessingIsHeld'
  BY <1>0, <1>2, <1>5, <1>6 DEF ProcessingIsHeld
<1>12. FailedIsExhausted' /\ DoneIsEmbedded'
  BY <1>0, <1>2, <1>6 DEF FailedIsExhausted, DoneIsEmbedded
<1> QED BY <1>7, <1>8, <1>9, <1>10, <1>11, <1>12

LEMMA EmbedStep ==
    ASSUME MInv, NEW w \in Workers, EmbedRow(w)
    PROVE  MInv'
<1> USE DEF MInv
<1> USE RowsAndVersions
<1>0. /\ worker \in [Workers -> WorkerStates] /\ outbox \in [Rows -> OutboxRows]
      /\ UNCHANGED <<memory, stores, outbox, index, call, sync, errors>>
      /\ worker[w].pc = "embed" /\ points \in [Rows -> {"none", "partly", "there", "wiped"}]
      /\ worker[w].row \in Rows
  BY WorkerParts DEF EmbedRow, MemoryTypeOK, Working
<1> DEFINE r == worker[w].row
<1>1. /\ mishap' \in {"none", "minor", "crash"} /\ (mishap = "crash" => mishap' = "crash")
  BY MishapType DEF EmbedRow, MemoryTypeOK
<1>2. PICK goal \in {"ref", "fail"} :
        /\ Moves(w, goal)
        /\ \/ points' = [points EXCEPT ![r] = "there"]
           \/ points' = points /\ goal = "fail"
           \/ /\ points' = [points EXCEPT ![r] = IF @ = "none" THEN "partly" ELSE @]
              /\ outbox[r].kind = "chunks"
  BY DEF EmbedRow
<1>3. /\ worker' \in [Workers -> WorkerStates]
      /\ worker'[w].pc = goal /\ worker'[w].row = worker[w].row
      /\ worker'[w].todo = worker[w].todo /\ worker'[w].tries = worker[w].tries
      /\ \A v \in Workers \ {w} : worker'[v] = worker[v]
  <2>1. goal \in Working /\ worker[w].pc \in Working
    BY <1>0 DEF Working
  <2> QED BY <1>0, <1>2, <2>1, MovesType
<1>4. /\ points' \in [Rows -> {"none", "partly", "there", "wiped"}]
      /\ VectorsKept
      /\ goal = "ref" => (outbox[r].kind = "embed" => points'[r] \in {"there", "wiped"})
                         /\ (outbox[r].kind = "chunks" => points'[r] # "none")
  <2>1. CASE points' = [points EXCEPT ![r] = "there"]
    BY <1>0, <2>1 DEF VectorsKept
  <2>2. CASE points' = points /\ goal = "fail"
    BY <1>0, <2>2 DEF VectorsKept
  <2>3. CASE /\ points' = [points EXCEPT ![r] = IF @ = "none" THEN "partly" ELSE @]
             /\ outbox[r].kind = "chunks"
    BY <1>0, <2>3 DEF VectorsKept
  <2> QED BY <1>2, <2>1, <2>2, <2>3
<1> HIDE DEF r
<1>5. MemoryTypeOK'
  BY <1>0, <1>1, <1>3, <1>4 DEF MemoryTypeOK
<1>6. CountedOK'
  BY <1>0, <1>3 DEF CountedOK, Counted, Working
<1>a. \A v \in Workers : /\ worker'[v].todo = worker[v].todo /\ worker'[v].row = worker[v].row
                         /\ worker'[v].pc \in Working => worker[v].pc \in Working
                         /\ worker[v].pc \in Working => worker[v].row \in Rows
  BY <1>0, <1>3, WorkerParts DEF Working
<1>b. KnownOK'
  BY <1>0, <1>a DEF KnownOK
<1>7. StoredOK'
  <2> SUFFICES ASSUME NEW v \in Workers, worker'[v].pc \in {"ref", "finish"}
               PROVE  Stored(worker[v].row)'
    BY <1>a DEF StoredOK, Stored
  <2>1. worker[v].row \in Rows
    BY <1>a DEF Working
  <2>2. CASE v = w
    BY <1>0, <1>3, <1>4, <2>2 DEF r, Stored
  <2>3. CASE v # w
    <3>1. Stored(worker[v].row)
      BY <1>3, <2>3 DEF StoredOK
    <3> QED BY <1>0, <1>4, <1>a, <2>1, <3>1 DEF Stored, VectorsKept
  <2> QED BY <2>2, <2>3
<1>8. ProcessingIsHeld'
  BY <1>0, <1>1, <1>3 DEF ProcessingIsHeld
<1>9. FailedIsExhausted' /\ DoneIsEmbedded'
  BY <1>0, <1>4 DEF FailedIsExhausted, DoneIsEmbedded, VectorsKept
<1> QED BY <1>5, <1>6, <1>b, <1>7, <1>8, <1>9

LEMMA SetRefStep ==
    ASSUME MInv, NEW w \in Workers, SetRef(w)
    PROVE  MInv'
<1> USE DEF MInv
<1> USE RowsAndVersions
<1>0. /\ worker \in [Workers -> WorkerStates] /\ outbox \in [Rows -> OutboxRows]
      /\ UNCHANGED <<stores, outbox, points, index, call, sync, errors>>
      /\ worker[w].pc = "ref" /\ worker[w].row \in Rows
  BY WorkerParts DEF SetRef, MemoryTypeOK, Working
<1>1. mishap' \in {"none", "minor", "crash"} /\ (mishap = "crash" => mishap' = "crash")
  BY MishapType DEF SetRef, MemoryTypeOK
<1>2. outbox[worker[w].row].version \in Versions
  BY <1>0 DEF OutboxRows
<1>3. memory' \in Memories
  BY <1>2 DEF SetRef, MemoryTypeOK, Memories
<1>4. /\ worker' \in [Workers -> WorkerStates]
      /\ worker'[w].pc = "finish" /\ worker'[w].row = worker[w].row
      /\ worker'[w].todo = worker[w].todo /\ worker'[w].tries = worker[w].tries
      /\ \A v \in Workers \ {w} : worker'[v] = worker[v]
  <2>1. "finish" \in Working /\ worker[w].pc \in Working /\ Moves(w, "finish")
    BY <1>0 DEF Working, SetRef
  <2> QED BY <1>0, <2>1, MovesType
<1>5. MemoryTypeOK'
  BY <1>0, <1>1, <1>3, <1>4 DEF MemoryTypeOK
<1>6. CountedOK' /\ KnownOK' /\ StoredOK'
  BY <1>0, <1>4 DEF CountedOK, KnownOK, StoredOK, Stored, Counted, Working
<1>7. ProcessingIsHeld'
  BY <1>0, <1>1, <1>4 DEF ProcessingIsHeld
<1> QED BY <1>0, <1>5, <1>6, <1>7 DEF FailedIsExhausted, DoneIsEmbedded

\* What a worker that leaves its row may do to the outbox.
RowsKept(w) ==
    \A r \in Rows :
      /\ outbox'[r].kind = outbox[r].kind
      /\ outbox'[r].status = "absent" => outbox[r].status = "absent"
      /\ errors[r] <= errors'[r]
      /\ errors'[r] = MaxAttempts \/ outbox'[r].tries <= errors'[r]
      /\ outbox'[r].status = "failed" => outbox[r].status = "failed" \/ errors'[r] = MaxAttempts
      /\ outbox'[r].status = "done" => outbox[r].status = "done" \/ Stored(r)
      /\ outbox'[r].status = "processing" =>
           outbox[r].status = "processing" /\ (mishap' = "crash" \/ worker[w].row # r)

LEMMA LeavesKeeps ==
    ASSUME MInv, NEW w \in Workers, NEW picks \in SUBSET worker[w].todo, HasLeft(w, picks),
           UNCHANGED <<memory, stores, points, index, call, sync>>,
           outbox' \in [Rows -> OutboxRows], errors' \in [Rows -> 0..MaxAttempts],
           mishap' \in {"none", "minor", "crash"}, mishap = "crash" => mishap' = "crash",
           RowsKept(w)
    PROVE  MInv'
<1> USE DEF MInv
<1> USE RowsAndVersions
<1>0. /\ worker \in [Workers -> WorkerStates] /\ outbox \in [Rows -> OutboxRows]
      /\ errors \in [Rows -> 0..MaxAttempts] /\ picks \in SUBSET Picks
  BY WorkerParts DEF MemoryTypeOK
<1>1. /\ worker' \in [Workers -> WorkerStates]
      /\ worker'[w].pc \in {"idle", "take"} /\ worker'[w].row = 0 /\ worker'[w].todo = picks
      /\ \A v \in Workers \ {w} : worker'[v] = worker[v]
  BY <1>0, HasLeftType
<1>2. \A v \in Workers : /\ worker'[v].todo \subseteq worker[v].todo
                         /\ worker'[v].pc \in Working => worker'[v] = worker[v] /\ v # w
                         /\ worker[v].pc \in Working => worker[v].row \in Rows
                         /\ worker[v].tries \in Nat
                         /\ \A p \in worker[v].todo : p.row \in Rows /\ p.tries \in Nat
  BY <1>0, <1>1, WorkerParts DEF Working, Picks
<1>3. MemoryTypeOK'
  BY <1>1 DEF MemoryTypeOK
<1>4. CountedOK'
  <2>1. ASSUME NEW r \in Rows, NEW n \in Nat, Counted(r, n) PROVE Counted(r, n)'
    BY <1>0, <2>1, MemoryAssumption DEF Counted, RowsKept
  <2>2. \A r \in Rows : Counted(r, outbox[r].tries)'
    BY DEF RowsKept, Counted
  <2>3. ASSUME NEW v \in Workers, NEW p \in worker'[v].todo PROVE Counted(p.row, p.tries)'
    <3>1. p \in worker[v].todo
      BY <1>2
    <3>2. Counted(p.row, p.tries) /\ p.row \in Rows /\ p.tries \in Nat
      BY <1>2, <3>1 DEF CountedOK
    <3> QED BY <2>1, <3>2
  <2>4. ASSUME NEW v \in Workers, worker'[v].pc \in Working
        PROVE  Counted(worker[v].row, worker[v].tries)'
    <3>1. worker'[v] = worker[v] /\ worker[v].row \in Rows /\ worker[v].tries \in Nat
      BY <1>2, <2>4
    <3>2. errors'[worker[v].row] = MaxAttempts \/ worker[v].tries <= errors'[worker[v].row]
      BY <2>1, <2>4, <3>1 DEF CountedOK, Counted
    <3> QED BY <3>1, <3>2 DEF Counted
  <2> QED BY <2>2, <2>3, <2>4 DEF CountedOK
<1>5. KnownOK'
  <2>1. \A r \in Rows : outbox[r].status # "absent" => outbox'[r].status # "absent"
    BY DEF RowsKept
  <2>2. ASSUME NEW v \in Workers, NEW p \in worker'[v].todo PROVE outbox'[p.row].status # "absent"
    <3>1. p \in worker[v].todo /\ p.row \in Rows
      BY <1>2
    <3> QED BY <2>1, <3>1 DEF KnownOK
  <2>3. ASSUME NEW v \in Workers, worker'[v].pc \in Working
        PROVE  outbox'[worker'[v].row].status # "absent"
    <3>1. worker'[v] = worker[v] /\ worker[v].row \in Rows
      BY <1>2, <2>3
    <3> QED BY <2>1, <2>3, <3>1 DEF KnownOK
  <2> QED BY <2>2, <2>3 DEF KnownOK
<1>6. StoredOK'
  <2> SUFFICES ASSUME NEW v \in Workers, worker'[v].pc \in {"ref", "finish"}
               PROVE  Stored(worker[v].row)'
    BY DEF StoredOK
  <2>1. worker'[v] = worker[v] /\ worker[v].row \in Rows
    BY <1>2 DEF Working
  <2> QED BY <2>1 DEF StoredOK, Stored, RowsKept
<1>7. ProcessingIsHeld'
  <2> SUFFICES ASSUME mishap' # "crash", NEW r \in Rows, outbox'[r].status = "processing"
               PROVE  \E v \in Workers : worker'[v].row = r
    BY DEF ProcessingIsHeld
  <2>1. outbox[r].status = "processing" /\ worker[w].row # r /\ mishap # "crash"
    BY DEF RowsKept
  <2>2. PICK v \in Workers : worker[v].row = r
    BY <2>1 DEF ProcessingIsHeld
  <2> QED BY <1>1, <2>1, <2>2
<1>8. FailedIsExhausted'
  <2> SUFFICES ASSUME NEW r \in Rows, outbox'[r].status = "failed"
               PROVE  errors'[r] = MaxAttempts
    BY DEF FailedIsExhausted
  <2>1. errors[r] <= errors'[r] /\ errors'[r] \in 0..MaxAttempts
    BY DEF RowsKept
  <2>2. CASE outbox[r].status = "failed"
    <3>1. errors[r] = MaxAttempts
      BY <2>2 DEF FailedIsExhausted
    <3> QED BY <2>1, <3>1, MemoryAssumption
  <2>3. CASE outbox[r].status # "failed"
    BY <2>3 DEF RowsKept
  <2> QED BY <2>2, <2>3
<1>9. DoneIsEmbedded'
  BY DEF DoneIsEmbedded, Stored, RowsKept
<1> QED BY <1>3, <1>4, <1>5, <1>6, <1>7, <1>8, <1>9

LEMMA FinishStep ==
    ASSUME MInv, NEW w \in Workers, FinishRow(w)
    PROVE  MInv'
<1> USE DEF MInv
<1>0. /\ worker \in [Workers -> WorkerStates] /\ outbox \in [Rows -> OutboxRows]
      /\ errors \in [Rows -> 0..MaxAttempts] /\ mishap \in {"none", "minor", "crash"}
      /\ UNCHANGED <<memory, stores, points, index, call, sync, errors, mishap>>
      /\ worker[w].pc = "finish" /\ worker[w].row \in Rows
      /\ HasLeft(w, worker[w].todo)
  BY WorkerParts DEF FinishRow, MemoryTypeOK, Working, NextRow
<1>1. /\ outbox' \in [Rows -> OutboxRows] /\ outbox'[worker[w].row].status = "done"
      /\ \A r \in Rows : outbox'[r].kind = outbox[r].kind /\ outbox'[r].tries = outbox[r].tries
      /\ \A r \in Rows \ {worker[w].row} : outbox'[r] = outbox[r]
  BY <1>0 DEF FinishRow, Marks, OutboxRows
<1>2. RowsKept(w)
  <2> SUFFICES ASSUME NEW r \in Rows PROVE RowsKept(w)!(r)
    BY DEF RowsKept
  <2>1. errors[r] <= errors'[r]
    BY <1>0, MemoryAssumption
  <2>2. errors'[r] = MaxAttempts \/ outbox'[r].tries <= errors'[r]
    BY <1>0, <1>1 DEF CountedOK, Counted
  <2>3. CASE r = worker[w].row
    BY <1>0, <1>1, <2>1, <2>2, <2>3 DEF StoredOK
  <2>4. CASE r # worker[w].row
    BY <1>1, <2>1, <2>2, <2>4
  <2> QED BY <2>3, <2>4
<1> QED BY <1>0, <1>1, <1>2, LeavesKeeps

LEMMA FailStep ==
    ASSUME MInv, NEW w \in Workers, FailRow(w)
    PROVE  MInv'
<1> USE DEF MInv
<1>0. /\ worker \in [Workers -> WorkerStates] /\ outbox \in [Rows -> OutboxRows]
      /\ errors \in [Rows -> 0..MaxAttempts] /\ mishap \in {"none", "minor", "crash"}
      /\ UNCHANGED <<memory, stores, points, index, call, sync, mishap>>
      /\ worker[w].pc = "fail" /\ worker[w].row \in Rows /\ worker[w].tries \in Nat
      /\ HasLeft(w, worker[w].todo)
  BY WorkerParts DEF FailRow, MemoryTypeOK, Working, NextRow
<1> DEFINE row == worker[w].row
           n == outbox[row].tries
<1>1. n \in Nat /\ errors[row] \in 0..MaxAttempts
  BY <1>0 DEF OutboxRows
<1>2. PICK status \in {"failed", "pending"}, m \in Nat :
           /\ outbox' = [outbox EXCEPT ![row] = [@ EXCEPT !.status = status, !.tries = m]]
           /\ status = "failed" => Exhausted(w) /\ m = n
           /\ status = "pending" => m = n + 1
  <2>1. CASE Exhausted(w)
    <3>1. outbox' = [outbox EXCEPT ![row].status = "failed", ![row].tries = @]
      BY <2>1 DEF FailRow
    <3> QED BY <1>0, <1>1, <2>1, <3>1
  <2>2. CASE ~Exhausted(w)
    <3>1. outbox' = [outbox EXCEPT ![row].status = "pending", ![row].tries = @ + 1]
      BY <2>2 DEF FailRow
    <3>2. n + 1 \in Nat
      BY <1>1
    <3> QED BY <1>0, <1>1, <2>2, <3>1, <3>2
  <2> QED BY <2>1, <2>2
<1>3. /\ outbox' \in [Rows -> OutboxRows]
      /\ outbox'[row].status = status /\ outbox'[row].tries = m
      /\ \A r \in Rows : outbox'[r].kind = outbox[r].kind
      /\ \A r \in Rows \ {row} : outbox'[r] = outbox[r]
  BY <1>0, <1>2 DEF OutboxRows
<1>4. PICK k \in 0..MaxAttempts :
           /\ errors' = [errors EXCEPT ![row] = k] /\ errors[row] <= k
           /\ k = MaxAttempts \/ k = errors[row] + 1
  <2>1. errors' = [errors EXCEPT ![row] = IF @ < MaxAttempts THEN @ + 1 ELSE @]
    BY DEF FailRow, Errs
  <2>2. CASE errors[row] < MaxAttempts
    <3>1. errors[row] + 1 \in 0..MaxAttempts /\ errors[row] <= errors[row] + 1
      BY <1>1, <2>2, MemoryAssumption
    <3>2. errors' = [errors EXCEPT ![row] = errors[row] + 1]
      BY <2>1, <2>2
    <3> QED BY <3>1, <3>2
  <2>3. CASE ~(errors[row] < MaxAttempts)
    <3>1. errors[row] = MaxAttempts /\ errors[row] <= errors[row]
      BY <1>1, <2>3, MemoryAssumption
    <3>2. errors' = [errors EXCEPT ![row] = errors[row]]
      BY <2>1, <2>3
    <3> QED BY <1>1, <3>1, <3>2
  <2> QED BY <2>2, <2>3
<1>5. /\ errors' \in [Rows -> 0..MaxAttempts] /\ errors'[row] = k
      /\ \A r \in Rows \ {row} : errors'[r] = errors[r]
  BY <1>0, <1>4
<1>6. (errors[row] = MaxAttempts \/ n <= errors[row]) /\
      (errors[row] = MaxAttempts \/ worker[w].tries <= errors[row])
  BY <1>0 DEF CountedOK, Counted, Working
<1>7. k = MaxAttempts \/ m <= k
  BY <1>1, <1>2, <1>4, <1>6, MemoryAssumption
<1>8. status = "failed" => k = MaxAttempts
  BY <1>0, <1>1, <1>2, <1>4, <1>6, MemoryAssumption DEF Exhausted
<1>9. outbox[row].status # "absent"
  BY <1>0 DEF KnownOK, Working
<1>10. RowsKept(w)
  <2> SUFFICES ASSUME NEW r \in Rows PROVE RowsKept(w)!(r)
    BY DEF RowsKept
  <2>1. CASE r = row
    BY <1>2, <1>3, <1>4, <1>5, <1>7, <1>8, <1>9, <2>1
  <2>2. CASE r # row
    <3>1. errors[r] <= errors[r] /\ (errors[r] = MaxAttempts \/ outbox[r].tries <= errors[r])
      BY <1>0, MemoryAssumption DEF CountedOK, Counted
    <3> QED BY <1>3, <1>5, <2>2, <3>1
  <2> QED BY <2>1, <2>2
<1> QED BY <1>0, <1>3, <1>5, <1>10, LeavesKeeps

LEMMA StopStep ==
    ASSUME MInv, NEW w \in Workers, MarkFails(w) \/ WorkerCrash(w)
    PROVE  MInv'
<1> USE DEF MInv
<1>0. /\ worker \in [Workers -> WorkerStates] /\ outbox \in [Rows -> OutboxRows]
      /\ errors \in [Rows -> 0..MaxAttempts] /\ mishap' = "crash"
      /\ UNCHANGED <<memory, stores, outbox, points, index, call, sync, errors>>
  BY DEF MarkFails, WorkerCrash, Crashes, MemoryTypeOK
<1>1. PICK picks \in SUBSET worker[w].todo : HasLeft(w, picks)
  BY DEF MarkFails, WorkerCrash, HasLeft, NextRow
<1>2. RowsKept(w)
  BY <1>0, MemoryAssumption DEF RowsKept, CountedOK, Counted
<1> QED BY <1>0, <1>1, <1>2, LeavesKeeps

-----------------------------------------------------------------------------
LEMMA MemoryStarts == MemoryInit => MInv
<1> SUFFICES ASSUME MemoryInit PROVE MInv
  OBVIOUS
<1> USE RowsAndVersions
<1> USE MemoryAssumption DEF MemoryInit
<1>1. MemoryTypeOK
  BY DEF MemoryTypeOK, NoMemory, Memories, NoRow, OutboxRows, Kinds, NoEntry, Entries,
         NoCall, CallStates, WorkerStates
<1>2. CountedOK /\ KnownOK /\ StoredOK
  BY DEF CountedOK, Counted, KnownOK, StoredOK, NoRow, AtRest, Working
<1>3. ProcessingIsHeld /\ FailedIsExhausted /\ DoneIsEmbedded
  BY DEF ProcessingIsHeld, FailedIsExhausted, DoneIsEmbedded, NoRow
<1> QED BY <1>1, <1>2, <1>3 DEF MInv

LEMMA MemoryStep == MInv /\ [MemoryNext]_memoryVars => MInv'
<1> SUFFICES ASSUME MInv, [MemoryNext]_memoryVars PROVE MInv'
  OBVIOUS
<1>0. MemoryTypeOK
  BY DEF MInv
<1>1. ASSUME NEW c \in Calls, CallNext(c) PROVE MInv'
  BY <1>0, <1>1, CallStep, OutsideKeeps
<1>2. CASE QueueExtract \/ ReadNewer \/ CopyToIndex \/ CallsCrash
  BY <1>0, <1>2, HeartbeatStep, OutsideKeeps
<1>3. ASSUME NEW w \in Workers, WorkerNext(w) PROVE MInv'
  BY <1>3, FetchStep, TakeStep, EmbedStep, SetRefStep, FinishStep, FailStep DEF WorkerNext
<1>4. ASSUME NEW w \in Workers, MarkFails(w) \/ WorkerCrash(w) PROVE MInv'
  BY <1>4, StopStep
<1>5. CASE UNCHANGED memoryVars
  BY <1>5 DEF memoryVars, MInv, MemoryTypeOK, CountedOK, Counted, KnownOK, StoredOK, Stored,
              ProcessingIsHeld, FailedIsExhausted, DoneIsEmbedded
<1> QED BY <1>1, <1>2, <1>3, <1>4, <1>5 DEF MemoryNext

LEMMA MemoryInvariant == MemorySpec => []MInv
BY MemoryStarts, MemoryStep, PTL DEF MemorySpec

\* Every variable of the stores, requests and workers keeps its type.
THEOREM MemoryTypeCorrect == MemorySpec => []MemoryTypeOK
<1>1. MInv => MemoryTypeOK
  BY DEF MInv
<1> QED BY <1>1, MemoryInvariant, PTL

\* With any number of workers that fetch the same rows, a row in processing is
\* in some worker's hands unless one crashed or could not mark a row.
THEOREM HeldWhileProcessing == MemorySpec => []ProcessingIsHeld
<1>1. MInv => ProcessingIsHeld
  BY DEF MInv
<1> QED BY <1>1, MemoryInvariant, PTL

\* A row is given up only after MaxAttempts failures, though several workers
\* may count them and the limit is compared with a count read before.
THEOREM GivenUpExhausted == MemorySpec => []FailedIsExhausted
<1>1. MInv => FailedIsExhausted
  BY DEF MInv
<1> QED BY <1>1, MemoryInvariant, PTL

\* A row that is done has had its vector stored, or all its chunks tried; empty
\* content asks for neither.
THEOREM EmbeddedWhenDone == MemorySpec => []DoneIsEmbedded
<1>1. MInv => DoneIsEmbedded
  BY DEF MInv
<1> QED BY <1>1, MemoryInvariant, PTL

-----------------------------------------------------------------------------
(* One worker.                                                              *)

\* The rows a worker has left are as it read them, and its row is marked.
AsRead(w) ==
    /\ \A p \in worker[w].todo :
         outbox[p.row].status = "pending" /\ outbox[p.row].tries = p.tries
    /\ worker[w].pc \in Working => outbox[worker[w].row].status = "processing"

\* A step of the only worker keeps this, and settles only the row it holds.
LEMMA AloneStep ==
    ASSUME MInv, NEW w \in Workers, AsRead(w),
           WorkerNext(w) \/ MarkFails(w) \/ WorkerCrash(w)
    PROVE  /\ AsRead(w)'
           /\ \A r \in Rows : outbox[r].status \in {"done", "failed"} => outbox'[r] = outbox[r]
<1> DEFINE Goal == /\ AsRead(w)'
                   /\ \A r \in Rows : outbox[r].status \in {"done", "failed"} => outbox'[r] = outbox[r]
           row == worker[w].row
<1>0. /\ worker \in [Workers -> WorkerStates] /\ outbox \in [Rows -> OutboxRows]
      /\ worker[w].todo \in SUBSET Picks /\ (worker[w].pc \in Working => row \in Rows)
      /\ \A p \in worker[w].todo : p \in Picks /\ p.row \in Rows
  BY WorkerParts DEF MInv, MemoryTypeOK, Picks
<1>1. ASSUME FetchBatch(w) PROVE Goal
  <2>1. PICK some \in SUBSET Pending : Reads(w, some)
    BY <1>1 DEF FetchBatch
  <2> DEFINE picks == {[row |-> r, tries |-> outbox[r].tries] : r \in some}
  <2>2. \A p \in picks : /\ p \in Picks /\ p.tries = outbox[p.row].tries
                        /\ outbox[p.row].status = "pending"
    BY <1>0, <2>1 DEF Pending, Picks, OutboxRows
  <2>3. picks \in SUBSET Picks /\ HasLeft(w, picks)
    BY <2>1, <2>2 DEF Reads
  <2> HIDE DEF picks
  <2>4. worker'[w].pc \in {"idle", "take"} /\ worker'[w].todo = picks
    BY <1>0, <2>3, HasLeftType
  <2>5. outbox' = outbox
    BY <1>1 DEF FetchBatch
  <2> QED BY <2>2, <2>4, <2>5 DEF AsRead, Working
<1>2. ASSUME TakeRow(w) PROVE Goal
  <2> DEFINE pc(p) == IF outbox[p.row].kind \in {"extract", "empty"} THEN "finish" ELSE "embed"
             next(p) == [pc |-> pc(p), todo |-> worker[w].todo \ {p}, row |-> p.row,
                         tries |-> p.tries]
  <2>1. PICK p \in worker[w].todo :
             /\ outbox' = [outbox EXCEPT ![p.row].status = "processing"]
             /\ worker' = [worker EXCEPT ![w] = next(p)]
    BY <1>2 DEF TakeRow
  <2>2. worker'[w].row = p.row /\ worker'[w].todo = worker[w].todo \ {p}
    BY <1>0, <2>1
  <2>3. /\ outbox'[p.row].status = "processing"
        /\ \A r \in Rows \ {p.row} : outbox'[r] = outbox[r]
    BY <1>0, <2>1 DEF OutboxRows
  <2>4. outbox[p.row].status = "pending"
    BY DEF AsRead
  <2>5. ASSUME NEW q \in worker[w].todo, q # p PROVE outbox'[q.row] = outbox[q.row]
    <3>1. p = [row |-> p.row, tries |-> p.tries] /\ q = [row |-> q.row, tries |-> q.tries]
      BY <1>0 DEF Picks
    <3>2. q.row # p.row
      BY <2>5, <3>1 DEF AsRead
    <3> QED BY <1>0, <2>3, <3>2
  <2> HIDE DEF next, pc
  <2>6. AsRead(w)'
    BY <2>2, <2>3, <2>5 DEF AsRead
  <2> QED BY <2>3, <2>4, <2>6
<1>3. ASSUME EmbedRow(w) \/ SetRef(w) PROVE Goal
  <2>1. worker[w].pc \in Working /\ outbox' = outbox
    BY <1>3 DEF EmbedRow, SetRef, Working
  <2>2. PICK goal \in Working : Moves(w, goal)
    BY <1>3 DEF EmbedRow, SetRef, Working
  <2>3. worker'[w].row = worker[w].row /\ worker'[w].todo = worker[w].todo
    BY <1>0, <2>1, <2>2, MovesType
  <2> QED BY <2>1, <2>3 DEF AsRead
<1>4. ASSUME FinishRow(w) \/ FailRow(w) PROVE Goal
  <2>1. worker[w].pc \in Working /\ HasLeft(w, worker[w].todo)
    BY <1>4 DEF FinishRow, FailRow, NextRow, Working
  <2>2. worker'[w].pc \in {"idle", "take"} /\ worker'[w].todo = worker[w].todo
    BY <1>0, <2>1, HasLeftType
  <2>3. \A r \in Rows \ {row} : outbox'[r] = outbox[r]
    BY <1>0, <1>4 DEF FinishRow, FailRow, Marks
  <2>4. row \in Rows /\ outbox[row].status = "processing"
    BY <1>0, <2>1 DEF AsRead
  <2>5. \A p \in worker[w].todo : outbox'[p.row] = outbox[p.row]
    BY <1>0, <2>3, <2>4 DEF AsRead
  <2>6. AsRead(w)'
    BY <2>2, <2>5 DEF AsRead, Working
  <2> QED BY <2>3, <2>4, <2>6
<1>5. ASSUME MarkFails(w) \/ WorkerCrash(w) PROVE Goal
  <2>1. PICK picks \in SUBSET worker[w].todo : HasLeft(w, picks)
    BY <1>5 DEF MarkFails, WorkerCrash, HasLeft, NextRow
  <2>2. picks \in SUBSET Picks
    BY <1>0
  <2>3. worker'[w].pc \in {"idle", "take"} /\ worker'[w].todo = picks
    BY <1>0, <2>1, <2>2, HasLeftType
  <2>4. outbox' = outbox
    BY <1>5 DEF MarkFails, WorkerCrash
  <2> QED BY <2>1, <2>3, <2>4 DEF AsRead, Working
<1> QED BY <1>1, <1>2, <1>3, <1>4, <1>5 DEF WorkerNext

\* A request or a heartbeat leaves the rows that exist alone.
LEMMA OthersStep ==
    ASSUME MInv, NEW w \in Workers, AsRead(w), Outside
    PROVE  /\ AsRead(w)'
           /\ \A r \in Rows : outbox[r].status \in {"done", "failed"} => outbox'[r] = outbox[r]
<1>1. /\ worker \in [Workers -> WorkerStates] /\ worker' = worker
      /\ \A r \in Rows : outbox[r].status # "absent" => outbox'[r] = outbox[r]
  BY DEF MInv, MemoryTypeOK, Outside
<1>2. /\ \A p \in worker[w].todo : p.row \in Rows
      /\ worker[w].pc \in Working => worker[w].row \in Rows
  BY <1>1, WorkerParts DEF Picks
<1> QED BY <1>1, <1>2 DEF AsRead

\* With one worker, whatever the requests, the rows and the failures, a row
\* that is done or given up stays so.
THEOREM SettledForOneWorker ==
    ASSUME NEW w, Workers = {w}
    PROVE  MemorySpec => SettledIsFinal
<1>1. MemoryInit => AsRead(w)
  BY DEF MemoryInit, AsRead, AtRest, Working
<1>2. MInv /\ AsRead(w) /\ [MemoryNext]_memoryVars
      => AsRead(w)' /\ \A r \in Rows : outbox[r].status \in {"done", "failed"}
                                       => outbox'[r].status = outbox[r].status
  <2> SUFFICES ASSUME MInv, AsRead(w), [MemoryNext]_memoryVars
               PROVE  AsRead(w)' /\ \A r \in Rows : outbox[r].status \in {"done", "failed"}
                                       => outbox'[r].status = outbox[r].status
    OBVIOUS
  <2>0. MemoryTypeOK
    BY DEF MInv
  <2>1. ASSUME NEW c \in Calls, CallNext(c) PROVE Outside
    BY <2>0, <2>1, CallStep
  <2>2. ASSUME QueueExtract \/ ReadNewer \/ CopyToIndex \/ CallsCrash PROVE Outside
    BY <2>0, <2>2, HeartbeatStep
  <2>3. CASE Outside
    BY <2>3, OthersStep
  <2>4. CASE WorkerNext(w) \/ MarkFails(w) \/ WorkerCrash(w)
    BY <2>4, AloneStep
  <2>5. CASE UNCHANGED memoryVars
    BY <2>5 DEF memoryVars, AsRead
  <2> QED BY <2>1, <2>2, <2>3, <2>4, <2>5 DEF MemoryNext
<1>3. MInv /\ AsRead(w) /\ [MemoryNext]_memoryVars
      => [\A r \in Rows : outbox[r].status \in {"done", "failed"}
           => outbox'[r].status = outbox[r].status]_memoryVars
  BY <1>2
<1> QED BY <1>1, <1>2, <1>3, MemoryInvariant, PTL DEF MemorySpec, SettledIsFinal
-----------------------------------------------------------------------------
(* The stores agree.                                                        *)

\* Versions are handed out in order.
VersionsOK ==
    /\ memory.version <= stores
    /\ \A c \in Calls : call[c].version <= stores
    /\ \A r \in Rows : outbox[r].version <= stores

\* One request, or one copy to the index, is under way at most.
OneAtATime ==
    /\ \A c, d \in Calls : call[c] # NoCall /\ call[d] # NoCall => c = d
    /\ sync # 0 => \A c \in Calls : call[c] = NoCall

\* What is under way works on the memory as it is.
UpToDate ==
    /\ Quiet => index.version = memory.version
    /\ sync # 0 => sync = memory.version
    /\ \A c \in Calls :
         /\ call[c].pc \in {"queue", "index"} => call[c].version = memory.version
         /\ call[c].pc \in {"unindex", "wipe"} => memory = NoMemory
         /\ call[c].pc = "wipe" => index.version = 0

\* A row with the newest content.
EmbedsNewest(r) ==
    /\ outbox[r].status # "absent" /\ outbox[r].kind # "extract"
    /\ outbox[r].version = memory.version

NewestIsQueued ==
    memory # NoMemory /\ (\A c \in Calls : call[c].pc # "queue") =>
       \E r \in Rows : EmbedsNewest(r)

PastEmbedding(r) ==
    \/ outbox[r].status = "done"
    \/ \E w \in Workers : worker[w].pc \in {"ref", "finish"} /\ worker[w].row = r

\* delete_memory takes vectors away only once the memory is gone, and the rows
\* of a memory stored again have another version.
NewestIsThere ==
    memory # NoMemory =>
       \A r \in Rows : EmbedsNewest(r) /\ outbox[r].kind # "empty" /\ PastEmbedding(r)
                         => points[r] = "there"

Undisturbed == OneAtATime /\ UpToDate /\ NewestIsQueued /\ NewestIsThere
AgreeOK == VersionsOK /\ (mishap = "none" => Undisturbed)

\* A worker changes no row's kind or version, and no row comes or goes.
LEMMA WorkerKeepsRows ==
    ASSUME MInv, NEW w \in Workers, WorkerNext(w) \/ MarkFails(w) \/ WorkerCrash(w)
    PROVE  \A r \in Rows :
             /\ outbox'[r].kind = outbox[r].kind /\ outbox'[r].version = outbox[r].version
             /\ outbox'[r].status = "absent" <=> outbox[r].status = "absent"
<1> USE DEF OutboxRows
<1>0. /\ outbox \in [Rows -> OutboxRows] /\ worker \in [Workers -> WorkerStates]
      /\ \A p \in worker[w].todo : p.row \in Rows /\ outbox[p.row].status # "absent"
      /\ worker[w].pc \in Working =>
           worker[w].row \in Rows /\ outbox[worker[w].row].status # "absent"
  BY WorkerParts DEF MInv, MemoryTypeOK, Picks, KnownOK
<1>1. CASE TakeRow(w)
  <2>1. PICK p \in worker[w].todo : outbox' = [outbox EXCEPT ![p.row].status = "processing"]
    BY <1>1 DEF TakeRow
  <2> QED BY <1>0, <2>1
<1>2. CASE FinishRow(w)
  BY <1>0, <1>2 DEF FinishRow, Marks, Working
<1>3. CASE FailRow(w)
  BY <1>0, <1>3 DEF FailRow, Working
<1>4. CASE outbox' = outbox
  BY <1>4
<1> QED BY <1>1, <1>2, <1>3, <1>4
        DEF WorkerNext, FetchBatch, EmbedRow, SetRef, MarkFails, WorkerCrash

LEMMA VersionsStep ==
    ASSUME MInv, VersionsOK, [MemoryNext]_memoryVars
    PROVE  VersionsOK'
<1> USE DEF VersionsOK
<1>0. /\ memory \in Memories /\ stores \in Nat /\ memory.version \in Nat
      /\ outbox \in [Rows -> OutboxRows] /\ call \in [Calls -> CallStates]
      /\ \A r \in Rows : outbox[r].version \in Nat
      /\ \A c \in Calls : call[c].version \in Nat
  BY RowsAndVersions DEF MInv, MemoryTypeOK, Memories, OutboxRows, CallStates
<1>1. ASSUME NEW c \in Calls, StoreMemory(c) PROVE VersionsOK'
  <2>1. stores' = stores + 1 /\ memory'.version = stores' /\ outbox' = outbox
    BY <1>0, <1>1 DEF StoreMemory, Memories
  <2>2. call'[c].version = stores' /\ \A d \in Calls \ {c} : call'[d] = call[d]
    BY <1>0, <1>1 DEF StoreMemory, Goes
  <2>3. \A d \in Calls : call'[d].version <= stores'
    BY <1>0, <2>1, <2>2
  <2> QED BY <1>0, <2>1, <2>3
<1>2. ASSUME NEW c \in Calls, QueueRow(c) PROVE VersionsOK'
  <2>1. \A d \in Calls : call'[d].version <= stores'
    BY <1>0, <1>2 DEF QueueRow, Goes, Returns, NoCall
  <2>2. ASSUME NEW r \in Rows PROVE outbox'[r] = outbox[r] \/ outbox'[r].version = call[c].version
    BY <1>0, <1>2, <2>2 DEF QueueRow, Append
  <2> QED BY <1>0, <1>2, <2>1, <2>2 DEF QueueRow
<1>3. ASSUME NEW c \in Calls, IndexMemory(c) \/ UnindexMemory(c) \/ WipeVectors(c)
      PROVE  VersionsOK'
  BY <1>0, <1>3 DEF IndexMemory, UnindexMemory, WipeVectors, Goes, Returns, NoCall
<1>4. ASSUME NEW c \in Calls, DeleteMemory(c) PROVE VersionsOK'
  BY <1>0, <1>4 DEF DeleteMemory, Goes, NoMemory
<1>5. ASSUME QueueExtract PROVE VersionsOK'
  <2>1. ASSUME NEW r \in Rows PROVE outbox'[r] = outbox[r] \/ outbox'[r].version = memory.version
    BY <1>0, <1>5, <2>1 DEF QueueExtract, Append
  <2> QED BY <1>0, <1>5, <2>1 DEF QueueExtract
<1>6. ASSUME ReadNewer \/ CopyToIndex \/ CallsCrash PROVE VersionsOK'
  BY <1>0, <1>6 DEF ReadNewer, CopyToIndex, CallsCrash, NoCall
<1>7. ASSUME NEW w \in Workers, WorkerNext(w) \/ MarkFails(w) \/ WorkerCrash(w)
      PROVE  VersionsOK'
  <2>1. memory'.version = memory.version /\ stores' = stores /\ call' = call
    BY <1>0, <1>7 DEF WorkerNext, FetchBatch, TakeRow, EmbedRow, SetRef, FinishRow, FailRow,
                      MarkFails, WorkerCrash, Memories
  <2>2. \A r \in Rows : outbox'[r].version = outbox[r].version
    BY <1>7, WorkerKeepsRows
  <2> QED BY <2>1, <2>2
<1>8. ASSUME UNCHANGED memoryVars PROVE VersionsOK'
  BY <1>8 DEF memoryVars
<1> QED BY <1>1, <1>2, <1>3, <1>4, <1>5, <1>6, <1>7, <1>8 DEF MemoryNext, CallNext

\* While a request is under way nothing else is.
LEMMA Alone ==
    ASSUME OneAtATime, NEW c \in Calls, call[c] # NoCall
    PROVE  sync = 0 /\ \A d \in Calls \ {c} : call[d] = NoCall
BY DEF OneAtATime

\* What a step says of the vectors depends on these variables alone.
LEMMA VectorsStay ==
    ASSUME NewestIsThere, UNCHANGED <<memory, outbox, points, worker>>
    PROVE  NewestIsThere'
BY DEF NewestIsThere, EmbedsNewest, PastEmbedding

LEMMA QueuedStays ==
    ASSUME NewestIsQueued, UNCHANGED <<memory, outbox>>,
           \A c \in Calls : call'[c].pc # "queue" => call[c].pc # "queue"
    PROVE  NewestIsQueued'
BY DEF NewestIsQueued, EmbedsNewest

LEMMA CallAgrees ==
    ASSUME MInv, VersionsOK, Undisturbed, mishap = "none", mishap' = "none",
           NEW c \in Calls, CallNext(c)
    PROVE  Undisturbed'
<1> USE RowsAndVersions DEF Undisturbed
<1>0. /\ memory \in Memories /\ stores \in Nat
      /\ outbox \in [Rows -> OutboxRows] /\ call \in [Calls -> CallStates]
      /\ \A r \in Rows : outbox[r].version \in Nat
      /\ NoCall.pc = "idle"
  BY DEF MInv, MemoryTypeOK, OutboxRows, NoCall
<1>1. ASSUME StoreMemory(c) PROVE Undisturbed'
  <2>1. Quiet /\ \A d \in Calls : call[d] = NoCall
    BY <1>1 DEF StoreMemory, Begins, Mars, Quiet
  <2>2. /\ stores' = stores + 1 /\ memory'.version = stores + 1 /\ sync' = 0
        /\ UNCHANGED <<outbox, points, index, worker>>
    BY <1>0, <1>1, <2>1 DEF StoreMemory, Memories, Quiet
  <2>3. call'[c] = [pc |-> "queue", version |-> stores + 1]
        /\ \A d \in Calls \ {c} : call'[d] = NoCall
    BY <1>0, <1>1, <2>1, <2>2 DEF StoreMemory, Goes
  <2>4. OneAtATime'
    BY <2>2, <2>3 DEF OneAtATime
  <2>5. UpToDate'
    BY <1>0, <2>2, <2>3 DEF UpToDate, Quiet, NoCall
  <2>6. NewestIsQueued'
    BY <2>3 DEF NewestIsQueued
  <2>7. NewestIsThere'
    BY <1>0, <2>2 DEF NewestIsThere, EmbedsNewest, VersionsOK
  <2> QED BY <2>4, <2>5, <2>6, <2>7
<1>2. ASSUME QueueRow(c) PROVE Undisturbed'
  <2>1. PICK kind \in Kinds \ {"extract"} :
          Append([status |-> "pending", kind |-> kind, id |-> memory.id,
                  version |-> call[c].version, tries |-> 0])
    BY <1>2 DEF QueueRow, Mars
  <2> DEFINE new == [status |-> "pending", kind |-> kind, id |-> memory.id,
                     version |-> call[c].version, tries |-> 0]
  <2>2. PICK r \in Rows : /\ \A s \in Rows : outbox[s].status = "absent" <=> s >= r
                          /\ outbox' = [outbox EXCEPT ![r] = new]
    BY <2>1 DEF Append
  <2>3. outbox[r].status = "absent" /\ outbox'[r] = new
        /\ \A s \in Rows \ {r} : outbox'[s] = outbox[s]
    BY <1>0, <2>2
  <2>4. /\ call[c].pc = "queue" /\ sync = 0 /\ sync' = 0
        /\ \A d \in Calls \ {c} : call[d] = NoCall
        /\ UNCHANGED <<memory, points, index, worker>>
    BY <1>0, <1>2, Alone DEF QueueRow
  <2>5. call'[c] = [pc |-> "index", version |-> call[c].version]
        /\ \A d \in Calls \ {c} : call'[d] = NoCall
    BY <1>0, <1>2, <2>4 DEF QueueRow, Goes, Mars
  <2>6. call[c].version = memory.version
    BY <2>4 DEF UpToDate
  <2>7. OneAtATime'
    BY <2>4, <2>5 DEF OneAtATime
  <2>8. UpToDate'
    BY <1>0, <2>4, <2>5, <2>6 DEF UpToDate, Quiet
  <2>9. NewestIsQueued'
    <3>1. EmbedsNewest(r)'
      BY <2>3, <2>4, <2>6 DEF EmbedsNewest
    <3> QED BY <3>1 DEF NewestIsQueued
  <2>10. NewestIsThere'
    <3>1. ~PastEmbedding(r)'
      BY <2>3, <2>4 DEF PastEmbedding, MInv, KnownOK, Working
    <3> QED BY <2>3, <2>4, <3>1 DEF NewestIsThere, EmbedsNewest, PastEmbedding
  <2> QED BY <2>7, <2>8, <2>9, <2>10
<1>3. ASSUME IndexMemory(c) PROVE Undisturbed'
  <2>1. /\ call[c].pc = "index" /\ sync = 0 /\ sync' = 0
        /\ \A d \in Calls \ {c} : call[d] = NoCall
        /\ UNCHANGED <<memory, points, outbox, worker>>
        /\ index'.version = call[c].version
    BY <1>0, <1>3, Alone DEF IndexMemory, Mars
  <2>2. \A d \in Calls : call'[d] = NoCall
    BY <1>0, <1>3, <2>1 DEF IndexMemory, Returns
  <2>3. call[c].version = memory.version
    BY <2>1 DEF UpToDate
  <2>4. OneAtATime' /\ UpToDate'
    BY <1>0, <2>1, <2>2, <2>3 DEF OneAtATime, UpToDate
  <2>5. \A d \in Calls : call[d].pc # "queue"
    BY <1>0, <2>1
  <2> QED BY <2>1, <2>4, <2>5, VectorsStay, QueuedStays
<1>4. ASSUME DeleteMemory(c) PROVE Undisturbed'
  <2>1. Quiet /\ \A d \in Calls : call[d] = NoCall
    BY <1>4 DEF DeleteMemory, Begins, Mars, Quiet
  <2>2. memory' = NoMemory /\ sync' = 0 /\ index' = index
    BY <1>4, <2>1 DEF DeleteMemory, Quiet
  <2>3. call'[c] = [pc |-> "unindex", version |-> 0]
        /\ \A d \in Calls \ {c} : call'[d] = NoCall
    BY <1>0, <1>4, <2>1 DEF DeleteMemory, Goes
  <2>4. OneAtATime'
    BY <2>2, <2>3 DEF OneAtATime
  <2>5. UpToDate'
    BY <1>0, <2>2, <2>3 DEF UpToDate, Quiet
  <2>6. NewestIsQueued' /\ NewestIsThere'
    BY <2>2 DEF NewestIsQueued, NewestIsThere
  <2> QED BY <2>4, <2>5, <2>6
<1>5. ASSUME UnindexMemory(c) PROVE Undisturbed'
  <2>1. /\ call[c].pc = "unindex" /\ sync = 0 /\ sync' = 0
        /\ \A d \in Calls \ {c} : call[d] = NoCall
        /\ memory' = memory /\ index' = NoEntry
    BY <1>0, <1>5, Alone DEF UnindexMemory, Mars
  <2>2. call'[c] = [pc |-> "wipe", version |-> 0]
        /\ \A d \in Calls \ {c} : call'[d] = NoCall
    BY <1>0, <1>5, <2>1 DEF UnindexMemory, Goes
  <2>3. memory = NoMemory
    BY <2>1 DEF UpToDate
  <2>4. OneAtATime'
    BY <2>1, <2>2 DEF OneAtATime
  <2>5. UpToDate'
    BY <1>0, <2>1, <2>2, <2>3 DEF UpToDate, Quiet, NoEntry
  <2>6. NewestIsQueued' /\ NewestIsThere'
    BY <2>1, <2>3 DEF NewestIsQueued, NewestIsThere
  <2> QED BY <2>4, <2>5, <2>6
<1>6. ASSUME WipeVectors(c) PROVE Undisturbed'
  <2>1. /\ call[c].pc = "wipe" /\ sync = 0 /\ sync' = 0
        /\ \A d \in Calls \ {c} : call[d] = NoCall
        /\ memory' = memory /\ index' = index
    BY <1>0, <1>6, Alone DEF WipeVectors
  <2>2. \A d \in Calls : call'[d] = NoCall
    BY <1>0, <1>6, <2>1 DEF WipeVectors, Returns
  <2>3. memory = NoMemory /\ index.version = 0
    BY <2>1 DEF UpToDate
  <2>4. OneAtATime' /\ UpToDate'
    BY <1>0, <2>1, <2>2, <2>3 DEF OneAtATime, UpToDate, NoMemory
  <2>5. NewestIsQueued' /\ NewestIsThere'
    BY <2>1, <2>3 DEF NewestIsQueued, NewestIsThere
  <2> QED BY <2>4, <2>5
<1> QED BY <1>1, <1>2, <1>3, <1>4, <1>5, <1>6 DEF CallNext

LEMMA HeartbeatAgrees ==
    ASSUME MInv, Undisturbed, mishap = "none", mishap' = "none",
           QueueExtract \/ ReadNewer \/ CopyToIndex \/ CallsCrash
    PROVE  Undisturbed'
<1> USE RowsAndVersions DEF Undisturbed
<1>0. outbox \in [Rows -> OutboxRows]
  BY DEF MInv, MemoryTypeOK
<1>1. ASSUME QueueExtract PROVE Undisturbed'
  <2>1. UNCHANGED <<memory, points, index, call, worker, sync>>
    BY <1>1 DEF QueueExtract
  <2>2. PICK r \in Rows :
          /\ \A s \in Rows : outbox[s].status = "absent" <=> s >= r
          /\ outbox' = [outbox EXCEPT ![r] = [status |-> "pending", kind |-> "extract",
                id |-> memory.id, version |-> memory.version, tries |-> 0]]
    BY <1>1 DEF QueueExtract, Append
  <2>3. /\ outbox[r].status = "absent" /\ outbox'[r].kind = "extract"
        /\ \A s \in Rows \ {r} : outbox'[s] = outbox[s]
    BY <1>0, <2>2
  <2>4. OneAtATime' /\ UpToDate'
    BY <2>1 DEF OneAtATime, UpToDate, Quiet
  <2>5. NewestIsQueued'
    BY <2>1, <2>3 DEF NewestIsQueued, EmbedsNewest
  <2>6. NewestIsThere'
    BY <2>1, <2>3 DEF NewestIsThere, EmbedsNewest, PastEmbedding
  <2> QED BY <2>4, <2>5, <2>6
<1>2. ASSUME ReadNewer PROVE Undisturbed'
  <2>1. Quiet /\ sync' = memory.version
        /\ UNCHANGED <<memory, outbox, points, index, call, worker>>
    BY <1>2 DEF ReadNewer, Begins, Mars
  <2>2. OneAtATime' /\ UpToDate'
    BY <2>1 DEF OneAtATime, UpToDate, Quiet
  <2> QED BY <2>1, <2>2, VectorsStay, QueuedStays
<1>3. ASSUME CopyToIndex PROVE Undisturbed'
  <2>1. /\ sync # 0 /\ sync' = 0 /\ index'.version = sync
        /\ UNCHANGED <<memory, outbox, points, call, worker>>
    BY <1>3 DEF CopyToIndex, Mars
  <2>2. \A c \in Calls : call[c] = NoCall
    BY <2>1 DEF OneAtATime
  <2>3. OneAtATime' /\ UpToDate'
    BY <2>1, <2>2 DEF OneAtATime, UpToDate, NoCall
  <2> QED BY <2>1, <2>3, VectorsStay, QueuedStays
<1>4. ~CallsCrash
  BY DEF CallsCrash, Crashes
<1> QED BY <1>1, <1>2, <1>3, <1>4

LEMMA WorkerAgrees ==
    ASSUME MInv, Undisturbed, mishap = "none", mishap' = "none",
           NEW w \in Workers, WorkerNext(w) \/ MarkFails(w) \/ WorkerCrash(w)
    PROVE  Undisturbed'
<1> USE RowsAndVersions DEF Undisturbed
<1> DEFINE row == worker[w].row
<1>0. /\ memory \in Memories /\ outbox \in [Rows -> OutboxRows]
      /\ points \in [Rows -> {"none", "partly", "there", "wiped"}]
      /\ worker \in [Workers -> WorkerStates]
      /\ worker[w].todo \in SUBSET Picks /\ (worker[w].pc \in Working => row \in Rows)
      /\ \A p \in worker[w].todo : p.row \in Rows
  BY WorkerParts DEF MInv, MemoryTypeOK, Picks
<1>1. /\ UNCHANGED <<index, call, sync>> /\ memory'.version = memory.version
      /\ memory' # NoMemory => memory # NoMemory
      /\ memory = NoMemory => memory' = NoMemory
  BY <1>0 DEF WorkerNext, FetchBatch, TakeRow, EmbedRow, SetRef, FinishRow, FailRow,
              MarkFails, WorkerCrash, Memories
<1>2. OneAtATime' /\ UpToDate'
  BY <1>1 DEF OneAtATime, UpToDate, Quiet
<1>3. \A r \in Rows : (EmbedsNewest(r) <=> EmbedsNewest(r)') /\ outbox'[r].kind = outbox[r].kind
  BY <1>1, WorkerKeepsRows DEF EmbedsNewest
<1>4. NewestIsQueued'
  BY <1>1, <1>3 DEF NewestIsQueued
<1>5. ~MarkFails(w) /\ ~WorkerCrash(w)
  BY DEF MarkFails, WorkerCrash, Crashes
<1>6. ASSUME FetchBatch(w) \/ FinishRow(w) \/ FailRow(w)
      PROVE  \A r \in Rows : PastEmbedding(r)' => PastEmbedding(r)
  <2>1. PICK picks \in SUBSET Picks : HasLeft(w, picks)
    <3>1. ASSUME FetchBatch(w) PROVE \E picks \in SUBSET Picks : HasLeft(w, picks)
      <4>1. PICK some \in SUBSET Pending : Reads(w, some)
        BY <3>1 DEF FetchBatch
      <4>2. {[row |-> r, tries |-> outbox[r].tries] : r \in some} \in SUBSET Picks
        BY <1>0, <4>1 DEF Pending, Picks, OutboxRows
      <4> QED BY <4>1, <4>2 DEF Reads
    <3>2. ASSUME FinishRow(w) \/ FailRow(w) PROVE HasLeft(w, worker[w].todo)
      BY <3>2 DEF FinishRow, FailRow, NextRow
    <3> QED BY <1>0, <1>6, <3>1, <3>2
  <2>2. worker'[w].pc \in {"idle", "take"} /\ \A v \in Workers \ {w} : worker'[v] = worker[v]
    BY <1>0, <2>1, HasLeftType
  <2>3. ASSUME NEW r \in Rows, outbox'[r].status = "done"
        PROVE  outbox[r].status = "done" \/ (worker[w].pc = "finish" /\ row = r)
    BY <1>0, <1>6, <2>3 DEF FetchBatch, FinishRow, FailRow, Marks, Working, OutboxRows
  <2> QED BY <2>2, <2>3 DEF PastEmbedding
<1>7. ASSUME FetchBatch(w) \/ FinishRow(w) \/ FailRow(w) PROVE NewestIsThere'
  <2>1. points' = points
    BY <1>7 DEF FetchBatch, FinishRow, FailRow
  <2> QED BY <1>1, <1>3, <1>6, <1>7, <2>1 DEF NewestIsThere
<1>8. ASSUME TakeRow(w) PROVE NewestIsThere'
  <2> DEFINE pc(p) == IF outbox[p.row].kind \in {"extract", "empty"} THEN "finish" ELSE "embed"
             next(p) == [pc |-> pc(p), todo |-> worker[w].todo \ {p}, row |-> p.row,
                         tries |-> p.tries]
  <2>1. PICK p \in worker[w].todo :
             /\ outbox' = [outbox EXCEPT ![p.row].status = "processing"]
             /\ worker' = [worker EXCEPT ![w] = next(p)]
    BY <1>8 DEF TakeRow
  <2>2. /\ worker'[w].row = p.row
        /\ outbox[p.row].kind \notin {"extract", "empty"} => worker'[w].pc = "embed"
        /\ \A v \in Workers \ {w} : worker'[v] = worker[v]
    BY <1>0, <2>1
  <2>3. \A r \in Rows : outbox'[r].status = "done" => outbox[r].status = "done"
    BY <1>0, <2>1 DEF OutboxRows
  <2> HIDE DEF next, pc
  <2>4. ASSUME NEW r \in Rows, EmbedsNewest(r), outbox[r].kind # "empty", PastEmbedding(r)'
        PROVE  PastEmbedding(r)
    BY <2>2, <2>3, <2>4 DEF PastEmbedding, EmbedsNewest
  <2>5. points' = points
    BY <1>8 DEF TakeRow
  <2> QED BY <1>1, <1>3, <2>4, <2>5 DEF NewestIsThere
<1>9. ASSUME EmbedRow(w) PROVE NewestIsThere'
  <2>1. worker[w].pc = "embed" /\ row \in Rows /\ outbox' = outbox /\ memory' = memory
    BY <1>0, <1>9 DEF EmbedRow, Working
  <2>2. \/ points' = [points EXCEPT ![row] = "there"] /\ Moves(w, "ref")
        \/ points' \in {points, [points EXCEPT ![row] = "there"]} /\ Moves(w, "fail")
    BY <1>9 DEF EmbedRow, Mars
  <2>3. \A r \in Rows : points[r] = "there" => points'[r] = "there"
    BY <1>0, <2>2
  <2>4. \A v \in Workers \ {w} : worker'[v] = worker[v]
    BY <1>0, <2>2 DEF Moves
  <2>5. \/ worker'[w].pc = "ref" /\ worker'[w].row = row /\ points'[row] = "there"
        \/ worker'[w].pc = "fail"
    BY <1>0, <2>1, <2>2, MovesType DEF Working
  <2>6. ASSUME NEW r \in Rows, PastEmbedding(r)' PROVE PastEmbedding(r) \/ points'[r] = "there"
    BY <2>1, <2>4, <2>5, <2>6 DEF PastEmbedding
  <2> QED BY <1>3, <2>1, <2>3, <2>6 DEF NewestIsThere
<1>10. ASSUME SetRef(w) PROVE NewestIsThere'
  <2>1. worker[w].pc = "ref" /\ outbox' = outbox /\ points' = points /\ Moves(w, "finish")
    BY <1>10 DEF SetRef
  <2>2. \A v \in Workers \ {w} : worker'[v] = worker[v]
    BY <1>0, <2>1 DEF Moves
  <2>3. worker'[w].row = row
    BY <1>0, <2>1, MovesType DEF Working
  <2>4. \A r \in Rows : PastEmbedding(r)' => PastEmbedding(r)
    BY <2>1, <2>2, <2>3 DEF PastEmbedding
  <2> QED BY <1>1, <1>3, <2>1, <2>4 DEF NewestIsThere
<1>11. NewestIsThere'
  BY <1>5, <1>7, <1>8, <1>9, <1>10 DEF WorkerNext
<1> QED BY <1>2, <1>4, <1>11

LEMMA AgreeStep == MInv /\ AgreeOK /\ [MemoryNext]_memoryVars => AgreeOK'
<1> SUFFICES ASSUME MInv, AgreeOK, [MemoryNext]_memoryVars PROVE AgreeOK'
  OBVIOUS
<1>1. VersionsOK'
  BY VersionsStep DEF AgreeOK
<1>2. mishap' = "none" => mishap = "none"
  BY DEF MemoryNext, CallNext, StoreMemory, QueueRow, IndexMemory, DeleteMemory, UnindexMemory,
         WipeVectors, QueueExtract, ReadNewer, CopyToIndex, CallsCrash, WorkerNext, FetchBatch,
         TakeRow, EmbedRow, SetRef, FinishRow, FailRow, MarkFails, WorkerCrash,
         Begins, Mars, Crashes, memoryVars
<1>3. ASSUME mishap' = "none" PROVE Undisturbed'
  <2>1. mishap = "none" /\ Undisturbed /\ VersionsOK
    BY <1>2, <1>3 DEF AgreeOK
  <2>2. CASE UNCHANGED memoryVars
    BY <2>1, <2>2 DEF memoryVars, Undisturbed, OneAtATime, UpToDate, Quiet, NewestIsQueued,
                      NewestIsThere, EmbedsNewest, PastEmbedding
  <2> QED BY <1>3, <2>1, <2>2, CallAgrees, HeartbeatAgrees, WorkerAgrees DEF MemoryNext
<1> QED BY <1>1, <1>3 DEF AgreeOK

\* With any number of requests, workers, rows and attempts: once nothing is
\* under way, if nothing failed or overlapped and every row was worked off, the
\* index has the newest content (or no entry) and that content, unless it is empty,
\* has all its vectors.
THEOREM StoresAgreeAtRest == MemorySpec => []StoresAgree
<1>1. MemoryInit => AgreeOK
  BY RowsAndVersions, MemoryAssumption
     DEF MemoryInit, AgreeOK, VersionsOK, Undisturbed, OneAtATime, UpToDate, Quiet,
         NewestIsQueued, NewestIsThere, EmbedsNewest, NoMemory, NoEntry, NoCall, NoRow
<1>2. MInv /\ AgreeOK => StoresAgree
  <2> SUFFICES ASSUME MInv, AgreeOK, mishap = "none", Quiet,
                      \A r \in Rows : outbox[r].status \in {"absent", "done"},
                      memory # NoMemory
               PROVE  ContentIsEmbedded
    BY DEF AgreeOK, Undisturbed, UpToDate, StoresAgree
  <2>1. PICK r \in Rows : EmbedsNewest(r)
    BY DEF AgreeOK, Undisturbed, NewestIsQueued, Quiet, NoCall
  <2>2. outbox[r].kind = "empty" \/ points[r] = "there"
    BY <2>1 DEF AgreeOK, Undisturbed, NewestIsThere, EmbedsNewest, PastEmbedding
  <2> QED BY <2>1, <2>2 DEF EmbedsNewest, ContentIsEmbedded
<1> QED BY <1>1, <1>2, MemoryInvariant, AgreeStep, PTL DEF MemorySpec
===============================================================================
