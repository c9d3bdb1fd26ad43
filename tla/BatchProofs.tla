----------------------------- MODULE BatchProofs -----------------------------
(***************************************************************************)
(* Proofs about Batch, for any number of batches, items and workers and    *)
(* any bounds on faults and crashes.  BatchIInv is inductive; BatchInv,    *)
(* CompletedIsTrue and EndedStays follow from it.                          *)
(***************************************************************************)
EXTENDS Batch, FiniteSetTheorems, TLAPS

(* TypeOK, without the bound on the counters, which takes all the rest. *)
SubmitPCs == {"idle", "items", "load", "loop", "countRefused", "returned", "error"}

RowsShape ==
    /\ status \in [Batches -> {"none", "pending", "processing", "completed", "cancelled"}]
    /\ completedReq \in [Batches -> Nat] /\ failedReq \in [Batches -> Nat]
    /\ item \in [Items -> {"none", "pending", "completed", "failed", "cancelled"}]

HandlerShape ==
    /\ submitPC \in [Batches -> SubmitPCs]
    /\ todo \in [Batches -> SUBSET Items]
    /\ cancelPC \in [Batches -> {"idle", "items"}]
    /\ ctxDone \in [Batches -> BOOLEAN]

WorkShape ==
    /\ workPC \in [Items -> {"idle", "call", "store", "count", "check", "end"}]
    /\ outcome \in [Items -> {"none", "completed", "failed"}]

PoolShape ==
    /\ queue \in Seq(Items) /\ Len(queue) <= QueueSize
    /\ running \subseteq Items /\ IsFiniteSet(running) /\ Cardinality(running) <= PoolSize
    /\ ended \subseteq Items /\ refused \subseteq Items
    /\ phase \in {"idle", "open", "closing", "closed"} /\ drained \in BOOLEAN

FaultShape == faults \in 0..MaxFaults /\ crashes \in 0..MaxCrashes

Shape == RowsShape /\ HandlerShape /\ WorkShape /\ PoolShape /\ FaultShape

(* Submit has not reached its loop over the items. *)
Early(b) == submitPC[b] \in {"idle", "items", "load"}

(* What is in the queue is there once, and nobody has worked on it. *)
QueueInv ==
    /\ \A j, k \in 1..Len(queue) : queue[j] = queue[k] => j = k
    /\ \A k \in 1..Len(queue) : /\ workPC[queue[k]] = "idle" /\ queue[k] \notin refused
                                /\ ~Early(BatchOf(queue[k]))

(* An item is in one place, and its row holds a result only when a worker or *)
(* the refusal path has stored one.                                          *)
Place(i) ==
    /\ i \in running <=> workPC[i] \in {"call", "store", "count", "check"}
    /\ i \in ended <=> workPC[i] = "end"
    /\ i \in refused => workPC[i] = "idle"
    /\ workPC[i] \in {"store", "count", "check"} => outcome[i] \in {"completed", "failed"}
    /\ Early(BatchOf(i)) => workPC[i] = "idle" /\ i \notin refused
    /\ item[i] \in {"completed", "failed"} =>
          workPC[i] \in {"count", "check", "end"} \/ i \in refused \ todo[BatchOf(i)]
PlaceInv == \A i \in Items : Place(i)

Handler(b) ==
    /\ todo[b] \subseteq ItemsOf(b)
    /\ submitPC[b] = "idle" => status[b] = "none" /\ ~ctxDone[b]
HandlerInv == \A b \in Batches : Handler(b)

(* The item the refusal path has stored and not counted yet. *)
Owed(b) == IF submitPC[b] = "countRefused" THEN 1 ELSE 0
Ended(b, o) == {i \in ItemsOf(b) : workPC[i] \in {"check", "end"} /\ outcome[i] = o}

(* The counters of a batch against the work done for it: never ahead, all of *)
(* it when the batch is completed, and exact as long as nothing has failed.  *)
Sound(b) == completedReq[b] + failedReq[b] + Owed(b) <= Cardinality(Worked(b)) + Cardinality(Rejected(b))
Covered(b) ==
    status[b] = "completed" =>
        Worked(b) \cup Rejected(b) = ItemsOf(b) /\ submitPC[b] # "countRefused"
Exact(b) ==
    faults = 0 /\ (~ctxDone[b] \/ status[b] = "completed") =>
        /\ completedReq[b] = Cardinality(Ended(b, "completed"))
        /\ failedReq[b] + Owed(b) = Cardinality(Ended(b, "failed")) + Cardinality(Rejected(b))
        /\ \A i \in ItemsOf(b) : workPC[i] \in {"count", "check", "end"} =>
              item[i] = outcome[i] /\ outcome[i] \in {"completed", "failed"}
        /\ \A i \in Rejected(b) : item[i] = "failed"
Ledger(b) == Sound(b) /\ Covered(b) /\ Exact(b)
LedgerInv == \A b \in Batches : Ledger(b)

BatchIInv == Shape /\ QueueInv /\ PlaceInv /\ HandlerInv /\ LedgerInv
-----------------------------------------------------------------------------
(* Items of a batch, and how many they are. *)

(* An item belongs to the batch it was submitted with. *)
LEMMA ItemsFacts ==
    /\ \A i \in Items : BatchOf(i) \in Batches /\ i \in ItemsOf(BatchOf(i))
    /\ \A b \in Batches : \A i : i \in ItemsOf(b) <=> i \in Items /\ BatchOf(i) = b
  BY DEF Items, ItemsOf, BatchOf

(* What waits in the queue is an item of some batch. *)
LEMMA QueuedItems ==
    ASSUME PoolShape, NEW k \in 1..Len(queue)
    PROVE  queue[k] \in Items /\ BatchOf(queue[k]) \in Batches
  <1>1. queue[k] \in Items
    BY DEF PoolShape
  <1> QED BY <1>1, ItemsFacts

(* A batch has Total items. *)
LEMMA ItemsCount ==
    ASSUME NEW b \in Batches
    PROVE  IsFiniteSet(ItemsOf(b)) /\ Cardinality(ItemsOf(b)) = Total
  <1>1. IsFiniteSet({b}) /\ Cardinality({b}) = 1
    BY FS_Singleton
  <1>2. Total \in Nat /\ Total >= 1
    BY BatchAssumption
  <1>3. IsFiniteSet(1..Total) /\ Cardinality(1..Total) = Total
    BY <1>2, FS_Interval
  <1>4. /\ IsFiniteSet({b} \X (1..Total))
        /\ Cardinality({b} \X (1..Total)) = Cardinality({b}) * Cardinality(1..Total)
    BY <1>1, <1>3, FS_Product
  <1> QED BY <1>1, <1>2, <1>3, <1>4 DEF ItemsOf

(* Two disjoint parts of a batch have together no more than Total items, and *)
(* when they have that many they are the whole of it.                        *)
LEMMA PartsOfBatch ==
    ASSUME NEW b \in Batches, NEW S, NEW T, S \subseteq ItemsOf(b), T \subseteq ItemsOf(b), S \cap T = {}
    PROVE  /\ Cardinality(S) \in Nat /\ Cardinality(T) \in Nat
           /\ IsFiniteSet(S) /\ IsFiniteSet(T)
           /\ Cardinality(S) + Cardinality(T) <= Total
           /\ Cardinality(S) + Cardinality(T) >= Total => S \cup T = ItemsOf(b)
  <1>1. IsFiniteSet(ItemsOf(b)) /\ Cardinality(ItemsOf(b)) = Total
    BY ItemsCount
  <1>2. IsFiniteSet(S) /\ IsFiniteSet(T)
    BY <1>1, FS_Subset
  <1>3. Cardinality(S) \in Nat /\ Cardinality(T) \in Nat
    BY <1>2, FS_CardinalityType
  <1>4. Cardinality(S \cap T) = 0
    BY FS_EmptySet
  <1>5. Cardinality(S \cup T) = Cardinality(S) + Cardinality(T) - Cardinality(S \cap T)
    BY <1>2, FS_Union
  <1>6. S \cup T \subseteq ItemsOf(b)
    OBVIOUS
  <1>7. /\ Cardinality(S \cup T) <= Cardinality(ItemsOf(b))
        /\ Cardinality(S \cup T) = Cardinality(ItemsOf(b)) => S \cup T = ItemsOf(b)
    BY <1>1, <1>6, FS_Subset
  <1>8. Total \in Nat
    BY BatchAssumption
  <1> QED BY <1>1, <1>2, <1>3, <1>4, <1>5, <1>7, <1>8

(* Counting one item more. *)
LEMMA OneMore ==
    ASSUME NEW b \in Batches, NEW S, S \subseteq ItemsOf(b), NEW i, i \in ItemsOf(b), i \notin S
    PROVE  Cardinality(S) \in Nat /\ Cardinality(S \cup {i}) = Cardinality(S) + 1
  <1>1. IsFiniteSet(ItemsOf(b))
    BY ItemsCount
  <1>2. IsFiniteSet(S)
    BY <1>1, FS_Subset
  <1> QED BY <1>2, FS_CardinalityType, FS_AddElement

-----------------------------------------------------------------------------
(* Frames: what an action that leaves an item or a batch alone preserves. *)

PlaceStill(i) ==
    /\ workPC'[i] = workPC[i] /\ outcome'[i] = outcome[i]
    /\ i \in running' <=> i \in running
    /\ i \in ended' <=> i \in ended
    /\ i \in refused' <=> i \in refused
    /\ item'[i] \in {"completed", "failed"} => item[i] \in {"completed", "failed"}
    /\ i \in refused \ todo[BatchOf(i)] => i \notin todo'[BatchOf(i)]

(* No handler goes back before its loop. *)
Later == \A b \in Batches : Early(b)' => Early(b)

QueueStill ==
    /\ queue' = queue
    /\ \A k \in 1..Len(queue) :
          /\ workPC'[queue[k]] = workPC[queue[k]]
          /\ queue[k] \in refused' => queue[k] \in refused

LedgerStill(b) ==
    /\ completedReq'[b] = completedReq[b] /\ failedReq'[b] = failedReq[b]
    /\ submitPC'[b] = "countRefused" <=> submitPC[b] = "countRefused"
    /\ status'[b] = "completed" => status[b] = "completed"
    /\ ctxDone[b] => ctxDone'[b]
    /\ faults' = 0 => faults = 0
    /\ \A i \in ItemsOf(b) :
          /\ workPC'[i] \in {"check", "end"} <=> workPC[i] \in {"check", "end"}
          /\ workPC'[i] = "count" => workPC[i] = "count"
          /\ workPC[i] \in {"count", "check", "end"} => outcome'[i] = outcome[i]
          /\ i \in refused' \ todo'[b] <=> i \in refused \ todo[b]
          /\ item'[i] = item[i] \/ item[i] \notin {"completed", "failed"}

(* An item whose own state does not change stays where it is. *)
LEMMA PlaceFrame ==
    ASSUME NEW i \in Items, Place(i), PlaceStill(i), Later
    PROVE  Place(i)'
  <1>1. Early(BatchOf(i))' => Early(BatchOf(i))
    BY ItemsFacts DEF Later
  <1> QED BY <1>1 DEF Place, PlaceStill

(* The queue is sound as long as nothing happens to what waits in it. *)
LEMMA QueueFrame ==
    ASSUME QueueInv, PoolShape, QueueStill, Later
    PROVE  QueueInv'
  <1>1. \A k \in 1..Len(queue) : Early(BatchOf(queue[k]))' => Early(BatchOf(queue[k]))
    BY QueuedItems DEF Later, QueueStill, Early
  <1> QED BY <1>1 DEF QueueInv, QueueStill

(* The ledger of a batch whose counters, past items and rejected items do    *)
(* not change.                                                               *)
LEMMA LedgerFrame ==
    ASSUME NEW b \in Batches, Ledger(b), LedgerStill(b)
    PROVE  Ledger(b)'
  <1> USE DEF LedgerStill
  <1>1. Worked(b)' = Worked(b)
    BY DEF Worked
  <1>2. Rejected(b)' = Rejected(b)
    BY DEF Rejected
  <1>3. \A o : Ended(b, o)' = Ended(b, o)
    BY DEF Ended
  <1>4. Owed(b)' = Owed(b)
    BY DEF Owed
  <1>5. Sound(b)'
    BY <1>1, <1>2, <1>4 DEF Ledger, Sound
  <1>6. Covered(b)'
    BY <1>1, <1>2 DEF Ledger, Covered
  <1>7. Exact(b)'
    <2> SUFFICES ASSUME (faults = 0 /\ (~ctxDone[b] \/ status[b] = "completed"))'
                 PROVE  /\ completedReq'[b] = Cardinality(Ended(b, "completed")')
                        /\ failedReq'[b] + Owed(b)' = Cardinality(Ended(b, "failed")') + Cardinality(Rejected(b)')
                        /\ \A i \in ItemsOf(b) : workPC'[i] \in {"count", "check", "end"} =>
                              item'[i] = outcome'[i] /\ outcome'[i] \in {"completed", "failed"}
                        /\ \A i \in Rejected(b)' : item'[i] = "failed"
      BY DEF Exact
    <2>1. faults = 0 /\ (~ctxDone[b] \/ status[b] = "completed")
      OBVIOUS
    <2>2. /\ completedReq[b] = Cardinality(Ended(b, "completed"))
          /\ failedReq[b] + Owed(b) = Cardinality(Ended(b, "failed")) + Cardinality(Rejected(b))
          /\ \A i \in ItemsOf(b) : workPC[i] \in {"count", "check", "end"} =>
                item[i] = outcome[i] /\ outcome[i] \in {"completed", "failed"}
          /\ \A i \in Rejected(b) : item[i] = "failed"
      BY <2>1 DEF Ledger, Exact
    <2>3. Rejected(b) \subseteq ItemsOf(b)
      BY DEF Rejected
    <2>4. /\ completedReq'[b] = Cardinality(Ended(b, "completed")')
          /\ failedReq'[b] + Owed(b)' = Cardinality(Ended(b, "failed")') + Cardinality(Rejected(b)')
      BY <1>2, <1>3, <1>4, <2>2
    <2>5. \A i \in ItemsOf(b) : workPC'[i] \in {"count", "check", "end"} =>
                item'[i] = outcome'[i] /\ outcome'[i] \in {"completed", "failed"}
      BY <2>2
    <2>6. \A i \in Rejected(b)' : item'[i] = "failed"
      BY <1>2, <2>2, <2>3
    <2> QED BY <2>4, <2>5, <2>6
  <1> QED BY <1>5, <1>6, <1>7 DEF Ledger

(* What a step has to show. *)
LEMMA Frames ==
    ASSUME BatchIInv, Shape', Later, QueueStill \/ QueueInv',
           \A i \in Items : PlaceStill(i) \/ Place(i)',
           \A c \in Batches : Handler(c)',
           \A c \in Batches : LedgerStill(c) \/ Ledger(c)'
    PROVE  BatchIInv'
  <1>1. QueueInv'
    BY QueueFrame DEF BatchIInv, Shape
  <1>2. PlaceInv'
    BY PlaceFrame DEF BatchIInv, PlaceInv
  <1>3. LedgerInv'
    BY LedgerFrame DEF BatchIInv, LedgerInv
  <1> QED BY <1>1, <1>2, <1>3 DEF BatchIInv, HandlerInv

(* Before the loop of Submit nothing has been done for a batch. *)
LEMMA EarlyItems ==
    ASSUME BatchIInv, NEW b \in Batches, Early(b), NEW i \in ItemsOf(b)
    PROVE  workPC[i] = "idle" /\ i \notin refused /\ item[i] \notin {"completed", "failed"}
  <1>1. i \in Items /\ BatchOf(i) = b
    BY ItemsFacts
  <1>2. Place(i)
    BY <1>1 DEF BatchIInv, PlaceInv
  <1> QED BY <1>1, <1>2 DEF Place

(* A handler moves on. *)
LEMMA SubmitMoves ==
    ASSUME HandlerShape, NEW b \in Batches, NEW pc \in SubmitPCs,
           submitPC' = [submitPC EXCEPT ![b] = pc],
           pc \in {"idle", "items", "load"} => Early(b)
    PROVE  /\ submitPC' \in [Batches -> SubmitPCs] /\ Later
           /\ submitPC'[b] = pc /\ \A c \in Batches : c # b => submitPC'[c] = submitPC[c]
  <1>1. submitPC \in [Batches -> SubmitPCs]
    BY DEF HandlerShape
  <1>2. /\ submitPC' \in [Batches -> SubmitPCs]
        /\ submitPC'[b] = pc /\ \A c \in Batches : c # b => submitPC'[c] = submitPC[c]
    BY <1>1
  <1> QED BY <1>2 DEF Later, Early

(* The failures are counted, up to their bound. *)
LEMMA FaultMoves ==
    ASSUME FaultShape, Fault \/ UNCHANGED faults, UNCHANGED crashes
    PROVE  FaultShape' /\ (faults' = 0 => faults = 0) /\ (Fault => faults' # 0)
  BY BatchAssumption DEF FaultShape, Fault

-----------------------------------------------------------------------------
(* Submit *)

(* The row of the batch is inserted: nothing had been done for it. *)
LEMMA InsertBatchStep ==
    ASSUME BatchIInv, NEW b \in Batches, InsertBatch(b)
    PROVE  BatchIInv'
  <1>0. Shape /\ HandlerInv
    BY DEF BatchIInv
  <1>1. /\ Early(b) /\ (Fault \/ UNCHANGED faults)
        /\ \E pc \in {"items", "error"} : submitPC' = [submitPC EXCEPT ![b] = pc]
        /\ \/ status' = status /\ todo' = todo
           \/ status' = [status EXCEPT ![b] = "pending"] /\ todo' = [todo EXCEPT ![b] = ItemsOf(b)]
        /\ UNCHANGED <<completedReq, failedReq, item, workPC, outcome, cancelPC, ctxDone, crashes>>
        /\ UNCHANGED <<queue, running, ended, refused, phase, drained>>
    BY DEF InsertBatch, SubmitGoto, ExecOK, ExecFails, work, pool, Early
  <1>2. /\ submitPC' \in [Batches -> SubmitPCs] /\ Later /\ submitPC'[b] \in {"items", "error"}
        /\ \A c \in Batches : c # b => submitPC'[c] = submitPC[c]
    BY <1>0, <1>1, SubmitMoves DEF Shape, SubmitPCs
  <1>3. ItemsOf(b) \subseteq Items /\ \A i \in ItemsOf(b) : i \notin refused
    BY <1>1, EarlyItems, ItemsFacts
  <1>4. /\ todo' \in [Batches -> SUBSET Items]
        /\ \A c \in Batches : todo'[c] = todo[c] \/ (c = b /\ todo'[c] = ItemsOf(b))
    BY <1>0, <1>1, <1>3 DEF Shape, HandlerShape
  <1>5. /\ RowsShape'
        /\ \A c \in Batches : status'[c] = status[c] \/ (c = b /\ status'[c] = "pending")
    BY <1>0, <1>1 DEF Shape, RowsShape
  <1>6. FaultShape' /\ (faults' = 0 => faults = 0)
    BY <1>0, <1>1, FaultMoves DEF Shape
  <1>7. Shape'
    BY <1>0, <1>1, <1>2, <1>4, <1>5, <1>6 DEF Shape, HandlerShape, WorkShape, PoolShape
  <1>8. QueueStill
    BY <1>1 DEF QueueStill
  <1>9. ASSUME NEW i \in Items PROVE PlaceStill(i)
    BY <1>1, <1>3, <1>4, ItemsFacts DEF PlaceStill
  <1>10. ASSUME NEW c \in Batches PROVE Handler(c)'
    BY <1>0, <1>1, <1>2, <1>4, <1>5 DEF HandlerInv, Handler
  <1>11. ASSUME NEW c \in Batches PROVE LedgerStill(c)
    <2>1. submitPC'[c] = "countRefused" <=> submitPC[c] = "countRefused"
      BY <1>1, <1>2 DEF Early
    <2>2. \A i \in ItemsOf(c) : i \in refused' \ todo'[c] <=> i \in refused \ todo[c]
      BY <1>1, <1>3, <1>4
    <2> QED BY <1>1, <1>5, <1>6, <2>1, <2>2 DEF LedgerStill
  <1> QED BY <1>2, <1>7, <1>8, <1>9, <1>10, <1>11, Frames

(* The row of an item is inserted. *)
LEMMA InsertItemStep ==
    ASSUME BatchIInv, NEW b \in Batches, NEW j \in ItemsOf(b), InsertItem(b, j)
    PROVE  BatchIInv'
  <1>0. Shape /\ HandlerInv /\ j \in Items
    BY ItemsFacts DEF BatchIInv
  <1>1. /\ Early(b) /\ (Fault \/ UNCHANGED faults)
        /\ \E pc \in {"items", "error"} : submitPC' = [submitPC EXCEPT ![b] = pc]
        /\ item' = item \/ item' = [item EXCEPT ![j] = "pending"]
        /\ todo' = todo \/ todo' = [todo EXCEPT ![b] = todo[b] \ {j}]
        /\ UNCHANGED <<status, completedReq, failedReq, workPC, outcome, cancelPC, ctxDone, crashes>>
        /\ UNCHANGED <<queue, running, ended, refused, phase, drained>>
    BY DEF InsertItem, SubmitGoto, ExecOK, ExecFails, work, pool, Early
  <1>2. /\ submitPC' \in [Batches -> SubmitPCs] /\ Later /\ submitPC'[b] \in {"items", "error"}
        /\ \A c \in Batches : c # b => submitPC'[c] = submitPC[c]
    BY <1>0, <1>1, SubmitMoves DEF Shape, SubmitPCs
  <1>3. j \notin refused /\ item[j] \notin {"completed", "failed"}
    BY <1>1, EarlyItems
  <1>4. /\ todo' \in [Batches -> SUBSET Items]
        /\ \A c \in Batches : todo'[c] = todo[c] \/ todo'[c] = todo[c] \ {j}
    BY <1>0, <1>1 DEF Shape, HandlerShape
  <1>5. RowsShape' /\ \A i \in Items : item'[i] = item[i] \/ (i = j /\ item'[i] = "pending")
    BY <1>0, <1>1 DEF Shape, RowsShape
  <1>6. FaultShape' /\ (faults' = 0 => faults = 0)
    BY <1>0, <1>1, FaultMoves DEF Shape
  <1>7. Shape'
    BY <1>0, <1>1, <1>2, <1>4, <1>5, <1>6 DEF Shape, HandlerShape, WorkShape, PoolShape
  <1>8. QueueStill
    BY <1>1 DEF QueueStill
  <1>9. ASSUME NEW i \in Items PROVE PlaceStill(i)
    BY <1>1, <1>3, <1>4, <1>5, ItemsFacts DEF PlaceStill
  <1>10. ASSUME NEW c \in Batches PROVE Handler(c)'
    BY <1>0, <1>1, <1>2, <1>4 DEF HandlerInv, Handler
  <1>11. ASSUME NEW c \in Batches PROVE LedgerStill(c)
    <2>1. submitPC'[c] = "countRefused" <=> submitPC[c] = "countRefused"
      BY <1>1, <1>2 DEF Early
    <2>2. \A i \in ItemsOf(c) : /\ i \in refused' \ todo'[c] <=> i \in refused \ todo[c]
                                /\ item'[i] = item[i] \/ item[i] \notin {"completed", "failed"}
      BY <1>1, <1>3, <1>4, <1>5, ItemsFacts
    <2> QED BY <1>1, <1>6, <2>1, <2>2 DEF LedgerStill
  <1> QED BY <1>2, <1>7, <1>8, <1>9, <1>10, <1>11, Frames

(* The batch is marked as processed, whatever its status was. *)
LEMMA MarkProcessingStep ==
    ASSUME BatchIInv, NEW b \in Batches, MarkProcessing(b)
    PROVE  BatchIInv'
  <1>0. Shape /\ HandlerInv
    BY DEF BatchIInv
  <1>1. /\ Early(b) /\ (Fault \/ UNCHANGED faults)
        /\ \E pc \in {"load", "returned"} : submitPC' = [submitPC EXCEPT ![b] = pc]
        /\ status' = status \/ status' = [status EXCEPT ![b] = "processing"]
        /\ UNCHANGED <<completedReq, failedReq, item, todo, workPC, outcome, cancelPC, ctxDone, crashes>>
        /\ UNCHANGED <<queue, running, ended, refused, phase, drained>>
    BY DEF MarkProcessing, SubmitGoto, ExecOK, ExecFails, work, pool, Early
  <1>2. /\ submitPC' \in [Batches -> SubmitPCs] /\ Later /\ submitPC'[b] \in {"load", "returned"}
        /\ \A c \in Batches : c # b => submitPC'[c] = submitPC[c]
    BY <1>0, <1>1, SubmitMoves DEF Shape, SubmitPCs
  <1>3. /\ RowsShape'
        /\ \A c \in Batches : status'[c] = status[c] \/ (c = b /\ status'[c] = "processing")
    BY <1>0, <1>1 DEF Shape, RowsShape
  <1>4. FaultShape' /\ (faults' = 0 => faults = 0)
    BY <1>0, <1>1, FaultMoves DEF Shape
  <1>5. Shape'
    BY <1>0, <1>1, <1>2, <1>3, <1>4 DEF Shape, HandlerShape, WorkShape, PoolShape
  <1>6. QueueStill
    BY <1>1 DEF QueueStill
  <1>7. ASSUME NEW i \in Items PROVE PlaceStill(i)
    BY <1>1 DEF PlaceStill
  <1>8. ASSUME NEW c \in Batches PROVE Handler(c)'
    BY <1>0, <1>1, <1>2, <1>3 DEF HandlerInv, Handler
  <1>9. ASSUME NEW c \in Batches PROVE LedgerStill(c)
    <2>1. submitPC'[c] = "countRefused" <=> submitPC[c] = "countRefused"
      BY <1>1, <1>2 DEF Early
    <2> QED BY <1>1, <1>3, <1>4, <2>1 DEF LedgerStill
  <1> QED BY <1>2, <1>5, <1>6, <1>7, <1>8, <1>9, Frames

(* The pending items are read: none of them has been refused. *)
LEMMA LoadItemsStep ==
    ASSUME BatchIInv, NEW b \in Batches, LoadItems(b)
    PROVE  BatchIInv'
  <1>0. Shape /\ HandlerInv
    BY DEF BatchIInv
  <1>1. Pending(b) \subseteq ItemsOf(b) /\ ItemsOf(b) \subseteq Items
    BY ItemsFacts DEF Pending
  <1>2. /\ Early(b) /\ (Fault \/ UNCHANGED faults)
        /\ \E pc \in {"loop", "returned"} : submitPC' = [submitPC EXCEPT ![b] = pc]
        /\ todo' = todo \/ \E S \in SUBSET ItemsOf(b) : todo' = [todo EXCEPT ![b] = S]
        /\ UNCHANGED <<status, completedReq, failedReq, item>>
        /\ UNCHANGED <<workPC, outcome, cancelPC, ctxDone, crashes>>
        /\ UNCHANGED <<queue, running, ended, refused, phase, drained>>
    <2>1. \A i : Pending(b) \in SUBSET ItemsOf(b) /\ Pending(b) \ {i} \in SUBSET ItemsOf(b)
      BY <1>1
    <2> QED BY <2>1 DEF LoadItems, SubmitGoto, ExecOK, ExecFails, work, pool, tables, Early
  <1>3. /\ submitPC' \in [Batches -> SubmitPCs] /\ Later /\ submitPC'[b] \in {"loop", "returned"}
        /\ \A c \in Batches : c # b => submitPC'[c] = submitPC[c]
    BY <1>0, <1>2, SubmitMoves DEF Shape, SubmitPCs
  <1>4. \A i \in ItemsOf(b) : i \notin refused
    BY <1>2, EarlyItems
  <1>5. /\ todo' \in [Batches -> SUBSET Items]
        /\ \A c \in Batches : todo'[c] = todo[c] \/ (c = b /\ todo'[c] \subseteq ItemsOf(b))
    BY <1>0, <1>1, <1>2 DEF Shape, HandlerShape
  <1>6. FaultShape' /\ (faults' = 0 => faults = 0)
    BY <1>0, <1>2, FaultMoves DEF Shape
  <1>7. Shape'
    BY <1>0, <1>2, <1>3, <1>5, <1>6 DEF Shape, RowsShape, HandlerShape, WorkShape, PoolShape
  <1>8. QueueStill
    BY <1>2 DEF QueueStill
  <1>9. ASSUME NEW i \in Items PROVE PlaceStill(i)
    BY <1>2, <1>4, <1>5, ItemsFacts DEF PlaceStill
  <1>10. ASSUME NEW c \in Batches PROVE Handler(c)'
    BY <1>0, <1>2, <1>3, <1>5 DEF HandlerInv, Handler
  <1>11. ASSUME NEW c \in Batches PROVE LedgerStill(c)
    <2>1. submitPC'[c] = "countRefused" <=> submitPC[c] = "countRefused"
      BY <1>2, <1>3 DEF Early
    <2>2. \A i \in ItemsOf(c) : i \in refused' \ todo'[c] <=> i \in refused \ todo[c]
      BY <1>2, <1>4, <1>5
    <2> QED BY <1>2, <1>6, <2>1, <2>2 DEF LedgerStill
  <1> QED BY <1>3, <1>7, <1>8, <1>9, <1>10, <1>11, Frames

(* The handler is ended by a panic of the pool, or by its own return. *)
LEMMA SubmitEndsStep ==
    ASSUME BatchIInv, NEW b \in Batches,
           SubmitReturns(b) \/ \E j \in ItemsOf(b) : SubmitPanics(b, j)
    PROVE  BatchIInv'
  <1>0. Shape /\ HandlerInv
    BY DEF BatchIInv
  <1>1. /\ submitPC[b] = "loop"
        /\ \E pc \in {"returned", "error"} : submitPC' = [submitPC EXCEPT ![b] = pc]
        /\ UNCHANGED <<status, completedReq, failedReq, item, todo, faults>>
        /\ UNCHANGED <<workPC, outcome, cancelPC, ctxDone, crashes>>
        /\ UNCHANGED <<queue, running, ended, refused, phase, drained>>
    BY DEF SubmitReturns, SubmitPanics, Handling, SubmitGoto, work, pool, tables
  <1>2. /\ submitPC' \in [Batches -> SubmitPCs] /\ Later /\ submitPC'[b] \in {"returned", "error"}
        /\ \A c \in Batches : c # b => submitPC'[c] = submitPC[c]
    BY <1>0, <1>1, SubmitMoves DEF Shape, SubmitPCs
  <1>3. Shape'
    BY <1>0, <1>1, <1>2 DEF Shape, RowsShape, HandlerShape, WorkShape, PoolShape, FaultShape
  <1>4. QueueStill
    BY <1>1 DEF QueueStill
  <1>5. ASSUME NEW i \in Items PROVE PlaceStill(i)
    BY <1>1 DEF PlaceStill
  <1>6. ASSUME NEW c \in Batches PROVE Handler(c)'
    BY <1>0, <1>1, <1>2 DEF HandlerInv, Handler
  <1>7. ASSUME NEW c \in Batches PROVE LedgerStill(c)
    BY <1>1, <1>2 DEF LedgerStill
  <1> QED BY <1>2, <1>3, <1>4, <1>5, <1>6, <1>7, Frames

(* The context of the request ends. *)
LEMMA CtxDoneStep ==
    ASSUME BatchIInv, NEW b \in Batches, CtxDone(b)
    PROVE  BatchIInv'
  <1>0. Shape /\ HandlerInv
    BY DEF BatchIInv
  <1>1. /\ submitPC[b] # "idle" /\ ctxDone' = [ctxDone EXCEPT ![b] = TRUE]
        /\ UNCHANGED <<status, completedReq, failedReq, item, submitPC, todo, faults>>
        /\ UNCHANGED <<workPC, outcome, cancelPC, crashes>>
        /\ UNCHANGED <<queue, running, ended, refused, phase, drained>>
    BY DEF CtxDone, work, pool, tables, handlers
  <1>2. Later
    BY <1>1 DEF Later, Early
  <1>3. /\ ctxDone' \in [Batches -> BOOLEAN]
        /\ \A c \in Batches : (ctxDone[c] => ctxDone'[c]) /\ (c # b => ctxDone'[c] = ctxDone[c])
    BY <1>0, <1>1 DEF Shape, HandlerShape
  <1>4. Shape'
    BY <1>0, <1>1, <1>3 DEF Shape, RowsShape, HandlerShape, WorkShape, PoolShape, FaultShape
  <1>5. QueueStill
    BY <1>1 DEF QueueStill
  <1>6. ASSUME NEW i \in Items PROVE PlaceStill(i)
    BY <1>1 DEF PlaceStill
  <1>7. ASSUME NEW c \in Batches PROVE Handler(c)'
    BY <1>0, <1>1, <1>3 DEF HandlerInv, Handler
  <1>8. ASSUME NEW c \in Batches PROVE LedgerStill(c)
    BY <1>1, <1>3 DEF LedgerStill
  <1> QED BY <1>2, <1>4, <1>5, <1>6, <1>7, <1>8, Frames

-----------------------------------------------------------------------------
(* Cancel *)

(* Cancel marks the batch. *)
LEMMA CancelBatchStep ==
    ASSUME BatchIInv, NEW b \in Batches, CancelBatch(b)
    PROVE  BatchIInv'
  <1>0. Shape /\ HandlerInv
    BY DEF BatchIInv
  <1>1. /\ status[b] \in {"pending", "processing"}
        /\ status' = [status EXCEPT ![b] = "cancelled"]
        /\ cancelPC' = [cancelPC EXCEPT ![b] = "items"]
        /\ UNCHANGED <<completedReq, failedReq, item, submitPC, todo, ctxDone, faults>>
        /\ UNCHANGED <<workPC, outcome, crashes>>
        /\ UNCHANGED <<queue, running, ended, refused, phase, drained>>
    BY DEF CancelBatch, work, pool, handlers
  <1>2. Later
    BY <1>1 DEF Later, Early
  <1>3. /\ RowsShape' /\ cancelPC' \in [Batches -> {"idle", "items"}]
        /\ \A c \in Batches : status'[c] = status[c] \/ (c = b /\ status'[c] = "cancelled")
    BY <1>0, <1>1 DEF Shape, RowsShape, HandlerShape
  <1>4. Shape'
    BY <1>0, <1>1, <1>3 DEF Shape, HandlerShape, WorkShape, PoolShape, FaultShape
  <1>5. QueueStill
    BY <1>1 DEF QueueStill
  <1>6. ASSUME NEW i \in Items PROVE PlaceStill(i)
    BY <1>1 DEF PlaceStill
  <1>7. ASSUME NEW c \in Batches PROVE Handler(c)'
    BY <1>0, <1>1, <1>3 DEF HandlerInv, Handler
  <1>8. ASSUME NEW c \in Batches PROVE LedgerStill(c)
    BY <1>1, <1>3 DEF LedgerStill
  <1> QED BY <1>2, <1>4, <1>5, <1>6, <1>7, <1>8, Frames

(* Cancel marks the items that are still pending, and those only. *)
LEMMA CancelItemsStep ==
    ASSUME BatchIInv, NEW b \in Batches, CancelItems(b)
    PROVE  BatchIInv'
  <1>0. Shape /\ HandlerInv
    BY DEF BatchIInv
  <1>1. /\ Fault \/ UNCHANGED faults
        /\ \/ item' = item
           \/ item' = [i \in Items |-> IF i \in Pending(b) THEN "cancelled" ELSE item[i]]
        /\ cancelPC' = [cancelPC EXCEPT ![b] = "idle"]
        /\ UNCHANGED <<status, completedReq, failedReq, submitPC, todo, ctxDone>>
        /\ UNCHANGED <<workPC, outcome, crashes>>
        /\ UNCHANGED <<queue, running, ended, refused, phase, drained>>
    BY DEF CancelItems, work, pool, handlers
  <1>2. Later
    BY <1>1 DEF Later, Early
  <1>3. cancelPC' \in [Batches -> {"idle", "items"}]
    BY <1>0, <1>1 DEF Shape, HandlerShape
  <1>4. \A i \in Items : item'[i] = item[i] \/ (item[i] = "pending" /\ item'[i] = "cancelled")
    BY <1>0, <1>1 DEF Shape, RowsShape, Pending
  <1>5. RowsShape'
    BY <1>0, <1>1 DEF Shape, RowsShape
  <1>6. FaultShape' /\ (faults' = 0 => faults = 0)
    BY <1>0, <1>1, FaultMoves DEF Shape
  <1>7. Shape'
    BY <1>0, <1>1, <1>3, <1>5, <1>6 DEF Shape, HandlerShape, WorkShape, PoolShape
  <1>8. QueueStill
    BY <1>1 DEF QueueStill
  <1>9. ASSUME NEW i \in Items PROVE PlaceStill(i)
    BY <1>1, <1>4 DEF PlaceStill
  <1>10. ASSUME NEW c \in Batches PROVE Handler(c)'
    BY <1>0, <1>1 DEF HandlerInv, Handler
  <1>11. ASSUME NEW c \in Batches PROVE LedgerStill(c)
    <2>1. \A i \in ItemsOf(c) : item'[i] = item[i] \/ item[i] \notin {"completed", "failed"}
      BY <1>4, ItemsFacts
    <2> QED BY <1>1, <1>6, <2>1 DEF LedgerStill
  <1> QED BY <1>2, <1>7, <1>8, <1>9, <1>10, <1>11, Frames

-----------------------------------------------------------------------------
(* The loop of Submit *)

(* A new item has not been worked on, and its row holds no result. *)
LEMMA NewItems ==
    ASSUME BatchIInv, NEW j \in Items, Pool!New(j)
    PROVE  /\ workPC[j] = "idle" /\ j \notin refused /\ item[j] \notin {"completed", "failed"}
           /\ \A k \in 1..Len(queue) : queue[k] # j
  <1>1. Place(j) /\ WorkShape
    BY DEF BatchIInv, PlaceInv, Shape
  <1>2. workPC[j] \in {"idle", "call", "store", "count", "check", "end"}
    BY <1>1 DEF WorkShape
  <1>3. j \notin running /\ j \notin ended /\ j \notin refused
    BY DEF Pool!New
  <1>4. \A k \in 1..Len(queue) : queue[k] # j
    BY DEF Pool!New, Pool!InQueue
  <1> QED BY <1>1, <1>2, <1>3, <1>4 DEF Place

(* The pool accepts an item: it waits in the queue, and nowhere else. *)
LEMMA AcceptStep ==
    ASSUME BatchIInv, NEW b \in Batches, NEW j \in ItemsOf(b), submitPC[b] = "loop",
           Pool!Accept(j), todo' = [todo EXCEPT ![b] = @ \ {j}], SubmitGoto(b, "loop"),
           UNCHANGED <<tables, faults>>
    PROVE  BatchIInv'
  <1>0. Shape /\ HandlerInv /\ QueueInv /\ j \in Items /\ BatchOf(j) = b
    BY ItemsFacts DEF BatchIInv
  <1>1. /\ Pool!New(j) /\ Len(queue) < QueueSize /\ queue' = Append(queue, j)
        /\ submitPC' = [submitPC EXCEPT ![b] = "loop"]
        /\ UNCHANGED <<status, completedReq, failedReq, item, faults>>
        /\ UNCHANGED <<workPC, outcome, cancelPC, ctxDone, crashes>>
        /\ UNCHANGED <<running, ended, refused, phase, drained>>
    BY DEF Pool!Accept, SubmitGoto, tables, work
  <1>2. /\ submitPC' \in [Batches -> SubmitPCs] /\ Later
        /\ \A c \in Batches : submitPC'[c] = submitPC[c]
    BY <1>0, <1>1, SubmitMoves DEF Shape, SubmitPCs
  <1>3. /\ workPC[j] = "idle" /\ j \notin refused /\ \A k \in 1..Len(queue) : queue[k] # j
    BY <1>0, <1>1, NewItems
  <1>4. /\ todo' \in [Batches -> SUBSET Items]
        /\ \A c \in Batches : todo'[c] = todo[c] \/ todo'[c] = todo[c] \ {j}
    BY <1>0 DEF Shape, HandlerShape
  <1>5. /\ queue \in Seq(Items) /\ queue' \in Seq(Items) /\ Len(queue') = Len(queue) + 1
        /\ queue'[Len(queue) + 1] = j /\ \A k \in 1..Len(queue) : queue'[k] = queue[k]
    BY <1>0, <1>1 DEF Shape, PoolShape
  <1>6. PoolShape'
    <2>1. Len(queue') <= QueueSize
      BY <1>1, <1>5, BatchAssumption
    <2> QED BY <1>0, <1>1, <1>5, <2>1 DEF Shape, PoolShape
  <1>7. Shape'
    BY <1>0, <1>1, <1>2, <1>4, <1>6 DEF Shape, RowsShape, HandlerShape, WorkShape, FaultShape
  <1>8. QueueInv'
    <2>1. ASSUME NEW k \in 1..Len(queue')
          PROVE  (k \in 1..Len(queue) /\ queue'[k] = queue[k]) \/ (k = Len(queue) + 1 /\ queue'[k] = j)
      BY <1>5
    <2>2. ASSUME NEW k \in 1..Len(queue'), NEW m \in 1..Len(queue'), queue'[k] = queue'[m] PROVE k = m
      BY <1>0, <1>3, <2>1, <2>2 DEF QueueInv
    <2>3. ASSUME NEW k \in 1..Len(queue')
          PROVE  workPC'[queue'[k]] = "idle" /\ queue'[k] \notin refused'
      BY <1>0, <1>1, <1>3, <2>1 DEF QueueInv
    <2>4. ASSUME NEW k \in 1..Len(queue')
          PROVE  ~Early(BatchOf(queue[k]))'
      <3>1. CASE k \in 1..Len(queue) /\ queue'[k] = queue[k]
        <4>1. BatchOf(queue[k]) \in Batches /\ ~Early(BatchOf(queue[k]))
          BY <1>0, <3>1, QueuedItems DEF Shape, QueueInv
        <4> QED BY <1>2, <3>1, <4>1 DEF Early
      <3>2. CASE queue'[k] = j
        BY <1>0, <1>2, <3>2 DEF Early
      <3> QED BY <2>1, <3>1, <3>2
    <2> QED BY <2>2, <2>3, <2>4 DEF QueueInv
  <1>9. ASSUME NEW i \in Items PROVE PlaceStill(i)
    BY <1>1, <1>4, ItemsFacts DEF PlaceStill
  <1>10. ASSUME NEW c \in Batches PROVE Handler(c)'
    BY <1>0, <1>1, <1>2, <1>4 DEF HandlerInv, Handler
  <1>11. ASSUME NEW c \in Batches PROVE LedgerStill(c)
    <2>1. \A i \in ItemsOf(c) : i \in refused' \ todo'[c] <=> i \in refused \ todo[c]
      BY <1>1, <1>3, <1>4
    <2> QED BY <1>1, <1>2, <2>1 DEF LedgerStill
  <1> QED BY <1>2, <1>7, <1>8, <1>9, <1>10, <1>11, Frames

(* The pool refuses an item: the loop has still to deal with it. *)
LEMMA RefuseStep ==
    ASSUME BatchIInv, NEW b \in Batches, NEW j \in ItemsOf(b), Handling(b, j),
           Pool!Refuse(j), SubmitGoto(b, "loop"), UNCHANGED <<tables, todo, faults>>
    PROVE  BatchIInv'
  <1>0. Shape /\ HandlerInv /\ PlaceInv /\ j \in Items /\ BatchOf(j) = b
    BY ItemsFacts DEF BatchIInv
  <1>1. /\ Pool!New(j) /\ refused' = refused \cup {j}
        /\ submitPC[b] = "loop" /\ j \in todo[b] /\ submitPC' = [submitPC EXCEPT ![b] = "loop"]
        /\ UNCHANGED <<status, completedReq, failedReq, item, todo, faults>>
        /\ UNCHANGED <<workPC, outcome, cancelPC, ctxDone, crashes>>
        /\ UNCHANGED <<queue, running, ended, phase, drained>>
    BY DEF Pool!Refuse, Handling, SubmitGoto, tables, work
  <1>2. /\ submitPC' \in [Batches -> SubmitPCs] /\ Later
        /\ \A c \in Batches : submitPC'[c] = submitPC[c]
    BY <1>0, <1>1, SubmitMoves DEF Shape, SubmitPCs
  <1>3. /\ workPC[j] = "idle" /\ j \notin refused /\ item[j] \notin {"completed", "failed"}
        /\ \A k \in 1..Len(queue) : queue[k] # j
    BY <1>0, <1>1, NewItems
  <1>4. Shape'
    BY <1>0, <1>1, <1>2 DEF Shape, RowsShape, HandlerShape, WorkShape, PoolShape, FaultShape
  <1>5. QueueStill
    BY <1>1, <1>3 DEF QueueStill
  <1>6. ASSUME NEW i \in Items PROVE PlaceStill(i) \/ Place(i)'
    <2>1. CASE i = j
      <3>1. Place(i)
        BY <1>0 DEF PlaceInv
      <3> QED BY <1>0, <1>1, <1>2, <1>3, <2>1, <3>1 DEF Place, Early
    <2>2. CASE i # j
      BY <1>1, <2>2 DEF PlaceStill
    <2> QED BY <2>1, <2>2
  <1>7. ASSUME NEW c \in Batches PROVE Handler(c)'
    BY <1>0, <1>1, <1>2 DEF HandlerInv, Handler
  <1>8. ASSUME NEW c \in Batches PROVE LedgerStill(c)
    <2>1. \A i \in ItemsOf(c) : i \in refused' \ todo'[c] <=> i \in refused \ todo[c]
      BY <1>0, <1>1, ItemsFacts
    <2> QED BY <1>1, <1>2, <2>1 DEF LedgerStill
  <1> QED BY <1>2, <1>4, <1>5, <1>6, <1>7, <1>8, Frames

(* An item the loop still has to deal with belongs to a batch that is not    *)
(* completed: a completed batch has nothing left.                            *)
LEMMA NotCompleted ==
    ASSUME BatchIInv, NEW b \in Batches, NEW j \in ItemsOf(b),
           workPC[j] \notin {"check", "end"}, j \in refused => j \in todo[b]
    PROVE  status[b] # "completed"
  <1>1. Covered(b)
    BY DEF BatchIInv, LedgerInv, Ledger
  <1>2. j \notin Worked(b) /\ j \notin Rejected(b)
    BY DEF Worked, Rejected
  <1> QED BY <1>1, <1>2 DEF Covered

(* The parts of the ledger, in a state of the invariant. *)
LEMMA LedgerParts ==
    ASSUME BatchIInv, NEW b \in Batches
    PROVE  /\ Worked(b) \subseteq ItemsOf(b) /\ Rejected(b) \subseteq ItemsOf(b)
           /\ Worked(b) \cap Rejected(b) = {}
           /\ \A o : Ended(b, o) \subseteq ItemsOf(b)
  <1>1. ASSUME NEW i \in ItemsOf(b), i \in Rejected(b) PROVE i \notin Worked(b)
    <2>1. Place(i)
      BY ItemsFacts DEF BatchIInv, PlaceInv
    <2> QED BY <1>1, <2>1 DEF Place, Rejected, Worked
  <1> QED BY <1>1 DEF Worked, Rejected, Ended

(* The refusal path stores its item; from here on it owes a count. *)
LEMMA StoreRefusedStep ==
    ASSUME BatchIInv, NEW b \in Batches, NEW j \in ItemsOf(b), StoreRefused(b, j)
    PROVE  BatchIInv'
  <1>0. Shape /\ HandlerInv /\ PlaceInv /\ j \in Items /\ BatchOf(j) = b /\ Ledger(b)
    BY ItemsFacts DEF BatchIInv, LedgerInv
  <1>1. /\ submitPC[b] = "loop" /\ j \in todo[b] /\ j \in refused /\ (Fault \/ UNCHANGED faults)
        /\ submitPC' = [submitPC EXCEPT ![b] = "countRefused"]
        /\ item' = item \/ item' = [item EXCEPT ![j] = "failed"]
        /\ Fault \/ ctxDone[b] \/ item' = [item EXCEPT ![j] = "failed"]
        /\ todo' = [todo EXCEPT ![b] = todo[b] \ {j}]
        /\ UNCHANGED <<status, completedReq, failedReq, workPC, outcome, cancelPC, ctxDone, crashes>>
        /\ UNCHANGED <<queue, running, ended, refused, phase, drained>>
    BY DEF StoreRefused, Handling, SubmitGoto, ExecOK, ExecFails, work, pool
  <1>2. /\ submitPC' \in [Batches -> SubmitPCs] /\ Later /\ submitPC'[b] = "countRefused"
        /\ \A c \in Batches : c # b => submitPC'[c] = submitPC[c]
    BY <1>0, <1>1, SubmitMoves DEF Shape, SubmitPCs
  <1>3. Place(j) /\ workPC[j] = "idle" /\ ~Early(b)'
    BY <1>0, <1>1, <1>2 DEF PlaceInv, Place, Early
  <1>4. /\ todo' \in [Batches -> SUBSET Items] /\ todo'[b] = todo[b] \ {j}
        /\ \A c \in Batches : c # b => todo'[c] = todo[c]
    BY <1>0, <1>1 DEF Shape, HandlerShape
  <1>5. /\ RowsShape' /\ \A i \in Items : i # j => item'[i] = item[i]
        /\ Fault \/ ctxDone[b] \/ item'[j] = "failed"
    BY <1>0, <1>1 DEF Shape, RowsShape
  <1>6. FaultShape' /\ (faults' = 0 => faults = 0) /\ (Fault => faults' # 0)
    BY <1>0, <1>1, FaultMoves DEF Shape
  <1>7. Shape'
    BY <1>0, <1>1, <1>2, <1>4, <1>5, <1>6 DEF Shape, HandlerShape, WorkShape, PoolShape
  <1>8. QueueStill
    BY <1>1 DEF QueueStill
  <1>9. ASSUME NEW i \in Items PROVE PlaceStill(i) \/ Place(i)'
    <2>1. CASE i = j
      BY <1>0, <1>1, <1>3, <1>4, <2>1 DEF Place
    <2>2. CASE i # j
      BY <1>1, <1>4, <1>5, <2>2, ItemsFacts DEF PlaceStill
    <2> QED BY <2>1, <2>2
  <1>10. ASSUME NEW c \in Batches PROVE Handler(c)'
    BY <1>0, <1>1, <1>2, <1>4 DEF HandlerInv, Handler
  <1>11. ASSUME NEW c \in Batches, c # b PROVE LedgerStill(c)
    <2>1. \A i \in ItemsOf(c) : i # j /\ i \in Items
      BY <1>0, <1>11, ItemsFacts
    <2> QED BY <1>1, <1>2, <1>4, <1>5, <1>6, <1>11, <2>1 DEF LedgerStill
  <1>12. Ledger(b)'
    <2>1. status[b] # "completed"
      BY <1>1, <1>3, NotCompleted
    <2>2. /\ Worked(b)' = Worked(b) /\ \A o : Ended(b, o)' = Ended(b, o)
          /\ Owed(b) = 0 /\ Owed(b)' = 1
      BY <1>1, <1>2 DEF Worked, Ended, Owed
    <2>3. Rejected(b)' = Rejected(b) \cup {j} /\ j \notin Rejected(b)
      BY <1>1, <1>4 DEF Rejected
    <2>4. /\ Cardinality(Worked(b)) \in Nat /\ Cardinality(Rejected(b)) \in Nat
          /\ Cardinality(Rejected(b)') = Cardinality(Rejected(b)) + 1
      BY <2>3, LedgerParts, PartsOfBatch, OneMore
    <2>5. completedReq[b] \in Nat /\ failedReq[b] \in Nat
      BY <1>0 DEF Shape, RowsShape
    <2>6. Sound(b)'
      <3>1. completedReq[b] + failedReq[b] + 0 <= Cardinality(Worked(b)) + Cardinality(Rejected(b))
        BY <1>0, <2>2 DEF Ledger, Sound
      <3> QED BY <1>1, <2>2, <2>4, <2>5, <3>1 DEF Sound
    <2>7. Covered(b)'
      BY <1>1, <2>1 DEF Covered
    <2>8. Exact(b)'
      <3> SUFFICES ASSUME faults' = 0, ~ctxDone'[b]
                   PROVE  /\ completedReq'[b] = Cardinality(Ended(b, "completed")')
                          /\ failedReq'[b] + Owed(b)' = Cardinality(Ended(b, "failed")') + Cardinality(Rejected(b)')
                          /\ \A i \in ItemsOf(b) : workPC'[i] \in {"count", "check", "end"} =>
                                item'[i] = outcome'[i] /\ outcome'[i] \in {"completed", "failed"}
                          /\ \A i \in Rejected(b)' : item'[i] = "failed"
        BY <1>1, <2>1 DEF Exact
      <3>1. faults = 0 /\ ~ctxDone[b] /\ item'[j] = "failed"
        BY <1>1, <1>5, <1>6
      <3>2. /\ completedReq[b] = Cardinality(Ended(b, "completed"))
            /\ failedReq[b] + 0 = Cardinality(Ended(b, "failed")) + Cardinality(Rejected(b))
            /\ \A i \in ItemsOf(b) : workPC[i] \in {"count", "check", "end"} =>
                  item[i] = outcome[i] /\ outcome[i] \in {"completed", "failed"}
            /\ \A i \in Rejected(b) : item[i] = "failed"
        BY <1>0, <2>2, <3>1 DEF Ledger, Exact
      <3>3. Cardinality(Ended(b, "failed")) \in Nat
        BY LedgerParts, ItemsCount, FS_Subset, FS_CardinalityType
      <3>4. failedReq'[b] + Owed(b)' = Cardinality(Ended(b, "failed")') + Cardinality(Rejected(b)')
        BY <1>1, <2>2, <2>4, <2>5, <3>2, <3>3
      <3>5. \A i \in ItemsOf(b) : workPC'[i] \in {"count", "check", "end"} =>
                item'[i] = outcome'[i] /\ outcome'[i] \in {"completed", "failed"}
        BY <1>1, <1>3, <1>5, <3>2, ItemsFacts
      <3>6. \A i \in Rejected(b)' : item'[i] = "failed"
        BY <1>5, <2>3, <3>1, <3>2, LedgerParts, ItemsFacts
      <3> QED BY <1>1, <2>2, <3>2, <3>4, <3>5, <3>6
    <2> QED BY <2>6, <2>7, <2>8 DEF Ledger
  <1> QED BY <1>2, <1>7, <1>8, <1>9, <1>10, <1>11, <1>12, Frames

(* The refusal path counts the item it owes, or the statement fails. *)
LEMMA CountRefusedStep ==
    ASSUME BatchIInv, NEW b \in Batches, CountRefused(b)
    PROVE  BatchIInv'
  <1>0. Shape /\ HandlerInv /\ Ledger(b)
    BY DEF BatchIInv, LedgerInv
  <1>1. /\ submitPC[b] = "countRefused" /\ (Fault \/ UNCHANGED faults)
        /\ submitPC' = [submitPC EXCEPT ![b] = "loop"]
        /\ failedReq' = failedReq \/ failedReq' = [failedReq EXCEPT ![b] = failedReq[b] + 1]
        /\ Fault \/ ctxDone[b] \/ failedReq' = [failedReq EXCEPT ![b] = failedReq[b] + 1]
        /\ UNCHANGED <<status, completedReq, item, todo, workPC, outcome, cancelPC, ctxDone, crashes>>
        /\ UNCHANGED <<queue, running, ended, refused, phase, drained>>
    BY DEF CountRefused, SubmitGoto, ExecOK, ExecFails, work, pool
  <1>2. /\ submitPC' \in [Batches -> SubmitPCs] /\ Later /\ submitPC'[b] = "loop"
        /\ \A c \in Batches : c # b => submitPC'[c] = submitPC[c]
    BY <1>0, <1>1, SubmitMoves DEF Shape, SubmitPCs
  <1>3. /\ RowsShape' /\ failedReq[b] \in Nat /\ completedReq[b] \in Nat
        /\ failedReq'[b] = failedReq[b] \/ failedReq'[b] = failedReq[b] + 1
        /\ Fault \/ ctxDone[b] \/ failedReq'[b] = failedReq[b] + 1
        /\ \A c \in Batches : c # b => failedReq'[c] = failedReq[c]
    BY <1>0, <1>1 DEF Shape, RowsShape
  <1>4. FaultShape' /\ (faults' = 0 => faults = 0) /\ (Fault => faults' # 0)
    BY <1>0, <1>1, FaultMoves DEF Shape
  <1>5. Shape'
    BY <1>0, <1>1, <1>2, <1>3, <1>4 DEF Shape, HandlerShape, WorkShape, PoolShape
  <1>6. QueueStill
    BY <1>1 DEF QueueStill
  <1>7. ASSUME NEW i \in Items PROVE PlaceStill(i)
    BY <1>1 DEF PlaceStill
  <1>8. ASSUME NEW c \in Batches PROVE Handler(c)'
    BY <1>0, <1>1, <1>2 DEF HandlerInv, Handler
  <1>9. ASSUME NEW c \in Batches, c # b PROVE LedgerStill(c)
    BY <1>1, <1>2, <1>3, <1>4, <1>9 DEF LedgerStill
  <1>10. Ledger(b)'
    <2>1. status[b] # "completed"
      BY <1>0, <1>1 DEF Ledger, Covered
    <2>2. /\ Worked(b)' = Worked(b) /\ Rejected(b)' = Rejected(b)
          /\ \A o : Ended(b, o)' = Ended(b, o) /\ Ended(b, o) \subseteq ItemsOf(b)
          /\ Owed(b) = 1 /\ Owed(b)' = 0
      BY <1>1, <1>2 DEF Worked, Rejected, Ended, Owed
    <2>3. Cardinality(Worked(b)) \in Nat /\ Cardinality(Rejected(b)) \in Nat
      BY LedgerParts, PartsOfBatch
    <2>4. Sound(b)'
      <3>1. completedReq[b] + failedReq[b] + 1 <= Cardinality(Worked(b)) + Cardinality(Rejected(b))
        BY <1>0, <2>2 DEF Ledger, Sound
      <3> QED BY <1>1, <1>3, <2>2, <2>3, <3>1 DEF Sound
    <2>5. Covered(b)'
      BY <1>1, <2>1 DEF Covered
    <2>6. Exact(b)'
      <3> SUFFICES ASSUME faults' = 0, ~ctxDone'[b]
                   PROVE  /\ completedReq'[b] = Cardinality(Ended(b, "completed")')
                          /\ failedReq'[b] + Owed(b)' = Cardinality(Ended(b, "failed")') + Cardinality(Rejected(b)')
                          /\ \A i \in ItemsOf(b) : workPC'[i] \in {"count", "check", "end"} =>
                                item'[i] = outcome'[i] /\ outcome'[i] \in {"completed", "failed"}
                          /\ \A i \in Rejected(b)' : item'[i] = "failed"
        BY <1>1, <2>1 DEF Exact
      <3>1. faults = 0 /\ ~ctxDone[b] /\ failedReq'[b] = failedReq[b] + 1
        BY <1>1, <1>3, <1>4
      <3>2. /\ completedReq[b] = Cardinality(Ended(b, "completed"))
            /\ failedReq[b] + 1 = Cardinality(Ended(b, "failed")) + Cardinality(Rejected(b))
            /\ \A i \in ItemsOf(b) : workPC[i] \in {"count", "check", "end"} =>
                  item[i] = outcome[i] /\ outcome[i] \in {"completed", "failed"}
            /\ \A i \in Rejected(b) : item[i] = "failed"
        BY <1>0, <2>2, <3>1 DEF Ledger, Exact
      <3> QED BY <1>1, <1>3, <2>2, <3>1, <3>2
    <2> QED BY <2>4, <2>5, <2>6 DEF Ledger
  <1> QED BY <1>2, <1>5, <1>6, <1>7, <1>8, <1>9, <1>10, Frames

-----------------------------------------------------------------------------
(* The workers *)

(* A worker takes the oldest item. *)
LEMMA TakeItemStep ==
    ASSUME BatchIInv, TakeItem
    PROVE  BatchIInv'
  <1> DEFINE h == queue[1]
  <1>0. Shape /\ HandlerInv /\ PlaceInv /\ QueueInv
    BY DEF BatchIInv
  <1>1. /\ queue # <<>> /\ Pool!Cardinality(running) < PoolSize
        /\ running' = running \cup {Head(queue)} /\ queue' = Tail(queue)
        /\ workPC' = [workPC EXCEPT ![Head(queue)] = "call"]
        /\ UNCHANGED <<status, completedReq, failedReq, item, outcome, faults>>
        /\ UNCHANGED <<submitPC, todo, cancelPC, ctxDone, crashes>>
        /\ UNCHANGED <<ended, refused, phase, drained>>
    BY DEF TakeItem, Pool!Take, WorkGoto, tables, handlers
  <1>2. /\ queue \in Seq(Items) /\ Len(queue) \in Nat /\ Len(queue) >= 1 /\ Head(queue) = h
        /\ queue' \in Seq(Items) /\ Len(queue') = Len(queue) - 1
        /\ \A k \in 1..Len(queue') : k + 1 \in 1..Len(queue) /\ queue'[k] = queue[k + 1]
    BY <1>0, <1>1 DEF Shape, PoolShape
  <1>3. 1 \in 1..Len(queue) /\ h \in Items /\ BatchOf(h) \in Batches
    BY <1>0, <1>2, QueuedItems DEF Shape
  <1>4. workPC[h] = "idle" /\ h \notin refused /\ ~Early(BatchOf(h)) /\ Place(h)
    BY <1>0, <1>3 DEF QueueInv, PlaceInv
  <1>5. Later
    BY <1>1 DEF Later, Early
  <1> HIDE DEF h
  <1>6. WorkShape' /\ workPC'[h] = "call" /\ \A i \in Items : i # h => workPC'[i] = workPC[i]
    BY <1>0, <1>1, <1>2, <1>3 DEF Shape, WorkShape
  <1>7. PoolShape'
    <2>1. Pool!Cardinality(running) = Cardinality(running)
      BY DEF Pool!Cardinality, Cardinality
    <2>2. IsFiniteSet(running) /\ Cardinality(running) \in Nat /\ Cardinality(running) < PoolSize
      BY <1>0, <1>1, <2>1, FS_CardinalityType DEF Shape, PoolShape
    <2>3. h \notin running
      BY <1>4 DEF Place
    <2>4. IsFiniteSet(running') /\ Cardinality(running') = Cardinality(running) + 1
      BY <1>1, <1>2, <2>2, <2>3, FS_AddElement
    <2>5. Cardinality(running') <= PoolSize
      BY <2>2, <2>4, BatchAssumption
    <2>6. Len(queue') <= QueueSize
      BY <1>0, <1>2, BatchAssumption DEF Shape, PoolShape
    <2> QED BY <1>0, <1>1, <1>2, <1>3, <2>4, <2>5, <2>6 DEF Shape, PoolShape
  <1>8. Shape'
    BY <1>0, <1>1, <1>6, <1>7 DEF Shape, RowsShape, HandlerShape, FaultShape
  <1>9. QueueInv'
    <2>1. ASSUME NEW k \in 1..Len(queue'), NEW m \in 1..Len(queue'), queue'[k] = queue'[m] PROVE k = m
      <3>1. queue[k + 1] = queue[m + 1] /\ k + 1 \in 1..Len(queue) /\ m + 1 \in 1..Len(queue)
        BY <1>2, <2>1
      <3>2. k + 1 = m + 1
        BY <1>0, <3>1 DEF QueueInv
      <3> QED BY <1>2, <3>2
    <2>2. ASSUME NEW k \in 1..Len(queue')
          PROVE  workPC'[queue'[k]] = "idle" /\ queue'[k] \notin refused' /\ ~Early(BatchOf(queue[k]))'
      <3>1. queue'[k] = queue[k + 1] /\ k + 1 \in 1..Len(queue) /\ k + 1 # 1
        BY <1>2
      <3>2. queue[k + 1] \in Items /\ queue[k + 1] # h
        BY <1>0, <1>3, <3>1, QueuedItems DEF QueueInv, Shape, h
      <3>3. workPC[queue[k + 1]] = "idle" /\ queue[k + 1] \notin refused /\ ~Early(BatchOf(queue[k + 1]))
        BY <1>0, <3>1 DEF QueueInv
      <3> QED BY <1>1, <1>6, <3>1, <3>2, <3>3 DEF Early
    <2> QED BY <2>1, <2>2 DEF QueueInv
  <1>10. ASSUME NEW i \in Items PROVE PlaceStill(i) \/ Place(i)'
    <2>1. CASE i = h
      BY <1>1, <1>2, <1>4, <1>6, <2>1 DEF Place, Early
    <2>2. CASE i # h
      BY <1>1, <1>2, <1>6, <2>2 DEF PlaceStill
    <2> QED BY <2>1, <2>2
  <1>11. ASSUME NEW c \in Batches PROVE Handler(c)'
    BY <1>0, <1>1 DEF HandlerInv, Handler
  <1>12. ASSUME NEW c \in Batches PROVE LedgerStill(c)
    <2>1. ItemsOf(c) \subseteq Items
      BY ItemsFacts
    <2> QED BY <1>1, <1>4, <1>6, <2>1 DEF LedgerStill
  <1> QED BY <1>5, <1>8, <1>9, <1>10, <1>11, <1>12, Frames

(* A worker moves one item: what it changes and what it leaves alone. *)
LEMMA WorkMoves ==
    ASSUME BatchIInv, NEW j \in Items, NEW pc \in {"store", "count", "check", "end"}, WorkGoto(j, pc)
    PROVE  /\ workPC' \in [Items -> {"idle", "call", "store", "count", "check", "end"}]
           /\ workPC'[j] = pc /\ \A i \in Items : i # j => workPC'[i] = workPC[i]
           /\ Later /\ UNCHANGED <<submitPC, todo, cancelPC, ctxDone, crashes>>
           /\ \A c \in Batches : status'[c] = status[c] \/ submitPC[c] # "idle" => Handler(c)'
  <1>1. /\ workPC' = [workPC EXCEPT ![j] = pc]
        /\ UNCHANGED <<submitPC, todo, cancelPC, ctxDone, crashes>>
    BY DEF WorkGoto, handlers
  <1>2. WorkShape /\ HandlerInv
    BY DEF BatchIInv, Shape
  <1>3. Later
    BY <1>1 DEF Later, Early
  <1>4. \A c \in Batches : status'[c] = status[c] \/ submitPC[c] # "idle" => Handler(c)'
    BY <1>1, <1>2 DEF HandlerInv, Handler
  <1> QED BY <1>1, <1>2, <1>3, <1>4 DEF WorkShape

(* What the invariant says of an item a worker is busy with. *)
LEMMA BusyItems ==
    ASSUME BatchIInv, NEW j \in Items, workPC[j] \in {"call", "store", "count", "check"}
    PROVE  /\ Place(j) /\ j \in running /\ j \notin ended /\ j \notin refused /\ ~Early(BatchOf(j))
           /\ BatchOf(j) \in Batches /\ j \in ItemsOf(BatchOf(j))
           /\ \A k \in 1..Len(queue) : queue[k] # j
  <1>1. Place(j) /\ QueueInv
    BY DEF BatchIInv, PlaceInv
  <1> QED BY <1>1, ItemsFacts DEF Place, QueueInv

(* The provider call comes back. *)
LEMMA CallProviderStep ==
    ASSUME BatchIInv, NEW j \in Items, CallProvider(j)
    PROVE  BatchIInv'
  <1>0. Shape
    BY DEF BatchIInv
  <1>1. /\ workPC[j] = "call" /\ WorkGoto(j, "store")
        /\ \E o \in {"completed", "failed"} : outcome' = [outcome EXCEPT ![j] = o]
        /\ UNCHANGED <<status, completedReq, failedReq, item, faults>>
        /\ UNCHANGED <<queue, running, ended, refused, phase, drained>>
    BY DEF CallProvider, tables, pool
  <1>2. /\ workPC' \in [Items -> {"idle", "call", "store", "count", "check", "end"}]
        /\ workPC'[j] = "store" /\ \A i \in Items : i # j => workPC'[i] = workPC[i]
        /\ Later /\ UNCHANGED <<submitPC, todo, cancelPC, ctxDone, crashes>>
        /\ \A c \in Batches : Handler(c)'
    BY <1>1, WorkMoves
  <1>3. /\ outcome' \in [Items -> {"none", "completed", "failed"}]
        /\ outcome'[j] \in {"completed", "failed"} /\ \A i \in Items : i # j => outcome'[i] = outcome[i]
    BY <1>0, <1>1 DEF Shape, WorkShape
  <1>4. /\ Place(j) /\ \A k \in 1..Len(queue) : queue[k] # j
    BY <1>1, BusyItems
  <1>5. Shape'
    BY <1>0, <1>1, <1>2, <1>3 DEF Shape, RowsShape, HandlerShape, WorkShape, PoolShape, FaultShape
  <1>6. QueueStill
    <2>1. \A k \in 1..Len(queue) : queue[k] \in Items
      BY <1>0, QueuedItems DEF Shape
    <2> QED BY <1>1, <1>2, <1>4, <2>1 DEF QueueStill
  <1>7. ASSUME NEW i \in Items PROVE PlaceStill(i) \/ Place(i)'
    <2>1. CASE i = j
      BY <1>1, <1>2, <1>3, <1>4, <2>1 DEF Place, Early
    <2>2. CASE i # j
      BY <1>1, <1>2, <1>3, <2>2 DEF PlaceStill
    <2> QED BY <2>1, <2>2
  <1>8. ASSUME NEW c \in Batches PROVE LedgerStill(c)
    <2>1. ItemsOf(c) \subseteq Items
      BY ItemsFacts
    <2> QED BY <1>1, <1>2, <1>3, <2>1 DEF LedgerStill
  <1> QED BY <1>2, <1>5, <1>6, <1>7, <1>8, Frames

(* The pool is done with an item. *)
LEMMA FinishMoves ==
    ASSUME BatchIInv, NEW j \in Items, Pool!Finish(j)
    PROVE  /\ PoolShape' /\ UNCHANGED <<queue, refused, phase, drained>>
           /\ running' = running \ {j} /\ ended' = ended \cup {j}
  <1>1. /\ running' = running \ {j} /\ ended' = ended \cup {j}
        /\ UNCHANGED <<queue, refused, phase, drained>>
    BY DEF Pool!Finish
  <1>2. PoolShape
    BY DEF BatchIInv, Shape
  <1>3. IsFiniteSet(running') /\ Cardinality(running') <= Cardinality(running)
    BY <1>1, <1>2, FS_Subset DEF PoolShape
  <1>4. Cardinality(running') <= PoolSize
    <2>1. Cardinality(running') \in Nat /\ Cardinality(running) \in Nat /\ Cardinality(running) <= PoolSize
      BY <1>2, <1>3, FS_CardinalityType DEF PoolShape
    <2> QED BY <1>3, <2>1, BatchAssumption
  <1> QED BY <1>1, <1>2, <1>3, <1>4 DEF PoolShape

(* A worker's item that panics is over, and never counted. *)
LEMMA ItemPanicsStep ==
    ASSUME BatchIInv, NEW j \in Items, ItemPanics(j)
    PROVE  BatchIInv'
  <1> DEFINE b == BatchOf(j)
  <1>0. Shape
    BY DEF BatchIInv
  <1>1. /\ workPC[j] = "call" /\ WorkGoto(j, "end") /\ Fault /\ Pool!Finish(j)
        /\ UNCHANGED <<status, completedReq, failedReq, item, outcome>>
    BY DEF ItemPanics, tables
  <1>2. /\ workPC' \in [Items -> {"idle", "call", "store", "count", "check", "end"}]
        /\ workPC'[j] = "end" /\ \A i \in Items : i # j => workPC'[i] = workPC[i]
        /\ Later /\ UNCHANGED <<submitPC, todo, cancelPC, ctxDone, crashes>>
        /\ \A c \in Batches : Handler(c)'
    BY <1>1, WorkMoves
  <1>3. /\ PoolShape' /\ UNCHANGED <<queue, refused, phase, drained>>
        /\ running' = running \ {j} /\ ended' = ended \cup {j}
    BY <1>1, FinishMoves
  <1>4. /\ Place(j) /\ j \notin refused /\ b \in Batches /\ j \in ItemsOf(b)
        /\ \A k \in 1..Len(queue) : queue[k] # j
    BY <1>1, BusyItems
  <1>5. FaultShape' /\ faults' # 0
    BY <1>0, <1>1, <1>2, FaultMoves DEF Shape
  <1>6. Shape'
    BY <1>0, <1>1, <1>2, <1>3, <1>5 DEF Shape, RowsShape, HandlerShape, WorkShape
  <1>7. QueueStill
    <2>1. \A k \in 1..Len(queue) : queue[k] \in Items
      BY <1>0, QueuedItems DEF Shape
    <2> QED BY <1>2, <1>3, <1>4, <2>1 DEF QueueStill
  <1>8. ASSUME NEW i \in Items PROVE PlaceStill(i) \/ Place(i)'
    <2>1. CASE i = j
      BY <1>1, <1>2, <1>3, <1>4, <2>1 DEF Place, Early
    <2>2. CASE i # j
      BY <1>1, <1>2, <1>3, <2>2 DEF PlaceStill
    <2> QED BY <2>1, <2>2
  <1>9. ASSUME NEW c \in Batches, c # b PROVE LedgerStill(c)
    <2>1. \A i \in ItemsOf(c) : i \in Items /\ i # j
      BY <1>9, ItemsFacts
    <2> QED BY <1>1, <1>2, <1>3, <1>5, <2>1 DEF LedgerStill
  <1>10. Ledger(b)'
    <2>1. status[b] # "completed"
      BY <1>1, <1>4, NotCompleted
    <2>2. /\ Worked(b)' = Worked(b) \cup {j} /\ j \notin Worked(b)
          /\ Rejected(b)' = Rejected(b) /\ Owed(b)' = Owed(b) /\ Owed(b) \in Nat
      BY <1>1, <1>2, <1>3, <1>4, ItemsFacts DEF Worked, Rejected, Owed
    <2>3. /\ Cardinality(Worked(b)) \in Nat /\ Cardinality(Rejected(b)) \in Nat
          /\ Cardinality(Worked(b)') = Cardinality(Worked(b)) + 1
      BY <1>4, <2>2, LedgerParts, PartsOfBatch, OneMore
    <2>4. completedReq[b] \in Nat /\ failedReq[b] \in Nat
      BY <1>0, <1>4 DEF Shape, RowsShape
    <2>5. completedReq[b] + failedReq[b] + Owed(b) <= Cardinality(Worked(b)) + Cardinality(Rejected(b))
      BY <1>4 DEF BatchIInv, LedgerInv, Ledger, Sound
    <2>6. Sound(b)'
      BY <1>1, <2>2, <2>3, <2>4, <2>5 DEF Sound
    <2>7. Covered(b)' /\ Exact(b)'
      BY <1>1, <1>5, <2>1 DEF Covered, Exact
    <2> QED BY <2>6, <2>7 DEF Ledger
  <1> QED BY <1>2, <1>6, <1>7, <1>8, <1>9, <1>10, Frames

(* A worker stores its result, or the statement fails. *)
LEMMA StoreItemStep ==
    ASSUME BatchIInv, NEW j \in Items, StoreItem(j)
    PROVE  BatchIInv'
  <1> DEFINE b == BatchOf(j)
  <1>0. Shape
    BY DEF BatchIInv
  <1>1. /\ workPC[j] = "store" /\ WorkGoto(j, "count") /\ (Fault \/ UNCHANGED faults)
        /\ item' = item \/ item' = [item EXCEPT ![j] = outcome[j]]
        /\ Fault \/ ctxDone[b] \/ item' = [item EXCEPT ![j] = outcome[j]]
        /\ UNCHANGED <<status, completedReq, failedReq, outcome>>
        /\ UNCHANGED <<queue, running, ended, refused, phase, drained>>
    BY DEF StoreItem, ExecOK, ExecFails, pool
  <1>2. /\ workPC' \in [Items -> {"idle", "call", "store", "count", "check", "end"}]
        /\ workPC'[j] = "count" /\ \A i \in Items : i # j => workPC'[i] = workPC[i]
        /\ Later /\ UNCHANGED <<submitPC, todo, cancelPC, ctxDone, crashes>>
        /\ \A c \in Batches : Handler(c)'
    BY <1>1, WorkMoves
  <1>3. /\ Place(j) /\ j \notin refused /\ b \in Batches /\ j \in ItemsOf(b)
        /\ \A k \in 1..Len(queue) : queue[k] # j
    BY <1>1, BusyItems
  <1>4. outcome[j] \in {"completed", "failed"}
    BY <1>1, <1>3 DEF Place
  <1>5. /\ RowsShape' /\ \A i \in Items : i # j => item'[i] = item[i]
        /\ Fault \/ ctxDone[b] \/ item'[j] = outcome[j]
    BY <1>0, <1>1, <1>4 DEF Shape, RowsShape
  <1>6. FaultShape' /\ (faults' = 0 => faults = 0) /\ (Fault => faults' # 0)
    BY <1>0, <1>1, <1>2, FaultMoves DEF Shape
  <1>7. Shape'
    BY <1>0, <1>1, <1>2, <1>5, <1>6 DEF Shape, HandlerShape, WorkShape, PoolShape
  <1>8. QueueStill
    <2>1. \A k \in 1..Len(queue) : queue[k] \in Items
      BY <1>0, QueuedItems DEF Shape
    <2> QED BY <1>1, <1>2, <1>3, <2>1 DEF QueueStill
  <1>9. ASSUME NEW i \in Items PROVE PlaceStill(i) \/ Place(i)'
    <2>1. CASE i = j
      BY <1>1, <1>2, <1>3, <1>4, <2>1 DEF Place, Early
    <2>2. CASE i # j
      BY <1>1, <1>2, <1>5, <2>2 DEF PlaceStill
    <2> QED BY <2>1, <2>2
  <1>10. ASSUME NEW c \in Batches, c # b PROVE LedgerStill(c)
    <2>1. \A i \in ItemsOf(c) : i \in Items /\ i # j
      BY <1>10, ItemsFacts
    <2> QED BY <1>1, <1>2, <1>5, <1>6, <2>1 DEF LedgerStill
  <1>11. Ledger(b)'
    <2>1. status[b] # "completed" /\ Ledger(b)
      BY <1>1, <1>3, NotCompleted DEF BatchIInv, LedgerInv
    <2>2. /\ Worked(b)' = Worked(b) /\ Rejected(b)' = Rejected(b) /\ Owed(b)' = Owed(b)
          /\ \A o : Ended(b, o)' = Ended(b, o)
      BY <1>1, <1>2, ItemsFacts DEF Worked, Rejected, Ended, Owed
    <2>3. Sound(b)' /\ Covered(b)'
      BY <1>1, <2>1, <2>2 DEF Ledger, Sound, Covered
    <2>4. Exact(b)'
      <3> SUFFICES ASSUME faults' = 0, ~ctxDone'[b]
                   PROVE  /\ completedReq'[b] = Cardinality(Ended(b, "completed")')
                          /\ failedReq'[b] + Owed(b)' = Cardinality(Ended(b, "failed")') + Cardinality(Rejected(b)')
                          /\ \A i \in ItemsOf(b) : workPC'[i] \in {"count", "check", "end"} =>
                                item'[i] = outcome'[i] /\ outcome'[i] \in {"completed", "failed"}
                          /\ \A i \in Rejected(b)' : item'[i] = "failed"
        BY <1>1, <2>1 DEF Exact
      <3>1. faults = 0 /\ ~ctxDone[b] /\ item'[j] = outcome[j]
        BY <1>2, <1>5, <1>6
      <3>2. /\ completedReq[b] = Cardinality(Ended(b, "completed"))
            /\ failedReq[b] + Owed(b) = Cardinality(Ended(b, "failed")) + Cardinality(Rejected(b))
            /\ \A i \in ItemsOf(b) : workPC[i] \in {"count", "check", "end"} =>
                  item[i] = outcome[i] /\ outcome[i] \in {"completed", "failed"}
            /\ \A i \in Rejected(b) : item[i] = "failed"
        BY <2>1, <3>1 DEF Ledger, Exact
      <3>3. \A i \in ItemsOf(b) : workPC'[i] \in {"count", "check", "end"} =>
                item'[i] = outcome'[i] /\ outcome'[i] \in {"completed", "failed"}
        BY <1>1, <1>2, <1>4, <1>5, <3>1, <3>2, ItemsFacts
      <3>4. \A i \in Rejected(b)' : item'[i] = "failed"
        <4>1. j \notin Rejected(b)
          BY <1>3 DEF Rejected
        <4> QED BY <1>3, <1>5, <2>2, <3>2, <4>1, LedgerParts, ItemsFacts
      <3> QED BY <1>1, <2>2, <3>2, <3>3, <3>4
    <2> QED BY <2>3, <2>4 DEF Ledger
  <1> QED BY <1>2, <1>7, <1>8, <1>9, <1>10, <1>11, Frames

(* A worker counts its item, or the statement fails. *)
LEMMA CountItemStep ==
    ASSUME BatchIInv, NEW j \in Items, CountItem(j)
    PROVE  BatchIInv'
  <1> DEFINE b == BatchOf(j)
  <1>0. Shape
    BY DEF BatchIInv
  <1>1. /\ workPC[j] = "count" /\ WorkGoto(j, "check") /\ (Fault \/ UNCHANGED faults)
        /\ \/ (ctxDone[b] \/ Fault) /\ completedReq' = completedReq /\ failedReq' = failedReq
           \/ /\ outcome[j] = "completed"
              /\ completedReq' = [completedReq EXCEPT ![b] = completedReq[b] + 1] /\ failedReq' = failedReq
           \/ /\ outcome[j] # "completed"
              /\ failedReq' = [failedReq EXCEPT ![b] = failedReq[b] + 1] /\ completedReq' = completedReq
        /\ UNCHANGED <<status, item, outcome>>
        /\ UNCHANGED <<queue, running, ended, refused, phase, drained>>
    BY DEF CountItem, ExecOK, ExecFails, pool
  <1>2. /\ workPC' \in [Items -> {"idle", "call", "store", "count", "check", "end"}]
        /\ workPC'[j] = "check" /\ \A i \in Items : i # j => workPC'[i] = workPC[i]
        /\ Later /\ UNCHANGED <<submitPC, todo, cancelPC, ctxDone, crashes>>
        /\ \A c \in Batches : Handler(c)'
    BY <1>1, WorkMoves
  <1>3. /\ Place(j) /\ j \notin refused /\ b \in Batches /\ j \in ItemsOf(b)
        /\ \A k \in 1..Len(queue) : queue[k] # j
    BY <1>1, BusyItems
  <1>4. outcome[j] \in {"completed", "failed"}
    BY <1>1, <1>3 DEF Place
  <1>5. /\ completedReq' \in [Batches -> Nat] /\ failedReq' \in [Batches -> Nat]
        /\ completedReq[b] \in Nat /\ failedReq[b] \in Nat
        /\ \A c \in Batches : c # b => completedReq'[c] = completedReq[c] /\ failedReq'[c] = failedReq[c]
        /\ \/ (ctxDone[b] \/ Fault) /\ completedReq'[b] = completedReq[b] /\ failedReq'[b] = failedReq[b]
           \/ /\ outcome[j] = "completed"
              /\ completedReq'[b] = completedReq[b] + 1 /\ failedReq'[b] = failedReq[b]
           \/ /\ outcome[j] = "failed"
              /\ completedReq'[b] = completedReq[b] /\ failedReq'[b] = failedReq[b] + 1
    <2>1. completedReq \in [Batches -> Nat] /\ failedReq \in [Batches -> Nat]
      BY <1>0 DEF Shape, RowsShape
    <2> HIDE DEF b
    <2> QED BY <1>1, <1>3, <1>4, <2>1
  <1>6. FaultShape' /\ (faults' = 0 => faults = 0) /\ (Fault => faults' # 0)
    BY <1>0, <1>1, <1>2, FaultMoves DEF Shape
  <1>7. Shape'
    BY <1>0, <1>1, <1>2, <1>5, <1>6 DEF Shape, RowsShape, HandlerShape, WorkShape, PoolShape
  <1>8. QueueStill
    <2>1. \A k \in 1..Len(queue) : queue[k] \in Items
      BY <1>0, QueuedItems DEF Shape
    <2> QED BY <1>1, <1>2, <1>3, <2>1 DEF QueueStill
  <1>9. ASSUME NEW i \in Items PROVE PlaceStill(i) \/ Place(i)'
    <2>1. CASE i = j
      BY <1>1, <1>2, <1>3, <2>1 DEF Place, Early
    <2>2. CASE i # j
      BY <1>1, <1>2, <2>2 DEF PlaceStill
    <2> QED BY <2>1, <2>2
  <1>10. ASSUME NEW c \in Batches, c # b PROVE LedgerStill(c)
    <2>1. \A i \in ItemsOf(c) : i \in Items /\ i # j
      BY <1>10, ItemsFacts
    <2> QED BY <1>1, <1>2, <1>5, <1>6, <1>10, <2>1 DEF LedgerStill
  <1>11. Ledger(b)'
    <2>1. status[b] # "completed" /\ Ledger(b)
      BY <1>1, <1>3, NotCompleted DEF BatchIInv, LedgerInv
    <2>2. /\ Worked(b)' = Worked(b) \cup {j} /\ j \notin Worked(b)
          /\ Rejected(b)' = Rejected(b) /\ Owed(b)' = Owed(b) /\ Owed(b) \in Nat
      BY <1>1, <1>2, <1>3, ItemsFacts DEF Worked, Rejected, Owed
    <2>3. \A o : /\ j \notin Ended(b, o)
                 /\ Ended(b, o)' = IF outcome[j] = o THEN Ended(b, o) \cup {j} ELSE Ended(b, o)
      BY <1>1, <1>2, <1>3, ItemsFacts DEF Ended
    <2>4. /\ Cardinality(Worked(b)) \in Nat /\ Cardinality(Rejected(b)) \in Nat
          /\ Cardinality(Worked(b)') = Cardinality(Worked(b)) + 1
      BY <1>3, <2>2, LedgerParts, PartsOfBatch, OneMore
    <2>5. \A o : /\ Cardinality(Ended(b, o)) \in Nat
                 /\ outcome[j] = o => Cardinality(Ended(b, o)') = Cardinality(Ended(b, o)) + 1
                 /\ outcome[j] # o => Cardinality(Ended(b, o)') = Cardinality(Ended(b, o))
      BY <1>3, <2>3, LedgerParts, OneMore
    <2>6. Sound(b)'
      <3>1. completedReq[b] + failedReq[b] + Owed(b) <= Cardinality(Worked(b)) + Cardinality(Rejected(b))
        BY <2>1 DEF Ledger, Sound
      <3>2. completedReq'[b] + failedReq'[b] <= completedReq[b] + failedReq[b] + 1
            /\ completedReq'[b] \in Nat /\ failedReq'[b] \in Nat
        BY <1>3, <1>5
      <3> QED BY <1>5, <2>2, <2>4, <3>1, <3>2 DEF Sound
    <2>7. Covered(b)'
      BY <1>1, <2>1 DEF Covered
    <2>8. Exact(b)'
      <3> SUFFICES ASSUME faults' = 0, ~ctxDone'[b]
                   PROVE  /\ completedReq'[b] = Cardinality(Ended(b, "completed")')
                          /\ failedReq'[b] + Owed(b)' = Cardinality(Ended(b, "failed")') + Cardinality(Rejected(b)')
                          /\ \A i \in ItemsOf(b) : workPC'[i] \in {"count", "check", "end"} =>
                                item'[i] = outcome'[i] /\ outcome'[i] \in {"completed", "failed"}
                          /\ \A i \in Rejected(b)' : item'[i] = "failed"
        BY <1>1, <2>1 DEF Exact
      <3>1. faults = 0 /\ ~ctxDone[b] /\ ~Fault
        BY <1>2, <1>6
      <3>2. /\ completedReq[b] = Cardinality(Ended(b, "completed"))
            /\ failedReq[b] + Owed(b) = Cardinality(Ended(b, "failed")) + Cardinality(Rejected(b))
            /\ \A i \in ItemsOf(b) : workPC[i] \in {"count", "check", "end"} =>
                  item[i] = outcome[i] /\ outcome[i] \in {"completed", "failed"}
            /\ \A i \in Rejected(b) : item[i] = "failed"
        BY <2>1, <3>1 DEF Ledger, Exact
      <3>3. /\ completedReq'[b] = Cardinality(Ended(b, "completed")')
            /\ failedReq'[b] + Owed(b)' = Cardinality(Ended(b, "failed")') + Cardinality(Rejected(b)')
        <4>1. CASE outcome[j] = "completed"
          <5>1. completedReq'[b] = completedReq[b] + 1 /\ failedReq'[b] = failedReq[b]
            BY <1>5, <3>1, <4>1
          <5>2. /\ Cardinality(Ended(b, "completed")') = Cardinality(Ended(b, "completed")) + 1
                /\ Cardinality(Ended(b, "failed")') = Cardinality(Ended(b, "failed"))
            BY <2>5, <4>1
          <5> QED BY <2>2, <3>2, <5>1, <5>2
        <4>2. CASE outcome[j] = "failed"
          <5>1. completedReq'[b] = completedReq[b] /\ failedReq'[b] = failedReq[b] + 1
            BY <1>5, <3>1, <4>2
          <5>2. /\ Cardinality(Ended(b, "completed")') = Cardinality(Ended(b, "completed"))
                /\ Cardinality(Ended(b, "failed")') = Cardinality(Ended(b, "failed")) + 1
                /\ Cardinality(Ended(b, "failed")) \in Nat
            BY <2>5, <4>2
          <5> QED BY <1>5, <2>2, <2>4, <3>2, <5>1, <5>2
        <4> QED BY <1>4, <4>1, <4>2
      <3>4. \A i \in ItemsOf(b) : workPC'[i] \in {"count", "check", "end"} =>
                item'[i] = outcome'[i] /\ outcome'[i] \in {"completed", "failed"}
        BY <1>1, <1>2, <3>2, ItemsFacts
      <3>5. \A i \in Rejected(b)' : item'[i] = "failed"
        BY <1>1, <2>2, <3>2
      <3> QED BY <3>3, <3>4, <3>5
    <2> QED BY <2>6, <2>7, <2>8 DEF Ledger
  <1> QED BY <1>2, <1>7, <1>8, <1>9, <1>10, <1>11, Frames

(* The worker looks whether its batch is complete.  When the counters say    *)
(* so, every item has been worked on or rejected, for they never run ahead.  *)
LEMMA CheckBatchCompleteStep ==
    ASSUME BatchIInv, NEW j \in Items, CheckBatchComplete(j)
    PROVE  BatchIInv'
  <1> DEFINE b == BatchOf(j)
  <1>0. Shape
    BY DEF BatchIInv
  <1>1. /\ workPC[j] = "check" /\ WorkGoto(j, "end") /\ Pool!Finish(j)
        /\ Fault \/ UNCHANGED faults
        /\ \/ status' = status
           \/ ~ctxDone[b] /\ AllCounted(b) /\ status' = [status EXCEPT ![b] = "completed"]
        /\ UNCHANGED <<completedReq, failedReq, item, outcome>>
    BY DEF CheckBatchComplete, ExecOK, ExecFails
  <1>2. /\ workPC' \in [Items -> {"idle", "call", "store", "count", "check", "end"}]
        /\ workPC'[j] = "end" /\ \A i \in Items : i # j => workPC'[i] = workPC[i]
        /\ Later /\ UNCHANGED <<submitPC, todo, cancelPC, ctxDone, crashes>>
        /\ \A c \in Batches : status'[c] = status[c] \/ submitPC[c] # "idle" => Handler(c)'
    BY <1>1, WorkMoves
  <1>3. /\ PoolShape' /\ UNCHANGED <<queue, refused, phase, drained>>
        /\ running' = running \ {j} /\ ended' = ended \cup {j}
    BY <1>1, FinishMoves
  <1>4. /\ Place(j) /\ j \notin refused /\ b \in Batches /\ j \in ItemsOf(b) /\ ~Early(b)
        /\ \A k \in 1..Len(queue) : queue[k] # j
    BY <1>1, BusyItems
  <1>5. /\ RowsShape' /\ \A c \in Batches : c # b => status'[c] = status[c]
        /\ status'[b] = status[b] \/ (~ctxDone[b] /\ AllCounted(b) /\ status'[b] = "completed")
    <2>1. RowsShape
      BY <1>0 DEF Shape
    <2> HIDE DEF b
    <2> QED BY <1>1, <1>4, <2>1 DEF RowsShape
  <1>6. FaultShape' /\ (faults' = 0 => faults = 0)
    BY <1>0, <1>1, <1>2, FaultMoves DEF Shape
  <1>7. Shape'
    BY <1>0, <1>1, <1>2, <1>3, <1>5, <1>6 DEF Shape, HandlerShape, WorkShape
  <1>8. QueueStill
    <2>1. \A k \in 1..Len(queue) : queue[k] \in Items
      BY <1>0, QueuedItems DEF Shape
    <2> QED BY <1>2, <1>3, <1>4, <2>1 DEF QueueStill
  <1>9. ASSUME NEW i \in Items PROVE PlaceStill(i) \/ Place(i)'
    <2>1. CASE i = j
      BY <1>1, <1>2, <1>3, <1>4, <2>1 DEF Place, Early
    <2>2. CASE i # j
      BY <1>1, <1>2, <1>3, <2>2 DEF PlaceStill
    <2> QED BY <2>1, <2>2
  <1>10. ASSUME NEW c \in Batches PROVE Handler(c)'
    BY <1>2, <1>4, <1>5 DEF Early
  <1>11. ASSUME NEW c \in Batches, status'[c] = status[c] PROVE LedgerStill(c)
    <2>1. ItemsOf(c) \subseteq Items
      BY ItemsFacts
    <2> QED BY <1>1, <1>2, <1>3, <1>6, <1>11, <2>1 DEF LedgerStill
  <1>12. ASSUME ~ctxDone[b], AllCounted(b), status'[b] = "completed" PROVE Ledger(b)'
    <2>1. Ledger(b)
      BY <1>4 DEF BatchIInv, LedgerInv
    <2>2. /\ Worked(b)' = Worked(b) /\ Rejected(b)' = Rejected(b) /\ Owed(b)' = Owed(b)
          /\ \A o : Ended(b, o)' = Ended(b, o)
      BY <1>1, <1>2, <1>3, ItemsFacts DEF Worked, Rejected, Ended, Owed
    <2>3. Sound(b)'
      BY <1>1, <2>1, <2>2 DEF Ledger, Sound
    <2>4. Covered(b)'
      <3>1. /\ Cardinality(Worked(b)) \in Nat /\ Cardinality(Rejected(b)) \in Nat
            /\ Cardinality(Worked(b)) + Cardinality(Rejected(b)) <= Total
            /\ Cardinality(Worked(b)) + Cardinality(Rejected(b)) >= Total =>
                  Worked(b) \cup Rejected(b) = ItemsOf(b)
        BY <1>4, LedgerParts, PartsOfBatch
      <3>2. /\ completedReq[b] + failedReq[b] + Owed(b) <= Cardinality(Worked(b)) + Cardinality(Rejected(b))
            /\ completedReq[b] + failedReq[b] >= Total /\ Owed(b) \in Nat
        BY <1>12, <2>1 DEF Ledger, Sound, AllCounted, Owed
      <3>3. completedReq[b] \in Nat /\ failedReq[b] \in Nat /\ Total \in Nat
        BY <1>0, <1>4, BatchAssumption DEF Shape, RowsShape
      <3>4. Owed(b) = 0 /\ Worked(b) \cup Rejected(b) = ItemsOf(b)
        BY <3>1, <3>2, <3>3
      <3> QED BY <1>2, <2>2, <3>4 DEF Covered, Owed
    <2>5. Exact(b)'
      <3> SUFFICES ASSUME faults' = 0
                   PROVE  /\ completedReq'[b] = Cardinality(Ended(b, "completed")')
                          /\ failedReq'[b] + Owed(b)' = Cardinality(Ended(b, "failed")') + Cardinality(Rejected(b)')
                          /\ \A i \in ItemsOf(b) : workPC'[i] \in {"count", "check", "end"} =>
                                item'[i] = outcome'[i] /\ outcome'[i] \in {"completed", "failed"}
                          /\ \A i \in Rejected(b)' : item'[i] = "failed"
        BY DEF Exact
      <3>1. /\ completedReq[b] = Cardinality(Ended(b, "completed"))
            /\ failedReq[b] + Owed(b) = Cardinality(Ended(b, "failed")) + Cardinality(Rejected(b))
            /\ \A i \in ItemsOf(b) : workPC[i] \in {"count", "check", "end"} =>
                  item[i] = outcome[i] /\ outcome[i] \in {"completed", "failed"}
            /\ \A i \in Rejected(b) : item[i] = "failed"
        BY <1>6, <1>12, <2>1 DEF Ledger, Exact
      <3>2. \A i \in ItemsOf(b) : workPC'[i] \in {"count", "check", "end"} =>
                item'[i] = outcome'[i] /\ outcome'[i] \in {"completed", "failed"}
        BY <1>1, <1>2, <3>1, ItemsFacts
      <3> QED BY <1>1, <2>2, <3>1, <3>2
    <2> QED BY <2>3, <2>4, <2>5 DEF Ledger
  <1>13. \A c \in Batches : LedgerStill(c) \/ Ledger(c)'
    BY <1>5, <1>11, <1>12
  <1> QED BY <1>2, <1>7, <1>8, <1>9, <1>10, <1>13, Frames

-----------------------------------------------------------------------------
(* The process *)

(* The pool is opened, closed or drained. *)
LEMMA PoolPhaseStep ==
    ASSUME BatchIInv, PoolPhase
    PROVE  BatchIInv'
  <1>0. Shape /\ HandlerInv
    BY DEF BatchIInv
  <1>1. /\ phase' \in {"idle", "open", "closing", "closed"} /\ drained' \in BOOLEAN
        /\ UNCHANGED <<status, completedReq, failedReq, item, submitPC, todo, cancelPC, ctxDone>>
        /\ UNCHANGED <<workPC, outcome, queue, running, ended, refused, faults, crashes>>
    BY <1>0 DEF PoolPhase, Pool!Advance, Pool!Drain, tables, handlers, work, Shape, PoolShape
  <1>2. Later
    BY <1>1 DEF Later, Early
  <1>3. Shape'
    BY <1>0, <1>1 DEF Shape, RowsShape, HandlerShape, WorkShape, PoolShape, FaultShape
  <1>4. QueueStill
    BY <1>1 DEF QueueStill
  <1>5. ASSUME NEW i \in Items PROVE PlaceStill(i)
    BY <1>1 DEF PlaceStill
  <1>6. ASSUME NEW c \in Batches PROVE Handler(c)'
    BY <1>0, <1>1 DEF HandlerInv, Handler
  <1>7. ASSUME NEW c \in Batches PROVE LedgerStill(c)
    BY <1>1 DEF LedgerStill
  <1> QED BY <1>2, <1>3, <1>4, <1>5, <1>6, <1>7, Frames

(* The process stops: handlers and workers are gone, the rows stay.  A batch *)
(* that was completed had no work left, and the counters of the others are   *)
(* no longer exact, for their contexts have ended.                           *)
LEMMA CrashStep ==
    ASSUME BatchIInv, Crash
    PROVE  BatchIInv'
  <1>0. Shape /\ HandlerInv /\ PlaceInv
    BY DEF BatchIInv
  <1>1. /\ crashes < MaxCrashes /\ crashes' = crashes + 1
        /\ queue' = <<>> /\ running' = {} /\ phase' = "idle" /\ drained' = FALSE
        /\ ended' = ended \cup running
        /\ UNCHANGED <<status, completedReq, failedReq, item, refused, outcome, faults>>
    BY DEF Crash, tables
  <1>2. /\ submitPC' = [b \in Batches |-> IF submitPC[b] \in {"idle", "returned"}
                                          THEN submitPC[b] ELSE "error"]
        /\ todo' = [b \in Batches |-> {}] /\ cancelPC' = [b \in Batches |-> "idle"]
        /\ ctxDone' = [b \in Batches |-> submitPC[b] # "idle"]
        /\ workPC' = [i \in Items |-> IF workPC[i] = "idle" THEN "idle" ELSE "end"]
    BY DEF Crash
  <1>3. /\ submitPC' \in [Batches -> SubmitPCs] /\ todo' \in [Batches -> SUBSET Items]
        /\ cancelPC' \in [Batches -> {"idle", "items"}] /\ ctxDone' \in [Batches -> BOOLEAN]
        /\ \A b \in Batches : /\ submitPC'[b] \in {"idle", "returned", "error"} /\ todo'[b] = {}
                              /\ submitPC'[b] = "idle" <=> submitPC[b] = "idle"
                              /\ ctxDone'[b] <=> submitPC[b] # "idle"
    BY <1>2 DEF SubmitPCs
  <1>4. /\ workPC' \in [Items -> {"idle", "call", "store", "count", "check", "end"}]
        /\ \A i \in Items : workPC'[i] = IF workPC[i] = "idle" THEN "idle" ELSE "end"
    BY <1>2
  <1>5. Later
    BY <1>3 DEF Later, Early
  <1>6. PoolShape'
    <2>1. IsFiniteSet({}) /\ Cardinality({}) = 0
      BY FS_EmptySet
    <2>2. queue' \in Seq(Items) /\ Len(queue') = 0
      BY <1>1
    <2>3. Len(queue') <= QueueSize /\ Cardinality({}) <= PoolSize
      BY <2>1, <2>2, BatchAssumption
    <2>4. running \subseteq Items /\ ended \subseteq Items /\ refused \subseteq Items
      BY <1>0 DEF Shape, PoolShape
    <2> QED BY <1>1, <2>1, <2>2, <2>3, <2>4 DEF PoolShape
  <1>7. FaultShape'
    BY <1>0, <1>1, BatchAssumption DEF Shape, FaultShape
  <1>8. Shape'
    BY <1>0, <1>1, <1>3, <1>4, <1>6, <1>7 DEF Shape, RowsShape, HandlerShape, WorkShape
  <1>9. QueueInv'
    <2>1. 1..Len(queue') = {}
      BY <1>1
    <2> QED BY <2>1 DEF QueueInv
  <1>10. ASSUME NEW i \in Items PROVE Place(i)'
    <2>1. Place(i) /\ workPC[i] \in {"idle", "call", "store", "count", "check", "end"}
      BY <1>0 DEF PlaceInv, Shape, WorkShape
    <2>2. BatchOf(i) \in Batches
      BY ItemsFacts
    <2>3. Early(BatchOf(i))' => Early(BatchOf(i))
      BY <1>5, <2>2 DEF Later
    <2>4. i \notin todo'[BatchOf(i)] /\ workPC'[i] = IF workPC[i] = "idle" THEN "idle" ELSE "end"
      BY <1>3, <1>4, <2>2
    <2> QED BY <1>1, <2>1, <2>3, <2>4 DEF Place
  <1>11. ASSUME NEW c \in Batches PROVE Handler(c)'
    BY <1>0, <1>1, <1>3 DEF HandlerInv, Handler
  <1>12. ASSUME NEW c \in Batches PROVE LedgerStill(c) \/ Ledger(c)'
    <2>0. ItemsOf(c) \subseteq Items
      BY ItemsFacts
    <2>1. CASE submitPC[c] = "idle"
      <3>1. \A i \in ItemsOf(c) : workPC[i] = "idle" /\ i \notin refused
        BY <2>1, EarlyItems DEF Early
      <3>2. ~ctxDone[c]
        BY <1>0, <2>1 DEF HandlerInv, Handler
      <3> QED BY <1>1, <1>3, <1>4, <2>0, <2>1, <3>1, <3>2 DEF LedgerStill
    <2>2. CASE submitPC[c] # "idle" /\ status[c] = "completed"
      <3>1. \A i \in ItemsOf(c) : /\ workPC[i] \in {"check", "end"} \/ i \in refused \ todo[c]
                                  /\ i \in refused => workPC[i] = "idle"
        BY <1>0, <2>0, <2>2 DEF BatchIInv, LedgerInv, Ledger, Covered, Worked, Rejected, PlaceInv, Place
      <3>2. submitPC[c] # "countRefused"
        BY <2>2 DEF BatchIInv, LedgerInv, Ledger, Covered
      <3>3. \A i \in ItemsOf(c) :
               /\ workPC'[i] \in {"check", "end"} <=> workPC[i] \in {"check", "end"}
               /\ workPC'[i] # "count"
               /\ i \in refused' \ todo'[c] <=> i \in refused \ todo[c]
        BY <1>1, <1>3, <1>4, <2>0, <3>1
      <3> QED BY <1>1, <1>3, <2>2, <3>2, <3>3 DEF LedgerStill
    <2>3. CASE submitPC[c] # "idle" /\ status[c] # "completed"
      <3>1. /\ Worked(c) \subseteq Worked(c)' /\ Worked(c)' \subseteq ItemsOf(c)
            /\ Rejected(c) \subseteq Rejected(c)' /\ Rejected(c)' \subseteq ItemsOf(c)
        BY <1>1, <1>3, <1>4, <2>0 DEF Worked, Rejected
      <3>2. IsFiniteSet(Worked(c)') /\ IsFiniteSet(Rejected(c)')
        BY <3>1, ItemsCount, FS_Subset
      <3>3. /\ Cardinality(Worked(c)) <= Cardinality(Worked(c)')
            /\ Cardinality(Rejected(c)) <= Cardinality(Rejected(c)')
        BY <3>1, <3>2, FS_Subset
      <3>4. /\ Cardinality(Worked(c)') \in Nat /\ Cardinality(Rejected(c)') \in Nat
            /\ Cardinality(Worked(c)) \in Nat /\ Cardinality(Rejected(c)) \in Nat
        BY <3>1, <3>2, FS_Subset, FS_CardinalityType
      <3>5. /\ completedReq[c] + failedReq[c] + Owed(c) <= Cardinality(Worked(c)) + Cardinality(Rejected(c))
            /\ Owed(c) \in Nat /\ Owed(c)' = 0
        BY <1>3 DEF BatchIInv, LedgerInv, Ledger, Sound, Owed
      <3>6. completedReq[c] \in Nat /\ failedReq[c] \in Nat
        BY <1>0 DEF Shape, RowsShape
      <3>7. Sound(c)'
        BY <1>1, <3>3, <3>4, <3>5, <3>6 DEF Sound
      <3>8. Covered(c)' /\ Exact(c)'
        BY <1>1, <1>3, <2>3 DEF Covered, Exact
      <3> QED BY <3>7, <3>8 DEF Ledger
    <2> QED BY <2>1, <2>2, <2>3
  <1> QED BY <1>5, <1>8, <1>9, <1>10, <1>11, <1>12, Frames

-----------------------------------------------------------------------------
(* The theorems *)

(* Before the first request there is nothing to account for. *)
LEMMA BatchInit == Init => BatchIInv
  <1> SUFFICES ASSUME Init PROVE BatchIInv
    OBVIOUS
  <1>1. /\ queue = <<>> /\ running = {} /\ ended = {} /\ refused = {}
        /\ phase = "idle" /\ drained = FALSE
    BY DEF Init, Pool!Init
  <1>2. IsFiniteSet({}) /\ Cardinality({}) = 0
    BY FS_EmptySet
  <1>3. RowsShape /\ HandlerShape /\ WorkShape
    BY DEF Init, RowsShape, HandlerShape, WorkShape, SubmitPCs
  <1>4. PoolShape /\ FaultShape
    <2>1. queue \in Seq(Items) /\ Len(queue) = 0
      BY <1>1
    <2>2. Len(queue) <= QueueSize /\ Cardinality({}) <= PoolSize
      BY <1>2, <2>1, BatchAssumption
    <2>3. FaultShape
      BY BatchAssumption DEF Init, FaultShape
    <2> QED BY <1>1, <1>2, <2>1, <2>2, <2>3 DEF PoolShape
  <1>5. QueueInv
    <2>1. 1..Len(queue) = {}
      BY <1>1
    <2> QED BY <2>1 DEF QueueInv
  <1>6. ASSUME NEW i \in Items PROVE Place(i)
    BY <1>1 DEF Init, Place
  <1>7. ASSUME NEW b \in Batches PROVE Handler(b)
    BY DEF Init, Handler
  <1>8. ASSUME NEW b \in Batches PROVE Ledger(b)
    <2>1. ItemsOf(b) \subseteq Items
      BY ItemsFacts
    <2>2. /\ Worked(b) = {} /\ Rejected(b) = {} /\ Ended(b, "completed") = {} /\ Ended(b, "failed") = {}
          /\ Owed(b) = 0
      BY <1>1, <2>1 DEF Init, Worked, Rejected, Ended, Owed
    <2>3. completedReq[b] = 0 /\ failedReq[b] = 0 /\ status[b] = "none"
      BY DEF Init
    <2>4. \A i \in ItemsOf(b) : workPC[i] = "idle"
      BY <2>1 DEF Init
    <2> QED BY <1>2, <2>2, <2>3, <2>4 DEF Ledger, Sound, Covered, Exact
  <1> QED BY <1>3, <1>4, <1>5, <1>6, <1>7, <1>8 DEF BatchIInv, Shape, PlaceInv, HandlerInv, LedgerInv

(* Every step preserves the invariant. *)
LEMMA BatchNext == BatchIInv /\ [Next]_vars => BatchIInv'
  <1> SUFFICES ASSUME BatchIInv, [Next]_vars PROVE BatchIInv'
    OBVIOUS
  <1>1. ASSUME NEW b \in Batches, SubmitStep(b) PROVE BatchIInv'
    <2>1. ASSUME NEW j \in ItemsOf(b), SubmitItem(b, j) PROVE BatchIInv'
      <3>1. /\ Handling(b, j) /\ SubmitGoto(b, "loop") /\ UNCHANGED <<tables, faults>>
            /\ \/ Pool!Accept(j) /\ todo' = [todo EXCEPT ![b] = @ \ {j}]
               \/ Pool!Refuse(j) /\ UNCHANGED todo
        BY <2>1 DEF SubmitItem
      <3> QED BY <3>1, AcceptStep, RefuseStep DEF Handling
    <2> QED BY <1>1, <2>1, InsertBatchStep, InsertItemStep, MarkProcessingStep, LoadItemsStep,
               SubmitEndsStep, StoreRefusedStep, CountRefusedStep DEF SubmitStep
  <1>2. ASSUME NEW i \in Items, WorkStep(i) PROVE BatchIInv'
    BY <1>2, CallProviderStep, ItemPanicsStep, StoreItemStep, CountItemStep, CheckBatchCompleteStep
       DEF WorkStep
  <1>3. CASE UNCHANGED vars
    <2>1. /\ UNCHANGED <<status, completedReq, failedReq, item, submitPC, todo, cancelPC, ctxDone>>
          /\ UNCHANGED <<workPC, outcome, queue, running, ended, refused, phase, drained, faults, crashes>>
      BY <1>3 DEF vars, tables, pool, handlers, work
    <2>2. Shape'
      BY <2>1 DEF BatchIInv, Shape, RowsShape, HandlerShape, WorkShape, PoolShape, FaultShape
    <2>3. Later /\ QueueStill /\ \A i \in Items : PlaceStill(i)
      BY <2>1 DEF Later, Early, QueueStill, PlaceStill
    <2>4. \A c \in Batches : Handler(c)' /\ LedgerStill(c)
      BY <2>1 DEF BatchIInv, HandlerInv, Handler, LedgerStill
    <2> QED BY <2>2, <2>3, <2>4, Frames
  <1> QED BY <1>1, <1>2, <1>3, CtxDoneStep, CancelBatchStep, CancelItemsStep, TakeItemStep,
             PoolPhaseStep, CrashStep DEF Next

(* BatchIInv holds in every reachable state. *)
LEMMA BatchInductive == Spec => []BatchIInv
  BY BatchInit, BatchNext, PTL DEF Spec

(* The counters of a batch against its size. *)
LEMMA CountersBound ==
    ASSUME BatchIInv, NEW b \in Batches
    PROVE  /\ completedReq[b] \in 0..Total /\ failedReq[b] \in 0..Total
           /\ completedReq[b] + failedReq[b] <= Cardinality(Worked(b)) + Cardinality(Rejected(b))
  <1>1. /\ Cardinality(Worked(b)) \in Nat /\ Cardinality(Rejected(b)) \in Nat
        /\ Cardinality(Worked(b)) + Cardinality(Rejected(b)) <= Total
    BY LedgerParts, PartsOfBatch
  <1>2. /\ completedReq[b] + failedReq[b] + Owed(b) <= Cardinality(Worked(b)) + Cardinality(Rejected(b))
        /\ Owed(b) \in Nat
    BY DEF BatchIInv, LedgerInv, Ledger, Sound, Owed
  <1>3. completedReq[b] \in Nat /\ failedReq[b] \in Nat /\ Total \in Nat
    BY BatchAssumption DEF BatchIInv, Shape, RowsShape
  <1> QED BY <1>1, <1>2, <1>3

(* Rows, queue and counters of the batches fit each other, whatever          *)
(* statements fail and whenever the process is restarted: no item is counted *)
(* twice by processItem, failItem and the refusal path.                      *)
THEOREM RowsFitCounters == Spec => []BatchInv
  <1>1. ASSUME BatchIInv PROVE BatchInv
    <2>1. Shape
      BY <1>1 DEF BatchIInv
    <2>2. CountersSound
      BY <1>1, CountersBound DEF CountersSound
    <2>3. completedReq \in [Batches -> 0..Total] /\ failedReq \in [Batches -> 0..Total]
      <3>1. completedReq \in [Batches -> Nat] /\ failedReq \in [Batches -> Nat]
        BY <2>1 DEF Shape, RowsShape
      <3>2. \A b \in Batches : completedReq[b] \in 0..Total /\ failedReq[b] \in 0..Total
        BY <1>1, CountersBound
      <3> QED BY <3>1, <3>2
    <2>4. TypeOK
      BY <2>1, <2>3 DEF TypeOK, Shape, RowsShape, HandlerShape, WorkShape, PoolShape, FaultShape, SubmitPCs
    <2> QED BY <2>2, <2>4 DEF BatchInv
  <1>2. BatchIInv => BatchInv
    BY <1>1
  <1> QED BY <1>2, BatchInductive, PTL

(* A batch reported "completed" is: every item was tried or refused, and     *)
(* unless a statement failed the counters are those of the stored results.   *)
THEOREM CompletedBatchesAre == Spec => []CompletedIsTrue
  <1>1. ASSUME BatchIInv, NEW b \in Batches, status[b] = "completed"
        PROVE  /\ Worked(b) \cup Rejected(b) = ItemsOf(b)
               /\ faults = 0 =>
                     /\ completedReq[b] = Cardinality({i \in ItemsOf(b) : item[i] = "completed"})
                     /\ failedReq[b] = Cardinality({i \in ItemsOf(b) : item[i] = "failed"})
    <2> DEFINE Stored(o) == {i \in ItemsOf(b) : item[i] = o}
    <2>1. Worked(b) \cup Rejected(b) = ItemsOf(b) /\ submitPC[b] # "countRefused"
      BY <1>1 DEF BatchIInv, LedgerInv, Ledger, Covered
    <2>2. Worked(b) \cap Rejected(b) = {} /\ \A o : Ended(b, o) \subseteq ItemsOf(b)
      BY <1>1, LedgerParts
    <2>3. ASSUME faults = 0 PROVE completedReq[b] = Cardinality(Stored("completed"))
                                  /\ failedReq[b] = Cardinality(Stored("failed"))
      <3>1. /\ completedReq[b] = Cardinality(Ended(b, "completed"))
            /\ failedReq[b] + Owed(b) = Cardinality(Ended(b, "failed")) + Cardinality(Rejected(b))
            /\ \A i \in ItemsOf(b) : workPC[i] \in {"count", "check", "end"} =>
                  item[i] = outcome[i] /\ outcome[i] \in {"completed", "failed"}
            /\ \A i \in Rejected(b) : item[i] = "failed"
        BY <1>1, <2>3 DEF BatchIInv, LedgerInv, Ledger, Exact
      <3>2. Stored("completed") = Ended(b, "completed")
        BY <2>1, <2>2, <3>1 DEF Ended, Worked
      <3>3. Stored("failed") = Ended(b, "failed") \cup Rejected(b)
        BY <2>1, <2>2, <3>1 DEF Ended, Worked, Rejected
      <3>4. Ended(b, "failed") \cap Rejected(b) = {}
        BY <2>2 DEF Ended, Worked
      <3>5. IsFiniteSet(Ended(b, "failed")) /\ IsFiniteSet(Rejected(b))
        BY <1>1, LedgerParts, ItemsCount, FS_Subset
      <3>6. Cardinality(Ended(b, "failed")) \in Nat /\ Cardinality(Rejected(b)) \in Nat
        BY <3>5, FS_CardinalityType
      <3>7. /\ Cardinality(Ended(b, "failed") \cup Rejected(b))
                 = Cardinality(Ended(b, "failed")) + Cardinality(Rejected(b))
                   - Cardinality(Ended(b, "failed") \cap Rejected(b))
            /\ Cardinality(Ended(b, "failed") \cap Rejected(b)) = 0
        BY <3>4, <3>5, FS_Union, FS_EmptySet
      <3>8. Owed(b) = 0 /\ failedReq[b] \in Nat
        BY <1>1, <2>1 DEF Owed, BatchIInv, Shape, RowsShape
      <3> HIDE DEF Stored
      <3>9. failedReq[b] = Cardinality(Stored("failed"))
        <4>1. failedReq[b] = Cardinality(Ended(b, "failed")) + Cardinality(Rejected(b))
          BY <3>1, <3>8
        <4>2. Cardinality(Ended(b, "failed") \cup Rejected(b))
                = Cardinality(Ended(b, "failed")) + Cardinality(Rejected(b))
          BY <3>6, <3>7
        <4> QED BY <3>3, <4>1, <4>2
      <3> QED BY <3>1, <3>2, <3>9
    <2> QED BY <2>1, <2>3
  <1>2. BatchIInv => CompletedIsTrue
    BY <1>1 DEF CompletedIsTrue
  <1> QED BY <1>2, BatchInductive, PTL

(* No step changes the status of a batch that has ended, once Submit is past *)
(* its inserts, and no step replaces a stored result: not a late worker, not *)
(* the refusal path, not a cancellation.                                     *)
THEOREM EndedBatchesStay == Spec => EndedStays
  <1> DEFINE StatusStays(b) == status[b] \in {"completed", "cancelled"} /\ submitPC[b] # "items"
                                  => status'[b] = status[b]
             ResultStays(i) == item[i] \in {"completed", "failed"} => item'[i] = item[i]
             Stays == (\A b \in Batches : StatusStays(b)) /\ (\A i \in Items : ResultStays(i))
  <1>1. ASSUME BatchIInv, NEW b \in Batches, SubmitStep(b) PROVE Stays
    <2>0. RowsShape /\ HandlerInv
      BY <1>1 DEF BatchIInv, Shape
    <2>1. CASE InsertBatch(b)
      BY <2>0, <2>1 DEF InsertBatch, RowsShape, HandlerInv, Handler
    <2>2. CASE MarkProcessing(b)
      BY <2>0, <2>2 DEF MarkProcessing, RowsShape
    <2>3. CASE UNCHANGED <<status, item>>
      BY <2>3
    <2>4. ASSUME NEW j \in ItemsOf(b), InsertItem(b, j) PROVE Stays
      <3>1. item[j] \notin {"completed", "failed"}
        BY <1>1, <2>4, EarlyItems DEF InsertItem, Early
      <3>2. status' = status /\ (item' = item \/ item' = [item EXCEPT ![j] = "pending"])
        BY <2>4 DEF InsertItem
      <3> QED BY <2>0, <3>1, <3>2 DEF RowsShape
    <2>5. ASSUME NEW j \in ItemsOf(b), StoreRefused(b, j) PROVE Stays
      <3>1. j \in refused /\ j \in todo[b]
        BY <2>5 DEF StoreRefused, Handling
      <3>2. Place(j) /\ BatchOf(j) = b
        BY <1>1, ItemsFacts DEF BatchIInv, PlaceInv
      <3>3. item[j] \notin {"completed", "failed"}
        BY <3>1, <3>2 DEF Place
      <3>4. status' = status /\ (item' = item \/ item' = [item EXCEPT ![j] = "failed"])
        BY <2>5 DEF StoreRefused
      <3> QED BY <2>0, <3>3, <3>4 DEF RowsShape
    <2>6. \/ InsertBatch(b) \/ MarkProcessing(b) \/ UNCHANGED <<status, item>>
          \/ \E j \in ItemsOf(b) : InsertItem(b, j) \/ StoreRefused(b, j)
      BY <1>1 DEF SubmitStep, LoadItems, CountRefused, SubmitReturns, SubmitItem, SubmitPanics, tables
    <2> HIDE DEF Stays
    <2> QED BY <2>1, <2>2, <2>3, <2>4, <2>5, <2>6
  <1>2. ASSUME BatchIInv, NEW j \in Items, WorkStep(j) PROVE Stays
    <2>0. RowsShape /\ BatchOf(j) \in Batches
      BY <1>2, ItemsFacts DEF BatchIInv, Shape
    <2>1. CASE StoreItem(j)
      <3>1. item[j] \notin {"completed", "failed"}
        <4>1. workPC[j] = "store" /\ Place(j)
          BY <1>2, <2>1 DEF StoreItem, BatchIInv, PlaceInv
        <4> QED BY <4>1 DEF Place
      <3>2. status' = status /\ (item' = item \/ item' = [item EXCEPT ![j] = outcome[j]])
        BY <2>1 DEF StoreItem
      <3> QED BY <2>0, <3>1, <3>2 DEF RowsShape
    <2>2. CASE CheckBatchComplete(j)
      <3>1. item' = item /\ \/ status' = status
                            \/ /\ status[BatchOf(j)] # "cancelled"
                               /\ status' = [status EXCEPT ![BatchOf(j)] = "completed"]
        BY <2>2 DEF CheckBatchComplete
      <3> QED BY <2>0, <3>1 DEF RowsShape
    <2>3. CASE UNCHANGED <<status, item>>
      BY <2>3
    <2>4. StoreItem(j) \/ CheckBatchComplete(j) \/ UNCHANGED <<status, item>>
      BY <1>2 DEF WorkStep, CallProvider, ItemPanics, CountItem, tables
    <2> HIDE DEF Stays
    <2> QED BY <2>1, <2>2, <2>3, <2>4
  <1>3. ASSUME BatchIInv, NEW b \in Batches, CancelBatch(b) PROVE Stays
    <2>1. RowsShape
      BY <1>3 DEF BatchIInv, Shape
    <2> QED BY <1>3, <2>1 DEF CancelBatch, RowsShape
  <1>4. ASSUME BatchIInv, NEW b \in Batches, CancelItems(b) PROVE Stays
    <2>1. RowsShape
      BY <1>4 DEF BatchIInv, Shape
    <2> QED BY <1>4, <2>1 DEF CancelItems, RowsShape, Pending
  <1>5. ASSUME UNCHANGED <<status, item>> PROVE Stays
    BY <1>5
  <1>6. ASSUME NEW b \in Batches, CtxDone(b) PROVE UNCHANGED <<status, item>>
    BY <1>6 DEF CtxDone, tables
  <1>7. TakeItem \/ PoolPhase \/ Crash => UNCHANGED <<status, item>>
    BY DEF TakeItem, PoolPhase, Crash, tables
  <1>8. BatchIInv /\ [Next]_vars => [Stays]_vars
    <2> HIDE DEF Stays
    <2> QED BY <1>1, <1>2, <1>3, <1>4, <1>5, <1>6, <1>7 DEF Next
  <1> QED BY <1>8, BatchInductive, PTL DEF Spec, EndedStays

=============================================================================
