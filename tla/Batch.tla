-------------------------------- MODULE Batch --------------------------------
(***************************************************************************)
(* The batch API: the handlers Submit and Cancel of handler/batch.go and   *)
(* the processor of batch/processor.go, over the tables batches and        *)
(* batch_items and on top of the worker pool, which appears here as its    *)
(* abstract specification TaskPool.                                        *)
(*                                                                         *)
(* Every SQL statement is a step of its own.  A statement fails when the   *)
(* context it is given has ended, and the tasks keep using the context of  *)
(* the request that submitted them; up to MaxFaults statements (or calls)  *)
(* fail for other reasons.  The process may stop at any moment: the tables *)
(* stay, the pool and the handlers are gone.                               *)
(***************************************************************************)
EXTENDS Integers, Sequences, FiniteSets

CONSTANTS
    Batches,     \* the batches, one POST /v1/batches each
    Total,       \* the number of requests of a batch
    PoolSize,    \* BATCH_WORKERS
    QueueSize,   \* the capacity of the pool's queue
    MaxFaults,   \* bound: statements that fail, items that panic
    MaxCrashes   \* bound: restarts of the process

ASSUME BatchAssumption ==
    /\ Total \in Nat \ {0} /\ PoolSize \in Nat \ {0} /\ QueueSize \in Nat \ {0}
    /\ MaxFaults \in Nat /\ MaxCrashes \in Nat

(* Submit rejects an empty list of requests; item n of batch b is <<b, n>>. *)
Items == Batches \X (1..Total)
ItemsOf(b) == {b} \X (1..Total)
BatchOf(i) == i[1]

VARIABLES
    status,        \* batches.status ("none": no row)
    completedReq,  \* batches.completed_requests
    failedReq,     \* batches.failed_requests
    item,          \* batch_items.status ("none": no row)
    submitPC,      \* where each Submit handler is
    todo,          \* the items the handler's loop has not dealt with yet
    cancelPC,      \* where the Cancel handler of each batch is
    ctxDone,       \* the request context of each batch's Submit has ended
    workPC,        \* where processItem is for each item
    outcome,       \* what the provider call of each item came to
    queue, running, ended, refused, phase, drained,   \* the worker pool
    faults, crashes

tables   == <<status, completedReq, failedReq, item>>
pool     == <<queue, running, ended, refused, phase, drained>>
handlers == <<submitPC, todo>>
work     == <<workPC, outcome>>
vars     == <<tables, pool, handlers, work, cancelPC, ctxDone, faults, crashes>>

Pool == INSTANCE TaskPool WITH Tasks <- Items, Blocking <- {}, NumWorkers <- PoolSize

Init ==
    /\ status = [b \in Batches |-> "none"]
    /\ completedReq = [b \in Batches |-> 0] /\ failedReq = [b \in Batches |-> 0]
    /\ item = [i \in Items |-> "none"]
    /\ submitPC = [b \in Batches |-> "idle"]
    /\ todo = [b \in Batches |-> {}]
    /\ cancelPC = [b \in Batches |-> "idle"]
    /\ ctxDone = [b \in Batches |-> FALSE]
    /\ workPC = [i \in Items |-> "idle"]
    /\ outcome = [i \in Items |-> "none"]
    /\ Pool!Init
    /\ faults = 0 /\ crashes = 0

(* One SQL statement under batch b's request context. *)
Fault == faults < MaxFaults /\ faults' = faults + 1
ExecOK(b) == ~ctxDone[b] /\ UNCHANGED faults
ExecFails(b) == (ctxDone[b] /\ UNCHANGED faults) \/ Fault

-----------------------------------------------------------------------------
(* BatchHandler.Submit *)

SubmitGoto(b, pc) ==
    /\ submitPC' = [submitPC EXCEPT ![b] = pc]
    /\ UNCHANGED <<work, cancelPC, ctxDone, crashes>>

(* main starts the pool before it registers the routes. *)
InsertBatch(b) ==
    /\ submitPC[b] = "idle" /\ phase # "idle"
    /\ \/ /\ ExecOK(b)
          /\ status' = [status EXCEPT ![b] = "pending"]
          /\ todo' = [todo EXCEPT ![b] = ItemsOf(b)]
          /\ SubmitGoto(b, "items")
       \/ ExecFails(b) /\ SubmitGoto(b, "error") /\ UNCHANGED <<status, todo>>
    /\ UNCHANGED <<completedReq, failedReq, item, pool>>

(* A failed insert ends the request; the rows written so far stay. *)
InsertItem(b, i) ==
    /\ submitPC[b] = "items" /\ i \in todo[b]
    /\ \/ /\ ExecOK(b)
          /\ item' = [item EXCEPT ![i] = "pending"]
          /\ todo' = [todo EXCEPT ![b] = @ \ {i}]
          /\ SubmitGoto(b, "items")
       \/ ExecFails(b) /\ SubmitGoto(b, "error") /\ UNCHANGED <<item, todo>>
    /\ UNCHANGED <<status, completedReq, failedReq, pool>>

(* ProcessBatch: the update has no condition on the status it replaces.  An *)
(* error is logged and the request answered as if nothing had happened.     *)
MarkProcessing(b) ==
    /\ submitPC[b] = "items" /\ todo[b] = {}
    /\ \/ ExecOK(b) /\ status' = [status EXCEPT ![b] = "processing"] /\ SubmitGoto(b, "load")
       \/ ExecFails(b) /\ SubmitGoto(b, "returned") /\ UNCHANGED status
    /\ UNCHANGED <<completedReq, failedReq, item, todo, pool>>

Pending(b) == {i \in ItemsOf(b) : item[i] = "pending"}

(* The select of the pending items; a row that cannot be scanned is skipped. *)
LoadItems(b) ==
    /\ submitPC[b] = "load"
    /\ \/ ExecOK(b) /\ todo' = [todo EXCEPT ![b] = Pending(b)] /\ SubmitGoto(b, "loop")
       \/ /\ Fault /\ ~ctxDone[b]
          /\ \E i \in Pending(b) : todo' = [todo EXCEPT ![b] = Pending(b) \ {i}]
          /\ SubmitGoto(b, "loop")
       \/ ExecFails(b) /\ SubmitGoto(b, "returned") /\ UNCHANGED todo
    /\ UNCHANGED <<tables, pool>>

Handling(b, i) == submitPC[b] = "loop" /\ i \in todo[b]

SubmitItem(b, i) ==
    /\ Handling(b, i) /\ todo[b] \cap refused = {}
    /\ \/ Pool!Accept(i) /\ todo' = [todo EXCEPT ![b] = @ \ {i}]
       \/ Pool!Refuse(i) /\ UNCHANGED todo
    /\ SubmitGoto(b, "loop")
    /\ UNCHANGED <<tables, faults>>

(* The refusal path: two statements, their errors ignored, and no check     *)
(* whether the batch is complete.                                           *)
StoreRefused(b, i) ==
    /\ Handling(b, i) /\ i \in refused
    /\ \/ ExecOK(b) /\ item' = [item EXCEPT ![i] = "failed"]
       \/ ExecFails(b) /\ UNCHANGED item
    /\ todo' = [todo EXCEPT ![b] = @ \ {i}]
    /\ SubmitGoto(b, "countRefused")
    /\ UNCHANGED <<status, completedReq, failedReq, pool>>

CountRefused(b) ==
    /\ submitPC[b] = "countRefused"
    /\ \/ ExecOK(b) /\ failedReq' = [failedReq EXCEPT ![b] = @ + 1]
       \/ ExecFails(b) /\ UNCHANGED failedReq
    /\ SubmitGoto(b, "loop")
    /\ UNCHANGED <<status, completedReq, item, todo, pool>>

(* Submit of the pool panics when its channel is closed under it (see       *)
(* WorkerPool); the panic ends the handler.                                 *)
SubmitPanics(b, i) ==
    /\ Handling(b, i) /\ i \notin refused /\ phase = "closed"
    /\ SubmitGoto(b, "error")
    /\ UNCHANGED <<tables, pool, todo, faults>>

SubmitReturns(b) ==
    /\ submitPC[b] = "loop" /\ todo[b] = {}
    /\ SubmitGoto(b, "returned")
    /\ UNCHANGED <<tables, pool, todo, faults>>

(* The context of the request ends: the client went away, or the handler    *)
(* has returned and the HTTP server cancels the request's context.          *)
CtxDone(b) ==
    /\ submitPC[b] # "idle" /\ ~ctxDone[b]
    /\ ctxDone' = [ctxDone EXCEPT ![b] = TRUE]
    /\ UNCHANGED <<tables, pool, handlers, work, cancelPC, faults, crashes>>

-----------------------------------------------------------------------------
(* processItem, in a worker of the pool *)

WorkGoto(i, pc) ==
    /\ workPC' = [workPC EXCEPT ![i] = pc]
    /\ UNCHANGED <<handlers, cancelPC, ctxDone, crashes>>

TakeItem ==
    /\ Pool!Take
    /\ WorkGoto(Head(queue), "call")
    /\ UNCHANGED <<tables, outcome, faults>>

(* Parsing, resolving the provider and calling it; a call under an ended    *)
(* context fails.                                                           *)
CallProvider(i) ==
    /\ workPC[i] = "call"
    /\ \E o \in {"completed", "failed"} :
          /\ ctxDone[BatchOf(i)] => o = "failed"
          /\ outcome' = [outcome EXCEPT ![i] = o]
    /\ WorkGoto(i, "store")
    /\ UNCHANGED <<tables, pool, faults>>

(* Fault: the panic takes the worker with it. *)
ItemPanicsWorker(i) ==
    /\ workPC[i] = "call" /\ Fault
    /\ WorkGoto(i, "end")
    /\ UNCHANGED <<tables, outcome, pool>>

(* The item panics; the pool recovers and the task is over. *)
ItemPanics(i) ==
    /\ workPC[i] = "call" /\ Fault
    /\ Pool!Finish(i)
    /\ WorkGoto(i, "end")
    /\ UNCHANGED <<tables, outcome>>

(* The update of the item has no condition on the status it replaces. *)
StoreItem(i) ==
    /\ workPC[i] = "store"
    /\ \/ ExecOK(BatchOf(i)) /\ item' = [item EXCEPT ![i] = outcome[i]]
       \/ ExecFails(BatchOf(i)) /\ UNCHANGED item
    /\ WorkGoto(i, "count")
    /\ UNCHANGED <<status, completedReq, failedReq, outcome, pool>>

(* Fault: a failed item is counted among the completed ones as well. *)
CountItemTwice(i) ==
    LET b == BatchOf(i) IN
    /\ workPC[i] = "count"
    /\ \/ /\ ExecOK(b)
          /\ completedReq' = [completedReq EXCEPT ![b] = @ + 1]
          /\ failedReq' = [failedReq EXCEPT ![b] = IF outcome[i] = "failed" THEN @ + 1 ELSE @]
       \/ ExecFails(b) /\ UNCHANGED <<completedReq, failedReq>>
    /\ WorkGoto(i, "check")
    /\ UNCHANGED <<status, item, outcome, pool>>

CountItem(i) ==
    LET b == BatchOf(i) IN
    /\ workPC[i] = "count"
    /\ \/ /\ ExecOK(b)
          /\ IF outcome[i] = "completed"
             THEN completedReq' = [completedReq EXCEPT ![b] = @ + 1] /\ UNCHANGED failedReq
             ELSE failedReq' = [failedReq EXCEPT ![b] = @ + 1] /\ UNCHANGED completedReq
       \/ ExecFails(b) /\ UNCHANGED <<completedReq, failedReq>>
    /\ WorkGoto(i, "check")
    /\ UNCHANGED <<status, item, outcome, pool>>

(* Faults: the comparison is off by one, in either direction. *)
AllButOneCounted(b) == completedReq[b] + failedReq[b] >= Total - 1
MoreThanAllCounted(b) == completedReq[b] + failedReq[b] > Total

AllCounted(b) == completedReq[b] + failedReq[b] >= Total

(* checkBatchComplete *)
CheckBatchComplete(i) ==
    LET b == BatchOf(i) IN
    /\ workPC[i] = "check"
    /\ \/ /\ ExecOK(b)
          /\ status' = IF AllCounted(b) /\ status[b] # "cancelled"
                       THEN [status EXCEPT ![b] = "completed"] ELSE status
       \/ ExecFails(b) /\ UNCHANGED status
    /\ Pool!Finish(i)
    /\ WorkGoto(i, "end")
    /\ UNCHANGED <<completedReq, failedReq, item, outcome>>

-----------------------------------------------------------------------------
(* BatchHandler.Cancel; the id of a batch can be read from List as soon as  *)
(* its row exists.                                                          *)

CancelBatch(b) ==
    /\ cancelPC[b] = "idle"
    /\ status[b] \in {"pending", "processing"}
    /\ status' = [status EXCEPT ![b] = "cancelled"]
    /\ cancelPC' = [cancelPC EXCEPT ![b] = "items"]
    /\ UNCHANGED <<completedReq, failedReq, item, pool, handlers, work, ctxDone, faults, crashes>>

(* Fault: the statement does not look at the status of the items. *)
CancelAllItems(b) ==
    /\ cancelPC[b] = "items"
    /\ \/ /\ item' = [i \in Items |-> IF i \in ItemsOf(b) THEN "cancelled" ELSE item[i]]
          /\ UNCHANGED faults
       \/ Fault /\ UNCHANGED item
    /\ cancelPC' = [cancelPC EXCEPT ![b] = "idle"]
    /\ UNCHANGED <<status, completedReq, failedReq, pool, handlers, work, ctxDone, crashes>>

CancelItems(b) ==
    /\ cancelPC[b] = "items"
    /\ \/ /\ item' = [i \in Items |-> IF i \in Pending(b) THEN "cancelled" ELSE item[i]]
          /\ UNCHANGED faults
       \/ Fault /\ UNCHANGED item
    /\ cancelPC' = [cancelPC EXCEPT ![b] = "idle"]
    /\ UNCHANGED <<status, completedReq, failedReq, pool, handlers, work, ctxDone, crashes>>

-----------------------------------------------------------------------------
(* main: the pool is started, and shut down when the server has stopped. *)
PoolPhase ==
    /\ Pool!Advance \/ Pool!Drain
    /\ UNCHANGED <<tables, handlers, work, cancelPC, ctxDone, faults, crashes>>

(* The process stops, and is started again; nothing picks up the rows of    *)
(* the batches it was working on.                                           *)
Crash ==
    /\ crashes < MaxCrashes /\ crashes' = crashes + 1
    /\ queue' = <<>> /\ running' = {} /\ phase' = "idle" /\ drained' = FALSE
    /\ ended' = ended \cup running
    /\ submitPC' = [b \in Batches |-> IF submitPC[b] \in {"idle", "returned"}
                                      THEN submitPC[b] ELSE "error"]
    /\ todo' = [b \in Batches |-> {}]
    /\ cancelPC' = [b \in Batches |-> "idle"]
    /\ ctxDone' = [b \in Batches |-> submitPC[b] # "idle"]
    /\ workPC' = [i \in Items |-> IF workPC[i] = "idle" THEN "idle" ELSE "end"]
    /\ UNCHANGED <<tables, refused, outcome, faults>>

SubmitStep(b) ==
    \/ InsertBatch(b) \/ MarkProcessing(b) \/ LoadItems(b) \/ CountRefused(b) \/ SubmitReturns(b)
    \/ \E i \in ItemsOf(b) : InsertItem(b, i) \/ SubmitItem(b, i) \/ StoreRefused(b, i)
                             \/ SubmitPanics(b, i)

WorkStep(i) == CallProvider(i) \/ ItemPanics(i) \/ StoreItem(i) \/ CountItem(i)
               \/ CheckBatchComplete(i)

Next ==
    \/ \E b \in Batches : SubmitStep(b) \/ CtxDone(b) \/ CancelBatch(b) \/ CancelItems(b)
    \/ TakeItem
    \/ \E i \in Items : WorkStep(i)
    \/ PoolPhase
    \/ Crash

Spec == Init /\ [][Next]_vars

(* Goroutines that can run are scheduled and provider calls return.  When a *)
(* request context ends is left open, so that the properties can tell what  *)
(* holds with and without it.                                               *)
Fairness ==
    /\ \A b \in Batches : WF_vars(SubmitStep(b))
    /\ \A b \in Batches : WF_vars(CancelItems(b))
    /\ WF_vars(TakeItem)
    /\ \A i \in Items : WF_vars(WorkStep(i))

FairSpec == Spec /\ Fairness

-----------------------------------------------------------------------------
(* Properties *)

TypeOK ==
    /\ status \in [Batches -> {"none", "pending", "processing", "completed", "cancelled"}]
    /\ completedReq \in [Batches -> 0..Total] /\ failedReq \in [Batches -> 0..Total]
    /\ item \in [Items -> {"none", "pending", "completed", "failed", "cancelled"}]
    /\ submitPC \in [Batches -> {"idle", "items", "load", "loop", "countRefused", "returned", "error"}]
    /\ todo \in [Batches -> SUBSET Items]
    /\ cancelPC \in [Batches -> {"idle", "items"}]
    /\ ctxDone \in [Batches -> BOOLEAN]
    /\ workPC \in [Items -> {"idle", "call", "store", "count", "check", "end"}]
    /\ outcome \in [Items -> {"none", "completed", "failed"}]
    /\ queue \in Seq(Items) /\ Len(queue) <= QueueSize
    /\ running \subseteq Items /\ Cardinality(running) <= PoolSize
    /\ ended \subseteq Items /\ refused \subseteq Items
    /\ phase \in {"idle", "open", "closing", "closed"} /\ drained \in BOOLEAN
    /\ faults \in 0..MaxFaults /\ crashes \in 0..MaxCrashes

(* Items processItem or the refusal path has got as far as counting. *)
Worked(b) == {i \in ItemsOf(b) : workPC[i] \in {"check", "end"}}
Rejected(b) == {i \in ItemsOf(b) : i \in refused \ todo[b]}

(* The counters of a batch never run ahead of the work: each item is counted *)
(* at most once, by processItem, by failItem or by the refusal path.         *)
CountersSound ==
    \A b \in Batches :
        completedReq[b] + failedReq[b] <= Cardinality(Worked(b)) + Cardinality(Rejected(b))

(* Workers, the refusal path and failing statements leave rows, queue and    *)
(* counters that fit each other.                                             *)
BatchInv == TypeOK /\ CountersSound

(* A batch reported "completed" is: every item was tried or refused, and     *)
(* unless a statement failed every item has its result and the counters      *)
(* agree with the results GET /v1/batches/{id}/results shows.                *)
CompletedIsTrue ==
    \A b \in Batches : status[b] = "completed" =>
        /\ Worked(b) \cup Rejected(b) = ItemsOf(b)
        /\ faults = 0 =>
              /\ completedReq[b] = Cardinality({i \in ItemsOf(b) : item[i] = "completed"})
              /\ failedReq[b] = Cardinality({i \in ItemsOf(b) : item[i] = "failed"})

(* What has ended stays: no late worker and no late cancellation changes the *)
(* status of a batch that was completed or cancelled, once Submit is past    *)
(* its insert statements, and a result that has been stored is never         *)
(* replaced, also not by a cancellation that overlaps the worker.            *)
EndedStays ==
    [][/\ \A b \in Batches :
             status[b] \in {"completed", "cancelled"} /\ submitPC[b] # "items"
                => status'[b] = status[b]
       /\ \A i \in Items : item[i] \in {"completed", "failed"} => item'[i] = item[i]]_vars

InPool(i) == Pool!InQueue(i) \/ i \in running

(* Every item that Submit handed to the pool leaves it again, whatever       *)
(* statements fail, items panic or contexts end on the way.                  *)
ItemsLeavePool == \A i \in Items : InPool(i) ~> ~InPool(i)

(* Nothing happens to a batch that could keep it from its end: no statement  *)
(* fails, the process does not crash, the pool refuses no item and no        *)
(* cancellation takes an item away.                                          *)
Undisturbed(b) ==
    /\ faults = 0 /\ crashes = 0 /\ refused = {}
    /\ \A i \in ItemsOf(b) : item[i] # "cancelled"

HasEnded(b) == status[b] \in {"completed", "cancelled"}

(* An undisturbed batch whose request context lives on, as the processor     *)
(* expects it to, is completed in the end: of the workers that count their   *)
(* items side by side, one sees the last count and reports the batch.        *)
BatchEndsIfContextLives ==
    \A b \in Batches : [](Undisturbed(b) /\ ~ctxDone[b]) =>
        (submitPC[b] = "returned" ~> HasEnded(b))

(* processor.go:81: "GoFr HTTP services and SQL pool outlive individual      *)
(* requests": the work goes on after the request, and the batch ends.        *)
BatchEnds ==
    \A b \in Batches : []Undisturbed(b) =>
        (submitPC[b] = "returned" /\ ~ctxDone[b] ~> HasEnded(b))

=============================================================================
