----------------------------- MODULE WorkerPool -----------------------------
(***************************************************************************)
(* The generic worker pool of workerpool/pool.go: a buffered Go channel    *)
(* `tasks`, a fixed set of worker goroutines that range over it, the       *)
(* goroutines that call Start, Submit or SubmitBlocking, and the ones that *)
(* call ShutdownGraceful or Shutdown.                                      *)
(*                                                                         *)
(* Every atomic load and store, channel operation and select of the code   *)
(* is a step of its own, so the windows between a check and its use are    *)
(* visible.  Each task of Tasks is submitted at most once, by a goroutine  *)
(* of its own; each closer calls its shutdown function at most once.       *)
(***************************************************************************)
EXTENDS Integers, Sequences, FiniteSets

CONSTANTS
    Tasks,        \* the tasks, one submitting goroutine each
    Blocking,     \* the tasks submitted with SubmitBlocking; the others use Submit
    Starters,     \* the goroutines that call Start
    Closers,      \* the goroutines that shut the pool down
    Graceful,     \* the closers that call ShutdownGraceful; the others call Shutdown
    PoolSize,     \* PoolConfig.Workers
    QueueSize,    \* PoolConfig.QueueSize
    SerialStart,  \* TRUE: nobody uses the pool while a Start call is under way
    NoTask        \* the value of `current` for a worker that holds no task

(* NewWorkerPool rejects a pool without workers or without a queue. *)
ASSUME PoolAssumption ==
    /\ Blocking \subseteq Tasks
    /\ Graceful \subseteq Closers
    /\ PoolSize \in Nat \ {0}
    /\ QueueSize \in Nat \ {0}
    /\ SerialStart \in BOOLEAN
    /\ NoTask \notin Tasks

ASSUME FiniteAssumption == IsFiniteSet(Tasks)

VARIABLES
    started,     \* wp.started
    closing,     \* wp.closing
    cancelled,   \* wp.ctx has been cancelled
    tasks,       \* the buffer of wp.tasks
    closed,      \* wp.tasks has been closed
    starterPC,   \* where each caller of Start is
    submitPC,    \* where each submitting goroutine is
    workerPC,    \* where each worker goroutine is
    current,     \* the task each worker is executing
    fn,          \* the state of the goroutine that runs t.Fn
    taskCtx,     \* the state of the task's context
    closerPC,    \* where each shutdown call is
    completed, timedOut, panicked   \* the metrics counters

vars == <<started, closing, cancelled, tasks, closed, starterPC, submitPC,
          workerPC, current, fn, taskCtx, closerPC,
          completed, timedOut, panicked>>

flags    == <<started, closing, cancelled, closed>>
counters == <<completed, timedOut, panicked>>
pcs      == <<starterPC, submitPC, closerPC>>

(* One goroutine per worker launched by each call of Start. *)
Workers == Starters \X (1..PoolSize)

FnEnded == {"done", "panicked"}

(* wg's counter is zero: every worker that was launched has returned. *)
AllExited == \A w \in Workers : workerPC[w] \in {"unborn", "exited"}

StartUnderWay == \E s \in Starters : starterPC[s] \in {"loaded", "launching"}
Serial == SerialStart => ~StartUnderWay

Init ==
    /\ started = FALSE /\ closing = FALSE /\ cancelled = FALSE /\ closed = FALSE
    /\ tasks = <<>>
    /\ starterPC = [s \in Starters |-> "idle"]
    /\ submitPC = [t \in Tasks |-> "idle"]
    /\ workerPC = [w \in Workers |-> "unborn"]
    /\ current = [w \in Workers |-> NoTask]
    /\ fn = [t \in Tasks |-> "none"]
    /\ taskCtx = [t \in Tasks |-> "live"]
    /\ closerPC = [c \in Closers |-> "idle"]
    /\ completed = 0 /\ timedOut = 0 /\ panicked = 0

-----------------------------------------------------------------------------
(* Start *)

StartLoad(s) ==
    /\ starterPC[s] = "idle" /\ Serial
    /\ starterPC' = [starterPC EXCEPT ![s] = IF started THEN "error" ELSE "loaded"]
    /\ UNCHANGED <<flags, tasks, submitPC, workerPC, current, fn, taskCtx, closerPC, counters>>

StartStore(s) ==
    /\ starterPC[s] = "loaded"
    /\ started' = TRUE
    /\ starterPC' = [starterPC EXCEPT ![s] = "launching"]
    /\ UNCHANGED <<closing, cancelled, closed, tasks, submitPC, workerPC, current,
                   fn, taskCtx, closerPC, counters>>

(* wg.Add(1); go wp.worker().  The loop launches the workers in order. *)
StartLaunch(s, i) ==
    /\ starterPC[s] = "launching"
    /\ workerPC[<<s, i>>] = "unborn"
    /\ \A j \in 1..(i - 1) : workerPC[<<s, j>>] # "unborn"
    /\ workerPC' = [workerPC EXCEPT ![<<s, i>>] = "recv"]
    /\ starterPC' = [starterPC EXCEPT ![s] = IF i = PoolSize THEN "returned" ELSE @]
    /\ UNCHANGED <<flags, tasks, submitPC, current, fn, taskCtx, closerPC, counters>>

-----------------------------------------------------------------------------
(* Submit and SubmitBlocking *)

SubmitGoto(t, pc) ==
    /\ submitPC' = [submitPC EXCEPT ![t] = pc]
    /\ UNCHANGED <<flags, starterPC, workerPC, current, fn, taskCtx, closerPC, counters>>

SubmitLoadClosing(t) ==
    /\ submitPC[t] = "idle" /\ Serial
    /\ SubmitGoto(t, IF closing THEN "refused" ELSE "loadedClosing")
    /\ UNCHANGED tasks

SubmitLoadStarted(t) ==
    /\ submitPC[t] = "loadedClosing"
    /\ SubmitGoto(t, IF started THEN "sending" ELSE "refused")
    /\ UNCHANGED tasks

(* The send case of the select: there is room in the buffer. *)
Send(t) ==
    /\ submitPC[t] = "sending" /\ ~closed
    /\ Len(tasks) < QueueSize
    /\ tasks' = Append(tasks, t)
    /\ SubmitGoto(t, "accepted")

(* Fault: the default case swallows the task and reports success. *)
SendFullDrops(t) ==
    /\ submitPC[t] = "sending" /\ t \notin Blocking /\ ~closed
    /\ Len(tasks) >= QueueSize
    /\ SubmitGoto(t, "accepted")
    /\ UNCHANGED tasks

(* The default case of Submit's select: "queue full". *)
SendFull(t) ==
    /\ submitPC[t] = "sending" /\ t \notin Blocking /\ ~closed
    /\ Len(tasks) >= QueueSize
    /\ SubmitGoto(t, "refused")
    /\ UNCHANGED tasks

(* The ctx.Done case of SubmitBlocking's select; the caller's context may  *)
(* end at any time, also when the send case is ready.                      *)
SendCtxDone(t) ==
    /\ submitPC[t] = "sending" /\ t \in Blocking
    /\ SubmitGoto(t, "refused")
    /\ UNCHANGED tasks

(* A send on a closed channel panics in the submitting goroutine. *)
SendPanic(t) ==
    /\ submitPC[t] = "sending" /\ closed
    /\ SubmitGoto(t, "panicked")
    /\ UNCHANGED tasks

-----------------------------------------------------------------------------
(* worker and executeTask *)

(* Fault: the task's context is not derived from the pool's context. *)
ReceiveDetached(w) ==
    /\ workerPC[w] = "recv" /\ tasks # <<>>
    /\ tasks' = Tail(tasks)
    /\ current' = [current EXCEPT ![w] = Head(tasks)]
    /\ workerPC' = [workerPC EXCEPT ![w] = "select"]
    /\ fn' = [fn EXCEPT ![Head(tasks)] = "running"]
    /\ UNCHANGED <<taskCtx, flags, pcs, counters>>

(* The worker takes the oldest task, also from a closed channel that still *)
(* holds some, derives the task's context from wp.ctx and starts t.Fn in a *)
(* goroutine of its own.                                                   *)
Receive(w) ==
    /\ workerPC[w] = "recv" /\ tasks # <<>>
    /\ tasks' = Tail(tasks)
    /\ current' = [current EXCEPT ![w] = Head(tasks)]
    /\ workerPC' = [workerPC EXCEPT ![w] = "select"]
    /\ fn' = [fn EXCEPT ![Head(tasks)] = "running"]
    /\ taskCtx' = [taskCtx EXCEPT ![Head(tasks)] = IF cancelled THEN "canceled" ELSE "live"]
    /\ UNCHANGED <<flags, pcs, counters>>

(* Fault: a worker leaves as soon as the channel is closed. *)
WorkerExitEarly(w) ==
    /\ workerPC[w] = "recv" /\ closed
    /\ workerPC' = [workerPC EXCEPT ![w] = "exited"]
    /\ UNCHANGED <<flags, tasks, pcs, current, fn, taskCtx, counters>>

(* The range loop ends: the channel is closed and drained. *)
WorkerExit(w) ==
    /\ workerPC[w] = "recv" /\ closed /\ tasks = <<>>
    /\ workerPC' = [workerPC EXCEPT ![w] = "exited"]
    /\ UNCHANGED <<flags, tasks, pcs, current, fn, taskCtx, counters>>

FnReturn(t) ==
    /\ fn[t] = "running"
    /\ fn' = [fn EXCEPT ![t] = "done"]
    /\ UNCHANGED <<flags, tasks, pcs, workerPC, current, taskCtx, counters>>

(* Fault: the deferred recovery counts the panic but never closes done. *)
FnPanicNoClose(t) ==
    /\ fn[t] = "running"
    /\ fn' = [fn EXCEPT ![t] = "stuck"]
    /\ panicked' = panicked + 1
    /\ UNCHANGED <<flags, tasks, pcs, workerPC, current, taskCtx, completed, timedOut>>

(* t.Fn panics; the deferred recovery counts it and closes done. *)
FnPanic(t) ==
    /\ fn[t] = "running"
    /\ fn' = [fn EXCEPT ![t] = "panicked"]
    /\ panicked' = panicked + 1
    /\ UNCHANGED <<flags, tasks, pcs, workerPC, current, taskCtx, completed, timedOut>>

(* taskTimeout passes before executeTask returns. *)
Deadline(w) ==
    /\ current[w] # NoTask /\ taskCtx[current[w]] = "live"
    /\ taskCtx' = [taskCtx EXCEPT ![current[w]] = "deadline"]
    /\ UNCHANGED <<flags, tasks, pcs, workerPC, current, fn, counters>>

(* The done case of the select.  A task that returns after its deadline    *)
(* counts as timed out; one that was cancelled or panicked as completed.   *)
SelectDone(w) ==
    /\ workerPC[w] = "select" /\ fn[current[w]] \in FnEnded
    /\ IF taskCtx[current[w]] = "deadline"
       THEN timedOut' = timedOut + 1 /\ UNCHANGED completed
       ELSE completed' = completed + 1 /\ UNCHANGED timedOut
    /\ workerPC' = [workerPC EXCEPT ![w] = "recv"]
    /\ current' = [current EXCEPT ![w] = NoTask]
    /\ UNCHANGED <<flags, tasks, pcs, fn, taskCtx, panicked>>

(* The taskCtx.Done case; it may be chosen although done is ready as well. *)
SelectCtx(w) ==
    /\ workerPC[w] = "select" /\ taskCtx[current[w]] # "live"
    /\ timedOut' = timedOut + 1
    /\ workerPC' = [workerPC EXCEPT ![w] = "drain"]
    /\ UNCHANGED <<flags, tasks, pcs, current, fn, taskCtx, completed, panicked>>

(* Fault: the task is counted a second time when its goroutine ends. *)
DrainDoneCounts(w) ==
    /\ workerPC[w] = "drain" /\ fn[current[w]] \in FnEnded
    /\ completed' = completed + 1
    /\ workerPC' = [workerPC EXCEPT ![w] = "recv"]
    /\ current' = [current EXCEPT ![w] = NoTask]
    /\ UNCHANGED <<flags, tasks, pcs, fn, taskCtx, timedOut, panicked>>

(* The receive from done after the timeout: wait for the goroutine. *)
DrainDone(w) ==
    /\ workerPC[w] = "drain" /\ fn[current[w]] \in FnEnded
    /\ workerPC' = [workerPC EXCEPT ![w] = "recv"]
    /\ current' = [current EXCEPT ![w] = NoTask]
    /\ UNCHANGED <<flags, tasks, pcs, fn, taskCtx, counters>>

-----------------------------------------------------------------------------
(* ShutdownGraceful and Shutdown *)

CloserGoto(c, pc) ==
    /\ closerPC' = [closerPC EXCEPT ![c] = pc]
    /\ UNCHANGED <<started, tasks, starterPC, submitPC, workerPC, current, fn, counters>>

(* wp.cancel(): every context derived from wp.ctx is cancelled with it. *)
CancelPool ==
    /\ cancelled' = TRUE
    /\ taskCtx' = [t \in Tasks |-> IF taskCtx[t] = "live" /\ fn[t] # "none"
                                   THEN "canceled" ELSE taskCtx[t]]

ShutdownLoad(c) ==
    /\ closerPC[c] = "idle" /\ Serial
    /\ CloserGoto(c, IF started THEN "loaded" ELSE "noop")
    /\ UNCHANGED <<closing, cancelled, closed, taskCtx>>

ShutdownMark(c) ==
    /\ closerPC[c] = "loaded"
    /\ closing' = TRUE
    /\ CloserGoto(c, "marked")
    /\ UNCHANGED <<cancelled, closed, taskCtx>>

(* Shutdown, and only Shutdown, cancels before it closes the channel. *)
ShutdownCancel(c) ==
    /\ closerPC[c] = "marked" /\ c \notin Graceful
    /\ CancelPool
    /\ CloserGoto(c, "cancelled")
    /\ UNCHANGED <<closing, closed>>

(* close(wp.tasks); closing a closed channel panics. *)
CloseTasks(c) ==
    /\ closerPC[c] = (IF c \in Graceful THEN "marked" ELSE "cancelled")
    /\ closed' = TRUE
    /\ CloserGoto(c, IF closed THEN "panicked" ELSE "waiting")
    /\ UNCHANGED <<closing, cancelled, taskCtx>>

(* Fault: the shutdown reports success without waiting for the workers. *)
ShutdownDoneAtOnce(c) ==
    /\ closerPC[c] = "waiting"
    /\ CloserGoto(c, "ok")
    /\ UNCHANGED <<closing, cancelled, closed, taskCtx>>

ShutdownDone(c) ==
    /\ closerPC[c] = "waiting" /\ AllExited
    /\ CloserGoto(c, "ok")
    /\ UNCHANGED <<closing, cancelled, closed, taskCtx>>

(* The caller's context ends first.  ShutdownGraceful cancels the tasks    *)
(* and waits again; Shutdown returns with the workers still running.       *)
ShutdownCtxDone(c) ==
    /\ closerPC[c] = "waiting"
    /\ \/ /\ c \in Graceful
          /\ CancelPool
          /\ CloserGoto(c, "forced")
       \/ /\ c \notin Graceful
          /\ CloserGoto(c, "err")
          /\ UNCHANGED <<cancelled, taskCtx>>
    /\ UNCHANGED <<closing, closed>>

ForcedDone(c) ==
    /\ closerPC[c] = "forced" /\ AllExited
    /\ CloserGoto(c, "err")
    /\ UNCHANGED <<closing, cancelled, closed, taskCtx>>

-----------------------------------------------------------------------------

StarterStep(s) == StartLoad(s) \/ StartStore(s) \/ \E i \in 1..PoolSize : StartLaunch(s, i)

SubmitStep(t) == SubmitLoadClosing(t) \/ SubmitLoadStarted(t) \/ Send(t) \/ SendFull(t)
                 \/ SendCtxDone(t) \/ SendPanic(t)

WorkerStep(w) == Receive(w) \/ WorkerExit(w) \/ SelectDone(w) \/ SelectCtx(w) \/ DrainDone(w)

FnStep(t) == FnReturn(t) \/ FnPanic(t)

(* A shutdown call once it is made, without the end of the caller's context. *)
CloserStep(c) == ShutdownMark(c) \/ ShutdownCancel(c) \/ CloseTasks(c)
                 \/ ShutdownDone(c) \/ ForcedDone(c)

Next ==
    \/ \E s \in Starters : StarterStep(s)
    \/ \E t \in Tasks : SubmitStep(t) \/ FnStep(t)
    \/ \E w \in Workers : WorkerStep(w) \/ Deadline(w)
    \/ \E c \in Closers : ShutdownLoad(c) \/ CloserStep(c) \/ ShutdownCtxDone(c)

Spec == Init /\ [][Next]_vars

(* Goroutines that can run are scheduled, and a task's function returns or *)
(* panics in the end.  Nobody is obliged to call Submit or to shut down.   *)
Fairness ==
    /\ \A s \in Starters : WF_vars(StarterStep(s))
    /\ \A t \in Tasks : WF_vars(FnStep(t))
    /\ \A w \in Workers : WF_vars(WorkerStep(w))
    /\ \A c \in Closers : WF_vars(CloserStep(c))

FairSpec == Spec /\ Fairness

-----------------------------------------------------------------------------
(* Properties *)

Queued(t) == \E i \in 1..Len(tasks) : tasks[i] = t
Held(t)   == \E w \in Workers : current[w] = t
Accepted(t) == submitPC[t] = "accepted"
Finished(t) == fn[t] \in FnEnded /\ ~Held(t)

(* The state every action keeps well-formed; in particular the buffer never *)
(* holds more than the QueueSize tasks NewWorkerPool made room for.         *)
TypeOK ==
    /\ started \in BOOLEAN /\ closing \in BOOLEAN /\ cancelled \in BOOLEAN /\ closed \in BOOLEAN
    /\ tasks \in Seq(Tasks) /\ Len(tasks) <= QueueSize
    /\ starterPC \in [Starters -> {"idle", "loaded", "launching", "returned", "error"}]
    /\ submitPC \in [Tasks -> {"idle", "loadedClosing", "sending", "accepted", "refused", "panicked"}]
    /\ workerPC \in [Workers -> {"unborn", "recv", "select", "drain", "exited"}]
    /\ current \in [Workers -> Tasks \cup {NoTask}]
    /\ fn \in [Tasks -> {"none", "running", "done", "panicked"}]
    /\ taskCtx \in [Tasks -> {"live", "deadline", "canceled"}]
    /\ closerPC \in [Closers -> {"idle", "noop", "loaded", "marked", "cancelled", "waiting",
                                 "forced", "ok", "err", "panicked"}]
    /\ completed \in Nat /\ timedOut \in Nat /\ panicked \in Nat

(* A task Submit accepted is never lost and never run twice, whatever      *)
(* shutdowns, deadlines and panics happen: it waits in the buffer, or one  *)
(* worker holds it, or its function has ended.                             *)
TaskConservation ==
    /\ \A t \in Tasks : Accepted(t) => Queued(t) \/ Held(t) \/ Finished(t)
    /\ \A t \in Tasks : Queued(t) \/ fn[t] # "none" => Accepted(t)
    /\ \A t \in Tasks : Queued(t) => fn[t] = "none"
    /\ \A i, j \in 1..Len(tasks) : tasks[i] = tasks[j] => i = j
    /\ \A v, w \in Workers : current[v] = current[w] /\ current[v] # NoTask => v = w

(* A shutdown that returns nil after closing the channel has waited for    *)
(* every accepted task: "waits for all in-flight tasks to complete".       *)
GracefulDrains ==
    \A c \in Closers : closerPC[c] = "ok" => \A t \in Tasks : Accepted(t) => Finished(t)

(* wp.cancel reaches every task: once the pool's context is cancelled no   *)
(* task runs with a live context, not even one that is taken later.        *)
CancelReachesTasks ==
    cancelled => \A w \in Workers : current[w] # NoTask => taskCtx[current[w]] # "live"

(* Tasks whose outcome executeTask has counted. *)
Counted == {t \in Tasks : \/ Finished(t)
                          \/ \E w \in Workers : workerPC[w] = "drain" /\ current[w] = t}

(* The two outcome counters of Stats() add up to the tasks executed, each   *)
(* counted once although both cases of the select may be ready.             *)
StatsAddUp == completed + timedOut = Cardinality(Counted)

(* An accepted task is executed in the end, also when the pool is shut     *)
(* down, by either function, while the task still waits in the buffer.     *)
AcceptedTaskRuns == \A t \in Tasks : Accepted(t) ~> Finished(t)

(* A shutdown call returns (or panics): no worker keeps it waiting. *)
ShutdownReturns ==
    \A c \in Closers : closerPC[c] = "loaded" ~> closerPC[c] \in {"ok", "err", "panicked"}

(* What the pool looks like to its callers. *)
Pool == INSTANCE TaskPool WITH
    NumWorkers <- PoolSize,
    queue      <- tasks,
    running    <- {t \in Tasks : Held(t)},
    ended      <- {t \in Tasks : Finished(t)},
    refused    <- {t \in Tasks : submitPC[t] = "refused"},
    phase      <- IF closed THEN "closed" ELSE IF closing THEN "closing"
                  ELSE IF started THEN "open" ELSE "idle",
    drained    <- \E c \in Closers : closerPC[c] = "ok"

(* The pool implements TaskPool: FIFO hand-out, at most PoolSize tasks at a *)
(* time, each accepted task run once, refusals only when the queue is full, *)
(* the pool is not open or a blocking caller gave up, and a shutdown that   *)
(* reports success only when nothing is left.                               *)
ImplementsTaskPool == Pool!Spec

=============================================================================
