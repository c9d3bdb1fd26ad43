-------------------------- MODULE WorkerPoolProofs --------------------------
(***************************************************************************)
(* Proofs about WorkerPool, for every number of tasks, workers, starters   *)
(* and closers.  Inv is inductive; TaskConservation and CancelReachesTasks *)
(* follow from it, and with it StatsAddUp is inductive.  Where nobody uses *)
(* the pool while it is being started, DrainInv and PhaseInv hold as well: *)
(* GracefulDrains and the refinement of TaskPool follow.                   *)
(***************************************************************************)
EXTENDS WorkerPool, FiniteSetTheorems, TLAPS

(* What is in the buffer was accepted, has not run and is there once, and    *)
(* every accepted task that has not run is there.                            *)
QueueInv ==
    /\ \A i \in 1..Len(tasks) : Accepted(tasks[i]) /\ fn[tasks[i]] = "none"
    /\ \A i, j \in 1..Len(tasks) : tasks[i] = tasks[j] => i = j
    /\ \A t \in Tasks : Accepted(t) /\ fn[t] = "none" => Queued(t)

(* A worker holds a task exactly while it executes it; two workers never     *)
(* hold the same one, and what runs is held.                                 *)
HoldInv ==
    /\ \A w \in Workers : workerPC[w] \in {"select", "drain"} <=> current[w] # NoTask
    /\ \A w \in Workers : current[w] # NoTask => fn[current[w]] # "none"
    /\ \A v, w \in Workers : current[v] = current[w] /\ current[v] # NoTask => v = w
    /\ \A t \in Tasks : fn[t] # "none" => Accepted(t)
    /\ \A t \in Tasks : fn[t] = "running" => Held(t)

(* Once a shutdown has got past its first check the pool has been started,   *)
(* no start is under way and the workers are there; they leave only when the *)
(* channel is closed and drained, and a shutdown succeeds only when all left. *)
DrainInv ==
    /\ started => \E s \in Starters : starterPC[s] \in {"launching", "returned"}
    /\ \A s \in Starters : starterPC[s] = "returned" =>
          \A i \in 1..PoolSize : workerPC[<<s, i>>] # "unborn"
    /\ \A c \in Closers : closerPC[c] \notin {"idle", "noop"} => started /\ ~StartUnderWay
    /\ closed => \E c \in Closers : closerPC[c] \notin {"idle", "noop"}
    /\ \A w \in Workers : workerPC[w] = "exited" => closed /\ tasks = <<>>
    /\ \A c \in Closers : closerPC[c] \in {"waiting", "forced", "ok"} => closed
    /\ \A c \in Closers : closerPC[c] = "ok" => AllExited

Inv == TypeOK /\ QueueInv /\ HoldInv /\ CancelReachesTasks

-----------------------------------------------------------------------------
(* The initial state is well-formed. *)
LEMMA TypeInit == Init => TypeOK
  <1> SUFFICES ASSUME Init PROVE TypeOK
    OBVIOUS
  <1>1. tasks \in Seq(Tasks) /\ Len(tasks) <= QueueSize
    BY PoolAssumption DEF Init
  <1>2. started \in BOOLEAN /\ closing \in BOOLEAN /\ cancelled \in BOOLEAN /\ closed \in BOOLEAN
    BY DEF Init
  <1>3. current \in [Workers -> Tasks \cup {NoTask}]
    BY DEF Init
  <1>. QED
    BY <1>1, <1>2, <1>3 DEF Init, TypeOK

(* Every step of every goroutine keeps the state well-formed. *)
LEMMA TypeStep == TypeOK /\ [Next]_vars => TypeOK'
  <1> SUFFICES ASSUME TypeOK, [Next]_vars PROVE TypeOK'
    OBVIOUS
  <1> USE PoolAssumption DEF TypeOK, flags, counters, pcs
  <1>1. ASSUME NEW s \in Starters, StartLoad(s) PROVE TypeOK'
    BY <1>1 DEF StartLoad
  <1>2. ASSUME NEW s \in Starters, StartStore(s) PROVE TypeOK'
    BY <1>2 DEF StartStore
  <1>3. ASSUME NEW s \in Starters, NEW i \in 1..PoolSize, StartLaunch(s, i) PROVE TypeOK'
    BY <1>3 DEF StartLaunch
  <1>4. ASSUME NEW t \in Tasks, SubmitLoadClosing(t) PROVE TypeOK'
    BY <1>4 DEF SubmitLoadClosing, SubmitGoto
  <1>5. ASSUME NEW t \in Tasks, SubmitLoadStarted(t) PROVE TypeOK'
    BY <1>5 DEF SubmitLoadStarted, SubmitGoto
  <1>6. ASSUME NEW t \in Tasks, Send(t) PROVE TypeOK'
    BY <1>6 DEF Send, SubmitGoto
  <1>7. ASSUME NEW t \in Tasks, SendFull(t) \/ SendCtxDone(t) \/ SendPanic(t) PROVE TypeOK'
    BY <1>7 DEF SendFull, SendCtxDone, SendPanic, SubmitGoto
  <1>8. ASSUME NEW w \in Workers, Receive(w) PROVE TypeOK'
    BY <1>8 DEF Receive
  <1>9. ASSUME NEW w \in Workers, WorkerExit(w) PROVE TypeOK'
    BY <1>9 DEF WorkerExit
  <1>10. ASSUME NEW t \in Tasks, FnReturn(t) PROVE TypeOK'
    BY <1>10 DEF FnReturn
  <1>11. ASSUME NEW t \in Tasks, FnPanic(t) PROVE TypeOK'
    BY <1>11 DEF FnPanic
  <1>12. ASSUME NEW w \in Workers, Deadline(w) PROVE TypeOK'
    BY <1>12 DEF Deadline
  <1>13. ASSUME NEW w \in Workers, SelectDone(w) PROVE TypeOK'
    BY <1>13 DEF SelectDone
  <1>14. ASSUME NEW w \in Workers, SelectCtx(w) PROVE TypeOK'
    BY <1>14 DEF SelectCtx
  <1>15. ASSUME NEW w \in Workers, DrainDone(w) PROVE TypeOK'
    BY <1>15 DEF DrainDone
  <1>16. ASSUME NEW c \in Closers, ShutdownLoad(c) PROVE TypeOK'
    BY <1>16 DEF ShutdownLoad, CloserGoto
  <1>17. ASSUME NEW c \in Closers, ShutdownMark(c) PROVE TypeOK'
    BY <1>17 DEF ShutdownMark, CloserGoto
  <1>18. ASSUME NEW c \in Closers, ShutdownCancel(c) PROVE TypeOK'
    BY <1>18 DEF ShutdownCancel, CloserGoto, CancelPool
  <1>19. ASSUME NEW c \in Closers, CloseTasks(c) PROVE TypeOK'
    BY <1>19 DEF CloseTasks, CloserGoto
  <1>20. ASSUME NEW c \in Closers, ShutdownDone(c) \/ ForcedDone(c) PROVE TypeOK'
    BY <1>20 DEF ShutdownDone, ForcedDone, CloserGoto
  <1>21. ASSUME NEW c \in Closers, ShutdownCtxDone(c) PROVE TypeOK'
    BY <1>21 DEF ShutdownCtxDone, CloserGoto, CancelPool
  <1>22. CASE UNCHANGED vars
    BY <1>22 DEF vars
  <1>. QED
    BY <1>1, <1>2, <1>3, <1>4, <1>5, <1>6, <1>7, <1>8, <1>9, <1>10, <1>11, <1>12, <1>13,
       <1>14, <1>15, <1>16, <1>17, <1>18, <1>19, <1>20, <1>21, <1>22
    DEF Next, StarterStep, SubmitStep, FnStep, WorkerStep, CloserStep

(* The pool's state is well-formed in every reachable state; in particular   *)
(* the buffer of wp.tasks never holds more than QueueSize tasks.             *)
THEOREM TypeCorrect == Spec => []TypeOK
  BY TypeInit, TypeStep, PTL DEF Spec

-----------------------------------------------------------------------------
(* The invariant holds initially: nothing is queued, held or running. *)
LEMMA InvInit == Init => Inv
  <1> SUFFICES ASSUME Init PROVE Inv
    OBVIOUS
  <1>1. QueueInv
    BY DEF Init, QueueInv, Accepted
  <1>2. HoldInv
    BY DEF Init, HoldInv
  <1>3. CancelReachesTasks
    BY DEF Init, CancelReachesTasks
  <1>. QED
    BY <1>1, <1>2, <1>3, TypeInit DEF Inv

(* A step that changes neither tasks, workers nor contexts keeps the         *)
(* invariant, as far as it is not about types.                               *)
LEMMA InvFrame ==
  ASSUME Inv, UNCHANGED <<tasks, submitPC, fn, workerPC, current, cancelled, taskCtx>>
  PROVE  QueueInv' /\ HoldInv' /\ CancelReachesTasks'
  BY DEF Inv, QueueInv, HoldInv, CancelReachesTasks, Accepted, Queued, Held, Workers

(* A submitting goroutine that is not accepted in this step. *)
LEMMA SubmitFrame ==
  ASSUME Inv, NEW t \in Tasks, NEW pc, SubmitGoto(t, pc), UNCHANGED tasks,
         ~Accepted(t), pc # "accepted"
  PROVE  QueueInv' /\ HoldInv' /\ CancelReachesTasks'
  <1> USE DEF Inv, TypeOK, SubmitGoto, flags
  <1>1. \A u \in Tasks : Accepted(u)' <=> Accepted(u)
    BY DEF Accepted
  <1>2. QueueInv'
    BY <1>1 DEF QueueInv, Queued
  <1>3. HoldInv'
    BY <1>1 DEF HoldInv, Held, Workers
  <1>4. CancelReachesTasks'
    BY DEF CancelReachesTasks, Workers
  <1>. QED
    BY <1>2, <1>3, <1>4

(* A task that is sent joins the end of the buffer, where it was not before. *)
LEMMA SendInv ==
  ASSUME Inv, NEW t \in Tasks, Send(t)
  PROVE  QueueInv' /\ HoldInv' /\ CancelReachesTasks'
  <1> USE DEF Inv, TypeOK, Send, SubmitGoto, flags
  <1>1. ~Accepted(t) /\ fn[t] = "none"
    BY DEF Accepted, HoldInv
  <1>2. \A u \in Tasks : Accepted(u)' <=> Accepted(u) \/ u = t
    BY DEF Accepted
  <1>3. /\ Len(tasks') = Len(tasks) + 1
        /\ \A i \in 1..Len(tasks) : tasks'[i] = tasks[i]
        /\ tasks'[Len(tasks) + 1] = t
    OBVIOUS
  <1>4. \A i \in 1..Len(tasks) : tasks[i] \in Tasks /\ tasks[i] # t
    BY <1>1 DEF QueueInv
  <1>5. \A i \in 1..Len(tasks') : submitPC'[tasks'[i]] = "accepted" /\ fn'[tasks'[i]] = "none"
    BY <1>1, <1>2, <1>3, <1>4 DEF QueueInv, Accepted
  <1>6. \A i, j \in 1..Len(tasks') : tasks'[i] = tasks'[j] => i = j
    BY <1>3, <1>4 DEF QueueInv
  <1>7. \A u \in Tasks : Accepted(u)' /\ fn'[u] = "none" => Queued(u)'
    BY <1>2, <1>3 DEF QueueInv, Queued
  <1>8. QueueInv'
    BY <1>5, <1>6, <1>7 DEF QueueInv, Accepted
  <1>9. HoldInv'
    BY <1>2 DEF HoldInv, Held, Workers
  <1>10. CancelReachesTasks'
    BY DEF CancelReachesTasks, Workers
  <1>. QED
    BY <1>8, <1>9, <1>10

(* A worker takes the head of the buffer: the task stops being queued and    *)
(* starts being held in one step, and its context follows the pool's.        *)
LEMMA ReceiveInv ==
  ASSUME Inv, NEW w \in Workers, Receive(w)
  PROVE  QueueInv' /\ HoldInv' /\ CancelReachesTasks'
  <1> DEFINE h == Head(tasks)
  <1> USE DEF Inv, TypeOK, Receive, flags, pcs, counters
  <1>1. /\ h \in Tasks /\ h = tasks[1]
        /\ Len(tasks) \in Nat /\ Len(tasks) > 0
        /\ Len(tasks') = Len(tasks) - 1
        /\ \A i \in 1..Len(tasks') : tasks'[i] = tasks[i + 1]
    OBVIOUS
  <1>2. Accepted(h) /\ fn[h] = "none"
    BY <1>1 DEF QueueInv
  <1>3. \A i \in 1..Len(tasks') : tasks'[i] \in Tasks /\ tasks'[i] # h
    BY <1>1 DEF QueueInv
  <1>4. \A u \in Tasks : u # h => fn'[u] = fn[u]
    OBVIOUS
  <1>5. fn'[h] = "running"
    BY <1>1
  <1>6. \A u \in Tasks : Accepted(u)' <=> Accepted(u)
    BY DEF Accepted
  <1>7. QueueInv'
    <2>1. \A i \in 1..Len(tasks') : submitPC'[tasks'[i]] = "accepted" /\ fn'[tasks'[i]] = "none"
      BY <1>1, <1>3, <1>4, <1>6 DEF QueueInv, Accepted
    <2>2. \A i, j \in 1..Len(tasks') : tasks'[i] = tasks'[j] => i = j
      BY <1>1 DEF QueueInv
    <2>3. \A u \in Tasks : Accepted(u)' /\ fn'[u] = "none" => Queued(u)'
      <3> SUFFICES ASSUME NEW u \in Tasks, Accepted(u)', fn'[u] = "none" PROVE Queued(u)'
        OBVIOUS
      <3>1. u # h /\ Accepted(u) /\ fn[u] = "none"
        BY <1>4, <1>5, <1>6
      <3>2. PICK i \in 1..Len(tasks) : tasks[i] = u
        BY <3>1 DEF QueueInv, Queued
      <3>3. i - 1 \in 1..Len(tasks') /\ tasks'[i - 1] = u
        BY <1>1, <3>1, <3>2
      <3>. QED
        BY <3>3 DEF Queued
    <2>. QED
      BY <2>1, <2>2, <2>3 DEF QueueInv, Accepted
  <1>8. \A v \in Workers : current[v] # h
    BY <1>1, <1>2, PoolAssumption DEF HoldInv
  <1>9. /\ current'[w] = h /\ workerPC'[w] = "select"
        /\ \A v \in Workers \ {w} : current'[v] = current[v] /\ workerPC'[v] = workerPC[v]
    OBVIOUS
  <1>10. h # NoTask /\ current[w] = NoTask
    BY <1>1, PoolAssumption DEF HoldInv
  <1>11. HoldInv'
    <2>1. \A v \in Workers : workerPC'[v] \in {"select", "drain"} <=> current'[v] # NoTask
      BY <1>9, <1>10 DEF HoldInv
    <2>2. \A v \in Workers : current'[v] # NoTask => fn'[current'[v]] # "none"
      BY <1>4, <1>5, <1>9 DEF HoldInv
    <2>3. \A u, v \in Workers : current'[u] = current'[v] /\ current'[u] # NoTask => u = v
      BY <1>8, <1>9 DEF HoldInv
    <2>4. \A u \in Tasks : fn'[u] # "none" => Accepted(u)'
      BY <1>2, <1>4, <1>6 DEF HoldInv
    <2>5. \A u \in Tasks : fn'[u] = "running" => Held(u)'
      <3> SUFFICES ASSUME NEW u \in Tasks, fn'[u] = "running" PROVE \E v \in Workers : current'[v] = u
        BY DEF Held, Workers
      <3>1. CASE u = h
        BY <3>1, <1>9
      <3>2. CASE u # h
        <4>1. PICK v \in Workers : current[v] = u
          BY <3>2, <1>4 DEF HoldInv, Held
        <4>. QED
          BY <4>1, <1>9, <1>10, PoolAssumption
      <3>. QED
        BY <3>1, <3>2
    <2>. QED
      BY <2>1, <2>2, <2>3, <2>4, <2>5 DEF HoldInv, Workers
  <1>12. CancelReachesTasks'
    BY <1>1, <1>8, <1>9 DEF CancelReachesTasks, Workers
  <1>. QED
    BY <1>7, <1>11, <1>12

(* A worker is launched, or leaves: it holds no task before or after. *)
LEMMA WorkerPCInv ==
  ASSUME Inv, NEW w \in Workers, NEW pc,
         workerPC[w] \notin {"select", "drain"}, pc \notin {"select", "drain"},
         workerPC' = [workerPC EXCEPT ![w] = pc],
         UNCHANGED <<tasks, submitPC, fn, current, cancelled, taskCtx>>
  PROVE  QueueInv' /\ HoldInv' /\ CancelReachesTasks'
  <1>1. QueueInv' /\ CancelReachesTasks'
    BY DEF Inv, QueueInv, CancelReachesTasks, Accepted, Queued, Workers
  <1>2. HoldInv'
    BY DEF Inv, TypeOK, HoldInv, Held, Accepted, Workers
  <1>. QED
    BY <1>1, <1>2

(* A task's function returns or panics: its worker still holds it. *)
LEMMA FnEndInv ==
  ASSUME Inv, NEW t \in Tasks, fn[t] = "running", NEW e \in FnEnded,
         fn' = [fn EXCEPT ![t] = e],
         UNCHANGED <<tasks, submitPC, workerPC, current, cancelled, taskCtx>>
  PROVE  QueueInv' /\ HoldInv' /\ CancelReachesTasks'
  <1> USE DEF Inv, TypeOK, FnEnded
  <1>1. \A u \in Tasks : (fn'[u] = "none" <=> fn[u] = "none") /\ (fn'[u] = "running" => fn[u] = "running")
    OBVIOUS
  <1>2. \A u \in Tasks : Accepted(u)' <=> Accepted(u)
    BY DEF Accepted
  <1>3. \A u \in Tasks : (Queued(u)' <=> Queued(u)) /\ (Held(u)' <=> Held(u))
    BY DEF Queued, Held, Workers
  <1>4. \A i \in 1..Len(tasks) : tasks[i] \in Tasks
    OBVIOUS
  <1>5. QueueInv'
    BY <1>1, <1>2, <1>3, <1>4 DEF QueueInv, Accepted
  <1>6. HoldInv'
    BY <1>1, <1>2, <1>3 DEF HoldInv, Workers
  <1>7. CancelReachesTasks'
    BY DEF CancelReachesTasks, Workers
  <1>. QED
    BY <1>5, <1>6, <1>7

(* A worker gives up the task it holds, whose function has ended. *)
LEMMA ReleaseInv ==
  ASSUME Inv, NEW w \in Workers, workerPC[w] \in {"select", "drain"}, fn[current[w]] \in FnEnded,
         workerPC' = [workerPC EXCEPT ![w] = "recv"],
         current' = [current EXCEPT ![w] = NoTask],
         UNCHANGED <<tasks, submitPC, fn, cancelled, taskCtx>>
  PROVE  QueueInv' /\ HoldInv' /\ CancelReachesTasks'
  <1> USE DEF Inv, TypeOK
  <1>1. QueueInv'
    BY DEF QueueInv, Accepted, Queued
  <1>2. /\ current'[w] = NoTask /\ workerPC'[w] = "recv"
        /\ \A v \in Workers \ {w} : current'[v] = current[v] /\ workerPC'[v] = workerPC[v]
    OBVIOUS
  <1>3. \A u \in Tasks : fn'[u] = "running" => \E v \in Workers : current'[v] = u
    <2> SUFFICES ASSUME NEW u \in Tasks, fn[u] = "running" PROVE \E v \in Workers : current'[v] = u
      OBVIOUS
    <2>1. PICK v \in Workers : current[v] = u
      BY DEF HoldInv, Held
    <2>2. v # w
      BY <2>1 DEF FnEnded
    <2>. QED
      BY <1>2, <2>1, <2>2
  <1>4. HoldInv'
    <2>1. \A v \in Workers : workerPC'[v] \in {"select", "drain"} <=> current'[v] # NoTask
      BY <1>2 DEF HoldInv
    <2>2. \A v \in Workers : current'[v] # NoTask => fn'[current'[v]] # "none"
      BY <1>2 DEF HoldInv
    <2>3. \A u, v \in Workers : current'[u] = current'[v] /\ current'[u] # NoTask => u = v
      BY <1>2 DEF HoldInv
    <2>4. \A u \in Tasks : fn'[u] # "none" => Accepted(u)'
      BY DEF HoldInv, Accepted
    <2>. QED
      BY <1>3, <2>1, <2>2, <2>3, <2>4 DEF HoldInv, Held, Workers
  <1>5. CancelReachesTasks'
    BY <1>2 DEF CancelReachesTasks, Workers
  <1>. QED
    BY <1>1, <1>4, <1>5

(* wp.cancel() reaches every task that is held, because what is held has     *)
(* been started.                                                             *)
LEMMA CancelInv ==
  ASSUME Inv, CancelPool, UNCHANGED <<tasks, submitPC, fn, workerPC, current>>
  PROVE  QueueInv' /\ HoldInv' /\ CancelReachesTasks'
  <1>1. QueueInv' /\ HoldInv'
    BY DEF Inv, QueueInv, HoldInv, Accepted, Queued, Held, Workers
  <1>2. CancelReachesTasks'
    <2> SUFFICES ASSUME NEW w \in Workers, current[w] # NoTask PROVE taskCtx'[current[w]] # "live"
      BY DEF CancelReachesTasks, Workers
    <2>1. current[w] \in Tasks /\ fn[current[w]] # "none"
      BY DEF Inv, TypeOK, HoldInv
    <2>. QED
      BY <2>1 DEF CancelPool
  <1>. QED
    BY <1>1, <1>2

(* Every step keeps the invariant: one case per action. *)
LEMMA InvStep == Inv /\ [Next]_vars => Inv'
  <1> SUFFICES ASSUME Inv, [Next]_vars PROVE Inv'
    OBVIOUS
  <1> DEFINE Goal == QueueInv' /\ HoldInv' /\ CancelReachesTasks'
  <1> SUFFICES Goal
    BY TypeStep DEF Inv
  <1> USE DEF flags, counters, pcs
  <1>1. ASSUME NEW s \in Starters, StartLoad(s) \/ StartStore(s) PROVE Goal
    BY <1>1, InvFrame DEF StartLoad, StartStore
  <1>2. ASSUME NEW s \in Starters, NEW i \in 1..PoolSize, StartLaunch(s, i) PROVE Goal
    <2>1. <<s, i>> \in Workers
      BY DEF Workers
    <2>. QED
      BY <1>2, <2>1, WorkerPCInv DEF StartLaunch
  <1>3. ASSUME NEW t \in Tasks, SubmitLoadClosing(t) \/ SubmitLoadStarted(t) PROVE Goal
    <2>1. PICK pc \in {"refused", "loadedClosing", "sending"} : SubmitGoto(t, pc)
      BY <1>3 DEF SubmitLoadClosing, SubmitLoadStarted
    <2>2. ~Accepted(t) /\ UNCHANGED tasks
      BY <1>3 DEF SubmitLoadClosing, SubmitLoadStarted, Accepted
    <2>. QED
      BY <2>1, <2>2, SubmitFrame
  <1>4. ASSUME NEW t \in Tasks, Send(t) PROVE Goal
    BY <1>4, SendInv
  <1>5. ASSUME NEW t \in Tasks, SendFull(t) \/ SendCtxDone(t) \/ SendPanic(t) PROVE Goal
    <2>1. PICK pc \in {"refused", "panicked"} : SubmitGoto(t, pc)
      BY <1>5 DEF SendFull, SendCtxDone, SendPanic
    <2>2. ~Accepted(t) /\ UNCHANGED tasks
      BY <1>5 DEF SendFull, SendCtxDone, SendPanic, Accepted
    <2>. QED
      BY <2>1, <2>2, SubmitFrame
  <1>6. ASSUME NEW w \in Workers, Receive(w) PROVE Goal
    BY <1>6, ReceiveInv
  <1>7. ASSUME NEW w \in Workers, WorkerExit(w) PROVE Goal
    BY <1>7, WorkerPCInv DEF WorkerExit
  <1>8. ASSUME NEW t \in Tasks, FnReturn(t) \/ FnPanic(t) PROVE Goal
    <2>1. PICK e \in FnEnded : fn' = [fn EXCEPT ![t] = e]
      BY <1>8 DEF FnReturn, FnPanic, FnEnded
    <2>. QED
      BY <1>8, <2>1, FnEndInv DEF FnReturn, FnPanic
  <1>9. ASSUME NEW w \in Workers, Deadline(w) PROVE Goal
    <2>1. QueueInv' /\ HoldInv'
      BY <1>9 DEF Deadline, Inv, QueueInv, HoldInv, Accepted, Queued, Held, Workers
    <2>2. CancelReachesTasks'
      BY <1>9 DEF Deadline, Inv, TypeOK, CancelReachesTasks, Workers
    <2>. QED
      BY <2>1, <2>2
  <1>10. ASSUME NEW w \in Workers, SelectDone(w) \/ DrainDone(w) PROVE Goal
    BY <1>10, ReleaseInv DEF SelectDone, DrainDone
  <1>11. ASSUME NEW w \in Workers, SelectCtx(w) PROVE Goal
    <2>1. QueueInv' /\ CancelReachesTasks'
      BY <1>11 DEF SelectCtx, Inv, QueueInv, CancelReachesTasks, Accepted, Queued, Workers
    <2>2. HoldInv'
      BY <1>11 DEF SelectCtx, Inv, TypeOK, HoldInv, Accepted, Held, Workers
    <2>. QED
      BY <2>1, <2>2
  <1>12. ASSUME NEW c \in Closers,
                ShutdownLoad(c) \/ ShutdownMark(c) \/ CloseTasks(c) \/ ShutdownDone(c) \/ ForcedDone(c)
         PROVE Goal
    BY <1>12, InvFrame DEF ShutdownLoad, ShutdownMark, CloseTasks, ShutdownDone, ForcedDone, CloserGoto
  <1>13. ASSUME NEW c \in Closers, ShutdownCancel(c) PROVE Goal
    BY <1>13, CancelInv DEF ShutdownCancel, CloserGoto
  <1>14. ASSUME NEW c \in Closers, ShutdownCtxDone(c) PROVE Goal
    BY <1>14, CancelInv, InvFrame DEF ShutdownCtxDone, CloserGoto
  <1>15. CASE UNCHANGED vars
    BY <1>15, InvFrame DEF vars
  <1>. QED
    BY <1>1, <1>2, <1>3, <1>4, <1>5, <1>6, <1>7, <1>8, <1>9, <1>10, <1>11, <1>12, <1>13, <1>14, <1>15
    DEF Next, StarterStep, SubmitStep, FnStep, WorkerStep, CloserStep

(* Inv holds in every reachable state of the pool. *)
LEMMA InvAlways == Spec => []Inv
  BY InvInit, InvStep, PTL DEF Spec

(* No task that Submit or SubmitBlocking accepted is lost, and none is run   *)
(* twice, however Start, Submit, the workers and the shutdowns interleave.   *)
THEOREM TasksConserved == Spec => []TaskConservation
  <1>1. Inv => TaskConservation
    BY DEF Inv, TypeOK, QueueInv, HoldInv, TaskConservation, Finished, FnEnded, Queued
  <1>. QED
    BY <1>1, InvAlways, PTL

(* After wp.cancel() no task runs under a live context: neither one that was *)
(* running nor one that is taken from the buffer later.                      *)
THEOREM CancelReaches == Spec => []CancelReachesTasks
  <1>1. Inv => CancelReachesTasks
    BY DEF Inv
  <1>. QED
    BY <1>1, InvAlways, PTL

-----------------------------------------------------------------------------
(* While a start is under way no shutdown has got past its first check, the  *)
(* channel is open and no worker has left.                                   *)
LEMMA StartExcludesClosers ==
  ASSUME DrainInv, StartUnderWay
  PROVE  /\ \A c \in Closers : closerPC[c] \in {"idle", "noop"}
         /\ ~closed
         /\ \A w \in Workers : workerPC[w] # "exited"
  BY DEF DrainInv

(* A worker that executes a task or waits for one shows that no shutdown has *)
(* succeeded.                                                                *)
LEMMA LiveWorkerExcludesOk ==
  ASSUME DrainInv, NEW w \in Workers, workerPC[w] \in {"recv", "select", "drain"}
  PROVE  \A c \in Closers : closerPC[c] # "ok"
  BY DEF DrainInv, AllExited

(* A worker step that stays within the life of the worker. *)
LEMMA DrainWorker ==
  ASSUME TypeOK, DrainInv, NEW w \in Workers, NEW pc \in {"select", "drain", "recv"},
         workerPC[w] \in {"recv", "select", "drain"},
         workerPC' = [workerPC EXCEPT ![w] = pc],
         UNCHANGED <<started, closed, starterPC, closerPC>>,
         tasks' = tasks \/ tasks # <<>>
  PROVE  DrainInv'
  <1>1. \A c \in Closers : closerPC[c] # "ok"
    BY LiveWorkerExcludesOk
  <1>2. \A v \in Workers : /\ workerPC'[v] = "exited" => workerPC[v] = "exited"
                           /\ workerPC'[v] = "unborn" => workerPC[v] = "unborn"
    BY DEF TypeOK
  <1>3. \A s \in Starters, i \in 1..PoolSize : <<s, i>> \in Workers
    BY DEF Workers
  <1>. QED
    BY <1>1, <1>2, <1>3 DEF DrainInv, StartUnderWay, Workers

(* A step of a shutdown call past its first check. *)
LEMMA DrainCloser ==
  ASSUME TypeOK, DrainInv, NEW c \in Closers, NEW pc,
         closerPC[c] \notin {"idle", "noop"}, pc \notin {"idle", "noop"},
         CloserGoto(c, pc),
         closed => closed',
         pc \in {"waiting", "forced", "ok"} => closed',
         pc = "ok" => AllExited
  PROVE  DrainInv'
  <1>1. \A d \in Closers : closerPC'[d] = IF d = c THEN pc ELSE closerPC[d]
    BY DEF CloserGoto, TypeOK
  <1>2. AllExited' <=> AllExited
    BY DEF CloserGoto, AllExited, Workers
  <1>3. StartUnderWay' <=> StartUnderWay
    BY DEF CloserGoto, StartUnderWay
  <1>. QED
    BY <1>1, <1>2, <1>3 DEF DrainInv, CloserGoto, Workers

(* Every step keeps DrainInv when nobody uses the pool during a start. *)
LEMMA DrainStep ==
  ASSUME SerialStart, TypeOK, DrainInv, [Next]_vars
  PROVE  DrainInv'
  <1> USE DEF flags, counters, pcs
  <1>0. ASSUME UNCHANGED <<started, closed, tasks, starterPC, workerPC, closerPC>> PROVE DrainInv'
    BY <1>0 DEF DrainInv, StartUnderWay, AllExited, Workers
  <1>1. ASSUME NEW s \in Starters, StartLoad(s) PROVE DrainInv'
    <2>1. \A r \in Starters : starterPC'[r] =
             IF r = s THEN (IF started THEN "error" ELSE "loaded") ELSE starterPC[r]
      BY <1>1 DEF StartLoad, TypeOK
    <2>2. starterPC[s] = "idle"
      BY <1>1 DEF StartLoad
    <2>3. started => (StartUnderWay' <=> StartUnderWay)
      BY <2>1, <2>2 DEF StartUnderWay
    <2>. QED
      BY <1>1, <2>1, <2>2, <2>3 DEF StartLoad, DrainInv, AllExited, Workers
  <1>2. ASSUME NEW s \in Starters, StartStore(s) PROVE DrainInv'
    <2>1. StartUnderWay
      BY <1>2 DEF StartStore, StartUnderWay
    <2>2. starterPC'[s] = "launching" /\ \A r \in Starters : starterPC'[r] = "returned" => starterPC[r] = "returned"
      BY <1>2 DEF StartStore, TypeOK
    <2>. QED
      BY <1>2, <2>1, <2>2, StartExcludesClosers DEF StartStore, DrainInv, Workers
  <1>3. ASSUME NEW s \in Starters, NEW i \in 1..PoolSize, StartLaunch(s, i) PROVE DrainInv'
    <2>1. StartUnderWay
      BY <1>3 DEF StartLaunch, StartUnderWay
    <2>2. /\ starterPC'[s] \in {"launching", "returned"}
          /\ starterPC'[s] = "returned" => i = PoolSize
          /\ \A r \in Starters \ {s} : starterPC'[r] = starterPC[r]
      BY <1>3 DEF StartLaunch, TypeOK
    <2>3. /\ \A w \in Workers : workerPC'[w] = IF w = <<s, i>> THEN "recv" ELSE workerPC[w]
          /\ \A r \in Starters, j \in 1..PoolSize : <<r, j>> \in Workers
      BY <1>3 DEF StartLaunch, TypeOK, Workers
    <2>4. \A r \in Starters : starterPC'[r] = "returned" =>
             \A j \in 1..PoolSize : workerPC'[<<r, j>>] # "unborn"
      <3> SUFFICES ASSUME NEW r \in Starters, starterPC'[r] = "returned", NEW j \in 1..PoolSize
                   PROVE  workerPC'[<<r, j>>] # "unborn"
        OBVIOUS
      <3>1. CASE r = s
        <4>1. j = i \/ j \in 1..(i - 1)
          BY <3>1, <2>2, PoolAssumption
        <4>. QED
          BY <3>1, <4>1, <1>3, <2>3 DEF StartLaunch
      <3>2. CASE r # s
        BY <3>2, <2>2, <2>3 DEF DrainInv
      <3>. QED
        BY <3>1, <3>2
    <2>. QED
      BY <1>3, <2>1, <2>2, <2>3, <2>4, StartExcludesClosers DEF StartLaunch, DrainInv, Workers
  <1>4. ASSUME NEW t \in Tasks, Send(t) PROVE DrainInv'
    BY <1>4 DEF Send, SubmitGoto, DrainInv, StartUnderWay, AllExited, Workers
  <1>5. ASSUME NEW t \in Tasks, \/ SubmitLoadClosing(t) \/ SubmitLoadStarted(t) \/ SendFull(t)
                                 \/ SendCtxDone(t) \/ SendPanic(t) \/ FnReturn(t) \/ FnPanic(t)
        PROVE DrainInv'
    BY <1>5, <1>0 DEF SubmitLoadClosing, SubmitLoadStarted, SendFull, SendCtxDone, SendPanic,
                      SubmitGoto, FnReturn, FnPanic
  <1>6. ASSUME NEW w \in Workers, Receive(w) \/ SelectDone(w) \/ SelectCtx(w) \/ DrainDone(w) PROVE DrainInv'
    BY <1>6, DrainWorker DEF Receive, SelectDone, SelectCtx, DrainDone
  <1>7. ASSUME NEW w \in Workers, WorkerExit(w) PROVE DrainInv'
    <2>1. \A c \in Closers : closerPC[c] # "ok"
      BY <1>7, LiveWorkerExcludesOk DEF WorkerExit
    <2>2. \A v \in Workers : workerPC'[v] = IF v = w THEN "exited" ELSE workerPC[v]
      BY <1>7 DEF WorkerExit, TypeOK
    <2>3. \A s \in Starters, i \in 1..PoolSize : <<s, i>> \in Workers
      BY DEF Workers
    <2>. QED
      BY <1>7, <2>1, <2>2, <2>3 DEF WorkerExit, DrainInv, StartUnderWay, Workers
  <1>8. ASSUME NEW w \in Workers, Deadline(w) PROVE DrainInv'
    BY <1>8, <1>0 DEF Deadline
  <1>9. ASSUME NEW c \in Closers, ShutdownLoad(c) PROVE DrainInv'
    <2>1. ~StartUnderWay /\ closerPC[c] = "idle"
      BY <1>9 DEF ShutdownLoad, Serial
    <2>2. \A d \in Closers : closerPC'[d] =
             IF d = c THEN (IF started THEN "loaded" ELSE "noop") ELSE closerPC[d]
      BY <1>9 DEF ShutdownLoad, CloserGoto, TypeOK
    <2>. QED
      BY <1>9, <2>1, <2>2 DEF ShutdownLoad, CloserGoto, DrainInv, StartUnderWay, AllExited, Workers
  <1>10. ASSUME NEW c \in Closers, ShutdownMark(c) \/ ShutdownCancel(c) PROVE DrainInv'
    <2>1. PICK pc \in {"marked", "cancelled"} : CloserGoto(c, pc)
      BY <1>10 DEF ShutdownMark, ShutdownCancel
    <2>. QED
      BY <1>10, <2>1, DrainCloser DEF ShutdownMark, ShutdownCancel
  <1>11. ASSUME NEW c \in Closers, CloseTasks(c) PROVE DrainInv'
    <2>1. PICK pc \in {"panicked", "waiting"} : CloserGoto(c, pc)
      BY <1>11 DEF CloseTasks
    <2>. QED
      BY <1>11, <2>1, DrainCloser DEF CloseTasks
  <1>12. ASSUME NEW c \in Closers, ShutdownDone(c) \/ ForcedDone(c) \/ ShutdownCtxDone(c) PROVE DrainInv'
    <2>1. closerPC[c] \in {"waiting", "forced"} /\ closed /\ closed' = closed
      BY <1>12 DEF ShutdownDone, ForcedDone, ShutdownCtxDone, DrainInv
    <2>2. PICK pc \in {"ok", "err", "forced"} : CloserGoto(c, pc) /\ (pc = "ok" => AllExited)
      BY <1>12 DEF ShutdownDone, ForcedDone, ShutdownCtxDone
    <2>. QED
      BY <2>1, <2>2, DrainCloser
  <1>13. CASE UNCHANGED vars
    BY <1>13, <1>0 DEF vars
  <1>. QED
    BY <1>1, <1>2, <1>3, <1>4, <1>5, <1>6, <1>7, <1>8, <1>9, <1>10, <1>11, <1>12, <1>13
    DEF Next, StarterStep, SubmitStep, FnStep, WorkerStep, CloserStep

(* A shutdown that returns nil has waited for every accepted task, provided  *)
(* nobody submits to or shuts down the pool while Start is launching its     *)
(* workers (main calls Start before the server listens).                     *)
THEOREM GracefulShutdownDrains ==
  ASSUME SerialStart
  PROVE  Spec => []GracefulDrains
  <1>1. Init => DrainInv
    BY PoolAssumption DEF Init, DrainInv
  <1>2. Inv /\ DrainInv => GracefulDrains
    <2> SUFFICES ASSUME Inv, DrainInv, NEW c \in Closers, closerPC[c] = "ok",
                        NEW t \in Tasks, Accepted(t)
                 PROVE  Finished(t)
      BY DEF GracefulDrains
    <2>1. started /\ ~StartUnderWay /\ AllExited
      BY DEF DrainInv
    <2>2. PICK s \in Starters : starterPC[s] = "returned"
      BY <2>1 DEF DrainInv, StartUnderWay
    <2>3. <<s, 1>> \in Workers /\ workerPC[<<s, 1>>] = "exited"
      BY <2>1, <2>2, PoolAssumption DEF DrainInv, AllExited, Workers
    <2>4. tasks = <<>>
      BY <2>3 DEF DrainInv
    <2>5. ~Held(t)
      BY <2>1, PoolAssumption DEF AllExited, Held, Inv, HoldInv
    <2>6. fn[t] # "none" /\ fn[t] # "running"
      BY <2>4, <2>5 DEF Inv, QueueInv, HoldInv, Queued
    <2>. QED
      BY <2>5, <2>6 DEF Finished, FnEnded, Inv, TypeOK
  <1>3. TypeOK /\ DrainInv /\ [Next]_vars => DrainInv'
    BY DrainStep
  <1>. QED
    BY <1>1, <1>2, <1>3, InvAlways, TypeCorrect, PTL DEF Spec

-----------------------------------------------------------------------------
(* The finished tasks and the ones whose worker waits for a late function    *)
(* are finitely many.                                                        *)
LEMMA CountedFinite == IsFiniteSet(Counted) /\ Cardinality(Counted) \in Nat
  <1>1. IsFiniteSet(Counted)
    BY FiniteAssumption, FS_Subset DEF Counted
  <1>. QED
    BY <1>1, FS_CardinalityType

(* A step that counts nothing. *)
LEMMA CountFrame ==
  ASSUME StatsAddUp, Counted' = Counted, UNCHANGED <<completed, timedOut>>
  PROVE  StatsAddUp'
  BY DEF StatsAddUp

(* A step of something other than the workers and the functions. *)
LEMMA CountIdle ==
  ASSUME StatsAddUp, UNCHANGED <<fn, current, workerPC, completed, timedOut>>
  PROVE  StatsAddUp'
  <1>1. Counted' = Counted
    BY DEF Counted, Finished, Held, Workers
  <1>. QED
    BY <1>1, CountFrame

(* A step that counts the task a worker holds. *)
LEMMA CountOne ==
  ASSUME Inv, StatsAddUp, NEW t \in Tasks, t \notin Counted, Counted' = Counted \cup {t},
         completed' + timedOut' = completed + timedOut + 1
  PROVE  StatsAddUp'
  <1>1. Cardinality(Counted') = Cardinality(Counted) + 1
    BY CountedFinite, FS_AddElement
  <1>. QED
    BY <1>1 DEF StatsAddUp

(* The outcome of every executed task has been counted once, in one of the   *)
(* two counters: the select takes one case, and the drain counts nothing.    *)
LEMMA StatsStep ==
  ASSUME Inv, StatsAddUp, [Next]_vars
  PROVE  StatsAddUp'
  <1> USE DEF flags, counters, pcs
  <1>1. ASSUME NEW s \in Starters, StartLoad(s) \/ StartStore(s) PROVE StatsAddUp'
    BY <1>1, CountIdle DEF StartLoad, StartStore
  <1>2. ASSUME NEW s \in Starters, NEW i \in 1..PoolSize, StartLaunch(s, i) PROVE StatsAddUp'
    <2>1. \A w \in Workers : workerPC'[w] = "drain" <=> workerPC[w] = "drain"
      BY <1>2 DEF StartLaunch, Inv, TypeOK
    <2>2. Counted' = Counted
      BY <1>2, <2>1 DEF StartLaunch, Counted, Finished, Held, Workers
    <2>. QED
      BY <1>2, <2>2, CountFrame DEF StartLaunch
  <1>3. ASSUME NEW t \in Tasks, SubmitStep(t) PROVE StatsAddUp'
    BY <1>3, CountIdle DEF SubmitStep, SubmitLoadClosing, SubmitLoadStarted, Send, SendFull,
                           SendCtxDone, SendPanic, SubmitGoto
  <1>4. ASSUME NEW t \in Tasks, FnReturn(t) \/ FnPanic(t) PROVE StatsAddUp'
    <2>1. PICK e \in FnEnded : fn' = [fn EXCEPT ![t] = e]
      BY <1>4 DEF FnReturn, FnPanic, FnEnded
    <2>2. Held(t)
      BY <1>4 DEF FnReturn, FnPanic, Inv, HoldInv
    <2>3. \A u \in Tasks : Held(u)' <=> Held(u)
      BY <1>4 DEF FnReturn, FnPanic, Held, Workers
    <2>4. \A u \in Tasks : Finished(u)' <=> Finished(u)
      BY <2>1, <2>2, <2>3 DEF Finished, Inv, TypeOK
    <2>5. Counted' = Counted
      BY <1>4, <2>4 DEF FnReturn, FnPanic, Counted, Workers
    <2>. QED
      BY <1>4, <2>5, CountFrame DEF FnReturn, FnPanic
  <1>5. ASSUME NEW w \in Workers, Receive(w) PROVE StatsAddUp'
    <2> DEFINE h == Head(tasks)
    <2>1. h \in Tasks /\ h = tasks[1] /\ fn[h] = "none" /\ h # NoTask
      BY <1>5, PoolAssumption DEF Receive, Inv, TypeOK, QueueInv
    <2>2. \A v \in Workers : current[v] # h
      BY <2>1 DEF Inv, HoldInv
    <2> HIDE DEF h
    <2>3. /\ current' = [current EXCEPT ![w] = h] /\ workerPC' = [workerPC EXCEPT ![w] = "select"]
          /\ fn' = [fn EXCEPT ![h] = "running"] /\ workerPC[w] = "recv"
      BY <1>5 DEF Receive, h
    <2>4. current[w] = NoTask
      BY <2>3 DEF Inv, TypeOK, HoldInv
    <2>5. \A v \in Workers : current'[v] = IF v = w THEN h ELSE current[v]
      BY <2>3 DEF Inv, TypeOK
    <2>6. \A v \in Workers : workerPC'[v] = IF v = w THEN "select" ELSE workerPC[v]
      BY <2>3 DEF Inv, TypeOK
    <2>7. \A u \in Tasks : Held(u)' <=> Held(u) \/ u = h
      BY <2>4, <2>5, PoolAssumption DEF Held, Workers
    <2>8. \A u \in Tasks : Finished(u)' <=> Finished(u)
      BY <2>1, <2>3, <2>7 DEF Finished, FnEnded, Inv, TypeOK
    <2>9. \A u \in Tasks : (\E v \in Workers : workerPC'[v] = "drain" /\ current'[v] = u)
                             <=> (\E v \in Workers : workerPC[v] = "drain" /\ current[v] = u)
      BY <2>3, <2>5, <2>6
    <2>10. Counted' = Counted
      BY <2>8, <2>9 DEF Counted, Workers
    <2>. QED
      BY <1>5, <2>10, CountFrame DEF Receive
  <1>6. ASSUME NEW w \in Workers, WorkerExit(w) PROVE StatsAddUp'
    <2>1. \A v \in Workers : workerPC'[v] = "drain" <=> workerPC[v] = "drain"
      BY <1>6 DEF WorkerExit, Inv, TypeOK
    <2>2. Counted' = Counted
      BY <1>6, <2>1 DEF WorkerExit, Counted, Finished, Held, Workers
    <2>. QED
      BY <1>6, <2>2, CountFrame DEF WorkerExit
  <1>7. ASSUME NEW w \in Workers, Deadline(w) PROVE StatsAddUp'
    BY <1>7, CountIdle DEF Deadline
  <1>8. ASSUME NEW w \in Workers, SelectDone(w) \/ DrainDone(w) PROVE StatsAddUp'
    <2> DEFINE t == current[w]
    <2>1. /\ workerPC[w] \in {"select", "drain"} /\ fn[t] \in FnEnded /\ fn' = fn
          /\ workerPC' = [workerPC EXCEPT ![w] = "recv"] /\ current' = [current EXCEPT ![w] = NoTask]
      BY <1>8 DEF SelectDone, DrainDone
    <2>2. t \in Tasks /\ t # NoTask
      BY <2>1 DEF Inv, TypeOK, HoldInv
    <2>3. \A v \in Workers : current[v] = t => v = w
      BY <2>2 DEF Inv, HoldInv
    <2> HIDE DEF t
    <2>4. \A v \in Workers : current'[v] = IF v = w THEN NoTask ELSE current[v]
      BY <2>1 DEF Inv, TypeOK
    <2>5. \A v \in Workers : workerPC'[v] = IF v = w THEN "recv" ELSE workerPC[v]
      BY <2>1 DEF Inv, TypeOK
    <2>6. current[w] = t
      BY DEF t
    <2>7. \A u \in Tasks : Held(u)' <=> Held(u) /\ u # t
      BY <2>3, <2>4, <2>6, PoolAssumption DEF Held, Workers
    <2>8. \A u \in Tasks : Finished(u)' <=> Finished(u) \/ u = t
      BY <2>1, <2>7 DEF Finished
    <2>9. \A u \in Tasks \ {t} : (\E v \in Workers : workerPC'[v] = "drain" /\ current'[v] = u)
                             <=> (\E v \in Workers : workerPC[v] = "drain" /\ current[v] = u)
      BY <2>2, <2>4, <2>5, <2>6, PoolAssumption
    <2>10. Counted' = Counted \cup {t}
      BY <2>2, <2>8, <2>9 DEF Counted, Workers
    <2>11. Held(t)
      BY <2>6 DEF Held
    <2>12. t \in Counted <=> workerPC[w] = "drain"
      BY <2>2, <2>3, <2>6, <2>11 DEF Counted, Finished
    <2>13. CASE SelectDone(w)
      <3>1. t \notin Counted
        BY <2>12, <2>13 DEF SelectDone
      <3>2. completed' + timedOut' = completed + timedOut + 1
        BY <2>13 DEF SelectDone, Inv, TypeOK
      <3>. QED
        BY <2>2, <2>10, <3>1, <3>2, CountOne
    <2>14. CASE DrainDone(w)
      <3>1. Counted' = Counted
        BY <2>10, <2>12, <2>14 DEF DrainDone
      <3>. QED
        BY <2>14, <3>1, CountFrame DEF DrainDone
    <2>. QED
      BY <1>8, <2>13, <2>14
  <1>9. ASSUME NEW w \in Workers, SelectCtx(w) PROVE StatsAddUp'
    <2> DEFINE t == current[w]
    <2>1. workerPC[w] = "select" /\ workerPC' = [workerPC EXCEPT ![w] = "drain"]
          /\ UNCHANGED <<fn, current>>
      BY <1>9 DEF SelectCtx
    <2>2. t \in Tasks /\ t # NoTask
      BY <2>1 DEF Inv, TypeOK, HoldInv
    <2>3. \A v \in Workers : current[v] = t => v = w
      BY <2>2 DEF Inv, HoldInv
    <2> HIDE DEF t
    <2>4. \A v \in Workers : workerPC'[v] = IF v = w THEN "drain" ELSE workerPC[v]
      BY <2>1 DEF Inv, TypeOK
    <2>5. current[w] = t
      BY DEF t
    <2>6. \A u \in Tasks : Finished(u)' <=> Finished(u)
      BY <2>1 DEF Finished, Held, Workers
    <2>7. Counted' = Counted \cup {t}
      BY <2>1, <2>2, <2>4, <2>5, <2>6 DEF Counted, Workers
    <2>8. t \notin Counted
      BY <2>1, <2>3, <2>5 DEF Counted, Finished, Held
    <2>9. completed' + timedOut' = completed + timedOut + 1
      BY <1>9 DEF SelectCtx, Inv, TypeOK
    <2>. QED
      BY <2>2, <2>7, <2>8, <2>9, CountOne
  <1>10. ASSUME NEW c \in Closers, ShutdownLoad(c) \/ CloserStep(c) \/ ShutdownCtxDone(c)
         PROVE StatsAddUp'
    BY <1>10, CountIdle DEF ShutdownLoad, CloserStep, ShutdownMark, ShutdownCancel, CloseTasks,
                            ShutdownDone, ForcedDone, ShutdownCtxDone, CloserGoto
  <1>11. CASE UNCHANGED vars
    BY <1>11, CountIdle DEF vars
  <1>. QED
    BY <1>1, <1>2, <1>3, <1>4, <1>5, <1>6, <1>7, <1>8, <1>9, <1>10, <1>11
    DEF Next, StarterStep, FnStep, WorkerStep

(* Stats() is exact: completed and timed-out tasks add up to the tasks that  *)
(* were executed, although both cases of the select may be ready at once.    *)
THEOREM StatsAreExact == Spec => []StatsAddUp
  <1>1. Init => StatsAddUp
    <2> SUFFICES ASSUME Init PROVE StatsAddUp
      OBVIOUS
    <2>1. Counted = {}
      BY DEF Init, Counted, Finished, FnEnded
    <2>. QED
      BY <2>1, FS_EmptySet DEF Init, StatsAddUp
  <1>2. Inv /\ StatsAddUp /\ [Next]_vars => StatsAddUp'
    BY StatsStep
  <1>. QED
    BY <1>1, <1>2, InvAlways, PTL DEF Spec

-----------------------------------------------------------------------------
(* One call of Start at most launches workers, a task is sent only to a      *)
(* started pool, and the channel is closed only after closing is set.        *)
PhaseInv ==
    /\ \A r, s \in Starters : starterPC[r] \notin {"idle", "error"}
                              /\ starterPC[s] \notin {"idle", "error"} => r = s
    /\ \A s \in Starters : starterPC[s] \in {"launching", "returned"} => started
    /\ \A s \in Starters, i \in 1..PoolSize :
          workerPC[<<s, i>>] # "unborn" => starterPC[s] \in {"launching", "returned"}
    /\ \A t \in Tasks : submitPC[t] = "sending" => started
    /\ \A c \in Closers : closerPC[c] \in {"marked", "cancelled"} => closing

(* Every step keeps PhaseInv when nobody uses the pool during a start. *)
LEMMA PhaseStep ==
  ASSUME SerialStart, TypeOK, PhaseInv, [Next]_vars
  PROVE  PhaseInv'
  <1> USE DEF flags, counters, pcs
  <1>1. ASSUME NEW s \in Starters, StartLoad(s) PROVE PhaseInv'
    <2>1. \A r \in Starters : starterPC[r] \notin {"idle", "error"} => started
      BY <1>1 DEF StartLoad, Serial, StartUnderWay, PhaseInv, TypeOK
    <2>2. \A r \in Starters : starterPC'[r] =
             IF r = s THEN (IF started THEN "error" ELSE "loaded") ELSE starterPC[r]
      BY <1>1 DEF StartLoad, TypeOK
    <2>3. starterPC[s] = "idle"
      BY <1>1 DEF StartLoad
    <2>. QED
      BY <1>1, <2>1, <2>2, <2>3 DEF StartLoad, PhaseInv
  <1>2. ASSUME NEW s \in Starters, StartStore(s) PROVE PhaseInv'
    <2>1. \A r \in Starters : starterPC'[r] = IF r = s THEN "launching" ELSE starterPC[r]
      BY <1>2 DEF StartStore, TypeOK
    <2>. QED
      BY <1>2, <2>1 DEF StartStore, PhaseInv
  <1>3. ASSUME NEW s \in Starters, NEW i \in 1..PoolSize, StartLaunch(s, i) PROVE PhaseInv'
    <2>1. /\ starterPC[s] = "launching"
          /\ starterPC'[s] \in {"launching", "returned"}
          /\ \A r \in Starters \ {s} : starterPC'[r] = starterPC[r]
      BY <1>3 DEF StartLaunch, TypeOK
    <2>2. \A r \in Starters, j \in 1..PoolSize :
             <<r, j>> # <<s, i>> => workerPC'[<<r, j>>] = workerPC[<<r, j>>]
      BY <1>3 DEF StartLaunch, TypeOK, Workers
    <2>. QED
      BY <1>3, <2>1, <2>2 DEF StartLaunch, PhaseInv
  <1>4. ASSUME NEW t \in Tasks, SubmitStep(t) PROVE PhaseInv'
    <2>1. \A u \in Tasks : submitPC'[u] = "sending" => started
      BY <1>4 DEF SubmitStep, SubmitLoadClosing, SubmitLoadStarted, Send, SendFull,
                  SendCtxDone, SendPanic, SubmitGoto, PhaseInv, TypeOK
    <2>2. UNCHANGED <<flags, starterPC, workerPC, closerPC>>
      BY <1>4 DEF SubmitStep, SubmitLoadClosing, SubmitLoadStarted, Send, SendFull,
                  SendCtxDone, SendPanic, SubmitGoto
    <2>. QED
      BY <2>1, <2>2 DEF PhaseInv
  <1>5. ASSUME NEW w \in Workers, WorkerStep(w) PROVE PhaseInv'
    <2>1. \A v \in Workers : workerPC'[v] # "unborn" => workerPC[v] # "unborn"
      BY <1>5 DEF WorkerStep, Receive, WorkerExit, SelectDone, SelectCtx, DrainDone, TypeOK
    <2>2. UNCHANGED <<flags, pcs>>
      BY <1>5 DEF WorkerStep, Receive, WorkerExit, SelectDone, SelectCtx, DrainDone
    <2>. QED
      BY <2>1, <2>2 DEF PhaseInv, Workers
  <1>6. ASSUME NEW c \in Closers, ShutdownLoad(c) \/ CloserStep(c) \/ ShutdownCtxDone(c)
        PROVE PhaseInv'
    <2>1. /\ UNCHANGED <<started, starterPC, submitPC, workerPC>>
          /\ closing => closing'
      BY <1>6 DEF ShutdownLoad, CloserStep, ShutdownMark, ShutdownCancel, CloseTasks,
                  ShutdownDone, ForcedDone, ShutdownCtxDone, CloserGoto
    <2>2. \A d \in Closers : closerPC'[d] \in {"marked", "cancelled"} => closing'
      <3>1. \A d \in Closers \ {c} : closerPC'[d] = closerPC[d]
        BY <1>6 DEF ShutdownLoad, CloserStep, ShutdownMark, ShutdownCancel, CloseTasks,
                    ShutdownDone, ForcedDone, ShutdownCtxDone, CloserGoto, TypeOK
      <3>2. closerPC'[c] \in {"marked", "cancelled"} => closing'
        BY <1>6 DEF ShutdownLoad, CloserStep, ShutdownMark, ShutdownCancel, CloseTasks,
                    ShutdownDone, ForcedDone, ShutdownCtxDone, CloserGoto, TypeOK, PhaseInv
      <3>. QED
        BY <2>1, <3>1, <3>2 DEF PhaseInv
    <2>. QED
      BY <2>1, <2>2 DEF PhaseInv
  <1>7. ASSUME UNCHANGED <<flags, pcs, workerPC>> PROVE PhaseInv'
    BY <1>7 DEF PhaseInv
  <1>8. ASSUME NEW t \in Tasks, FnStep(t) PROVE PhaseInv'
    BY <1>7, <1>8 DEF FnStep, FnReturn, FnPanic
  <1>9. ASSUME NEW w \in Workers, Deadline(w) PROVE PhaseInv'
    BY <1>7, <1>9 DEF Deadline
  <1>10. CASE UNCHANGED vars
    BY <1>7, <1>10 DEF vars
  <1>. QED
    BY <1>1, <1>2, <1>3, <1>4, <1>5, <1>6, <1>8, <1>9, <1>10 DEF Next, StarterStep

(* What TaskPool sees of the pool. *)
Running == {t \in Tasks : Held(t)}
Ended   == {t \in Tasks : Finished(t)}
Refused == {t \in Tasks : submitPC[t] = "refused"}
Phase   == IF closed THEN "closed" ELSE IF closing THEN "closing"
           ELSE IF started THEN "open" ELSE "idle"
Drained == \E c \in Closers : closerPC[c] = "ok"

(* The steps of TaskPool, in terms of what it sees: the phase moves on. *)
LEMMA AdvanceMaps ==
  ASSUME \/ Phase = "idle"    /\ Phase' = "open"
         \/ Phase = "open"    /\ Phase' = "closing"
         \/ Phase = "closing" /\ Phase' = "closed",
         tasks' = tasks, Running' = Running, Ended' = Ended, Refused' = Refused,
         Drained' <=> Drained
  PROVE  Pool!Next
  BY DEF Pool!Next, Pool!Advance, Phase, Running, Ended, Refused, Drained

(* A task joins the queue of a pool that is open or closing. *)
LEMMA AcceptMaps ==
  ASSUME NEW t \in Tasks, Phase \in {"open", "closing"}, ~Queued(t),
         t \notin Running \cup Ended \cup Refused,
         Len(tasks) < QueueSize, tasks' = Append(tasks, t),
         Running' = Running, Ended' = Ended, Refused' = Refused, Phase' = Phase,
         Drained' <=> Drained
  PROVE  Pool!Next
  BY DEF Pool!Next, Pool!Accept, Pool!New, Pool!InQueue, Queued, Phase, Running, Ended, Refused,
         Drained

(* A task is turned away for one of the three reasons. *)
LEMMA RefuseMaps ==
  ASSUME NEW t \in Tasks, ~Queued(t), t \notin Running \cup Ended \cup Refused,
         Phase # "open" \/ Len(tasks) = QueueSize \/ t \in Blocking,
         Refused' = Refused \cup {t},
         tasks' = tasks, Running' = Running, Ended' = Ended, Phase' = Phase,
         Drained' <=> Drained
  PROVE  Pool!Next
  BY DEF Pool!Next, Pool!Refuse, Pool!New, Pool!InQueue, Queued, Phase, Running, Ended, Refused,
         Drained

(* The oldest task starts while fewer than PoolSize run. *)
LEMMA TakeMaps ==
  ASSUME tasks # <<>>, Cardinality(Running) < PoolSize,
         Running' = Running \cup {Head(tasks)}, tasks' = Tail(tasks),
         Ended' = Ended, Refused' = Refused, Phase' = Phase, Drained' <=> Drained
  PROVE  Pool!Next
  <1>1. Pool!Cardinality(Running) = Cardinality(Running)
    BY DEF Pool!Cardinality, Cardinality
  <1>2. Pool!Cardinality(Running) < PoolSize
    BY <1>1
  <1>. QED
    BY <1>2 DEF Pool!Next, Pool!Take, Phase, Running, Ended, Refused, Drained

(* A running task ends. *)
LEMMA FinishMaps ==
  ASSUME NEW t \in Running, Running' = Running \ {t}, Ended' = Ended \cup {t},
         tasks' = tasks, Refused' = Refused, Phase' = Phase, Drained' <=> Drained
  PROVE  Pool!Next
  BY DEF Pool!Next, Pool!Finish, Phase, Running, Ended, Refused, Drained

(* The pool reports that nothing is left. *)
LEMMA DrainMaps ==
  ASSUME Phase = "closed", tasks = <<>>, Running = {}, Drained',
         tasks' = tasks, Running' = Running, Ended' = Ended, Refused' = Refused, Phase' = Phase
  PROVE  Pool!Next
  BY DEF Pool!Next, Pool!Drain, Phase, Running, Ended, Refused, Drained

(* A step TaskPool does not see. *)
LEMMA StutterMaps ==
  ASSUME tasks' = tasks, Running' = Running, Ended' = Ended, Refused' = Refused, Phase' = Phase,
         Drained' <=> Drained
  PROVE  UNCHANGED Pool!poolVars
  BY DEF Pool!poolVars, Phase, Running, Ended, Refused, Drained

-----------------------------------------------------------------------------
(* The view depends on tasks, contents of workers and a few flags. *)
LEMMA ViewFrame ==
  ASSUME Inv
  PROVE  /\ UNCHANGED <<current, fn>> => Running' = Running /\ Ended' = Ended
         /\ UNCHANGED current => Running' = Running
         /\ UNCHANGED submitPC => Refused' = Refused
         /\ UNCHANGED <<started, closing, closed>> => Phase' = Phase
         /\ UNCHANGED closerPC => (Drained' <=> Drained)
  BY DEF Running, Ended, Refused, Phase, Drained, Held, Finished, Workers

(* A task that has not been accepted or refused is new to TaskPool. *)
LEMMA NewTask ==
  ASSUME Inv, NEW t \in Tasks, submitPC[t] \notin {"accepted", "refused"}
  PROVE  ~Queued(t) /\ t \notin Running \cup Ended \cup Refused
  <1>1. ~Accepted(t) /\ t \notin Refused
    BY DEF Accepted, Refused
  <1>2. ~Queued(t) /\ fn[t] = "none"
    BY <1>1 DEF Inv, TypeOK, QueueInv, HoldInv, Queued
  <1>3. ~Held(t) /\ ~Finished(t)
    BY <1>2, PoolAssumption DEF Inv, HoldInv, Held, Finished, FnEnded
  <1>. QED
    BY <1>1, <1>2, <1>3 DEF Running, Ended

(* Start opens the pool. *)
LEMMA StarterRefines ==
  ASSUME Inv, NEW s \in Starters, StarterStep(s)
  PROVE  [Pool!Next]_(Pool!poolVars)
  <1> USE DEF flags, counters, pcs
  <1>1. UNCHANGED <<tasks, current, fn, submitPC, closerPC, closing, closed>>
    BY DEF StarterStep, StartLoad, StartStore, StartLaunch
  <1>2. Running' = Running /\ Ended' = Ended /\ Refused' = Refused /\ (Drained' <=> Drained)
    BY <1>1, ViewFrame
  <1>3. started' = started \/ started' = TRUE
    BY DEF StarterStep, StartLoad, StartStore, StartLaunch
  <1>4. Phase' = Phase \/ (Phase = "idle" /\ Phase' = "open")
    BY <1>1, <1>3 DEF Phase, Inv, TypeOK
  <1>. QED
    BY <1>1, <1>2, <1>4, AdvanceMaps, StutterMaps

(* Submit accepts a task or refuses it for a reason. *)
LEMMA SubmitRefines ==
  ASSUME Inv, PhaseInv, NEW t \in Tasks, SubmitStep(t)
  PROVE  [Pool!Next]_(Pool!poolVars)
  <1> USE DEF flags, counters, pcs
  <1>1. UNCHANGED <<flags, current, fn, closerPC>>
    BY DEF SubmitStep, SubmitLoadClosing, SubmitLoadStarted, Send, SendFull, SendCtxDone,
           SendPanic, SubmitGoto
  <1>2. Running' = Running /\ Ended' = Ended /\ Phase' = Phase /\ (Drained' <=> Drained)
    BY <1>1, ViewFrame
  <1>3. ~Queued(t) /\ t \notin Running \cup Ended \cup Refused
    <2>1. submitPC[t] \notin {"accepted", "refused"}
      BY DEF SubmitStep, SubmitLoadClosing, SubmitLoadStarted, Send, SendFull, SendCtxDone,
             SendPanic
    <2>. QED
      BY <2>1, NewTask
  <1>4. PICK pc : submitPC' = [submitPC EXCEPT ![t] = pc]
    BY DEF SubmitStep, SubmitLoadClosing, SubmitLoadStarted, Send, SendFull, SendCtxDone,
           SendPanic, SubmitGoto
  <1>5. /\ submitPC'[t] = "refused" => Refused' = Refused \cup {t}
        /\ submitPC'[t] # "refused" => Refused' = Refused
    BY <1>3, <1>4 DEF Refused, Inv, TypeOK
  <1>6. CASE Send(t)
    <2>1. submitPC'[t] = "accepted" /\ tasks' = Append(tasks, t) /\ Len(tasks) < QueueSize
      BY <1>6 DEF Send, SubmitGoto, Inv, TypeOK
    <2>2. Phase \in {"open", "closing"}
      BY <1>6 DEF Send, PhaseInv, Phase
    <2>. QED
      BY <1>2, <1>3, <1>5, <2>1, <2>2, AcceptMaps
  <1>7. CASE ~Send(t) /\ submitPC'[t] = "refused"
    <2>1. tasks' = tasks
      BY <1>7 DEF SubmitStep, SubmitLoadClosing, SubmitLoadStarted, SendFull, SendCtxDone, SendPanic
    <2>2. Phase # "open" \/ Len(tasks) = QueueSize \/ t \in Blocking
      <3>1. closing \/ ~started \/ SendFull(t) \/ SendCtxDone(t)
        <4>1. SubmitLoadClosing(t) => closing
          BY <1>7 DEF SubmitLoadClosing, SubmitGoto, Inv, TypeOK
        <4>2. SubmitLoadStarted(t) => ~started
          BY <1>7 DEF SubmitLoadStarted, SubmitGoto, Inv, TypeOK
        <4>3. ~SendPanic(t)
          BY <1>7 DEF SendPanic, SubmitGoto, Inv, TypeOK
        <4>. QED
          BY <1>7, <4>1, <4>2, <4>3 DEF SubmitStep
      <3>2. closing \/ ~started => Phase # "open"
        BY DEF Phase
      <3>3. SendFull(t) => Len(tasks) = QueueSize
        BY PoolAssumption DEF SendFull, Inv, TypeOK
      <3>. QED
        BY <3>1, <3>2, <3>3 DEF SendCtxDone
    <2>. QED
      BY <1>2, <1>3, <1>5, <1>7, <2>1, <2>2, RefuseMaps
  <1>8. CASE ~Send(t) /\ submitPC'[t] # "refused"
    <2>1. tasks' = tasks
      BY <1>8 DEF SubmitStep, SubmitLoadClosing, SubmitLoadStarted, SendFull, SendCtxDone, SendPanic
    <2>. QED
      BY <1>2, <1>5, <1>8, <2>1, StutterMaps
  <1>. QED
    BY <1>6, <1>7, <1>8

(* Some worker is free when it takes a task: the tasks in work are fewer     *)
(* than the workers the one Start has launched.                              *)
LEMMA WorkersBound ==
  ASSUME Inv, PhaseInv, NEW w \in Workers, workerPC[w] = "recv"
  PROVE  Cardinality(Running) < PoolSize
  <1>1. PICK s \in Starters, i \in 1..PoolSize : w = <<s, i>>
    BY DEF Workers
  <1>2. starterPC[s] \in {"launching", "returned"}
    BY <1>1 DEF PhaseInv
  <1>3. \A v \in Workers : current[v] # NoTask => \E j \in (1..PoolSize) \ {i} : v = <<s, j>>
    <2> SUFFICES ASSUME NEW r \in Starters, NEW j \in 1..PoolSize, current[<<r, j>>] # NoTask
                 PROVE  r = s /\ j # i
      BY DEF Workers
    <2>1. <<r, j>> \in Workers /\ workerPC[<<r, j>>] \in {"select", "drain"}
      BY DEF Workers, Inv, HoldInv
    <2>2. starterPC[r] \in {"launching", "returned"}
      BY <2>1 DEF PhaseInv
    <2>3. r = s
      BY <1>2, <2>2 DEF PhaseInv
    <2>. QED
      BY <1>1, <2>1, <2>3
  <1> DEFINE place == [t \in Running |-> CHOOSE j \in (1..PoolSize) \ {i} : current[<<s, j>>] = t]
  <1>4. \A t \in Running : \E j \in (1..PoolSize) \ {i} : current[<<s, j>>] = t
    BY <1>3, PoolAssumption DEF Running, Held
  <1>5. \A t \in Running : place[t] \in (1..PoolSize) \ {i} /\ current[<<s, place[t]>>] = t
    BY <1>4
  <1> HIDE DEF place
  <1>6. place \in [Running -> (1..PoolSize) \ {i}]
    BY <1>5 DEF place
  <1>7. place \in Injection(Running, (1..PoolSize) \ {i})
    BY <1>5, <1>6, Zenon DEF Injection, IsInjective
  <1>8. /\ IsFiniteSet((1..PoolSize) \ {i})
        /\ Cardinality((1..PoolSize) \ {i}) = PoolSize - 1
    <2>1. IsFiniteSet(1..PoolSize) /\ Cardinality(1..PoolSize) = PoolSize
      BY FS_Interval, PoolAssumption
    <2>. QED
      BY <2>1, FS_RemoveElement
  <1>9. /\ IsFiniteSet(Running)
        /\ Cardinality(Running) <= PoolSize - 1
    BY <1>7, <1>8, FS_Injection
  <1>10. Cardinality(Running) \in Nat
    BY <1>9, FS_CardinalityType
  <1>. QED
    BY <1>9, <1>10, PoolAssumption

(* A worker takes the head of the buffer and gives a task back when its      *)
(* function has ended.                                                       *)
LEMMA WorkerRefines ==
  ASSUME Inv, PhaseInv, NEW w \in Workers, WorkerStep(w)
  PROVE  [Pool!Next]_(Pool!poolVars)
  <1> USE DEF flags, counters, pcs
  <1>1. UNCHANGED <<flags, submitPC, closerPC>>
    BY DEF WorkerStep, Receive, WorkerExit, SelectDone, SelectCtx, DrainDone
  <1>2. Refused' = Refused /\ Phase' = Phase /\ (Drained' <=> Drained)
    BY <1>1, ViewFrame
  <1>3. CASE Receive(w)
    <2> DEFINE h == Head(tasks)
    <2>1. tasks # <<>> /\ tasks' = Tail(tasks) /\ Cardinality(Running) < PoolSize
      BY <1>3, WorkersBound DEF Receive
    <2>2. h \in Tasks /\ h = tasks[1] /\ fn[h] = "none" /\ h # NoTask
      BY <1>3, PoolAssumption DEF Receive, Inv, TypeOK, QueueInv
    <2>3. /\ current' = [current EXCEPT ![w] = h] /\ fn' = [fn EXCEPT ![h] = "running"]
          /\ current[w] = NoTask
      BY <1>3 DEF Receive, Inv, TypeOK, HoldInv
    <2> HIDE DEF h
    <2>4. \A v \in Workers : current'[v] = IF v = w THEN h ELSE current[v]
      BY <2>3 DEF Inv, TypeOK
    <2>5. \A u \in Tasks : Held(u)' <=> Held(u) \/ u = h
      BY <2>3, <2>4, PoolAssumption DEF Held, Workers
    <2>6. \A u \in Tasks : Finished(u)' <=> Finished(u)
      BY <2>2, <2>3, <2>5 DEF Finished, FnEnded, Inv, TypeOK
    <2>7. Running' = Running \cup {h} /\ Ended' = Ended
      BY <2>2, <2>5, <2>6 DEF Running, Ended
    <2>. QED
      BY <1>2, <2>1, <2>7, TakeMaps DEF h
  <1>4. CASE SelectDone(w) \/ DrainDone(w)
    <2> DEFINE t == current[w]
    <2>1. /\ workerPC[w] \in {"select", "drain"} /\ fn[t] \in FnEnded /\ fn' = fn
          /\ tasks' = tasks /\ current' = [current EXCEPT ![w] = NoTask]
      BY <1>4 DEF SelectDone, DrainDone
    <2>2. t \in Tasks /\ t # NoTask
      BY <2>1 DEF Inv, TypeOK, HoldInv
    <2>3. \A v \in Workers : current[v] = t => v = w
      BY <2>2 DEF Inv, HoldInv
    <2> HIDE DEF t
    <2>4. \A v \in Workers : current'[v] = IF v = w THEN NoTask ELSE current[v]
      BY <2>1 DEF Inv, TypeOK
    <2>5. current[w] = t
      BY DEF t
    <2>6. \A u \in Tasks : Held(u)' <=> Held(u) /\ u # t
      BY <2>3, <2>4, <2>5, PoolAssumption DEF Held, Workers
    <2>7. \A u \in Tasks : Finished(u)' <=> Finished(u) \/ u = t
      BY <2>1, <2>6 DEF Finished
    <2>8. Held(t)
      BY <2>5 DEF Held
    <2>9. t \in Running /\ Running' = Running \ {t} /\ Ended' = Ended \cup {t}
      BY <2>2, <2>6, <2>7, <2>8 DEF Running, Ended
    <2>. QED
      BY <1>2, <2>1, <2>9, FinishMaps
  <1>5. CASE WorkerExit(w) \/ SelectCtx(w)
    <2>1. UNCHANGED <<tasks, current, fn>>
      BY <1>5 DEF WorkerExit, SelectCtx
    <2>. QED
      BY <1>2, <2>1, ViewFrame, StutterMaps
  <1>. QED
    BY <1>3, <1>4, <1>5 DEF WorkerStep

(* A function that ends is still held by its worker: TaskPool sees nothing. *)
LEMMA FnRefines ==
  ASSUME Inv, NEW t \in Tasks, FnStep(t)
  PROVE  [Pool!Next]_(Pool!poolVars)
  <1> USE DEF flags, counters, pcs
  <1>1. UNCHANGED <<flags, tasks, submitPC, closerPC, current>>
    BY DEF FnStep, FnReturn, FnPanic
  <1>2. /\ Running' = Running /\ Refused' = Refused /\ Phase' = Phase
        /\ (Drained' <=> Drained)
    BY <1>1, ViewFrame
  <1>3. PICK e \in FnEnded : fn' = [fn EXCEPT ![t] = e]
    BY DEF FnStep, FnReturn, FnPanic, FnEnded
  <1>4. Held(t)
    BY DEF FnStep, FnReturn, FnPanic, Inv, HoldInv
  <1>5. \A u \in Tasks : Held(u)' <=> Held(u)
    BY <1>1 DEF Held, Workers
  <1>6. \A u \in Tasks : Finished(u)' <=> Finished(u)
    BY <1>3, <1>4, <1>5 DEF Finished, Inv, TypeOK
  <1>7. Ended' = Ended
    BY <1>6 DEF Ended
  <1>. QED
    BY <1>1, <1>2, <1>7, StutterMaps

(* A shutdown that succeeds finds the pool closed and empty. *)
LEMMA EmptyWhenExited ==
  ASSUME Inv, DrainInv, NEW c \in Closers, closerPC[c] = "waiting", AllExited
  PROVE  closed /\ tasks = <<>> /\ Running = {}
  <1>1. started /\ ~StartUnderWay /\ closed
    BY DEF DrainInv
  <1>2. PICK s \in Starters : starterPC[s] = "returned"
    BY <1>1 DEF DrainInv, StartUnderWay
  <1>3. <<s, 1>> \in Workers /\ workerPC[<<s, 1>>] = "exited"
    BY <1>2, PoolAssumption DEF DrainInv, AllExited, Workers
  <1>4. tasks = <<>>
    BY <1>3 DEF DrainInv
  <1>5. \A t \in Tasks : ~Held(t)
    BY PoolAssumption DEF AllExited, Held, Inv, HoldInv
  <1>. QED
    BY <1>1, <1>4, <1>5 DEF Running

(* A shutdown closes the pool in two moments and reports success when it is  *)
(* drained.                                                                  *)
LEMMA CloserRefines ==
  ASSUME Inv, DrainInv, PhaseInv, NEW c \in Closers,
         ShutdownLoad(c) \/ CloserStep(c) \/ ShutdownCtxDone(c)
  PROVE  [Pool!Next]_(Pool!poolVars)
  <1> USE DEF flags, counters, pcs
  <1>1. UNCHANGED <<started, tasks, current, fn, submitPC>>
    BY DEF ShutdownLoad, CloserStep, ShutdownMark, ShutdownCancel, CloseTasks, ShutdownDone,
           ForcedDone, ShutdownCtxDone, CloserGoto
  <1>2. Running' = Running /\ Ended' = Ended /\ Refused' = Refused
    BY <1>1, ViewFrame
  <1>3. CASE ShutdownDone(c)
    <2>1. UNCHANGED <<started, closing, closed>> /\ closerPC'[c] = "ok"
      BY <1>3 DEF ShutdownDone, CloserGoto, Inv, TypeOK
    <2>2. Phase' = Phase /\ Drained'
      BY <2>1, ViewFrame DEF Drained
    <2>3. closed /\ tasks = <<>> /\ Running = {}
      BY <1>3, EmptyWhenExited DEF ShutdownDone
    <2>4. Phase = "closed"
      BY <2>3 DEF Phase
    <2>. QED
      BY <1>1, <1>2, <2>2, <2>3, <2>4, DrainMaps
  <1>4. ASSUME ~ShutdownDone(c) PROVE Drained' <=> Drained
    <2>1. closerPC[c] # "ok" /\ closerPC'[c] # "ok"
      BY <1>4 DEF ShutdownLoad, CloserStep, ShutdownMark, ShutdownCancel, CloseTasks,
                  ForcedDone, ShutdownCtxDone, CloserGoto, Inv, TypeOK
    <2>2. \A d \in Closers \ {c} : closerPC'[d] = closerPC[d]
      BY DEF ShutdownLoad, CloserStep, ShutdownMark, ShutdownCancel, CloseTasks, ShutdownDone,
             ForcedDone, ShutdownCtxDone, CloserGoto, Inv, TypeOK
    <2>. QED
      BY <2>1, <2>2 DEF Drained
  <1>5. CASE ShutdownMark(c)
    <2>1. closing' /\ closed' = closed /\ started /\ started' = started
      BY <1>5 DEF ShutdownMark, CloserGoto, DrainInv
    <2>2. Phase' = Phase \/ (Phase = "open" /\ Phase' = "closing")
      BY <2>1 DEF Phase
    <2>3. ~ShutdownDone(c)
      BY <1>5 DEF ShutdownMark, ShutdownDone
    <2>. QED
      BY <1>1, <1>2, <1>4, <2>2, <2>3, AdvanceMaps, StutterMaps
  <1>6. CASE CloseTasks(c)
    <2>1. closed' /\ closing /\ closing' = closing /\ started' = started
      BY <1>6 DEF CloseTasks, CloserGoto, PhaseInv
    <2>2. Phase' = Phase \/ (Phase = "closing" /\ Phase' = "closed")
      BY <2>1 DEF Phase
    <2>3. ~ShutdownDone(c)
      BY <1>6 DEF CloseTasks, ShutdownDone
    <2>. QED
      BY <1>1, <1>2, <1>4, <2>2, <2>3, AdvanceMaps, StutterMaps
  <1>7. CASE ShutdownLoad(c) \/ ShutdownCancel(c) \/ ForcedDone(c) \/ ShutdownCtxDone(c)
    <2>1. UNCHANGED <<started, closing, closed>>
      BY <1>7 DEF ShutdownLoad, ShutdownCancel, ForcedDone, ShutdownCtxDone, CloserGoto
    <2>2. Phase' = Phase
      BY <2>1, ViewFrame
    <2>. QED
      BY <1>1, <1>2, <1>3, <1>4, <2>2, StutterMaps
  <1>. QED
    BY <1>3, <1>5, <1>6, <1>7 DEF CloserStep

(* Every step of the pool is a step of TaskPool or invisible to it. *)
LEMMA RefinesStep ==
  ASSUME Inv, DrainInv, PhaseInv, [Next]_vars
  PROVE  [Pool!Next]_(Pool!poolVars)
  <1> USE DEF flags, counters, pcs
  <1>1. ASSUME UNCHANGED <<flags, tasks, current, fn, submitPC, closerPC>>
        PROVE  UNCHANGED Pool!poolVars
    BY <1>1, ViewFrame, StutterMaps
  <1>2. ASSUME NEW w \in Workers, Deadline(w) PROVE UNCHANGED Pool!poolVars
    BY <1>1, <1>2 DEF Deadline
  <1>3. CASE UNCHANGED vars
    BY <1>1, <1>3 DEF vars
  <1>. QED
    BY <1>2, <1>3, StarterRefines, SubmitRefines, FnRefines, WorkerRefines, CloserRefines DEF Next

(* The worker pool of workerpool/pool.go implements TaskPool, with any       *)
(* number of tasks, workers and shutdown calls, provided nobody uses it      *)
(* while Start is launching its workers: tasks are handed out in the order   *)
(* they were accepted, at most PoolSize at a time, each accepted one is run  *)
(* once, a refusal has its reason, and a shutdown that succeeds has drained  *)
(* the pool.                                                                 *)
THEOREM PoolRefinesTaskPool ==
  ASSUME SerialStart
  PROVE  Spec => ImplementsTaskPool
  <1>1. Init => Pool!Init
    <2> SUFFICES ASSUME Init PROVE Pool!Init
      OBVIOUS
    <2>1. \A t \in Tasks : ~Held(t) /\ ~Finished(t) /\ submitPC[t] # "refused"
      BY PoolAssumption DEF Init, Held, Finished, FnEnded
    <2>2. ~(\E c \in Closers : closerPC[c] = "ok")
      BY DEF Init
    <2>. QED
      BY <2>1, <2>2 DEF Init, Pool!Init
  <1>2. Init => DrainInv /\ PhaseInv
    <2>1. Init => DrainInv
      BY PoolAssumption DEF Init, DrainInv
    <2>2. \A s \in Starters, i \in 1..PoolSize : <<s, i>> \in Workers
      BY DEF Workers
    <2>3. Init => PhaseInv
      BY <2>2 DEF Init, PhaseInv
    <2>. QED
      BY <2>1, <2>3
  <1>3. TypeOK /\ DrainInv /\ [Next]_vars => DrainInv'
    BY DrainStep
  <1>4. TypeOK /\ PhaseInv /\ [Next]_vars => PhaseInv'
    BY PhaseStep
  <1>5. Inv /\ DrainInv /\ PhaseInv /\ [Next]_vars => [Pool!Next]_(Pool!poolVars)
    BY RefinesStep
  <1>. QED
    BY <1>1, <1>2, <1>3, <1>4, <1>5, InvAlways, TypeCorrect, PTL
    DEF Spec, ImplementsTaskPool, Pool!Spec

=============================================================================
