------------------------------ MODULE TaskPool ------------------------------
(***************************************************************************)
(* What a worker pool promises its callers, without goroutines, channels   *)
(* or program counters: tasks are accepted into a bounded FIFO queue, at   *)
(* most NumWorkers of them run at a time, every accepted task is run once, *)
(* a task is refused only for a reason, and once the pool reports that it  *)
(* is drained nothing runs or waits any more.  WorkerPool implements this  *)
(* specification; Batch is built on it.                                    *)
(***************************************************************************)
EXTENDS Integers, Sequences, FiniteSets

CONSTANTS
    Tasks,       \* the tasks that may be submitted
    Blocking,    \* the tasks whose submitter waits for room until its context ends
    NumWorkers,  \* how many tasks may run at a time
    QueueSize    \* how many accepted tasks may wait

VARIABLES
    queue,    \* the accepted tasks that wait, oldest first
    running,  \* the tasks that run
    ended,    \* the tasks that have run
    refused,  \* the tasks that were turned away
    phase,    \* "idle" -> "open" -> "closing" -> "closed"
    drained   \* the pool has reported that all its work is done

poolVars == <<queue, running, ended, refused, phase, drained>>

InQueue(t) == \E i \in 1..Len(queue) : queue[i] = t
New(t) == ~InQueue(t) /\ t \notin running \cup ended \cup refused

Init ==
    /\ queue = <<>>
    /\ running = {} /\ ended = {} /\ refused = {}
    /\ phase = "idle" /\ drained = FALSE

(* Start, then the two moments of a shutdown. *)
Advance ==
    /\ \/ phase = "idle"    /\ phase' = "open"
       \/ phase = "open"    /\ phase' = "closing"
       \/ phase = "closing" /\ phase' = "closed"
    /\ UNCHANGED <<queue, running, ended, refused, drained>>

Accept(t) ==
    /\ New(t) /\ phase \in {"open", "closing"}
    /\ Len(queue) < QueueSize
    /\ queue' = Append(queue, t)
    /\ UNCHANGED <<running, ended, refused, phase, drained>>

Refuse(t) ==
    /\ New(t)
    /\ phase # "open" \/ Len(queue) = QueueSize \/ t \in Blocking
    /\ refused' = refused \cup {t}
    /\ UNCHANGED <<queue, running, ended, phase, drained>>

Take ==
    /\ queue # <<>> /\ Cardinality(running) < NumWorkers
    /\ running' = running \cup {Head(queue)}
    /\ queue' = Tail(queue)
    /\ UNCHANGED <<ended, refused, phase, drained>>

Finish(t) ==
    /\ t \in running
    /\ running' = running \ {t}
    /\ ended' = ended \cup {t}
    /\ UNCHANGED <<queue, refused, phase, drained>>

Drain ==
    /\ phase = "closed" /\ queue = <<>> /\ running = {}
    /\ drained' = TRUE
    /\ UNCHANGED <<queue, running, ended, refused, phase>>

Next ==
    \/ Advance \/ Take \/ Drain
    \/ \E t \in Tasks : Accept(t) \/ Refuse(t) \/ Finish(t)

Spec == Init /\ [][Next]_poolVars
=============================================================================
