-------------------------------- MODULE Runs --------------------------------
(***************************************************************************)
(* Assistant runs and the agent loop: CreateRun and CancelRun of           *)
(* handler/assistants.go with the handlers that change the thread under a  *)
(* run, and AgentRun and runAgentLoop of handler/agents.go.                *)
(*                                                                         *)
(* One assistant and one thread; rows of other threads are never touched.  *)
(* A call of Calls is either POST /v1/threads/{id}/runs or                 *)
(* POST /v1/agents/run, which goes through the same loop and stores        *)
(* nothing.  Each SQL statement, each call of the router and each          *)
(* tool execution is a step.  A statement or a router call fails once the  *)
(* context of its request has ended; up to MaxFaults statements fail for   *)
(* other reasons.  A message is its role, the number of tool calls it      *)
(* makes, whether it has any text and who wrote it.                        *)
(***************************************************************************)
EXTENDS Integers, Sequences, FiniteSets

CONSTANTS
    Calls,          \* the calls, one handler goroutine each
    Requested,      \* the values of max_iterations a client may send
    DefaultIter,    \* defaultMaxIterations
    HardCap,        \* the cap of the loop
    MaxToolCalls,   \* bound: tool calls in one answer of the model
    MaxPosted,      \* bound: messages posted to the thread
    MaxFaults       \* bound: statements that fail

ASSUME RunsAssumption ==
    /\ Requested \subseteq Int
    /\ HardCap \in Nat \ {0} /\ DefaultIter \in 1..HardCap
    /\ MaxToolCalls \in Nat /\ MaxPosted \in Nat /\ MaxFaults \in Nat

VARIABLES
    assistant,   \* the assistant's row exists
    thread,      \* the thread: "none", "exists" or "deleted"
    posted,      \* how many messages clients have posted
    stored,      \* thread_messages, in the order of created_at
    status,      \* runs.status ("none": no row)
    pc,          \* where each handler is
    kind,        \* which handler it is: CreateRun ("run") or AgentRun ("agent")
    messages,    \* the conversation a handler works with
    maxIter,     \* the number of iterations a call may make
    iteration,   \* the loop variable
    steps,       \* len(steps)
    toolsLeft,   \* the tool calls of the latest answer that were not executed yet
    finish,      \* finalFinishReason
    ctxDone,     \* the request context of a call has ended
    faults

tables == <<assistant, thread, posted, stored, status>>
loop   == <<messages, maxIter, iteration, steps, toolsLeft, finish>>
vars   == <<tables, pc, kind, loop, ctxDone, faults>>

Message(role, calls, text) == [role |-> role, calls |-> calls, text |-> text]
Posted(role, text) == Message(role, 0, text)

Init ==
    /\ assistant = FALSE /\ thread = "none" /\ posted = 0 /\ stored = <<>>
    /\ status = [r \in Calls |-> "none"]
    /\ pc = [r \in Calls |-> "idle"]
    /\ kind = [r \in Calls |-> "none"]
    /\ messages = [r \in Calls |-> <<>>]
    /\ maxIter = [r \in Calls |-> DefaultIter]
    /\ iteration = [r \in Calls |-> 1]
    /\ steps = [r \in Calls |-> 0]
    /\ toolsLeft = [r \in Calls |-> 0]
    /\ finish = [r \in Calls |-> "stop"]
    /\ ctxDone = [r \in Calls |-> FALSE]
    /\ faults = 0

Fault == faults < MaxFaults /\ faults' = faults + 1
ExecOK(r) == ~ctxDone[r] /\ UNCHANGED faults
ExecFails(r) == (ctxDone[r] /\ UNCHANGED faults) \/ Fault
Goto(r, l) == pc' = [pc EXCEPT ![r] = l]

-----------------------------------------------------------------------------
(* The other handlers of the assistants API *)

CreateAssistant ==
    /\ ~assistant /\ assistant' = TRUE
    /\ UNCHANGED <<thread, posted, stored, status, pc, kind, loop, ctxDone, faults>>

DeleteAssistant ==
    /\ assistant /\ assistant' = FALSE
    /\ UNCHANGED <<thread, posted, stored, status, pc, kind, loop, ctxDone, faults>>

(* With or without an initial message, whose text nobody checks and whose   *)
(* insert may fail unnoticed.                                               *)
CreateThread ==
    /\ thread = "none" /\ thread' = "exists"
    /\ \E initial \in {<<>>, <<Posted("user", TRUE)>>, <<Posted("user", FALSE)>>} :
          stored' = initial
    /\ UNCHANGED <<assistant, posted, status, pc, kind, loop, ctxDone, faults>>

(* The messages and the runs of the thread go with it (ON DELETE CASCADE). *)
DeleteThread ==
    /\ thread = "exists" /\ thread' = "deleted"
    /\ stored' = <<>>
    /\ status' = [r \in Calls |-> "none"]
    /\ UNCHANGED <<assistant, posted, pc, kind, loop, ctxDone, faults>>

(* The insert decides: it needs the thread the handler has looked for. *)
CreateMessage ==
    /\ thread = "exists" /\ posted < MaxPosted
    /\ \E role \in {"user", "system"} : stored' = Append(stored, Posted(role, TRUE))
    /\ posted' = posted + 1
    /\ UNCHANGED <<assistant, thread, status, pc, kind, loop, ctxDone, faults>>

-----------------------------------------------------------------------------
(* CreateRun, up to the agent loop *)

LoadAssistant(r) ==
    /\ pc[r] = "idle"
    /\ kind' = [kind EXCEPT ![r] = "run"]
    /\ \/ assistant /\ ExecOK(r) /\ Goto(r, "insert")
       \/ ~assistant /\ ExecOK(r) /\ Goto(r, "error")
       \/ ExecFails(r) /\ Goto(r, "error")
    /\ UNCHANGED <<tables, loop, ctxDone>>

(* runs.thread_id references threads. *)
InsertRun(r) ==
    /\ pc[r] = "insert"
    /\ \/ /\ thread = "exists" /\ ExecOK(r)
          /\ status' = [status EXCEPT ![r] = "queued"]
          /\ Goto(r, "load")
       \/ /\ (thread # "exists" /\ ExecOK(r)) \/ ExecFails(r)
          /\ Goto(r, "error") /\ UNCHANGED status
    /\ UNCHANGED <<assistant, thread, posted, stored, loop, kind, ctxDone>>

Without(s, i) == SubSeq(s, 1, i - 1) \o SubSeq(s, i + 1, Len(s))

(* The instructions, if any, go first; a row that cannot be scanned is      *)
(* skipped.  When the query fails the handler returns and the run is left   *)
(* as it is.                                                                *)
LoadMessages(r) ==
    /\ pc[r] = "load"
    /\ \/ /\ ~ctxDone[r]
          /\ \E system \in {<<>>, <<Posted("system", TRUE)>>} :
                \/ messages' = [messages EXCEPT ![r] = system \o stored] /\ UNCHANGED faults
                \/ /\ Fault
                   /\ \E i \in 1..Len(stored) :
                         messages' = [messages EXCEPT ![r] = system \o Without(stored, i)]
          /\ Goto(r, "loaded")
       \/ ExecFails(r) /\ Goto(r, "error") /\ UNCHANGED messages
    /\ UNCHANGED <<tables, maxIter, iteration, steps, toolsLeft, finish, kind, ctxDone>>

NoMessages(s) == s = <<>> \/ (Len(s) = 1 /\ s[1].role = "system")

(* An unconditional UPDATE of the run's status, its error ignored; it       *)
(* changes nothing when the row is gone.                                    *)
SetStatus(r, value) ==
    \/ /\ ExecOK(r)
       /\ status' = [status EXCEPT ![r] = IF @ = "none" THEN @ ELSE value]
    \/ ExecFails(r) /\ UNCHANGED status

FailEmpty(r) ==
    /\ pc[r] = "loaded" /\ NoMessages(messages[r])
    /\ SetStatus(r, "failed")
    /\ Goto(r, "error")
    /\ UNCHANGED <<assistant, thread, posted, stored, loop, kind, ctxDone>>

MarkInProgress(r) ==
    /\ pc[r] = "loaded" /\ ~NoMessages(messages[r])
    /\ SetStatus(r, "in_progress")
    /\ Goto(r, "resolve")
    /\ UNCHANGED <<assistant, thread, posted, stored, loop, kind, ctxDone>>

-----------------------------------------------------------------------------
(* The agent loop *)

(* AgentRun validates its request, which brings its own conversation. *)
StartAgent(r) ==
    /\ pc[r] = "idle"
    /\ kind' = [kind EXCEPT ![r] = "agent"]
    /\ \E n \in Requested :
          maxIter' = [maxIter EXCEPT ![r] =
                         IF n <= 0 THEN DefaultIter ELSE IF n > HardCap THEN HardCap ELSE n]
    /\ messages' = [messages EXCEPT ![r] = <<Posted("user", TRUE)>>]
    /\ Goto(r, "resolve")
    /\ UNCHANGED <<tables, iteration, steps, toolsLeft, finish, ctxDone, faults>>

AfterError(r) == IF kind[r] = "agent" THEN "error" ELSE "failing"
AfterLoop(r) == IF kind[r] = "agent" THEN "returned" ELSE "reply"

ResolveProvider(r) ==
    /\ pc[r] = "resolve"
    /\ Goto(r, "chat") \/ Goto(r, AfterError(r))
    /\ UNCHANGED <<tables, loop, kind, ctxDone, faults>>

ChatFails(r) ==
    /\ pc[r] = "chat"
    /\ Goto(r, AfterError(r))
    /\ UNCHANGED <<tables, loop, kind, ctxDone, faults>>

(* The provider answers without a choice: the loop ends with what it has. *)
ChatNoChoice(r) ==
    /\ pc[r] = "chat" /\ ~ctxDone[r]
    /\ Goto(r, AfterLoop(r))
    /\ UNCHANGED <<tables, loop, kind, ctxDone, faults>>

(* An answer without tool calls is the last one. *)
ChatFinal(r) ==
    /\ pc[r] = "chat" /\ ~ctxDone[r]
    /\ \E text \in BOOLEAN :
          messages' = [messages EXCEPT ![r] = Append(@, Message("assistant", 0, text))]
    /\ \E reason \in {"stop", "tool_calls"} : finish' = [finish EXCEPT ![r] = reason]
    /\ steps' = [steps EXCEPT ![r] = @ + 1]
    /\ Goto(r, AfterLoop(r))
    /\ UNCHANGED <<tables, maxIter, iteration, toolsLeft, kind, ctxDone, faults>>

(* The text next to tool calls is passed on and never looked at. *)
ChatToolCalls(r) ==
    /\ pc[r] = "chat" /\ ~ctxDone[r]
    /\ \E n \in 1..MaxToolCalls :
          /\ messages' = [messages EXCEPT ![r] = Append(@, Message("assistant", n, FALSE))]
          /\ toolsLeft' = [toolsLeft EXCEPT ![r] = n]
    /\ finish' = [finish EXCEPT ![r] = "tool_calls"]
    /\ Goto(r, "tools")
    /\ UNCHANGED <<tables, maxIter, iteration, steps, kind, ctxDone, faults>>

(* Fault: the tool calls after the first one are passed over. *)
ExecuteFirstToolCall(r) ==
    /\ pc[r] = "tools" /\ toolsLeft[r] > 0
    /\ messages' = [messages EXCEPT ![r] = Append(@, Message("tool", 0, TRUE))]
    /\ toolsLeft' = [toolsLeft EXCEPT ![r] = 0]
    /\ UNCHANGED <<tables, pc, kind, maxIter, iteration, steps, finish, ctxDone, faults>>

(* A tool that is unknown or fails has an error message for a result. *)
ExecuteToolCall(r) ==
    /\ pc[r] = "tools" /\ toolsLeft[r] > 0
    /\ messages' = [messages EXCEPT ![r] = Append(@, Message("tool", 0, TRUE))]
    /\ toolsLeft' = [toolsLeft EXCEPT ![r] = @ - 1]
    /\ UNCHANGED <<tables, pc, kind, maxIter, iteration, steps, finish, ctxDone, faults>>

EndIteration(r) ==
    /\ pc[r] = "tools" /\ toolsLeft[r] = 0
    /\ steps' = [steps EXCEPT ![r] = @ + 1]
    /\ iteration' = [iteration EXCEPT ![r] = @ + 1]
    /\ IF iteration[r] = maxIter[r]
       THEN finish' = [finish EXCEPT ![r] = "max_iterations"] /\ Goto(r, AfterLoop(r))
       ELSE Goto(r, "chat") /\ UNCHANGED finish
    /\ UNCHANGED <<tables, messages, maxIter, toolsLeft, kind, ctxDone, faults>>

-----------------------------------------------------------------------------
(* CreateRun, after the agent loop *)

(* Fault: the run is left as it is when the loop has failed. *)
FailRunSilently(r) ==
    /\ pc[r] = "failing"
    /\ Goto(r, "error")
    /\ UNCHANGED <<tables, loop, kind, ctxDone, faults>>

FailRun(r) ==
    /\ pc[r] = "failing"
    /\ SetStatus(r, "failed")
    /\ Goto(r, "error")
    /\ UNCHANGED <<assistant, thread, posted, stored, loop, kind, ctxDone>>

FinalMessage(r) == messages[r][Len(messages[r])]

(* The final message is stored as the assistant's reply if it has any text; *)
(* the insert needs the thread, and its error is ignored.                   *)
SaveReply(r) ==
    /\ pc[r] = "reply"
    /\ \/ /\ FinalMessage(r).text /\ thread = "exists" /\ ExecOK(r)
          /\ stored' = Append(stored, Message("assistant", 0, TRUE))
       \/ /\ ~FinalMessage(r).text \/ (thread # "exists" /\ ~ctxDone[r])
          /\ UNCHANGED <<stored, faults>>
       \/ FinalMessage(r).text /\ ExecFails(r) /\ UNCHANGED stored
    /\ Goto(r, "complete")
    /\ UNCHANGED <<assistant, thread, posted, status, loop, kind, ctxDone>>

CompleteRun(r) ==
    /\ pc[r] = "complete"
    /\ SetStatus(r, "completed")
    /\ Goto(r, "returned")
    /\ UNCHANGED <<assistant, thread, posted, stored, loop, kind, ctxDone>>

(* Fault: any run can be cancelled. *)
CancelAnyRun(r) ==
    /\ status[r] # "none"
    /\ status' = [status EXCEPT ![r] = "cancelled"]
    /\ UNCHANGED <<assistant, thread, posted, stored, pc, kind, loop, ctxDone, faults>>

(* CancelRun, by a client that has read the id with ListRuns. *)
CancelRun(r) ==
    /\ status[r] \in {"queued", "in_progress"}
    /\ status' = [status EXCEPT ![r] = "cancelled"]
    /\ UNCHANGED <<assistant, thread, posted, stored, pc, kind, loop, ctxDone, faults>>

(* The client goes away while its request is handled. *)
CtxDone(r) ==
    /\ pc[r] \notin {"idle", "returned", "error"} /\ ~ctxDone[r]
    /\ ctxDone' = [ctxDone EXCEPT ![r] = TRUE]
    /\ UNCHANGED <<tables, pc, kind, loop, faults>>

Chat(r) == ChatFails(r) \/ ChatNoChoice(r) \/ ChatFinal(r) \/ ChatToolCalls(r)

Step(r) ==
    \/ InsertRun(r) \/ LoadMessages(r) \/ FailEmpty(r) \/ MarkInProgress(r)
    \/ ResolveProvider(r) \/ Chat(r) \/ ExecuteToolCall(r) \/ EndIteration(r)
    \/ FailRun(r) \/ SaveReply(r) \/ CompleteRun(r)

Next ==
    \/ CreateAssistant \/ DeleteAssistant \/ CreateThread \/ DeleteThread \/ CreateMessage
    \/ \E r \in Calls : StartAgent(r) \/ LoadAssistant(r) \/ Step(r) \/ CancelRun(r) \/ CtxDone(r)

Spec == Init /\ [][Next]_vars

(* A handler that was called runs on: statements, provider calls and tools  *)
(* return.                                                                  *)
FairSpec == Spec /\ \A r \in Calls : WF_vars(Step(r))

-----------------------------------------------------------------------------
(* Properties *)

Ended == {"completed", "failed", "cancelled"}

TypeOK ==
    /\ assistant \in BOOLEAN /\ thread \in {"none", "exists", "deleted"}
    /\ posted \in 0..MaxPosted
    /\ status \in [Calls -> {"none", "queued", "in_progress"} \cup Ended]
    /\ pc \in [Calls -> {"idle", "insert", "load", "loaded", "resolve", "chat", "tools",
                         "failing", "reply", "complete", "returned", "error"}]
    /\ kind \in [Calls -> {"none", "run", "agent"}]
    /\ maxIter \in [Calls -> 1..HardCap]
    /\ iteration \in [Calls -> 1..(HardCap + 1)]
    /\ steps \in [Calls -> 0..HardCap]
    /\ toolsLeft \in [Calls -> 0..MaxToolCalls]
    /\ finish \in [Calls -> {"stop", "tool_calls", "max_iterations"}]
    /\ ctxDone \in [Calls -> BOOLEAN] /\ faults \in 0..MaxFaults

(* Whenever the conversation is sent to the model, each answer with tool     *)
(* calls is followed by one result for each of them and nothing else, which  *)
(* is what the chat APIs demand of a history.                                *)
ToolCallsAnswered ==
    \A r \in Calls : pc[r] = "chat" =>
        LET m == messages[r] IN
        \A i \in 1..Len(m) : m[i].calls > 0 =>
            /\ i + m[i].calls <= Len(m)
            /\ \A j \in (i + 1)..(i + m[i].calls) : m[j].role = "tool"
            /\ i + m[i].calls < Len(m) => m[i + m[i].calls + 1].role # "tool"

LoopEnded(r) == pc[r] \in {"reply", "complete", "returned"}

(* The loop reports "max_iterations" exactly when it was cut short by the    *)
(* limit, the clamped one: the last thing in the conversation is then the    *)
(* result of a tool of the last iteration.                                   *)
LimitReported ==
    \A r \in Calls : LoopEnded(r) =>
        (finish[r] = "max_iterations"
           <=> steps[r] = maxIter[r] /\ FinalMessage(r).role = "tool")

(* The agent loop keeps the protocol of tool calls and its own limit.        *)
LoopInv == TypeOK /\ ToolCallsAnswered /\ LimitReported

(* A run that has completed or failed keeps that status until its thread is  *)
(* deleted: no late cancellation changes it.                                 *)
EndedRunStays ==
    [][\A r \in Calls : status[r] \in {"completed", "failed"}
          => status'[r] \in {status[r], "none"}]_vars

(* A run whose client waits for the answer ends, unless a statement fails:   *)
(* the agent loop comes to an end and its outcome reaches the table.         *)
RunEndsIfContextLives ==
    \A r \in Calls : [](~ctxDone[r] /\ faults = 0) =>
        (status[r] \in {"queued", "in_progress"} ~> status[r] \in Ended \cup {"none"})

=============================================================================
