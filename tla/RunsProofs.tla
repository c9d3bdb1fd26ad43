----------------------------- MODULE RunsProofs -----------------------------
(***************************************************************************)
(* Proofs about Runs, for any number of calls, iterations, tool calls,     *)
(* posted messages and failing statements.  RunsIInv is inductive; LoopInv *)
(* follows from it, and every step from a state with it keeps the status   *)
(* of a run that has ended.                                                *)
(***************************************************************************)
EXTENDS Runs, SequenceTheorems, TLAPS

Roles == {"user", "system", "assistant", "tool"}
Messages == [role : Roles, calls : 0..MaxToolCalls, text : BOOLEAN]

(* What is stored in a thread makes no tool calls. *)
Plain == [role : Roles, calls : {0}, text : BOOLEAN]

Shape == TypeOK /\ messages \in [Calls -> Seq(Messages)] /\ stored \in Seq(Plain)

(* The answers in m are followed by their results, but for the last left     *)
(* results of the latest one.                                                *)
Followed(m, left) ==
    \A i \in 1..Len(m) : m[i].calls > 0 =>
        /\ \A j \in (i + 1)..(i + m[i].calls) : j <= Len(m) => m[j].role = "tool"
        /\ i + m[i].calls < Len(m) => m[i + m[i].calls + 1].role # "tool"
        /\ i + m[i].calls < Len(m) \/ i + m[i].calls = Len(m) + left

BeforeLoop == {"idle", "insert", "load", "loaded", "resolve"}

(* Where the loop of a call is: the iteration under way is the one after the *)
(* steps made, and within the limit.                                         *)
Counts(r) ==
    /\ pc[r] \in BeforeLoop => iteration[r] = 1 /\ steps[r] = 0 /\ toolsLeft[r] = 0
    /\ pc[r] \in {"chat", "tools"} => iteration[r] <= maxIter[r] /\ steps[r] = iteration[r] - 1
    /\ pc[r] = "chat" => toolsLeft[r] = 0
    /\ pc[r] \in BeforeLoop \cup {"chat", "tools"} => finish[r] # "max_iterations"
    /\ pc[r] = "tools" => /\ Len(messages[r]) > 0
                          /\ toolsLeft[r] = 0 => FinalMessage(r).role = "tool"
    /\ LoopEnded(r) => (finish[r] = "max_iterations"
                          <=> steps[r] = maxIter[r] /\ FinalMessage(r).role = "tool")

(* A run ends with its handler. *)
EndsLast(r) == status[r] \in {"completed", "failed"} => pc[r] \in {"returned", "error"}

LoopOf(r) == Followed(messages[r], toolsLeft[r]) /\ Counts(r) /\ EndsLast(r)

RunsIInv == Shape /\ \A r \in Calls : LoopOf(r)

-----------------------------------------------------------------------------
(* Conversations *)

(* What Append does. *)
LEMMA Appended ==
    ASSUME NEW S, NEW m \in Seq(S), NEW x \in S
    PROVE  /\ Append(m, x) \in Seq(S) /\ Len(m) \in Nat /\ Len(Append(m, x)) = Len(m) + 1
           /\ Append(m, x)[Len(m) + 1] = x
           /\ \A i \in 1..Len(m) : Append(m, x)[i] = m[i]
  OBVIOUS

(* A message that is stored is a message. *)
LEMMA PlainMessages ==
    ASSUME NEW m \in Seq(Plain)
    PROVE  m \in Seq(Messages) /\ Followed(m, 0)
  <1>1. Len(m) \in Nat /\ m \in [1..Len(m) -> Plain]
    BY LenProperties
  <1>2. \A x \in Plain : x \in Messages /\ x.calls = 0
    BY RunsAssumption DEF Plain, Messages
  <1>3. m \in [1..Len(m) -> Messages]
    BY <1>1, <1>2
  <1>4. m \in Seq(Messages)
    BY <1>1, <1>3, SeqDef
  <1>5. \A i \in 1..Len(m) : m[i].calls = 0
    BY <1>1, <1>2
  <1>6. Followed(m, 0)
    BY <1>5 DEF Followed
  <1> QED BY <1>4, <1>6

(* The result of one more tool call. *)
LEMMA FollowedResult ==
    ASSUME NEW m \in Seq(Messages), NEW left \in Nat, left > 0, Followed(m, left)
    PROVE  /\ Append(m, Message("tool", 0, TRUE)) \in Seq(Messages)
           /\ Followed(Append(m, Message("tool", 0, TRUE)), left - 1)
  <1> DEFINE x == Message("tool", 0, TRUE)
             n == Append(m, x)
  <1>1. x \in Messages /\ x.calls = 0 /\ x.role = "tool"
    BY RunsAssumption DEF Message, Messages, Roles
  <1> HIDE DEF x
  <1>2. /\ n \in Seq(Messages) /\ Len(m) \in Nat /\ Len(n) = Len(m) + 1 /\ n[Len(m) + 1] = x
        /\ \A i \in 1..Len(m) : n[i] = m[i]
    BY <1>1, Appended
  <1> HIDE DEF n
  <1>3. ASSUME NEW i \in 1..Len(n), n[i].calls > 0
        PROVE  /\ \A j \in (i + 1)..(i + n[i].calls) : j <= Len(n) => n[j].role = "tool"
               /\ i + n[i].calls < Len(n) => n[i + n[i].calls + 1].role # "tool"
               /\ i + n[i].calls < Len(n) \/ i + n[i].calls = Len(n) + (left - 1)
    <2>1. i \in 1..Len(m) /\ n[i] = m[i] /\ m[i].calls \in Nat /\ m[i].calls > 0
      <3>1. i # Len(m) + 1
        BY <1>1, <1>2, <1>3
      <3>2. i \in 1..Len(m)
        BY <1>2, <3>1
      <3>3. m[i] \in Messages
        BY <3>2
      <3> QED BY <1>2, <1>3, <3>2, <3>3, RunsAssumption DEF Messages
    <2>2. /\ \A j \in (i + 1)..(i + m[i].calls) : j <= Len(m) => m[j].role = "tool"
          /\ i + m[i].calls < Len(m) => m[i + m[i].calls + 1].role # "tool"
          /\ i + m[i].calls < Len(m) \/ i + m[i].calls = Len(m) + left
      BY <2>1 DEF Followed
    <2> DEFINE c == m[i].calls
    <2>3. c \in Nat /\ i \in Nat /\ i >= 1 /\ n[i].calls = c
      BY <2>1
    <2>4. \A j \in (i + 1)..(i + c) : j <= Len(n) => n[j].role = "tool"
      <3> TAKE j \in (i + 1)..(i + c)
      <3>1. CASE j <= Len(m)
        BY <1>2, <2>2, <2>3, <3>1
      <3>2. CASE j = Len(m) + 1
        BY <1>1, <1>2, <3>2
      <3> QED BY <1>2, <2>3, <3>1, <3>2
    <2>5. i + c < Len(m) => i + c + 1 \in 1..Len(m)
      BY <1>2, <2>3
    <2>6. i + c < Len(n) => i + c < Len(m)
      <3> HIDE DEF c
      <3> QED BY <1>2, <2>2, <2>3 DEF c
    <2>7. i + c < Len(n) => n[i + c + 1].role # "tool"
      BY <1>2, <2>2, <2>5, <2>6
    <2>8. i + c < Len(n) \/ i + c = Len(n) + (left - 1)
      BY <1>2, <2>2, <2>3
    <2> QED BY <2>3, <2>4, <2>7, <2>8
  <1>4. Followed(n, left - 1)
    BY <1>3 DEF Followed
  <1> QED BY <1>2, <1>4 DEF n, x

(* One more answer, with any number of tool calls. *)
LEMMA FollowedAnswer ==
    ASSUME NEW m \in Seq(Messages), Followed(m, 0), NEW k \in 0..MaxToolCalls, NEW text \in BOOLEAN
    PROVE  /\ Append(m, Message("assistant", k, text)) \in Seq(Messages)
           /\ Followed(Append(m, Message("assistant", k, text)), k)
  <1> DEFINE x == Message("assistant", k, text)
             n == Append(m, x)
  <1>1. x \in Messages /\ x.calls = k /\ x.role = "assistant" /\ k \in Nat
    BY RunsAssumption DEF Message, Messages, Roles
  <1> HIDE DEF x
  <1>2. /\ n \in Seq(Messages) /\ Len(m) \in Nat /\ Len(n) = Len(m) + 1 /\ n[Len(m) + 1] = x
        /\ \A i \in 1..Len(m) : n[i] = m[i]
    BY <1>1, Appended
  <1> HIDE DEF n
  <1>3. ASSUME NEW i \in 1..Len(n), n[i].calls > 0
        PROVE  /\ \A j \in (i + 1)..(i + n[i].calls) : j <= Len(n) => n[j].role = "tool"
               /\ i + n[i].calls < Len(n) => n[i + n[i].calls + 1].role # "tool"
               /\ i + n[i].calls < Len(n) \/ i + n[i].calls = Len(n) + k
    <2>1. CASE i = Len(m) + 1
      BY <1>1, <1>2, <2>1
    <2>2. CASE i \in 1..Len(m)
      <3> DEFINE c == m[i].calls
      <3>1. n[i] = m[i] /\ c \in Nat /\ c > 0 /\ i \in Nat /\ i >= 1
        <4>1. m[i] \in Messages
          BY <2>2
        <4> QED BY <1>2, <1>3, <2>2, <4>1, RunsAssumption DEF Messages
      <3>2. /\ \A j \in (i + 1)..(i + c) : j <= Len(m) => m[j].role = "tool"
            /\ i + c < Len(m) => m[i + c + 1].role # "tool"
            /\ i + c < Len(m) \/ i + c = Len(m) + 0
        BY <2>2, <3>1 DEF Followed
      <3>3. i + c <= Len(m)
        <4> HIDE DEF c
        <4> QED BY <1>2, <3>1, <3>2
      <3>4. \A j \in (i + 1)..(i + c) : j <= Len(n) => n[j].role = "tool"
        <4> TAKE j \in (i + 1)..(i + c)
        <4>1. j \in 1..Len(m)
          <5> HIDE DEF c
          <5> QED BY <1>2, <3>1, <3>3
        <4> QED BY <1>2, <3>2, <4>1
      <3>5. n[i + c + 1].role # "tool"
        <4>1. CASE i + c = Len(m)
          BY <1>1, <1>2, <4>1
        <4>2. CASE i + c < Len(m)
          <5>1. i + c + 1 \in 1..Len(m)
            BY <1>2, <3>1, <4>2
          <5> QED BY <1>2, <3>2, <4>2, <5>1
        <4> QED BY <1>2, <3>1, <3>3, <4>1, <4>2
      <3>6. i + c < Len(n)
        BY <1>2, <3>1, <3>3
      <3> QED BY <3>1, <3>4, <3>5, <3>6
    <2> QED BY <1>2, <2>1, <2>2
  <1>4. Followed(n, k)
    BY <1>3 DEF Followed
  <1> QED BY <1>2, <1>4 DEF n, x

(* A conversation that is followed up has every call answered. *)
LEMMA FollowedMeans ==
    ASSUME NEW m \in Seq(Messages), Followed(m, 0)
    PROVE  \A i \in 1..Len(m) : m[i].calls > 0 =>
               /\ i + m[i].calls <= Len(m)
               /\ \A j \in (i + 1)..(i + m[i].calls) : m[j].role = "tool"
               /\ i + m[i].calls < Len(m) => m[i + m[i].calls + 1].role # "tool"
  <1> SUFFICES ASSUME NEW i \in 1..Len(m), m[i].calls > 0
               PROVE  /\ i + m[i].calls <= Len(m)
                      /\ \A j \in (i + 1)..(i + m[i].calls) : m[j].role = "tool"
                      /\ i + m[i].calls < Len(m) => m[i + m[i].calls + 1].role # "tool"
    OBVIOUS
  <1> DEFINE c == m[i].calls
  <1>1. c \in Nat /\ Len(m) \in Nat
    <2>1. m[i] \in Messages
      OBVIOUS
    <2> QED BY <2>1, RunsAssumption DEF Messages
  <1>2. /\ \A j \in (i + 1)..(i + c) : j <= Len(m) => m[j].role = "tool"
        /\ i + c < Len(m) => m[i + c + 1].role # "tool"
        /\ i + c < Len(m) \/ i + c = Len(m) + 0
    BY DEF Followed
  <1>3. i + c <= Len(m)
    BY <1>1, <1>2
  <1>4. \A j \in (i + 1)..(i + c) : j <= Len(m)
    BY <1>1, <1>3
  <1> QED BY <1>2, <1>3, <1>4

-----------------------------------------------------------------------------
(* The state stays well-formed *)

PCs == BeforeLoop \cup {"chat", "tools", "failing", "reply", "complete", "returned", "error"}
Statuses == {"none", "queued", "in_progress"} \cup Ended

(* A statement, whether it succeeds or fails, leaves a legal fault count. *)
LEMMA ExecType ==
    ASSUME TypeOK, NEW r \in Calls, ExecOK(r) \/ ExecFails(r)
    PROVE  faults' \in 0..MaxFaults
  BY RunsAssumption DEF TypeOK, ExecOK, ExecFails, Fault

(* So does an update of the status, which writes the value or nothing. *)
LEMMA SetStatusType ==
    ASSUME TypeOK, NEW r \in Calls, NEW value \in Ended \cup {"in_progress"}, SetStatus(r, value)
    PROVE  /\ faults' \in 0..MaxFaults /\ status' \in [Calls -> Statuses]
           /\ \A s \in Calls \ {r} : status'[s] = status[s]
           /\ status'[r] \in {status[r], value}
  <1>1. faults' \in 0..MaxFaults
    BY ExecType DEF SetStatus
  <1> QED BY <1>1 DEF TypeOK, SetStatus, Statuses, Ended

(* The handlers that change a thread. *)
LEMMA TableShape ==
    ASSUME Shape, CreateAssistant \/ DeleteAssistant \/ CreateThread \/ DeleteThread \/ CreateMessage
    PROVE  Shape'
  <1>1. \A role \in {"user", "system"}, text \in BOOLEAN : Posted(role, text) \in Plain
    BY DEF Posted, Message, Plain, Roles
  <1>2. CASE CreateAssistant \/ DeleteAssistant
    BY <1>2 DEF Shape, TypeOK, CreateAssistant, DeleteAssistant, loop
  <1>3. CASE CreateThread
    <2>1. <<>> \in Seq(Plain) /\ \A x \in Plain : <<x>> \in Seq(Plain)
      OBVIOUS
    <2>2. Posted("user", TRUE) \in Plain /\ Posted("user", FALSE) \in Plain
      BY <1>1
    <2>3. stored' \in {<<>>, <<Posted("user", TRUE)>>, <<Posted("user", FALSE)>>}
      BY <1>3 DEF CreateThread
    <2>4. stored' \in Seq(Plain)
      BY <2>1, <2>2, <2>3
    <2> QED BY <1>3, <2>4 DEF Shape, TypeOK, CreateThread, loop
  <1>4. CASE DeleteThread
    BY <1>4 DEF Shape, TypeOK, DeleteThread, loop
  <1>5. CASE CreateMessage
    <2>1. stored' \in Seq(Plain)
      BY <1>1, <1>5, Appended DEF CreateMessage, Shape
    <2>2. posted' \in 0..MaxPosted
      BY <1>5, RunsAssumption DEF CreateMessage, Shape, TypeOK
    <2> QED BY <1>5, <2>1, <2>2 DEF Shape, TypeOK, CreateMessage, loop
  <1> QED BY <1>2, <1>3, <1>4, <1>5

(* CreateRun up to the loop. *)
LEMMA RunShape ==
    ASSUME Shape, NEW r \in Calls,
           LoadAssistant(r) \/ InsertRun(r) \/ FailEmpty(r) \/ MarkInProgress(r)
    PROVE  Shape'
  <1>1. CASE LoadAssistant(r)
    <2>1. ExecOK(r) \/ ExecFails(r)
      BY <1>1 DEF LoadAssistant
    <2>2. faults' \in 0..MaxFaults
      BY <2>1, ExecType DEF Shape
    <2> QED BY <1>1, <2>2 DEF Shape, TypeOK, LoadAssistant, Goto, tables, loop
  <1>2. CASE InsertRun(r)
    <2>1. ExecOK(r) \/ ExecFails(r)
      BY <1>2 DEF InsertRun
    <2>2. faults' \in 0..MaxFaults
      BY <2>1, ExecType DEF Shape
    <2> QED BY <1>2, <2>2 DEF Shape, TypeOK, InsertRun, Goto, loop
  <1>3. CASE FailEmpty(r)
    <2>1. faults' \in 0..MaxFaults /\ status' \in [Calls -> Statuses]
      BY <1>3, SetStatusType DEF FailEmpty, Shape, Ended
    <2> QED BY <1>3, <2>1 DEF Shape, TypeOK, FailEmpty, Goto, loop, Statuses
  <1>4. CASE MarkInProgress(r)
    <2>1. faults' \in 0..MaxFaults /\ status' \in [Calls -> Statuses]
      BY <1>4, SetStatusType DEF MarkInProgress, Shape
    <2> QED BY <1>4, <2>1 DEF Shape, TypeOK, MarkInProgress, Goto, loop, Statuses
  <1> QED BY <1>1, <1>2, <1>3, <1>4

(* A thread without one of its messages. *)
LEMMA WithoutType ==
    ASSUME NEW s \in Seq(Plain), NEW i \in 1..Len(s)
    PROVE  Without(s, i) \in Seq(Plain)
  <1>1. Len(s) \in Nat /\ 1 \in 1..(Len(s) + 1) /\ i - 1 \in 0..Len(s) /\ i - 1 \in Int /\ Len(s) \in Int
    OBVIOUS
  <1>2. SubSeq(s, 1, i - 1) \in Seq(Plain)
    <2>1. \A j \in 1..(i - 1) : s[j] \in Plain
      BY <1>1
    <2> QED BY <1>1, <2>1, SubSeqProperties
  <1>3. SubSeq(s, i + 1, Len(s)) \in Seq(Plain)
    <2>1. \A j \in (i + 1)..Len(s) : s[j] \in Plain
      BY <1>1
    <2> QED BY <1>1, <2>1, SubSeqProperties
  <1> QED BY <1>2, <1>3, ConcatProperties DEF Without

(* What LoadMessages has read: a conversation without tool calls. *)
LEMMA Loads ==
    ASSUME Shape, NEW r \in Calls, LoadMessages(r)
    PROVE  \/ messages' = messages
           \/ \E m \in Seq(Plain) : messages' = [messages EXCEPT ![r] = m]
  <1>1. \A system \in {<<>>, <<Posted("system", TRUE)>>} : system \in Seq(Plain)
    <2>1. <<>> \in Seq(Plain) /\ \A x \in Plain : <<x>> \in Seq(Plain)
      OBVIOUS
    <2>2. Posted("system", TRUE) \in Plain
      BY DEF Posted, Message, Plain, Roles
    <2> QED BY <2>1, <2>2
  <1>2. \A i \in 1..Len(stored) : Without(stored, i) \in Seq(Plain)
    BY WithoutType DEF Shape
  <1>3. stored \in Seq(Plain)
    BY DEF Shape
  <1>4. \A x, y \in Seq(Plain) : x \o y \in Seq(Plain)
    BY ConcatProperties
  <1>5. ASSUME NEW system \in {<<>>, <<Posted("system", TRUE)>>}
        PROVE  /\ system \o stored \in Seq(Plain)
               /\ \A i \in 1..Len(stored) : system \o Without(stored, i) \in Seq(Plain)
    BY <1>1, <1>2, <1>3, <1>4
  <1>6. \/ messages' = messages
        \/ \E system \in {<<>>, <<Posted("system", TRUE)>>} :
              \/ messages' = [messages EXCEPT ![r] = system \o stored]
              \/ \E i \in 1..Len(stored) :
                    messages' = [messages EXCEPT ![r] = system \o Without(stored, i)]
    BY DEF LoadMessages
  <1>7. CASE messages' = messages
    BY <1>7
  <1>8. ASSUME NEW system \in {<<>>, <<Posted("system", TRUE)>>},
               \/ messages' = [messages EXCEPT ![r] = system \o stored]
               \/ \E i \in 1..Len(stored) :
                     messages' = [messages EXCEPT ![r] = system \o Without(stored, i)]
        PROVE  \E m \in Seq(Plain) : messages' = [messages EXCEPT ![r] = m]
    BY <1>5, <1>8
  <1> QED BY <1>6, <1>7, <1>8

(* LoadMessages keeps the state well-formed. *)
LEMMA LoadShape ==
    ASSUME Shape, NEW r \in Calls, LoadMessages(r)
    PROVE  Shape'
  <1>1. messages' \in [Calls -> Seq(Messages)]
    BY Loads, PlainMessages DEF Shape
  <1>2. ExecOK(r) \/ ExecFails(r) \/ Fault
    BY DEF LoadMessages, ExecOK
  <1>3. faults' \in 0..MaxFaults
    BY <1>2, ExecType DEF ExecFails, Shape
  <1> QED BY <1>1, <1>3 DEF Shape, TypeOK, LoadMessages, Goto, tables

(* The loop. *)
LEMMA AgentShape ==
    ASSUME Shape, NEW r \in Calls, StartAgent(r) \/ ResolveProvider(r) \/ ChatFails(r) \/ ChatNoChoice(r)
    PROVE  Shape'
  <1>1. CASE StartAgent(r)
    <2>1. <<Posted("user", TRUE)>> \in Seq(Messages)
      BY RunsAssumption DEF Posted, Message, Messages, Roles
    <2>2. messages' \in [Calls -> Seq(Messages)]
      BY <1>1, <2>1 DEF StartAgent, Shape
    <2>3. \A n \in Requested :
             (IF n <= 0 THEN DefaultIter ELSE IF n > HardCap THEN HardCap ELSE n) \in 1..HardCap
      BY RunsAssumption
    <2>4. maxIter' \in [Calls -> 1..HardCap]
      BY <1>1, <2>3 DEF StartAgent, Shape, TypeOK
    <2> QED BY <1>1, <2>2, <2>4 DEF StartAgent, Shape, TypeOK, Goto, tables
  <1>2. CASE ResolveProvider(r) \/ ChatFails(r)
    BY <1>2 DEF ResolveProvider, ChatFails, AfterError, Shape, TypeOK, Goto, tables, loop
  <1>3. CASE ChatNoChoice(r)
    BY <1>3 DEF ChatNoChoice, AfterLoop, Shape, TypeOK, Goto, tables, loop
  <1> QED BY <1>1, <1>2, <1>3

(* So do the answers of the model. *)
LEMMA AnswerShape ==
    ASSUME Shape, NEW r \in Calls, LoopOf(r), ChatFinal(r) \/ ChatToolCalls(r)
    PROVE  Shape'
  <1>1. messages[r] \in Seq(Messages) /\ pc[r] = "chat" /\ toolsLeft[r] = 0
    BY DEF Shape, LoopOf, Counts, ChatFinal, ChatToolCalls
  <1>2. Followed(messages[r], 0)
    BY <1>1 DEF LoopOf
  <1>3. CASE ChatFinal(r)
    <2>1. 0 \in 0..MaxToolCalls
      BY RunsAssumption
    <2>2. messages' \in [Calls -> Seq(Messages)]
      BY <1>1, <1>2, <1>3, <2>1, FollowedAnswer DEF ChatFinal, Shape
    <2>3. steps[r] + 1 \in 0..HardCap
      BY <1>1, RunsAssumption DEF LoopOf, Counts, Shape, TypeOK
    <2>4. steps' \in [Calls -> 0..HardCap]
      BY <1>3, <2>3 DEF ChatFinal, Shape, TypeOK
    <2> QED BY <1>3, <2>2, <2>4 DEF ChatFinal, AfterLoop, Shape, TypeOK, Goto, tables
  <1>4. CASE ChatToolCalls(r)
    <2>1. PICK n \in 1..MaxToolCalls :
             /\ messages' = [messages EXCEPT ![r] = Append(@, Message("assistant", n, FALSE))]
             /\ toolsLeft' = [toolsLeft EXCEPT ![r] = n]
      BY <1>4 DEF ChatToolCalls
    <2>2. n \in 0..MaxToolCalls
      BY RunsAssumption
    <2>3. messages' \in [Calls -> Seq(Messages)] /\ toolsLeft' \in [Calls -> 0..MaxToolCalls]
      BY <1>1, <1>2, <2>1, <2>2, FollowedAnswer DEF Shape, TypeOK
    <2> QED BY <1>4, <2>3 DEF ChatToolCalls, Shape, TypeOK, Goto, tables
  <1> QED BY <1>3, <1>4

(* So do the tools and the end of an iteration. *)
LEMMA ToolShape ==
    ASSUME Shape, NEW r \in Calls, LoopOf(r), ExecuteToolCall(r) \/ EndIteration(r)
    PROVE  Shape'
  <1>1. CASE ExecuteToolCall(r)
    <2>1. /\ messages[r] \in Seq(Messages) /\ toolsLeft[r] \in Nat /\ toolsLeft[r] > 0
          /\ Followed(messages[r], toolsLeft[r])
      BY <1>1, RunsAssumption DEF Shape, TypeOK, LoopOf, ExecuteToolCall
    <2>2. messages' \in [Calls -> Seq(Messages)]
      BY <1>1, <2>1, FollowedResult DEF ExecuteToolCall, Shape
    <2>3. toolsLeft' \in [Calls -> 0..MaxToolCalls]
      BY <1>1, RunsAssumption DEF ExecuteToolCall, Shape, TypeOK
    <2> QED BY <1>1, <2>2, <2>3 DEF ExecuteToolCall, Shape, TypeOK, tables
  <1>2. CASE EndIteration(r)
    <2>1. iteration[r] \in 1..HardCap /\ steps[r] = iteration[r] - 1
      BY <1>2, RunsAssumption DEF EndIteration, LoopOf, Counts, Shape, TypeOK
    <2>2. steps[r] + 1 \in 0..HardCap /\ iteration[r] + 1 \in 1..(HardCap + 1)
      BY <2>1, RunsAssumption
    <2>3. steps' \in [Calls -> 0..HardCap] /\ iteration' \in [Calls -> 1..(HardCap + 1)]
      BY <1>2, <2>2 DEF EndIteration, Shape, TypeOK
    <2>4. pc' \in [Calls -> PCs] /\ finish' \in [Calls -> {"stop", "tool_calls", "max_iterations"}]
      <3>1. \/ pc' = [pc EXCEPT ![r] = AfterLoop(r)] /\ finish' = [finish EXCEPT ![r] = "max_iterations"]
            \/ pc' = [pc EXCEPT ![r] = "chat"] /\ finish' = finish
        BY <1>2 DEF EndIteration, Goto
      <3>2. AfterLoop(r) \in PCs /\ "chat" \in PCs
        BY DEF AfterLoop, PCs
      <3>3. pc \in [Calls -> PCs] /\ finish \in [Calls -> {"stop", "tool_calls", "max_iterations"}]
        BY DEF Shape, TypeOK, PCs, BeforeLoop
      <3> QED BY <3>1, <3>2, <3>3
    <2> QED BY <1>2, <2>3, <2>4 DEF EndIteration, Shape, TypeOK, tables, PCs, BeforeLoop
  <1> QED BY <1>1, <1>2

(* CreateRun after the loop, and what happens around it. *)
LEMMA EndShape ==
    ASSUME Shape, NEW r \in Calls,
           FailRun(r) \/ SaveReply(r) \/ CompleteRun(r) \/ CancelRun(r) \/ CtxDone(r)
    PROVE  Shape'
  <1>1. CASE FailRun(r)
    <2>1. faults' \in 0..MaxFaults /\ status' \in [Calls -> Statuses]
      BY <1>1, SetStatusType DEF FailRun, Shape, Ended
    <2> QED BY <1>1, <2>1 DEF Shape, TypeOK, FailRun, Goto, loop, Statuses
  <1>2. CASE CompleteRun(r)
    <2>1. faults' \in 0..MaxFaults /\ status' \in [Calls -> Statuses]
      BY <1>2, SetStatusType DEF CompleteRun, Shape, Ended
    <2> QED BY <1>2, <2>1 DEF Shape, TypeOK, CompleteRun, Goto, loop, Statuses
  <1>3. CASE SaveReply(r)
    <2>1. Message("assistant", 0, TRUE) \in Plain
      BY DEF Message, Plain, Roles
    <2>2. stored' \in Seq(Plain)
      BY <1>3, <2>1, Appended DEF SaveReply, Shape
    <2>3. ExecOK(r) \/ ExecFails(r) \/ UNCHANGED faults
      BY <1>3 DEF SaveReply
    <2>4. faults' \in 0..MaxFaults
      BY <2>3, ExecType DEF Shape, TypeOK
    <2> QED BY <1>3, <2>2, <2>4 DEF Shape, TypeOK, SaveReply, Goto, loop
  <1>4. CASE CancelRun(r)
    BY <1>4 DEF Shape, TypeOK, CancelRun, loop, Ended
  <1>5. CASE CtxDone(r)
    BY <1>5 DEF Shape, TypeOK, CtxDone, loop, tables
  <1> QED BY <1>1, <1>2, <1>3, <1>4, <1>5

(* Every step. *)
LEMMA ShapeStep == ASSUME RunsIInv, [Next]_vars PROVE Shape'
  <1>1. Shape /\ \A r \in Calls : LoopOf(r)
    BY DEF RunsIInv
  <1>2. CASE UNCHANGED vars
    BY <1>1, <1>2 DEF Shape, TypeOK, vars, tables, loop
  <1>3. ASSUME NEW r \in Calls, StartAgent(r) \/ LoadAssistant(r) \/ Step(r) \/ CancelRun(r) \/ CtxDone(r)
        PROVE  Shape'
    BY <1>1, <1>3, RunShape, LoadShape, AgentShape, AnswerShape, ToolShape, EndShape DEF Step, Chat
  <1> QED BY <1>1, <1>2, <1>3, TableShape DEF Next

-----------------------------------------------------------------------------
(* The loop of every call *)

(* Nothing changes for the other calls. *)
Alone(r) ==
    \A s \in Calls \ {r} :
        /\ pc'[s] = pc[s] /\ messages'[s] = messages[s] /\ maxIter'[s] = maxIter[s]
        /\ iteration'[s] = iteration[s] /\ steps'[s] = steps[s] /\ toolsLeft'[s] = toolsLeft[s]
        /\ finish'[s] = finish[s] /\ status'[s] = status[s]

(* Then they keep what they have. *)
LEMMA AloneKeeps ==
    ASSUME RunsIInv, NEW r \in Calls, Alone(r), LoopOf(r)'
    PROVE  \A s \in Calls : LoopOf(s)'
  <1>1. ASSUME NEW s \in Calls \ {r} PROVE LoopOf(s)'
    <2>1. /\ pc'[s] = pc[s] /\ messages'[s] = messages[s] /\ maxIter'[s] = maxIter[s]
          /\ iteration'[s] = iteration[s] /\ steps'[s] = steps[s] /\ toolsLeft'[s] = toolsLeft[s]
          /\ finish'[s] = finish[s] /\ status'[s] = status[s]
      BY DEF Alone
    <2>2. Followed(messages[s], toolsLeft[s]) /\ Counts(s) /\ EndsLast(s)
      BY DEF RunsIInv, LoopOf
    <2>3. Followed(messages'[s], toolsLeft'[s])
      BY <2>1, <2>2
    <2>4. Counts(s)'
      BY <2>1, <2>2 DEF Counts, LoopEnded, FinalMessage
    <2>5. EndsLast(s)'
      BY <2>1, <2>2 DEF EndsLast
    <2> QED BY <2>3, <2>4, <2>5 DEF LoopOf
  <1> QED BY <1>1

(* A step that moves the call r to l and leaves its loop alone. *)
LEMMA MovesOn ==
    ASSUME RunsIInv, NEW r \in Calls, NEW l \in PCs \ {"tools"}, Goto(r, l), UNCHANGED loop,
           \A s \in Calls \ {r} : status'[s] = status[s],
           l \in BeforeLoop => pc[r] \in BeforeLoop,
           l = "chat" => pc[r] = "resolve",
           l \in {"reply", "complete", "returned"} => pc[r] \in {"chat", "reply", "complete"},
           status'[r] \in {"completed", "failed"} => l \in {"returned", "error"}
    PROVE  \A s \in Calls : LoopOf(s)'
  <1>1. pc'[r] = l /\ \A s \in Calls \ {r} : pc'[s] = pc[s]
    BY DEF Goto, RunsIInv, Shape, TypeOK
  <1>2. UNCHANGED <<messages, maxIter, iteration, steps, toolsLeft, finish>>
    BY DEF loop
  <1>3. Alone(r)
    BY <1>1, <1>2 DEF Alone
  <1>4. Followed(messages[r], toolsLeft[r]) /\ Counts(r)
    BY DEF RunsIInv, LoopOf
  <1>5. maxIter[r] \in 1..HardCap /\ iteration[r] \in Int /\ steps[r] \in Int
    BY RunsAssumption DEF RunsIInv, Shape, TypeOK
  <1>6. Counts(r)'
    <2>1. pc'[r] \in BeforeLoop \cup {"chat"} =>
             iteration'[r] = 1 /\ steps'[r] = 0 /\ toolsLeft'[r] = 0 /\ finish'[r] # "max_iterations"
      BY <1>1, <1>2, <1>4 DEF Counts, BeforeLoop
    <2>2. pc'[r] = "chat" => iteration'[r] <= maxIter'[r] /\ steps'[r] = iteration'[r] - 1
      BY <1>2, <1>5, <2>1, RunsAssumption
    <2>3. pc'[r] # "tools"
      BY <1>1
    <2>4. LoopEnded(r)' => (finish'[r] = "max_iterations"
                              <=> steps'[r] = maxIter'[r] /\ FinalMessage(r)'.role = "tool")
      <3>1. pc[r] = "chat" => finish[r] # "max_iterations" /\ steps[r] # maxIter[r]
        BY <1>4, <1>5 DEF Counts
      <3>2. LoopEnded(r)' => pc[r] = "chat" \/ LoopEnded(r)
        BY <1>1 DEF LoopEnded
      <3>3. FinalMessage(r)' = FinalMessage(r)
        BY <1>2 DEF FinalMessage
      <3> QED BY <1>2, <1>4, <3>1, <3>2, <3>3 DEF Counts
    <2> QED BY <2>1, <2>2, <2>3, <2>4 DEF Counts
  <1>7. EndsLast(r)'
    BY <1>1 DEF EndsLast
  <1>8. LoopOf(r)'
    BY <1>2, <1>4, <1>6, <1>7 DEF LoopOf
  <1> QED BY <1>3, <1>8, AloneKeeps

(* A step that only takes away or cancels statuses. *)
LEMMA StatusMoves ==
    ASSUME RunsIInv, UNCHANGED <<pc, loop>>,
           \A s \in Calls : status'[s] \in {status[s], "none", "cancelled"}
    PROVE  \A s \in Calls : LoopOf(s)'
  <1> TAKE s \in Calls
  <1>1. Followed(messages[s], toolsLeft[s]) /\ Counts(s) /\ EndsLast(s)
    BY DEF RunsIInv, LoopOf
  <1>2. Followed(messages'[s], toolsLeft'[s])
    BY <1>1 DEF loop
  <1>3. Counts(s)'
    BY <1>1 DEF loop, Counts, LoopEnded, FinalMessage
  <1>4. EndsLast(s)'
    BY <1>1 DEF EndsLast
  <1> QED BY <1>2, <1>3, <1>4 DEF LoopOf

(* A handler that has not returned or failed has not ended its run. *)
LEMMA NotEnded ==
    ASSUME RunsIInv, NEW r \in Calls, pc[r] \notin {"returned", "error"}
    PROVE  status[r] \notin {"completed", "failed"}
  BY DEF RunsIInv, LoopOf, EndsLast

(* CreateRun, but for the messages it loads, and ends of the loop. *)
LEMMA MovesLoop ==
    ASSUME RunsIInv, NEW r \in Calls,
           \/ LoadAssistant(r) \/ InsertRun(r) \/ FailEmpty(r) \/ MarkInProgress(r)
           \/ ResolveProvider(r) \/ ChatFails(r) \/ ChatNoChoice(r)
           \/ FailRun(r) \/ SaveReply(r) \/ CompleteRun(r)
    PROVE  \A s \in Calls : LoopOf(s)'
  <1>1. pc[r] \notin {"returned", "error"}
    BY DEF LoadAssistant, InsertRun, FailEmpty, MarkInProgress, ResolveProvider, ChatFails, ChatNoChoice,
           FailRun, SaveReply, CompleteRun
  <1>2. status[r] \notin {"completed", "failed"}
    BY <1>1, NotEnded
  <1>3. TypeOK
    BY DEF RunsIInv, Shape
  <1> USE DEF PCs, BeforeLoop
  <1>4. CASE LoadAssistant(r)
    <2>1. /\ pc[r] = "idle" /\ UNCHANGED loop /\ status' = status
          /\ Goto(r, "insert") \/ Goto(r, "error")
      BY <1>4 DEF LoadAssistant, tables
    <2> QED BY <1>2, <2>1, MovesOn
  <1>5. CASE InsertRun(r)
    <2>1. /\ pc[r] = "insert" /\ UNCHANGED loop /\ (Goto(r, "load") \/ Goto(r, "error"))
          /\ status' = [status EXCEPT ![r] = "queued"] \/ status' = status
      BY <1>5 DEF InsertRun
    <2>2. /\ \A s \in Calls \ {r} : status'[s] = status[s]
          /\ status'[r] \notin {"completed", "failed"}
      BY <1>2, <1>3, <2>1 DEF TypeOK
    <2> QED BY <2>1, <2>2, MovesOn
  <1>6. CASE FailEmpty(r)
    <2>1. pc[r] = "loaded" /\ UNCHANGED loop /\ Goto(r, "error") /\ SetStatus(r, "failed")
      BY <1>6 DEF FailEmpty
    <2>2. \A s \in Calls \ {r} : status'[s] = status[s]
      BY <1>3, <2>1, SetStatusType DEF Ended
    <2> QED BY <2>1, <2>2, MovesOn
  <1>7. CASE MarkInProgress(r)
    <2>1. pc[r] = "loaded" /\ UNCHANGED loop /\ Goto(r, "resolve") /\ SetStatus(r, "in_progress")
      BY <1>7 DEF MarkInProgress
    <2>2. /\ \A s \in Calls \ {r} : status'[s] = status[s]
          /\ status'[r] \in {status[r], "in_progress"}
      BY <1>3, <2>1, SetStatusType
    <2> QED BY <1>2, <2>1, <2>2, MovesOn
  <1>8. CASE ResolveProvider(r)
    <2>1. /\ pc[r] = "resolve" /\ UNCHANGED loop /\ status' = status
          /\ Goto(r, "chat") \/ Goto(r, "error") \/ Goto(r, "failing")
      BY <1>8 DEF ResolveProvider, AfterError, tables
    <2> QED BY <1>2, <2>1, MovesOn
  <1>9. CASE ChatFails(r)
    <2>1. /\ pc[r] = "chat" /\ UNCHANGED loop /\ status' = status
          /\ Goto(r, "error") \/ Goto(r, "failing")
      BY <1>9 DEF ChatFails, AfterError, tables
    <2> QED BY <1>2, <2>1, MovesOn
  <1>10. CASE ChatNoChoice(r)
    <2>1. /\ pc[r] = "chat" /\ UNCHANGED loop /\ status' = status
          /\ Goto(r, "returned") \/ Goto(r, "reply")
      BY <1>10 DEF ChatNoChoice, AfterLoop, tables
    <2> QED BY <1>2, <2>1, MovesOn
  <1>11. CASE FailRun(r)
    <2>1. pc[r] = "failing" /\ UNCHANGED loop /\ Goto(r, "error") /\ SetStatus(r, "failed")
      BY <1>11 DEF FailRun
    <2>2. \A s \in Calls \ {r} : status'[s] = status[s]
      BY <1>3, <2>1, SetStatusType DEF Ended
    <2> QED BY <2>1, <2>2, MovesOn
  <1>12. CASE SaveReply(r)
    <2>1. pc[r] = "reply" /\ UNCHANGED loop /\ status' = status /\ Goto(r, "complete")
      BY <1>12 DEF SaveReply
    <2> QED BY <1>2, <2>1, MovesOn
  <1>13. CASE CompleteRun(r)
    <2>1. pc[r] = "complete" /\ UNCHANGED loop /\ Goto(r, "returned") /\ SetStatus(r, "completed")
      BY <1>13 DEF CompleteRun
    <2>2. \A s \in Calls \ {r} : status'[s] = status[s]
      BY <1>3, <2>1, SetStatusType DEF Ended
    <2> QED BY <2>1, <2>2, MovesOn
  <1> QED BY <1>4, <1>5, <1>6, <1>7, <1>8, <1>9, <1>10, <1>11, <1>12, <1>13

(* A conversation that begins: loaded from the thread, or sent by a client. *)
LEMMA BeginsLoop ==
    ASSUME RunsIInv, NEW r \in Calls, LoadMessages(r) \/ StartAgent(r)
    PROVE  \A s \in Calls : LoopOf(s)'
  <1>1. /\ pc[r] \in {"load", "idle"}
        /\ Goto(r, "loaded") \/ Goto(r, "error") \/ Goto(r, "resolve")
        /\ UNCHANGED <<iteration, steps, toolsLeft, finish, status>>
    BY DEF LoadMessages, StartAgent, tables
  <1>2. /\ pc'[r] \in {"loaded", "error", "resolve"}
        /\ \A s \in Calls \ {r} : pc'[s] = pc[s]
    BY <1>1 DEF Goto, RunsIInv, Shape, TypeOK
  <1>3. Counts(r) /\ Followed(messages[r], toolsLeft[r]) /\ EndsLast(r) /\ toolsLeft[r] = 0
    BY <1>1 DEF RunsIInv, LoopOf, Counts, BeforeLoop
  <1>4. <<Posted("user", TRUE)>> \in Seq(Plain)
    <2>1. \A x \in Plain : <<x>> \in Seq(Plain)
      OBVIOUS
    <2>2. Posted("user", TRUE) \in Plain
      BY DEF Posted, Message, Plain, Roles
    <2> QED BY <2>1, <2>2
  <1>5. \/ messages' = messages
        \/ \E m \in Seq(Plain) : messages' = [messages EXCEPT ![r] = m]
    BY <1>4, Loads DEF StartAgent, RunsIInv
  <1>6. /\ Followed(messages'[r], 0) /\ \A s \in Calls \ {r} : messages'[s] = messages[s]
    BY <1>3, <1>5, PlainMessages DEF RunsIInv, Shape
  <1>7. \A s \in Calls \ {r} : maxIter'[s] = maxIter[s]
    BY DEF LoadMessages, StartAgent, RunsIInv, Shape, TypeOK
  <1>8. Alone(r)
    BY <1>1, <1>2, <1>6, <1>7 DEF Alone
  <1>9. Counts(r)'
    BY <1>1, <1>2, <1>3 DEF Counts, BeforeLoop, LoopEnded
  <1>10. EndsLast(r)'
    BY <1>1, <1>3 DEF EndsLast
  <1>11. LoopOf(r)'
    BY <1>1, <1>3, <1>6, <1>9, <1>10 DEF LoopOf
  <1> QED BY <1>8, <1>11, AloneKeeps

(* An answer without tool calls ends the loop. *)
LEMMA FinalLoop ==
    ASSUME RunsIInv, NEW r \in Calls, ChatFinal(r)
    PROVE  \A s \in Calls : LoopOf(s)'
  <1>1. PICK text \in BOOLEAN :
           messages' = [messages EXCEPT ![r] = Append(@, Message("assistant", 0, text))]
    BY DEF ChatFinal
  <1>2. /\ pc[r] = "chat" /\ UNCHANGED <<maxIter, iteration, toolsLeft, status>>
        /\ steps' = [steps EXCEPT ![r] = @ + 1]
        /\ Goto(r, "returned") \/ Goto(r, "reply")
        /\ \E reason \in {"stop", "tool_calls"} : finish' = [finish EXCEPT ![r] = reason]
    BY DEF ChatFinal, AfterLoop, tables
  <1>3. Counts(r) /\ Followed(messages[r], 0) /\ EndsLast(r) /\ toolsLeft[r] = 0
    BY <1>2 DEF RunsIInv, LoopOf, Counts
  <1>4. messages[r] \in Seq(Messages) /\ 0 \in 0..MaxToolCalls
    BY RunsAssumption DEF RunsIInv, Shape
  <1>5. /\ messages'[r] = Append(messages[r], Message("assistant", 0, text))
        /\ \A s \in Calls \ {r} : messages'[s] = messages[s]
    BY <1>1 DEF RunsIInv, Shape
  <1>6. Followed(messages'[r], 0)
    BY <1>3, <1>4, <1>5, FollowedAnswer
  <1>7. Message("assistant", 0, text) \in Messages /\ Message("assistant", 0, text).role = "assistant"
    BY <1>4 DEF Message, Messages, Roles
  <1>8. FinalMessage(r)'.role = "assistant"
    BY <1>4, <1>5, <1>7, Appended DEF FinalMessage
  <1>9. /\ pc'[r] \in {"returned", "reply"} /\ finish'[r] # "max_iterations"
        /\ \A s \in Calls \ {r} : pc'[s] = pc[s] /\ steps'[s] = steps[s] /\ finish'[s] = finish[s]
    BY <1>2 DEF Goto, RunsIInv, Shape, TypeOK
  <1>10. Alone(r)
    BY <1>2, <1>5, <1>9 DEF Alone
  <1>11. Counts(r)'
    BY <1>8, <1>9 DEF Counts, BeforeLoop
  <1>12. status[r] \notin {"completed", "failed"}
    BY <1>2, NotEnded
  <1>13. LoopOf(r)'
    BY <1>2, <1>3, <1>6, <1>11, <1>12 DEF LoopOf, EndsLast
  <1> QED BY <1>10, <1>13, AloneKeeps

(* An answer with tool calls. *)
LEMMA ToolCallsLoop ==
    ASSUME RunsIInv, NEW r \in Calls, ChatToolCalls(r)
    PROVE  \A s \in Calls : LoopOf(s)'
  <1>1. PICK n \in 1..MaxToolCalls :
           /\ messages' = [messages EXCEPT ![r] = Append(@, Message("assistant", n, FALSE))]
           /\ toolsLeft' = [toolsLeft EXCEPT ![r] = n]
    BY DEF ChatToolCalls
  <1>2. /\ pc[r] = "chat" /\ UNCHANGED <<maxIter, iteration, steps, status>> /\ Goto(r, "tools")
        /\ finish' = [finish EXCEPT ![r] = "tool_calls"]
    BY DEF ChatToolCalls, tables
  <1>3. Counts(r) /\ Followed(messages[r], 0)
    BY <1>2 DEF RunsIInv, LoopOf, Counts
  <1>4. messages[r] \in Seq(Messages) /\ n \in 0..MaxToolCalls /\ n > 0
    BY RunsAssumption DEF RunsIInv, Shape
  <1>5. /\ messages'[r] = Append(messages[r], Message("assistant", n, FALSE)) /\ toolsLeft'[r] = n
        /\ \A s \in Calls \ {r} : messages'[s] = messages[s] /\ toolsLeft'[s] = toolsLeft[s]
    BY <1>1 DEF RunsIInv, Shape, TypeOK
  <1>6. Followed(messages'[r], n)
    BY <1>3, <1>4, <1>5, FollowedAnswer
  <1>7. Len(messages'[r]) > 0
    BY <1>4, <1>5
  <1>8. /\ pc'[r] = "tools" /\ finish'[r] # "max_iterations"
        /\ \A s \in Calls \ {r} : pc'[s] = pc[s] /\ finish'[s] = finish[s]
    BY <1>2 DEF Goto, RunsIInv, Shape, TypeOK
  <1>9. Alone(r)
    BY <1>2, <1>5, <1>8 DEF Alone
  <1>10. Counts(r)'
    BY <1>2, <1>3, <1>4, <1>5, <1>7, <1>8 DEF Counts, BeforeLoop, LoopEnded
  <1>11. status[r] \notin {"completed", "failed"}
    BY <1>2, NotEnded
  <1>12. LoopOf(r)'
    BY <1>2, <1>5, <1>6, <1>10, <1>11 DEF LoopOf, EndsLast
  <1> QED BY <1>9, <1>12, AloneKeeps

(* The result of a tool call. *)
LEMMA ToolLoop ==
    ASSUME RunsIInv, NEW r \in Calls, ExecuteToolCall(r)
    PROVE  \A s \in Calls : LoopOf(s)'
  <1>1. /\ pc[r] = "tools" /\ toolsLeft[r] > 0
        /\ messages' = [messages EXCEPT ![r] = Append(@, Message("tool", 0, TRUE))]
        /\ toolsLeft' = [toolsLeft EXCEPT ![r] = @ - 1]
        /\ UNCHANGED <<pc, maxIter, iteration, steps, finish, status>>
    BY DEF ExecuteToolCall, tables
  <1>2. Counts(r) /\ Followed(messages[r], toolsLeft[r]) /\ EndsLast(r)
    BY DEF RunsIInv, LoopOf
  <1>3. messages[r] \in Seq(Messages) /\ toolsLeft[r] \in Nat
    BY RunsAssumption DEF RunsIInv, Shape, TypeOK
  <1>4. /\ messages'[r] = Append(messages[r], Message("tool", 0, TRUE))
        /\ toolsLeft'[r] = toolsLeft[r] - 1
        /\ \A s \in Calls \ {r} : messages'[s] = messages[s] /\ toolsLeft'[s] = toolsLeft[s]
    BY <1>1 DEF RunsIInv, Shape, TypeOK
  <1>5. Followed(messages'[r], toolsLeft'[r])
    BY <1>1, <1>2, <1>3, <1>4, FollowedResult
  <1> DEFINE x == Message("tool", 0, TRUE)
  <1>6. x \in Messages /\ x.role = "tool"
    BY RunsAssumption DEF Message, Messages, Roles
  <1>7. Len(messages'[r]) > 0 /\ FinalMessage(r)'.role = "tool"
    <2>1. /\ Len(messages'[r]) = Len(messages[r]) + 1 /\ Len(messages[r]) \in Nat
          /\ messages'[r][Len(messages[r]) + 1] = x
      <3>1. messages'[r] = Append(messages[r], x)
        BY <1>4
      <3> HIDE DEF x
      <3> QED BY <1>3, <1>6, <3>1, Appended
    <2> HIDE DEF x
    <2>2. FinalMessage(r)' = x
      BY <2>1 DEF FinalMessage
    <2>3. Len(messages'[r]) > 0
      BY <2>1
    <2> QED BY <1>6, <2>2, <2>3
  <1>8. Alone(r)
    BY <1>1, <1>4 DEF Alone
  <1>9. Counts(r)'
    BY <1>1, <1>2, <1>7 DEF Counts, BeforeLoop, LoopEnded
  <1>10. EndsLast(r)'
    BY <1>1, <1>2 DEF EndsLast
  <1>11. LoopOf(r)'
    BY <1>5, <1>9, <1>10 DEF LoopOf
  <1> QED BY <1>8, <1>11, AloneKeeps

(* The end of an iteration, the last one included. *)
LEMMA IterationLoop ==
    ASSUME RunsIInv, NEW r \in Calls, EndIteration(r)
    PROVE  \A s \in Calls : LoopOf(s)'
  <1>1. /\ pc[r] = "tools" /\ toolsLeft[r] = 0
        /\ steps' = [steps EXCEPT ![r] = @ + 1] /\ iteration' = [iteration EXCEPT ![r] = @ + 1]
        /\ UNCHANGED <<messages, maxIter, toolsLeft, status>>
    BY DEF EndIteration, tables
  <1>2. Counts(r) /\ Followed(messages[r], toolsLeft[r])
    BY DEF RunsIInv, LoopOf
  <1>3. /\ iteration[r] <= maxIter[r] /\ steps[r] = iteration[r] - 1 /\ FinalMessage(r).role = "tool"
        /\ finish[r] # "max_iterations"
    BY <1>1, <1>2 DEF Counts
  <1>4. iteration[r] \in Nat /\ maxIter[r] \in Nat
    BY RunsAssumption DEF RunsIInv, Shape, TypeOK
  <1>5. /\ steps'[r] = iteration[r] /\ iteration'[r] = iteration[r] + 1
        /\ \A s \in Calls \ {r} : steps'[s] = steps[s] /\ iteration'[s] = iteration[s]
    BY <1>1, <1>3, <1>4 DEF RunsIInv, Shape, TypeOK
  <1>6. FinalMessage(r)'.role = "tool"
    BY <1>1, <1>3 DEF FinalMessage
  <1>7. status[r] \notin {"completed", "failed"}
    BY <1>1, NotEnded
  <1>8. Counts(r)' /\ Alone(r)
    <2>1. CASE iteration[r] = maxIter[r]
      <3>1. /\ finish' = [finish EXCEPT ![r] = "max_iterations"]
            /\ Goto(r, "returned") \/ Goto(r, "reply")
        BY <2>1 DEF EndIteration, AfterLoop
      <3>2. /\ finish'[r] = "max_iterations" /\ pc'[r] \in {"returned", "reply"}
            /\ \A s \in Calls \ {r} : finish'[s] = finish[s] /\ pc'[s] = pc[s]
        BY <3>1 DEF Goto, RunsIInv, Shape, TypeOK
      <3>3. Counts(r)'
        BY <1>1, <1>5, <1>6, <2>1, <3>2 DEF Counts, BeforeLoop
      <3> QED BY <1>1, <1>5, <3>2, <3>3 DEF Alone
    <2>2. CASE iteration[r] # maxIter[r]
      <3>1. UNCHANGED finish /\ Goto(r, "chat")
        BY <2>2 DEF EndIteration
      <3>2. pc'[r] = "chat" /\ \A s \in Calls \ {r} : pc'[s] = pc[s]
        BY <3>1 DEF Goto, RunsIInv, Shape, TypeOK
      <3>3. iteration'[r] <= maxIter'[r] /\ steps'[r] = iteration'[r] - 1
        BY <1>1, <1>3, <1>4, <1>5, <2>2
      <3>4. Counts(r)'
        BY <1>1, <1>3, <3>1, <3>2, <3>3 DEF Counts, BeforeLoop, LoopEnded
      <3> QED BY <1>1, <1>5, <3>1, <3>2, <3>4 DEF Alone
    <2> QED BY <2>1, <2>2
  <1>9. LoopOf(r)'
    BY <1>1, <1>2, <1>7, <1>8 DEF LoopOf, EndsLast
  <1> QED BY <1>8, <1>9, AloneKeeps

-----------------------------------------------------------------------------
(* The theorems *)

(* RunsIInv holds at the start. *)
LEMMA RunsInit == Init => RunsIInv
  <1> SUFFICES ASSUME Init PROVE RunsIInv
    OBVIOUS
  <1>1. Shape
    <2>1. <<>> \in Seq(Messages) /\ <<>> \in Seq(Plain)
      OBVIOUS
    <2>2. messages \in [Calls -> Seq(Messages)] /\ stored \in Seq(Plain)
      BY <2>1 DEF Init
    <2>3. maxIter \in [Calls -> 1..HardCap] /\ iteration \in [Calls -> 1..(HardCap + 1)]
      BY RunsAssumption DEF Init
    <2>4. steps \in [Calls -> 0..HardCap] /\ toolsLeft \in [Calls -> 0..MaxToolCalls]
      BY RunsAssumption DEF Init
    <2>5. posted \in 0..MaxPosted /\ faults \in 0..MaxFaults
      BY RunsAssumption DEF Init
    <2>6. /\ assistant \in BOOLEAN /\ thread \in {"none", "exists", "deleted"}
          /\ status \in [Calls -> Statuses] /\ pc \in [Calls -> PCs]
          /\ kind \in [Calls -> {"none", "run", "agent"}]
          /\ finish \in [Calls -> {"stop", "tool_calls", "max_iterations"}]
          /\ ctxDone \in [Calls -> BOOLEAN]
      BY DEF Init, Statuses, PCs, BeforeLoop
    <2> QED BY <2>2, <2>3, <2>4, <2>5, <2>6 DEF Shape, TypeOK, Statuses, PCs, BeforeLoop
  <1>2. ASSUME NEW r \in Calls PROVE LoopOf(r)
    <2>1. messages[r] = <<>> /\ toolsLeft[r] = 0
      BY DEF Init
    <2>2. Followed(messages[r], toolsLeft[r])
      BY <2>1 DEF Followed
    <2>3. Counts(r) /\ EndsLast(r)
      BY DEF Init, Counts, EndsLast, LoopEnded
    <2> QED BY <2>2, <2>3 DEF LoopOf
  <1> QED BY <1>1, <1>2 DEF RunsIInv

(* Every step keeps it. *)
LEMMA RunsNext == RunsIInv /\ [Next]_vars => RunsIInv'
  <1> SUFFICES ASSUME RunsIInv, [Next]_vars PROVE RunsIInv'
    OBVIOUS
  <1>1. CASE UNCHANGED vars
    <2>1. UNCHANGED <<pc, loop, status>>
      BY <1>1 DEF vars, tables
    <2>2. \A s \in Calls : LoopOf(s)'
      BY <2>1, StatusMoves
    <2> QED BY <2>2, ShapeStep DEF RunsIInv
  <1>2. CASE CreateAssistant \/ DeleteAssistant \/ CreateThread \/ DeleteThread \/ CreateMessage
    <2>1. /\ UNCHANGED <<pc, loop>>
          /\ status' = status \/ status' = [r \in Calls |-> "none"]
      BY <1>2 DEF CreateAssistant, DeleteAssistant, CreateThread, DeleteThread, CreateMessage
    <2>2. \A s \in Calls : status'[s] \in {status[s], "none", "cancelled"}
      BY <2>1
    <2>3. \A s \in Calls : LoopOf(s)'
      BY <2>1, <2>2, StatusMoves
    <2> QED BY <2>3, ShapeStep DEF RunsIInv
  <1>3. ASSUME NEW r \in Calls, StartAgent(r) \/ LoadAssistant(r) \/ Step(r)
        PROVE  RunsIInv'
    <2>1. \A s \in Calls : LoopOf(s)'
      BY <1>3, MovesLoop, BeginsLoop, FinalLoop, ToolCallsLoop, ToolLoop, IterationLoop DEF Step, Chat
    <2> QED BY <2>1, ShapeStep DEF RunsIInv
  <1>4. ASSUME NEW r \in Calls, CancelRun(r) \/ CtxDone(r) PROVE RunsIInv'
    <2>1. /\ UNCHANGED <<pc, loop>>
          /\ status' = status \/ status' = [status EXCEPT ![r] = "cancelled"]
      BY <1>4 DEF CancelRun, CtxDone, tables
    <2>2. \A s \in Calls : status'[s] \in {status[s], "none", "cancelled"}
      BY <2>1 DEF RunsIInv, Shape, TypeOK
    <2>3. \A s \in Calls : LoopOf(s)'
      BY <2>1, <2>2, StatusMoves
    <2> QED BY <2>3, ShapeStep DEF RunsIInv
  <1> QED BY <1>1, <1>2, <1>3, <1>4 DEF Next

(* RunsIInv holds in every state. *)
LEMMA RunsInductive == Spec => []RunsIInv
  BY RunsInit, RunsNext, PTL DEF Spec

(* For any limits and any number of calls, tool calls and messages: whenever *)
(* runAgentLoop sends a conversation to the model, each of the model's tool  *)
(* calls has its result, in place; and it reports "max_iterations" exactly   *)
(* when the clamped limit cut it short.                                      *)
THEOREM LoopKeepsItsProtocol == Spec => []LoopInv
  <1>1. RunsIInv => LoopInv
    <2> SUFFICES ASSUME RunsIInv PROVE LoopInv
      OBVIOUS
    <2>1. TypeOK
      BY DEF RunsIInv, Shape
    <2>2. ToolCallsAnswered
      <3> SUFFICES ASSUME NEW r \in Calls, pc[r] = "chat"
                   PROVE  \A i \in 1..Len(messages[r]) : messages[r][i].calls > 0 =>
                            /\ i + messages[r][i].calls <= Len(messages[r])
                            /\ \A j \in (i + 1)..(i + messages[r][i].calls) : messages[r][j].role = "tool"
                            /\ i + messages[r][i].calls < Len(messages[r]) =>
                                  messages[r][i + messages[r][i].calls + 1].role # "tool"
        BY DEF ToolCallsAnswered
      <3>1. Followed(messages[r], toolsLeft[r]) /\ toolsLeft[r] = 0 /\ messages[r] \in Seq(Messages)
        BY DEF RunsIInv, LoopOf, Counts, Shape
      <3>2. Followed(messages[r], 0)
        BY <3>1
      <3> QED BY <3>1, <3>2, FollowedMeans
    <2>3. LimitReported
      BY DEF RunsIInv, LoopOf, Counts, LimitReported
    <2> QED BY <2>1, <2>2, <2>3 DEF LoopInv
  <1> QED BY <1>1, RunsInductive, PTL

(* For any number of calls and failing statements: no step of CreateRun,     *)
(* CancelRun or another handler changes the status of a run that has         *)
(* completed or failed, until its thread is deleted.                         *)
THEOREM EndedRunsStay == Spec => EndedRunStays
  <1>1. RunsIInv /\ [Next]_vars =>
           [\A r \in Calls : status[r] \in {"completed", "failed"} => status'[r] \in {status[r], "none"}]_vars
    <2> SUFFICES ASSUME RunsIInv, [Next]_vars, NEW r \in Calls, status[r] \in {"completed", "failed"}
                 PROVE  status'[r] \in {status[r], "none"}
      OBVIOUS
    <2>1. TypeOK /\ pc[r] \in {"returned", "error"}
      BY DEF RunsIInv, Shape, LoopOf, EndsLast
    <2>2. CASE UNCHANGED vars
      BY <2>2 DEF vars, tables
    <2>3. CASE CreateAssistant \/ DeleteAssistant \/ CreateThread \/ DeleteThread \/ CreateMessage
      BY <2>3 DEF CreateAssistant, DeleteAssistant, CreateThread, DeleteThread, CreateMessage
    <2>4. ASSUME NEW s \in Calls,
                 StartAgent(s) \/ LoadAssistant(s) \/ LoadMessages(s) \/ SaveReply(s) \/ CtxDone(s)
          PROVE  status'[r] = status[r]
      BY <2>4 DEF StartAgent, LoadAssistant, LoadMessages, SaveReply, CtxDone, tables
    <2>5. ASSUME NEW s \in Calls, ResolveProvider(s) \/ Chat(s) \/ ExecuteToolCall(s) \/ EndIteration(s)
          PROVE  status'[r] = status[r]
      BY <2>5 DEF ResolveProvider, Chat, ChatFails, ChatNoChoice, ChatFinal, ChatToolCalls, ExecuteToolCall,
                  EndIteration, tables
    <2>6. ASSUME NEW s \in Calls, InsertRun(s) PROVE status'[r] = status[r]
      BY <2>1, <2>6 DEF InsertRun, TypeOK
    <2>7. ASSUME NEW s \in Calls, FailEmpty(s) \/ MarkInProgress(s) \/ FailRun(s) \/ CompleteRun(s)
          PROVE  status'[r] = status[r]
      <3>1. s # r
        BY <2>1, <2>7 DEF FailEmpty, MarkInProgress, FailRun, CompleteRun
      <3>2. \E value \in Ended \cup {"in_progress"} : SetStatus(s, value)
        BY <2>7 DEF FailEmpty, MarkInProgress, FailRun, CompleteRun, Ended
      <3> QED BY <2>1, <3>1, <3>2, SetStatusType
    <2>8. ASSUME NEW s \in Calls, CancelRun(s) PROVE status'[r] = status[r]
      BY <2>1, <2>8 DEF CancelRun, TypeOK
    <2> QED BY <2>2, <2>3, <2>4, <2>5, <2>6, <2>7, <2>8 DEF Next, Step
  <1> QED BY <1>1, RunsInductive, PTL DEF Spec, EndedRunStays
=============================================================================
