----------------------------- MODULE ChatProofs -----------------------------
(***************************************************************************)
(* Proofs about Chat, for every number of requests, keys, failing          *)
(* statements and edits: the state is well-formed, the budget of a key is  *)
(* overshot by a bounded amount, restricted requests are refused,          *)
(* an answer past Filter has a source, an answer is logged once, and       *)
(* current_spend follows spend_log.  BudgetInv is inductive: it pays one   *)
(* charge in advance for every request that has passed the budget check.   *)
(* RefusalInv, AnswerInv, OwnInv, LeakInv and SpendInv are inductive next  *)
(* to it; the last rests on facts about sums over finite sets, proved      *)
(* before it.                                                              *)
(***************************************************************************)
EXTENDS Chat, FiniteSetTheorems, TLAPS

MaxCharge == Rounded(MaxCost)

OpenPC == {"config", "get", "call", "log", "charge"}

(* What is about to be logged or charged is the cost of an answer.           *)
CostKnown == \A r \in Requests : pc[r] \in {"log", "charge"} => response[r].cost \in 0..MaxCost

(* A key without a row in budgets is never charged. *)
Unbudgeted == \A k \in Keys : k \notin budgeted => spend[k] = 0

(* What was spent, and a charge for every request under way, is covered by   *)
(* the budget, the largest number of requests under way and the failures.    *)
Covered(k) ==
    spend[k] + Cardinality(Open(k)) * MaxCharge <= MaxBudget - 1 + (peak[k] + faults) * MaxCharge

BudgetInv == TypeOK /\ CostKnown /\ Unbudgeted /\ \A k \in Keys : Covered(k)

-----------------------------------------------------------------------------
(* Arithmetic *)

(* Division by a positive number is monotone. *)
LEMMA DivMonotone ==
    ASSUME NEW x \in Nat, NEW y \in Nat, NEW d \in Nat \ {0}, x <= y
    PROVE  x \div d <= y \div d /\ x \div d \in Nat
  BY SMT

(* A larger number of charges costs at least as much, one more costs one     *)
(* charge more.                                                              *)
LEMMA Multiples ==
    ASSUME NEW m \in Nat, NEW n \in Nat, NEW c \in Nat
    PROVE  /\ m * c \in Nat
           /\ (m + 1) * c = m * c + c
           /\ m <= n => m * c <= n * c
  BY SMT

(* No charge exceeds the rounded largest cost. *)
LEMMA ChargeBounded ==
    ASSUME NEW c \in 0..MaxCost
    PROVE  Rounded(c) \in Nat /\ MaxCharge \in Nat /\ Rounded(c) <= MaxCharge
  <1> DEFINE d == 2 * Scale
             x == 2 * c + Scale
             y == 2 * MaxCost + Scale
  <1>1. d \in Nat \ {0} /\ x \in Nat /\ y \in Nat /\ x <= y
    BY ChatAssumption
  <1> HIDE DEF d, x, y
  <1>2. x \div d <= y \div d /\ x \div d \in Nat
    BY <1>1, DivMonotone
  <1>3. y \div d \in Nat
    BY <1>1, DivMonotone
  <1> QED BY <1>2, <1>3 DEF Rounded, MaxCharge, d, x, y

(* The sets of open requests are finite. *)
LEMMA OpenFinite ==
    ASSUME NEW k \in Keys
    PROVE  IsFiniteSet(Open(k)) /\ Cardinality(Open(k)) \in Nat
  <1>1. Open(k) \subseteq Requests
    BY DEF Open
  <1> QED BY <1>1, ChatAssumption, FS_Subset, FS_CardinalityType

(* One element more or less. *)
LEMMA AddOne ==
    ASSUME NEW S, IsFiniteSet(S), NEW x
    PROVE  /\ IsFiniteSet(S \cup {x}) /\ Cardinality(S \cup {x}) \in Nat
           /\ Cardinality(S \cup {x}) <= Cardinality(S) + 1
  <1>1. Cardinality(S) \in Nat
    BY FS_CardinalityType
  <1>2. /\ IsFiniteSet(S \cup {x})
        /\ Cardinality(S \cup {x}) = Cardinality(S) \/ Cardinality(S \cup {x}) = Cardinality(S) + 1
    BY FS_AddElement
  <1> QED BY <1>1, <1>2

(* A finite set without one of its elements is smaller by one. *)
LEMMA RemoveOne ==
    ASSUME NEW S, IsFiniteSet(S), NEW x \in S
    PROVE  Cardinality(S \ {x}) \in Nat /\ Cardinality(S) = Cardinality(S \ {x}) + 1
  <1>1. IsFiniteSet(S \ {x}) /\ Cardinality(S \ {x}) = Cardinality(S) - 1
    BY FS_RemoveElement
  <1>2. Cardinality(S) \in Nat /\ Cardinality(S \ {x}) \in Nat
    BY <1>1, FS_CardinalityType
  <1> QED BY <1>1, <1>2

-----------------------------------------------------------------------------
(* Type correctness *)

(* The values of LoadConfig are configurations. *)
LEMMA ConfigType ==
    ASSUME NEW row \in Rows \cup {"absent"}
    PROVE  Config(row) \in {"off", "plain", "redact"}
  BY ChatAssumption DEF Config

(* A statement, whether it succeeds or fails, leaves a legal fault count. *)
LEMMA ExecType ==
    ASSUME TypeOK, NEW r \in Requests, ExecOK(r) \/ ExecFails(r)
    PROVE  faults' \in 0..MaxFaults
  BY ChatAssumption DEF TypeOK, ExecOK, ExecFails, Fault

(* A hit is a response. *)
LEMMA HitType ==
    ASSUME NEW x \in Responses
    PROVE  [x EXCEPT !.route = "cache"] \in Responses
  BY DEF Responses

(* The tables, requests and cache are well-formed at the start. *)
LEMMA TypeInit == Init => TypeOK
  <1> SUFFICES ASSUME Init PROVE TypeOK
    OBVIOUS
  <1>1. None \in Responses /\ -1 \in -1..MaxCost
    BY ChatAssumption DEF None, Responses
  <1> QED BY <1>1, ChatAssumption DEF Init, TypeOK, Answered

(* Every step of the pipeline keeps them so. *)
LEMMA TypeStep == TypeOK /\ CostKnown /\ [Next]_vars => TypeOK'
  <1> SUFFICES ASSUME TypeOK, CostKnown, [Next]_vars PROVE TypeOK'
    OBVIOUS
  <1> USE DEF Goto, Answered
  <1>1. ASSUME NEW r \in Requests, Arrive(r) PROVE TypeOK'
    BY <1>1 DEF Arrive, TypeOK, tables, local, Objection
  <1>2. ASSUME NEW r \in Requests, LookUpUser(r) PROVE TypeOK'
    BY <1>2, ExecType DEF LookUpUser, TypeOK, tables, local
  <1>3. ASSUME NEW r \in Requests, CheckBlocked(r) PROVE TypeOK'
    BY <1>3, ExecType DEF CheckBlocked, TypeOK, tables, local
  <1>4. ASSUME NEW r \in Requests, CheckAllowedModels(r) PROVE TypeOK'
    BY <1>4, ExecType DEF CheckAllowedModels, TypeOK, tables, local
  <1>5. ASSUME NEW r \in Requests, CheckLimit(r) PROVE TypeOK'
    BY <1>5, ExecType DEF CheckLimit, TypeOK, tables, local
  <1>6. ASSUME NEW r \in Requests, CheckBudget(r) PROVE TypeOK'
    <2>1. key[r] \in Keys
      BY DEF TypeOK
    <2>2. Cardinality(Open(key[r]) \cup {r}) \in Nat
      BY <2>1, OpenFinite, FS_AddElement, FS_CardinalityType
    <2>3. peak' \in [Keys -> Nat]
      BY <1>6, <2>2 DEF CheckBudget, TypeOK
    <2>4. pc' = [pc EXCEPT ![r] = "config"] \/ pc' = [pc EXCEPT ![r] = "refused"]
      BY <1>6 DEF CheckBudget
    <2>5. ExecOK(r) \/ ExecFails(r)
      BY <1>6 DEF CheckBudget
    <2>6. UNCHANGED <<tables, local, ctxDone, edits, restricted, redacting>>
      BY <1>6 DEF CheckBudget
    <2> QED BY <2>3, <2>4, <2>5, <2>6, ExecType DEF TypeOK, tables, local
  <1>7. ASSUME NEW r \in Requests, CheckGuardrails(r) PROVE TypeOK'
    <2>1. Config(guardrail[key[r]]) \in {"off", "plain", "redact"}
      BY ConfigType DEF TypeOK
    <2>2. Global \in {"off", "plain", "redact"}
      BY ChatAssumption
    <2>3. config' \in [Requests -> {"off", "plain", "redact"}]
      BY <1>7, <2>1, <2>2 DEF CheckGuardrails, TypeOK
    <2>4. \E l \in {"chain", "get", "error", "refused"} : pc' = [pc EXCEPT ![r] = l]
      BY <1>7 DEF CheckGuardrails, AfterCheck
    <2>5. ExecOK(r) \/ ExecFails(r)
      BY <1>7 DEF CheckGuardrails
    <2>6. UNCHANGED <<tables, key, question, response, ctxDone, edits, peak, restricted, redacting>>
      BY <1>7 DEF CheckGuardrails
    <2> QED BY <2>3, <2>4, <2>5, <2>6, ExecType DEF TypeOK, tables, local
  <1>8. ASSUME NEW r \in Requests, CacheGet(r) PROVE TypeOK'
    <2>1. Hit(question[r]) \in Responses
      BY HitType DEF Hit, TypeOK
    <2>2. ExecOK(r) \/ ExecFails(r)
      BY <1>8 DEF CacheGet
    <2>3. response' \in [Requests -> Responses]
      BY <1>8, <2>1 DEF CacheGet, TypeOK
    <2> QED BY <1>8, <2>2, <2>3, ExecType DEF CacheGet, TypeOK, tables, local
  <1>9. ASSUME NEW r \in Requests, CallAnswers(r) PROVE TypeOK'
    <2>1. PICK c \in Costs : response' = [response EXCEPT ![r] =
             [cost |-> c, redacted |-> Filter(config[r]), route |-> "router"]]
      BY <1>9 DEF CallAnswers
    <2>2. [cost |-> c, redacted |-> Filter(config[r]), route |-> "router"]
             \in Responses
      BY ChatAssumption DEF Responses, TypeOK, Filter
    <2>3. response' \in [Requests -> Responses]
      BY <2>1, <2>2 DEF TypeOK
    <2> QED BY <1>9, <2>3 DEF CallAnswers, TypeOK, tables, local
  <1>10. ASSUME NEW r \in Requests, CallFails(r) PROVE TypeOK'
    BY <1>10 DEF CallFails, TypeOK, tables, local
  <1>11. ASSUME NEW r \in Requests, ChainAnswers(r) PROVE TypeOK'
    <2>1. [cost |-> 0, redacted |-> FALSE, route |-> "chain"] \in Responses
      BY ChatAssumption DEF Responses, TypeOK
    <2>2. response' \in [Requests -> Responses]
      BY <1>11, <2>1 DEF ChainAnswers, TypeOK
    <2> QED BY <1>11, <2>2 DEF ChainAnswers, TypeOK, tables, local
  <1>12. ASSUME NEW r \in Requests, InsertLog(r) PROVE TypeOK'
    <2>1. response[r].cost \in -1..MaxCost
      BY DEF TypeOK, Responses
    <2>2. ExecOK(r) \/ ExecFails(r)
      BY <1>12 DEF InsertLog
    <2>3. log' \in [Requests -> -1..MaxCost]
      BY <1>12, <2>1 DEF InsertLog, TypeOK
    <2> QED BY <1>12, <2>2, <2>3, ExecType DEF InsertLog, TypeOK, tables, local
  <1>13. ASSUME NEW r \in Requests, Charge(r) PROVE TypeOK'
    <2>1. response[r].cost \in 0..MaxCost
      BY <1>13 DEF Charge, CostKnown
    <2>2. Rounded(response[r].cost) \in Nat
      BY <2>1, ChargeBounded
    <2>3. ExecOK(r) \/ ExecFails(r)
      BY <1>13 DEF Charge
    <2>4. spend' \in [Keys -> Nat]
      BY <1>13, <2>2 DEF Charge, TypeOK
    <2> QED BY <1>13, <2>3, <2>4, ExecType DEF Charge, TypeOK, tables, local
  <1>14. ASSUME NEW r \in Requests, CacheSet(r) PROVE TypeOK'
    BY <1>14, ExecType DEF CacheSet, TypeOK, tables, local
  <1>15. ASSUME NEW r \in Requests, CtxDone(r) PROVE TypeOK'
    BY <1>15 DEF CtxDone, TypeOK, tables, local
  <1>16. ASSUME NEW k \in Keys, Deactivate(k) PROVE TypeOK'
    BY <1>16, ChatAssumption DEF Deactivate, Edit, StillRestricted, Objection, TypeOK, local
  <1>17. ASSUME NEW k \in Keys, EditBlocked(k) PROVE TypeOK'
    BY <1>17, ChatAssumption DEF EditBlocked, Edit, StillRestricted, Objection, TypeOK, local
  <1>18. ASSUME NEW k \in Keys, NEW row \in Rows, UpsertGuardrail(k, row) PROVE TypeOK'
    BY <1>18, ChatAssumption DEF UpsertGuardrail, Edit, StillRedacting, TypeOK, local
  <1>19. ASSUME NEW k \in Keys, DeleteGuardrail(k) PROVE TypeOK'
    BY <1>19, ChatAssumption DEF DeleteGuardrail, Edit, StillRedacting, TypeOK, local
  <1>20. ASSUME NEW q \in Questions, Expire(q) PROVE TypeOK'
    <2>1. None \in Responses
      BY ChatAssumption DEF None, Responses
    <2> QED BY <1>20, <2>1 DEF Expire, TypeOK, local
  <1>21. CASE UNCHANGED vars
    BY <1>21 DEF vars, tables, local, TypeOK
  <1>22. ASSUME NEW r \in Requests, CompletionGet(r) PROVE TypeOK'
    <2>1. Hit(question[r]) \in Responses
      BY HitType DEF Hit, TypeOK
    <2>2. ExecOK(r) \/ ExecFails(r)
      BY <1>22 DEF CompletionGet
    <2>3. response' \in [Requests -> Responses]
      BY <1>22, <2>1 DEF CompletionGet, TypeOK
    <2> QED BY <1>22, <2>2, <2>3, ExecType DEF CompletionGet, TypeOK, tables, local
  <1>23. ASSUME NEW r \in Requests, CompletionAnswers(r) PROVE TypeOK'
    <2>1. [cost |-> 0, redacted |-> FALSE, route |-> "completions"] \in Responses
      BY ChatAssumption DEF Responses
    <2>2. response' \in [Requests -> Responses]
      BY <1>23, <2>1 DEF CompletionAnswers, TypeOK
    <2> QED BY <1>23, <2>2 DEF CompletionAnswers, TypeOK, tables, local
  <1> QED BY <1>1, <1>2, <1>3, <1>4, <1>5, <1>6, <1>7, <1>8, <1>9, <1>10, <1>11, <1>12, <1>13, <1>14,
             <1>15, <1>16, <1>17, <1>18, <1>19, <1>20, <1>21, <1>22, <1>23 DEF Next, Step

-----------------------------------------------------------------------------
(* What is logged and charged is a cost, and only keys with a budget are     *)
(* charged.                                                                  *)

(* InsertLog and Charge only ever see the cost of an answer. *)
LEMMA CostKnownStep == TypeOK /\ CostKnown /\ [Next]_vars => CostKnown'
  <1> SUFFICES ASSUME TypeOK, CostKnown, [Next]_vars PROVE CostKnown'
    OBVIOUS
  <1>1. ASSUME NEW r \in Requests, CallAnswers(r) PROVE CostKnown'
    <2>1. PICK c \in Costs : response' = [response EXCEPT ![r] =
             [cost |-> c, redacted |-> Filter(config[r]), route |-> "router"]]
      BY <1>1 DEF CallAnswers
    <2>2. response'[r].cost \in 0..MaxCost
      BY <2>1, ChatAssumption DEF TypeOK
    <2>3. \A s \in Requests \ {r} : response'[s] = response[s] /\ pc'[s] = pc[s]
      BY <1>1, <2>1 DEF CallAnswers, Goto, TypeOK
    <2> QED BY <2>2, <2>3 DEF CostKnown
  <1>2. ASSUME NEW r \in Requests,
               CacheGet(r) \/ ChainAnswers(r) \/ CompletionGet(r) \/ CompletionAnswers(r)
        PROVE  CostKnown'
    <2>1. pc'[r] \notin {"log", "charge"}
      BY <1>2 DEF CacheGet, ChainAnswers, CompletionGet, CompletionAnswers, Goto, TypeOK
    <2>2. \A s \in Requests \ {r} : response'[s] = response[s] /\ pc'[s] = pc[s]
      BY <1>2 DEF CacheGet, ChainAnswers, CompletionGet, CompletionAnswers, Goto, TypeOK
    <2> QED BY <2>1, <2>2 DEF CostKnown
  <1>3. ASSUME response' = response,
               \A s \in Requests : pc'[s] \in {"log", "charge"} => pc[s] \in {"log", "charge"}
        PROVE  CostKnown'
    BY <1>3 DEF CostKnown
  <1>4. ASSUME NEW r \in Requests, Arrive(r) \/ LookUpUser(r) \/ CheckBlocked(r) PROVE CostKnown'
    BY <1>3, <1>4 DEF Arrive, LookUpUser, CheckBlocked, Goto, TypeOK, local
  <1>5. ASSUME NEW r \in Requests, CheckAllowedModels(r) \/ CheckLimit(r) \/ CheckBudget(r)
        PROVE  CostKnown'
    BY <1>3, <1>5 DEF CheckAllowedModels, CheckLimit, CheckBudget, Goto, TypeOK, local
  <1>6. ASSUME NEW r \in Requests, CheckGuardrails(r) PROVE CostKnown'
    BY <1>3, <1>6 DEF CheckGuardrails, AfterCheck, Goto, TypeOK
  <1>7. ASSUME NEW r \in Requests, CallFails(r) \/ InsertLog(r) \/ Charge(r) \/ CacheSet(r)
        PROVE  CostKnown'
    BY <1>3, <1>7 DEF CallFails, InsertLog, Charge, CacheSet, Goto, TypeOK, local
  <1>8. ASSUME NEW r \in Requests, CtxDone(r) PROVE CostKnown'
    BY <1>3, <1>8 DEF CtxDone, local
  <1>9. ASSUME NEW k \in Keys, Deactivate(k) \/ EditBlocked(k) \/ DeleteGuardrail(k) PROVE CostKnown'
    BY <1>3, <1>9 DEF Deactivate, EditBlocked, DeleteGuardrail, local
  <1>10. ASSUME NEW k \in Keys, NEW row \in Rows, UpsertGuardrail(k, row) PROVE CostKnown'
    BY <1>3, <1>10 DEF UpsertGuardrail, local
  <1>11. ASSUME NEW q \in Questions, Expire(q) PROVE CostKnown'
    BY <1>3, <1>11 DEF Expire, local
  <1>12. CASE UNCHANGED vars
    BY <1>3, <1>12 DEF vars, local
  <1> QED BY <1>1, <1>2, <1>4, <1>5, <1>6, <1>7, <1>8, <1>9, <1>10, <1>11, <1>12 DEF Next, Step

(* Only the charge changes current_spend, and only of the request's key. *)
LEMMA SpendStep ==
    ASSUME TypeOK, [Next]_vars
    PROVE  /\ budgeted' = budgeted
           /\ (\E r \in Requests : Charge(r)) \/ spend' = spend
  <1>1. ASSUME NEW r \in Requests, Arrive(r) \/ Step(r) \/ CtxDone(r)
        PROVE  budgeted' = budgeted /\ (Charge(r) \/ spend' = spend)
    BY <1>1 DEF Step, Arrive, LookUpUser, CheckBlocked, CheckAllowedModels, CheckLimit, CheckBudget,
       CheckGuardrails, CacheGet, CallAnswers, CallFails, ChainAnswers, CompletionGet, CompletionAnswers,
       InsertLog, Charge, CacheSet, CtxDone, tables
  <1>2. ASSUME NEW k \in Keys, Deactivate(k) \/ EditBlocked(k) \/ DeleteGuardrail(k)
        PROVE  budgeted' = budgeted /\ spend' = spend
    BY <1>2 DEF Deactivate, EditBlocked, DeleteGuardrail
  <1>3. ASSUME NEW k \in Keys, NEW row \in Rows, UpsertGuardrail(k, row)
        PROVE  budgeted' = budgeted /\ spend' = spend
    BY <1>3 DEF UpsertGuardrail
  <1>4. ASSUME NEW q \in Questions, Expire(q)
        PROVE  budgeted' = budgeted /\ spend' = spend
    BY <1>4 DEF Expire
  <1>5. CASE UNCHANGED vars
    BY <1>5 DEF vars, tables
  <1> QED BY <1>1, <1>2, <1>3, <1>4, <1>5 DEF Next

(* The update of RecordSpend leaves keys without a row alone. *)
LEMMA UnbudgetedStep == TypeOK /\ Unbudgeted /\ [Next]_vars => Unbudgeted'
  <1> SUFFICES ASSUME TypeOK, Unbudgeted, [Next]_vars PROVE Unbudgeted'
    OBVIOUS
  <1>1. ASSUME NEW r \in Requests, Charge(r), NEW k \in Keys, k \notin budgeted
        PROVE  spend'[k] = spend[k]
    BY <1>1 DEF Charge, TypeOK
  <1> QED BY <1>1, SpendStep DEF Unbudgeted

-----------------------------------------------------------------------------
(* The overshoot *)

(* With d requests more under way, d more of what they are weighed against   *)
(* are enough.                                                               *)
LEMMA CoverMore ==
    ASSUME NEW s \in Nat, NEW b \in Nat, NEW c \in Nat, NEW d \in {0, 1},
           NEW n \in Nat, NEW n2 \in Nat, NEW m \in Nat, NEW m2 \in Nat,
           s + n * c <= b - 1 + m * c, n2 <= n + d, m + d <= m2
    PROVE  s + n2 * c <= b - 1 + m2 * c
  <1>1. n2 * c <= (n + d) * c /\ (m + d) * c <= m2 * c
    BY Multiples
  <1>2. (n + d) * c = n * c + d * c /\ (m + d) * c = m * c + d * c
    BY Multiples
  <1>3. n * c \in Nat /\ m * c \in Nat /\ n2 * c \in Nat /\ m2 * c \in Nat /\ d * c \in Nat
    BY Multiples
  <1> DEFINE nc == n * c  mc == m * c  nc2 == n2 * c  mc2 == m2 * c  dc == d * c
             ndc == (n + d) * c  mdc == (m + d) * c
  <1>4. /\ nc \in Nat /\ mc \in Nat /\ nc2 \in Nat /\ mc2 \in Nat /\ dc \in Nat
        /\ nc2 <= ndc /\ mdc <= mc2 /\ ndc = nc + dc /\ mdc = mc + dc
        /\ s + nc <= b - 1 + mc
    BY <1>1, <1>2, <1>3
  <1>5. SUFFICES s + nc2 <= b - 1 + mc2
    OBVIOUS
  <1> HIDE DEF nc, mc, nc2, mc2, dc, ndc, mdc
  <1> QED BY <1>4

(* A step under which the key's requests only leave, nothing is charged and  *)
(* what they are weighed against does not shrink.  One request may enter for *)
(* a failure.                                                                *)
LEMMA CoveredFrame ==
    ASSUME TypeOK, TypeOK', NEW k \in Keys, Covered(k), NEW d \in {0, 1},
           spend'[k] = spend[k], Cardinality(Open(k)') <= Cardinality(Open(k)) + d,
           Cardinality(Open(k)') \in Nat, peak[k] <= peak'[k], faults + d <= faults'
    PROVE  Covered(k)'
  <1> DEFINE s == spend[k]  n == Cardinality(Open(k))  n2 == Cardinality(Open(k)')
             m == peak[k] + faults  m2 == peak'[k] + faults'
  <1>1. s \in Nat /\ n \in Nat /\ n2 \in Nat /\ m \in Nat /\ m2 \in Nat /\ m + d <= m2
    BY OpenFinite, ChatAssumption DEF TypeOK
  <1>2. MaxCharge \in Nat /\ MaxBudget \in Nat
    BY ChargeBounded, ChatAssumption
  <1>3. s + n * MaxCharge <= MaxBudget - 1 + m * MaxCharge /\ n2 <= n + d
    BY DEF Covered
  <1>4. SUFFICES s + n2 * MaxCharge <= MaxBudget - 1 + m2 * MaxCharge
    BY DEF Covered
  <1> HIDE DEF s, n, n2, m, m2
  <1> QED BY <1>1, <1>2, <1>3, CoverMore

(* The same for the sets of requests themselves. *)
LEMMA CoveredLeave ==
    ASSUME TypeOK, TypeOK', NEW k \in Keys, Covered(k),
           spend'[k] = spend[k], Open(k)' \subseteq Open(k), peak[k] <= peak'[k], faults <= faults'
    PROVE  Covered(k)'
  <1>1. Cardinality(Open(k)') <= Cardinality(Open(k)) /\ Cardinality(Open(k)') \in Nat
    BY OpenFinite, FS_Subset, FS_CardinalityType
  <1>2. faults \in Nat /\ Cardinality(Open(k)) \in Nat
    BY OpenFinite, ChatAssumption DEF TypeOK
  <1> QED BY <1>1, <1>2, CoveredFrame

(* A step that lets no request pass the budget check and charges nothing. *)
Quiet ==
    /\ key' = key /\ spend' = spend /\ peak' = peak /\ faults <= faults'
    /\ \A s \in Requests : /\ pc'[s] \in OpenPC => pc[s] \in OpenPC
                           /\ ctxDone[s] => ctxDone'[s]

(* A quiet step keeps every key covered. *)
LEMMA CoveredQuiet ==
    ASSUME TypeOK, TypeOK', Quiet, NEW k \in Keys, Covered(k)
    PROVE  Covered(k)'
  <1>1. Open(k)' \subseteq Open(k)
    BY DEF Quiet, Open, OpenPC
  <1>2. spend'[k] = spend[k] /\ peak[k] <= peak'[k] /\ faults <= faults'
    BY DEF Quiet, TypeOK
  <1> QED BY <1>1, <1>2, CoveredLeave

(* Every action except the budget check and the charge is quiet. *)
LEMMA OthersQuiet ==
    ASSUME TypeOK, [Next]_vars, \A r \in Requests : ~CheckBudget(r) /\ ~Charge(r)
    PROVE  Quiet
  <1> USE DEF Quiet, OpenPC
  <1>1. \A r \in Requests : ExecOK(r) \/ ExecFails(r) => faults <= faults'
    BY ChatAssumption DEF TypeOK, ExecOK, ExecFails, Fault
  <1>2. faults <= faults
    BY ChatAssumption DEF TypeOK
  <1>3. ASSUME NEW r \in Requests, Arrive(r) \/ LookUpUser(r) \/ CheckBlocked(r) PROVE Quiet
    BY <1>1, <1>2, <1>3 DEF Arrive, LookUpUser, CheckBlocked, Goto, TypeOK, tables, local
  <1>4. ASSUME NEW r \in Requests, CheckAllowedModels(r) \/ CheckLimit(r) PROVE Quiet
    BY <1>1, <1>4 DEF CheckAllowedModels, CheckLimit, Goto, TypeOK, tables, local
  <1>5. ASSUME NEW r \in Requests, CheckGuardrails(r) PROVE Quiet
    BY <1>1, <1>5 DEF CheckGuardrails, AfterCheck, Goto, TypeOK, tables
  <1>6. ASSUME NEW r \in Requests, CacheGet(r) \/ CompletionGet(r) PROVE Quiet
    BY <1>1, <1>6 DEF CacheGet, CompletionGet, Goto, TypeOK, tables
  <1>7. ASSUME NEW r \in Requests,
               CallAnswers(r) \/ CallFails(r) \/ ChainAnswers(r) \/ CompletionAnswers(r)
        PROVE  Quiet
    BY <1>2, <1>7 DEF CallAnswers, CallFails, ChainAnswers, CompletionAnswers, Goto, TypeOK, tables, local
  <1>8. ASSUME NEW r \in Requests, InsertLog(r) \/ CacheSet(r) PROVE Quiet
    BY <1>1, <1>8 DEF InsertLog, CacheSet, Goto, TypeOK, local
  <1>9. ASSUME NEW r \in Requests, CtxDone(r) PROVE Quiet
    BY <1>2, <1>9 DEF CtxDone, TypeOK, tables, local
  <1>10. ASSUME NEW k \in Keys, Deactivate(k) \/ EditBlocked(k) \/ DeleteGuardrail(k) PROVE Quiet
    BY <1>2, <1>10 DEF Deactivate, EditBlocked, DeleteGuardrail, local
  <1>11. ASSUME NEW k \in Keys, NEW row \in Rows, UpsertGuardrail(k, row) PROVE Quiet
    BY <1>2, <1>11 DEF UpsertGuardrail, local
  <1>12. ASSUME NEW q \in Questions, Expire(q) PROVE Quiet
    BY <1>2, <1>12 DEF Expire, local
  <1>13. CASE UNCHANGED vars
    BY <1>2, <1>13 DEF vars, tables, local
  <1> HIDE DEF Quiet, OpenPC
  <1> QED BY <1>3, <1>4, <1>5, <1>6, <1>7, <1>8, <1>9, <1>10, <1>11, <1>12, <1>13 DEF Next, Step

(* The budget check.  A request that passes it with an answer saw less than  *)
(* the budget spent and is counted in peak; one that passes it because the   *)
(* query failed is weighed against the failure, unless its client has gone:  *)
(* then it will never be charged.                                            *)
LEMMA CoveredCheckBudget ==
    ASSUME BudgetInv, TypeOK', NEW r \in Requests, CheckBudget(r), NEW k \in Keys
    PROVE  Covered(k)'
  <1> USE DEF BudgetInv
  <1>1. key' = key /\ spend' = spend /\ ctxDone' = ctxDone /\ budgeted' = budgeted
    BY DEF CheckBudget, tables, local
  <1>2. \A s \in Requests \ {r} : pc'[s] = pc[s]
    BY DEF CheckBudget, Goto, TypeOK
  <1>3. Open(k)' \subseteq Open(k) \cup {r}
    BY <1>1, <1>2 DEF Open
  <1>4. faults \in Nat /\ faults <= faults'
    BY ChatAssumption DEF CheckBudget, TypeOK, ExecOK, ExecFails, Fault
  <1>5. IsFiniteSet(Open(k)) /\ Cardinality(Open(k)) \in Nat
    BY OpenFinite
  <1>6. /\ IsFiniteSet(Open(k) \cup {r}) /\ Cardinality(Open(k) \cup {r}) \in Nat
        /\ Cardinality(Open(k) \cup {r}) <= Cardinality(Open(k)) + 1
    BY <1>5, AddOne
  <1>7. Cardinality(Open(k)') \in Nat /\ Cardinality(Open(k)') <= Cardinality(Open(k) \cup {r})
    BY <1>3, <1>6, FS_Subset, FS_CardinalityType
  <1>8. peak[k] \in Nat /\ peak[k] <= peak'[k]
    <2>1. Cardinality(Open(key[r]) \cup {r}) \in Nat
      BY OpenFinite, FS_AddElement, FS_CardinalityType DEF TypeOK
    <2> QED BY <2>1 DEF CheckBudget, TypeOK
  <1>9. CASE key[r] # k \/ ctxDone[r] \/ pc'[r] = "refused"
    <2>1. Open(k)' \subseteq Open(k)
      BY <1>1, <1>2, <1>9 DEF Open
    <2> QED BY <1>1, <1>4, <1>8, <2>1, CoveredLeave
  <1>10. CASE Fault
    <2>1. faults + 1 <= faults' /\ Cardinality(Open(k)') <= Cardinality(Open(k)) + 1
      BY <1>4, <1>5, <1>6, <1>7, <1>10 DEF Fault
    <2> QED BY <1>1, <1>7, <1>8, <2>1, CoveredFrame
  <1>11. CASE key[r] = k /\ WithinBudget(k) /\ ExecOK(r) /\ Goto(r, "config")
    <2> DEFINE n == Cardinality(Open(k) \cup {r})  n2 == Cardinality(Open(k)')
               m == peak'[k] + faults'
    <2>1. pc'[r] = "config"
      BY <1>11 DEF Goto, TypeOK
    <2>2. n <= peak'[k]
      <3>1. peak' = [peak EXCEPT ![k] = IF n > @ THEN n ELSE @]
        BY <1>11, <2>1 DEF CheckBudget, TypeOK, Goto
      <3> HIDE DEF n
      <3> QED BY <1>6, <1>8, <3>1 DEF TypeOK, n
    <2>3. spend[k] <= MaxBudget - 1 /\ spend[k] \in Nat /\ MaxBudget \in Nat
      BY <1>11, ChatAssumption DEF WithinBudget, Unbudgeted, TypeOK
    <2>4. MaxCharge \in Nat
      BY ChargeBounded, ChatAssumption
    <2>5. n2 \in Nat /\ m \in Nat /\ n2 <= m
      BY <1>4, <1>6, <1>7, <1>8, <2>2 DEF TypeOK
    <2>6. SUFFICES spend[k] + n2 * MaxCharge <= MaxBudget - 1 + m * MaxCharge
      BY <1>1 DEF Covered
    <2> HIDE DEF n, n2, m
    <2>7. n2 * MaxCharge \in Nat /\ m * MaxCharge \in Nat /\ n2 * MaxCharge <= m * MaxCharge
      BY <2>4, <2>5, Multiples
    <2> DEFINE x == n2 * MaxCharge  y == m * MaxCharge
    <2>8. SUFFICES spend[k] + x <= MaxBudget - 1 + y
      OBVIOUS
    <2>9. x \in Nat /\ y \in Nat /\ x <= y
      BY <2>7
    <2> HIDE DEF x, y
    <2> QED BY <2>3, <2>9
  <1>12. pc'[r] = "refused" \/ (Goto(r, "config") /\ (ExecFails(r) \/ (WithinBudget(key[r]) /\ ExecOK(r))))
    BY DEF CheckBudget, Goto, TypeOK
  <1> QED BY <1>9, <1>10, <1>11, <1>12 DEF ExecFails

(* The charge: it uses up what was paid in advance for the request. *)
LEMMA CoveredCharge ==
    ASSUME BudgetInv, TypeOK', NEW r \in Requests, Charge(r), NEW k \in Keys
    PROVE  Covered(k)'
  <1> USE DEF BudgetInv
  <1>1. key' = key /\ ctxDone' = ctxDone /\ peak' = peak /\ pc' = [pc EXCEPT ![r] = "set"]
    BY DEF Charge, Goto, local
  <1>2. Open(k)' = Open(k) \ {r}
    BY <1>1 DEF Open, TypeOK
  <1>3. faults \in Nat /\ faults <= faults' /\ peak[k] \in Nat
    BY ChatAssumption DEF Charge, TypeOK, ExecOK, ExecFails, Fault
  <1>4. CASE spend'[k] = spend[k]
    BY <1>1, <1>2, <1>3, <1>4, CoveredLeave
  <1>5. CASE spend'[k] # spend[k]
    <2> DEFINE n == Cardinality(Open(k))  n2 == Cardinality(Open(k)')
               m == peak[k] + faults  m2 == peak'[k] + faults'
               c == Rounded(response[r].cost)
    <2>1. key[r] = k /\ ~ctxDone[r] /\ spend'[k] = spend[k] + c
      BY <1>5 DEF Charge, ExecOK, TypeOK
    <2>2. r \in Open(k)
      BY <2>1 DEF Open, Charge
    <2>3. n \in Nat /\ n2 \in Nat /\ n = n2 + 1
      BY <1>2, <2>2, OpenFinite, RemoveOne
    <2>4. MaxCharge \in Nat /\ c \in Nat /\ c <= MaxCharge
      BY ChargeBounded DEF Charge, CostKnown
    <2>5. m \in Nat /\ m2 \in Nat /\ m <= m2
      BY <1>1, <1>3 DEF TypeOK
    <2>6. spend[k] + n * MaxCharge <= MaxBudget - 1 + m * MaxCharge
      BY DEF Covered
    <2>7. SUFFICES spend[k] + c + n2 * MaxCharge <= MaxBudget - 1 + m2 * MaxCharge
      BY <2>1 DEF Covered
    <2>8. spend[k] \in Nat /\ MaxBudget \in Nat
      BY ChatAssumption DEF TypeOK
    <2> HIDE DEF n, n2, m, m2, c
    <2>9. /\ n * MaxCharge = n2 * MaxCharge + MaxCharge /\ n2 * MaxCharge \in Nat
          /\ m * MaxCharge \in Nat /\ m2 * MaxCharge \in Nat /\ m * MaxCharge <= m2 * MaxCharge
      BY <2>3, <2>4, <2>5, Multiples
    <2> DEFINE nc == n * MaxCharge  nc2 == n2 * MaxCharge  mc == m * MaxCharge  mc2 == m2 * MaxCharge
    <2>10. SUFFICES spend[k] + c + nc2 <= MaxBudget - 1 + mc2
      OBVIOUS
    <2>11. /\ nc = nc2 + MaxCharge /\ nc2 \in Nat /\ mc \in Nat /\ mc2 \in Nat /\ mc <= mc2
           /\ spend[k] + nc <= MaxBudget - 1 + mc
      BY <2>6, <2>9
    <2> HIDE DEF nc, nc2, mc, mc2
    <2> QED BY <2>4, <2>8, <2>11
  <1> QED BY <1>4, <1>5

(* BudgetInv holds at the start. *)
LEMMA BudgetInit == Init => BudgetInv
  <1> SUFFICES ASSUME Init PROVE BudgetInv
    OBVIOUS
  <1>1. TypeOK
    BY TypeInit
  <1>2. CostKnown /\ Unbudgeted
    BY DEF Init, CostKnown, Unbudgeted
  <1>3. ASSUME NEW k \in Keys PROVE Covered(k)
    <2>1. Open(k) = {}
      BY DEF Init, Open
    <2>2. Cardinality(Open(k)) = 0
      BY <2>1, FS_EmptySet
    <2>3. spend[k] = 0 /\ peak[k] = 0 /\ faults = 0
      BY DEF Init
    <2>4. MaxCharge \in Nat /\ MaxBudget \in Nat \ {0}
      BY ChargeBounded, ChatAssumption
    <2>5. 0 * MaxCharge = 0 /\ (0 + 0) * MaxCharge = 0
      BY <2>4
    <2> QED BY <2>2, <2>3, <2>4, <2>5 DEF Covered
  <1> QED BY <1>1, <1>2, <1>3 DEF BudgetInv

(* Every step keeps BudgetInv. *)
LEMMA BudgetStep == BudgetInv /\ [Next]_vars => BudgetInv'
  <1> SUFFICES ASSUME BudgetInv, [Next]_vars PROVE BudgetInv'
    OBVIOUS
  <1>1. TypeOK' /\ CostKnown' /\ Unbudgeted'
    BY TypeStep, CostKnownStep, UnbudgetedStep DEF BudgetInv
  <1>2. ASSUME NEW k \in Keys PROVE Covered(k)'
    <2>1. CASE \E r \in Requests : CheckBudget(r)
      BY <1>1, <2>1, CoveredCheckBudget
    <2>2. CASE \E r \in Requests : Charge(r)
      BY <1>1, <2>2, CoveredCharge
    <2>3. CASE \A r \in Requests : ~CheckBudget(r) /\ ~Charge(r)
      BY <1>1, <2>3, OthersQuiet, CoveredQuiet DEF BudgetInv
    <2> QED BY <2>1, <2>2, <2>3
  <1> QED BY <1>1, <1>2 DEF BudgetInv

(* What is covered is overshot by a bounded amount only. *)
LEMMA BudgetImplies == BudgetInv => OvershootBounded
  <1> SUFFICES ASSUME BudgetInv, NEW k \in Keys
               PROVE  spend[k] < MaxBudget + (peak[k] + faults) * MaxCharge
    BY DEF OvershootBounded, MaxCharge
  <1> DEFINE x == Cardinality(Open(k)) * MaxCharge  y == (peak[k] + faults) * MaxCharge
  <1>1. MaxCharge \in Nat /\ MaxBudget \in Nat /\ spend[k] \in Nat /\ peak[k] + faults \in Nat
    BY ChargeBounded, ChatAssumption DEF BudgetInv, TypeOK
  <1>2. x \in Nat /\ y \in Nat
    BY <1>1, OpenFinite, Multiples
  <1>3. spend[k] + x <= MaxBudget - 1 + y
    BY DEF BudgetInv, Covered
  <1>4. SUFFICES spend[k] < MaxBudget + y
    OBVIOUS
  <1> HIDE DEF x, y
  <1> QED BY <1>1, <1>2, <1>3

(* The state of the pipeline is well-formed; in particular nothing but a     *)
(* natural number is ever added to current_spend.                            *)
THEOREM ChatTypeCorrect == Spec => []TypeOK
  <1>1. BudgetInv => TypeOK
    BY DEF BudgetInv
  <1> QED BY BudgetInit, BudgetStep, <1>1, PTL DEF Spec

(* However many requests, keys and failures there are: CheckBudget before    *)
(* the call and RecordSpend after it overshoot the budget of a key by less   *)
(* than one charge for each request of the key that was ever under way at    *)
(* the same time, and one for each query that failed.                        *)
THEOREM BudgetOvershootBounded == Spec => []OvershootBounded
  BY BudgetInit, BudgetStep, BudgetImplies, PTL DEF Spec

-----------------------------------------------------------------------------
(* Refusals *)

(* A request is marked as restricted only while there is an objection. *)
Objected == \A r \in Requests : restricted[r] => Objection(r, active, blocked)

(* A restricted request stays in front of the check that will refuse it: the *)
(* one of the block list, or the one of the model.                           *)
Held ==
    \A r \in Requests : restricted[r] /\ Undisturbed(r) =>
        /\ pc[r] \in {"user", "blocked", "model", "refused"}
        /\ pc[r] = "model" => question[r] \notin Permitted[key[r]]

RefusalInv == Objected /\ Held

(* A step after which the objections are what they were, taken by no request *)
(* that is in front of a check.                                              *)
Elsewhere ==
    /\ UNCHANGED <<active, blocked, key, question, restricted>>
    /\ faults' = 0 => faults = 0
    /\ \A s \in Requests :
          /\ ctxDone[s] => ctxDone'[s]
          /\ pc'[s] = pc[s] \/ pc[s] \notin {"user", "blocked", "model", "refused"}

(* Such a step holds what was held. *)
LEMMA HeldElsewhere == ASSUME RefusalInv, Elsewhere PROVE RefusalInv'
  BY DEF RefusalInv, Objected, Held, Elsewhere, Objection, Undisturbed

(* A statement can only add to the failures. *)
LEMMA FaultsStay ==
    ASSUME TypeOK, NEW r \in Requests, ExecOK(r) \/ ExecFails(r)
    PROVE  faults' = 0 => faults = 0
  BY ChatAssumption DEF TypeOK, ExecOK, ExecFails, Fault

(* One of the checks moves the request r to l. *)
CheckMoves(r, l) ==
    /\ pc' = [pc EXCEPT ![r] = l]
    /\ UNCHANGED <<active, blocked, key, question, restricted, ctxDone>>
    /\ faults' = 0 => faults = 0

(* It is enough that the request r itself is held. *)
LEMMA HeldCheck ==
    ASSUME TypeOK, RefusalInv, NEW r \in Requests, NEW l, CheckMoves(r, l),
           restricted[r] /\ faults' = 0 /\ ~ctxDone[r] =>
               /\ l \in {"blocked", "model", "refused"}
               /\ l = "model" => question[r] \notin Permitted[key[r]]
    PROVE  RefusalInv'
  <1>1. Objected'
    BY DEF RefusalInv, Objected, Objection, CheckMoves
  <1>2. ASSUME NEW s \in Requests, restricted'[s], Undisturbed(s)'
        PROVE  /\ pc'[s] \in {"user", "blocked", "model", "refused"}
               /\ pc'[s] = "model" => question'[s] \notin Permitted[key'[s]]
    <2>1. CASE s = r
      BY <1>2, <2>1 DEF CheckMoves, Undisturbed, TypeOK
    <2>2. CASE s # r
      BY <1>2, <2>2 DEF CheckMoves, Undisturbed, TypeOK, RefusalInv, Held
    <2> QED BY <2>1, <2>2
  <1> QED BY <1>1, <1>2 DEF RefusalInv, Held

(* Every step keeps restricted requests in front of the provider. *)
LEMMA RefusalStep == TypeOK /\ RefusalInv /\ [Next]_vars => RefusalInv'
  <1> SUFFICES ASSUME TypeOK, RefusalInv, [Next]_vars PROVE RefusalInv'
    OBVIOUS
  <1>1. ASSUME NEW r \in Requests, Arrive(r) PROVE RefusalInv'
    <2>1. /\ UNCHANGED <<active, blocked, key, question, faults, ctxDone>>
          /\ pc'[r] = "user" /\ restricted'[r] = Objection(r, active, blocked)
          /\ \A s \in Requests \ {r} : pc'[s] = pc[s] /\ restricted'[s] = restricted[s]
      BY <1>1 DEF Arrive, Goto, tables, local, TypeOK
    <2>2. Objected'
      BY <2>1 DEF RefusalInv, Objected, Objection
    <2>3. Held'
      BY <2>1 DEF RefusalInv, Held, Undisturbed
    <2> QED BY <2>2, <2>3 DEF RefusalInv
  <1>2. ASSUME NEW r \in Requests, LookUpUser(r) PROVE RefusalInv'
    <2>1. \/ CheckMoves(r, IF key[r] \in active THEN "blocked" ELSE "model") /\ ExecOK(r)
          \/ CheckMoves(r, "model") /\ ExecFails(r)
      BY <1>2, FaultsStay DEF LookUpUser, CheckMoves, Goto, tables, local
    <2>2. restricted[r] => key[r] \in active
      BY DEF RefusalInv, Objected, Objection
    <2>3. faults' = 0 /\ ~ctxDone[r] => ~ExecFails(r)
      BY ChatAssumption DEF ExecFails, Fault, TypeOK
    <2>4. CASE CheckMoves(r, "model") /\ ExecFails(r)
      BY <2>3, <2>4, HeldCheck
    <2>5. CASE CheckMoves(r, IF key[r] \in active THEN "blocked" ELSE "model") /\ ExecOK(r)
      BY <2>2, <2>5, HeldCheck
    <2> QED BY <2>1, <2>4, <2>5
  <1>3. ASSUME NEW r \in Requests, CheckBlocked(r) PROVE RefusalInv'
    <2>1. \/ CheckMoves(r, IF key[r] \in blocked THEN "refused" ELSE "model") /\ ExecOK(r)
          \/ CheckMoves(r, "model") /\ ExecFails(r)
      BY <1>3, FaultsStay DEF CheckBlocked, CheckMoves, Goto, tables, local
    <2>2. restricted[r] /\ key[r] \notin blocked => question[r] \notin Permitted[key[r]]
      BY DEF RefusalInv, Objected, Objection
    <2>3. faults' = 0 /\ ~ctxDone[r] => ~ExecFails(r)
      BY ChatAssumption DEF ExecFails, Fault, TypeOK
    <2>4. CASE CheckMoves(r, "model") /\ ExecFails(r)
      BY <2>3, <2>4, HeldCheck
    <2>5. CASE CheckMoves(r, IF key[r] \in blocked THEN "refused" ELSE "model") /\ ExecOK(r)
      BY <2>2, <2>5, HeldCheck
    <2> QED BY <2>1, <2>4, <2>5
  <1>4. ASSUME NEW r \in Requests, CheckAllowedModels(r) PROVE RefusalInv'
    <2>1. \/ CheckMoves(r, IF key[r] \in active /\ question[r] \notin Permitted[key[r]]
                           THEN "refused" ELSE "limit") /\ ExecOK(r)
          \/ CheckMoves(r, "limit") /\ ExecFails(r)
      BY <1>4, FaultsStay DEF CheckAllowedModels, CheckMoves, Goto, tables, local
    <2>2. restricted[r] => key[r] \in active
      BY DEF RefusalInv, Objected, Objection
    <2>3. restricted[r] /\ faults = 0 /\ ~ctxDone[r] => question[r] \notin Permitted[key[r]]
      BY <1>4 DEF RefusalInv, Held, Undisturbed, CheckAllowedModels
    <2>4. faults' = 0 /\ ~ctxDone[r] => ~ExecFails(r)
      BY ChatAssumption DEF ExecFails, Fault, TypeOK
    <2>5. CASE CheckMoves(r, "limit") /\ ExecFails(r)
      BY <2>4, <2>5, HeldCheck
    <2>6. CASE CheckMoves(r, IF key[r] \in active /\ question[r] \notin Permitted[key[r]]
                             THEN "refused" ELSE "limit") /\ ExecOK(r)
      <3>1. restricted[r] /\ faults' = 0 /\ ~ctxDone[r] =>
               key[r] \in active /\ question[r] \notin Permitted[key[r]]
        BY <2>2, <2>3, <2>6 DEF ExecOK
      <3> QED BY <2>6, <3>1, HeldCheck
    <2> QED BY <2>1, <2>5, <2>6
  <1>5. ASSUME NEW r \in Requests, \/ CheckLimit(r) \/ CheckBudget(r) \/ CheckGuardrails(r) \/ CacheGet(r)
                                   \/ CompletionGet(r)
        PROVE  RefusalInv'
    <2>1. Elsewhere
      BY <1>5, FaultsStay DEF Elsewhere, CheckLimit, CheckBudget, CheckGuardrails, CacheGet, CompletionGet,
                              Goto, TypeOK, tables, local
    <2> QED BY <2>1, HeldElsewhere
  <1>6. ASSUME NEW r \in Requests,
               CallAnswers(r) \/ CallFails(r) \/ ChainAnswers(r) \/ CompletionAnswers(r)
        PROVE  RefusalInv'
    <2>1. Elsewhere
      BY <1>6 DEF Elsewhere, CallAnswers, CallFails, ChainAnswers, CompletionAnswers, Goto, TypeOK, tables, local
    <2> QED BY <2>1, HeldElsewhere
  <1>7. ASSUME NEW r \in Requests, InsertLog(r) \/ Charge(r) \/ CacheSet(r) PROVE RefusalInv'
    <2>1. Elsewhere
      BY <1>7, FaultsStay DEF Elsewhere, InsertLog, Charge, CacheSet, Goto, TypeOK, tables, local
    <2> QED BY <2>1, HeldElsewhere
  <1>8. ASSUME NEW r \in Requests, CtxDone(r) PROVE RefusalInv'
    <2>1. Elsewhere
      BY <1>8 DEF Elsewhere, CtxDone, TypeOK, tables, local
    <2> QED BY <2>1, HeldElsewhere
  <1>9. ASSUME NEW k \in Keys, Deactivate(k) \/ EditBlocked(k) PROVE RefusalInv'
    <2>1. /\ UNCHANGED <<pc, key, question, ctxDone, faults>>
          /\ \A s \in Requests : restricted'[s] = (restricted[s] /\ Objection(s, active', blocked'))
      BY <1>9 DEF Deactivate, EditBlocked, StillRestricted, local
    <2> QED BY <2>1 DEF RefusalInv, Objected, Held, Undisturbed, Objection
  <1>10. ASSUME NEW k \in Keys, DeleteGuardrail(k) \/ \E row \in Rows : UpsertGuardrail(k, row)
         PROVE  RefusalInv'
    <2>1. Elsewhere
      BY <1>10 DEF Elsewhere, DeleteGuardrail, UpsertGuardrail, local
    <2> QED BY <2>1, HeldElsewhere
  <1>11. ASSUME NEW q \in Questions, Expire(q) PROVE RefusalInv'
    <2>1. Elsewhere
      BY <1>11 DEF Elsewhere, Expire, local
    <2> QED BY <2>1, HeldElsewhere
  <1>12. CASE UNCHANGED vars
    <2>1. Elsewhere
      BY <1>12 DEF Elsewhere, vars, tables, local
    <2> QED BY <2>1, HeldElsewhere
  <1> QED BY <1>1, <1>2, <1>3, <1>4, <1>5, <1>6, <1>7, <1>8, <1>9, <1>10, <1>11, <1>12 DEF Next, Step

(* Nothing is restricted before it arrives. *)
LEMMA RefusalInit == Init => RefusalInv
  BY DEF Init, RefusalInv, Objected, Held

(* For any number of requests, keys and edits: checkBlockedUser and the      *)
(* check of the allowed models together refuse every request to which there  *)
(* is an objection from its arrival on, however the block list is edited     *)
(* under it, unless one of their queries fails.                              *)
THEOREM RestrictedRequestsAreRefused == Spec => []RestrictionsHold
  <1>1. RefusalInv => RestrictionsHold
    BY DEF RefusalInv, Held, RestrictionsHold
  <1> QED BY <1>1, ChatTypeCorrect, RefusalInit, RefusalStep, PTL DEF Spec

-----------------------------------------------------------------------------
(* What is logged *)

(* A request is logged once, with the cost of its answer. *)
LogOf(r) ==
    /\ pc[r] \in {"log", "charge"} => response[r].route = "router"
    /\ log[r] # -1 => /\ response[r].route = "router" /\ log[r] = response[r].cost
                      /\ pc[r] \in {"charge", "set", "returned"}
    /\ pc[r] = "charge" => log[r] # -1
    /\ pc[r] \in {"set", "returned"} /\ response[r].route = "router" /\ Undisturbed(r) => log[r] # -1

AnswerInv == \A r \in Requests : LogOf(r)

(* A step that touches neither answers nor the log, and moves requests only  *)
(* among places where neither matters.                                       *)
Aside ==
    /\ UNCHANGED <<response, log>>
    /\ faults' = 0 => faults = 0
    /\ \A s \in Requests :
          /\ ctxDone[s] => ctxDone'[s]
          /\ pc'[s] = pc[s] \/ {pc[s], pc'[s]} \cap {"log", "charge", "set", "returned"} = {}

(* Such a step keeps AnswerInv. *)
LEMMA AnswersAside == ASSUME AnswerInv, Aside PROVE AnswerInv'
  <1>1. ASSUME NEW s \in Requests PROVE LogOf(s)'
    BY DEF AnswerInv, Aside, LogOf, Undisturbed
  <1> QED BY <1>1 DEF AnswerInv

(* A step of one request that only has to look at itself. *)
LEMMA AnswerOf ==
    ASSUME TypeOK, AnswerInv, NEW r \in Requests, NEW l, Goto(r, l),
           \A s \in Requests \ {r} : response'[s] = response[s] /\ log'[s] = log[s],
           ctxDone' = ctxDone, faults' = 0 => faults = 0,
           LogOf(r)'
    PROVE  AnswerInv'
  <1>1. ASSUME NEW s \in Requests, s # r PROVE LogOf(s)'
    <2>1. pc'[s] = pc[s] /\ response'[s] = response[s] /\ log'[s] = log[s]
      BY <1>1 DEF Goto, TypeOK
    <2> QED BY <2>1 DEF AnswerInv, LogOf, Undisturbed
  <1> QED BY <1>1 DEF AnswerInv

(* Every step keeps answers logged. *)
LEMMA AnswerStep == TypeOK /\ CostKnown /\ AnswerInv /\ [Next]_vars => AnswerInv'
  <1> SUFFICES ASSUME TypeOK, CostKnown, AnswerInv, [Next]_vars PROVE AnswerInv'
    OBVIOUS
  <1>1. ASSUME NEW r \in Requests, Arrive(r) \/ LookUpUser(r) \/ CheckBlocked(r) \/ CheckAllowedModels(r)
        PROVE  AnswerInv'
    <2>1. Aside
      BY <1>1, FaultsStay DEF Aside, Arrive, LookUpUser, CheckBlocked, CheckAllowedModels, Goto, TypeOK,
                              tables, local
    <2> QED BY <2>1, AnswersAside
  <1>2. ASSUME NEW r \in Requests, CheckLimit(r) \/ CheckBudget(r) \/ CallFails(r) PROVE AnswerInv'
    <2>1. Aside
      BY <1>2, FaultsStay DEF Aside, CheckLimit, CheckBudget, CallFails, Goto, TypeOK, tables, local
    <2> QED BY <2>1, AnswersAside
  <1>3. ASSUME NEW r \in Requests, CheckGuardrails(r) PROVE AnswerInv'
    <2>1. \E l \in {"chain", "get", "error", "refused"} : Goto(r, l)
      BY <1>3 DEF CheckGuardrails, AfterCheck
    <2>2. /\ pc[r] = "config" /\ UNCHANGED <<response, log, ctxDone>>
          /\ ExecOK(r) \/ ExecFails(r)
      BY <1>3 DEF CheckGuardrails, tables
    <2>3. Aside
      BY <2>1, <2>2, FaultsStay DEF Aside, Goto, TypeOK
    <2> QED BY <2>3, AnswersAside
  <1>4. ASSUME NEW r \in Requests, CacheGet(r) \/ CompletionGet(r) PROVE AnswerInv'
    <2>1. /\ pc[r] \in {"get", "idle"} /\ UNCHANGED <<log, ctxDone>> /\ (ExecOK(r) \/ ExecFails(r))
          /\ \/ Goto(r, "cached") /\ response' = [response EXCEPT ![r] = Hit(question[r])]
             \/ (Goto(r, "call") \/ Goto(r, "complete")) /\ response' = response
      BY <1>4 DEF CacheGet, CompletionGet, tables
    <2>2. faults' = 0 => faults = 0
      BY <2>1, FaultsStay
    <2>3. CASE (Goto(r, "call") \/ Goto(r, "complete")) /\ response' = response
      <3>1. Aside
        BY <2>1, <2>2, <2>3 DEF Aside, Goto, TypeOK
      <3> QED BY <3>1, AnswersAside
    <2>4. CASE Goto(r, "cached") /\ response' = [response EXCEPT ![r] = Hit(question[r])]
      <3>1. cache[question[r]] \in Responses
        BY DEF TypeOK
      <3>2. Hit(question[r]).route = "cache"
        BY <3>1 DEF Hit, Responses
      <3>3. response'[r].route = "cache" /\ \A s \in Requests \ {r} : response'[s] = response[s]
        BY <2>4, <3>2 DEF TypeOK
      <3>4. log[r] = -1
        BY <2>1 DEF AnswerInv, LogOf
      <3>5. pc'[r] = "cached"
        BY <2>4 DEF Goto, TypeOK
      <3>6. LogOf(r)'
        BY <2>1, <3>3, <3>4, <3>5 DEF LogOf
      <3> QED BY <2>1, <2>2, <2>4, <3>3, <3>6, AnswerOf
    <2> QED BY <2>1, <2>3, <2>4
  <1>5. ASSUME NEW r \in Requests, CallAnswers(r) PROVE AnswerInv'
    <2>1. PICK c \in Costs : response' = [response EXCEPT ![r] =
             [cost |-> c, redacted |-> Filter(config[r]), route |-> "router"]]
      BY <1>5 DEF CallAnswers
    <2>2. /\ response'[r].route = "router"
          /\ \A s \in Requests \ {r} : response'[s] = response[s]
      BY <2>1 DEF TypeOK
    <2>3. pc[r] = "call" /\ UNCHANGED <<log, ctxDone, faults>> /\ Goto(r, "log")
      BY <1>5 DEF CallAnswers, tables
    <2>4. log[r] = -1
      BY <2>3 DEF AnswerInv, LogOf
    <2>5. pc'[r] = "log"
      BY <2>3 DEF Goto, TypeOK
    <2>6. LogOf(r)'
      BY <2>2, <2>3, <2>4, <2>5 DEF LogOf
    <2> QED BY <2>2, <2>3, <2>6, AnswerOf
  <1>6. ASSUME NEW r \in Requests, ChainAnswers(r) \/ CompletionAnswers(r) PROVE AnswerInv'
    <2>1. /\ pc[r] \in {"chain", "complete"} /\ UNCHANGED <<log, ctxDone, faults>> /\ Goto(r, "set")
          /\ \E route \in {"chain", "completions"} : response' = [response EXCEPT ![r] =
                [cost |-> 0, redacted |-> FALSE, route |-> route]]
      BY <1>6 DEF ChainAnswers, CompletionAnswers, tables
    <2>2. response'[r].route \in {"chain", "completions"} /\ \A s \in Requests \ {r} : response'[s] = response[s]
      BY <2>1 DEF TypeOK
    <2>3. log[r] = -1 /\ pc'[r] = "set"
      BY <2>1 DEF AnswerInv, LogOf, Goto, TypeOK
    <2>4. LogOf(r)'
      BY <2>1, <2>2, <2>3 DEF LogOf
    <2> QED BY <2>1, <2>2, <2>4, AnswerOf
  <1>7. ASSUME NEW r \in Requests, InsertLog(r) PROVE AnswerInv'
    <2>1. /\ pc[r] = "log" /\ UNCHANGED <<response, ctxDone>>
          /\ \/ ExecOK(r) /\ Goto(r, "charge") /\ log' = [log EXCEPT ![r] = response[r].cost]
             \/ ExecFails(r) /\ Goto(r, "set") /\ log' = log
      BY <1>7 DEF InsertLog, local
    <2>2. faults' = 0 => faults = 0
      BY <2>1, FaultsStay
    <2>3. response[r].route = "router" /\ response[r].cost \in 0..MaxCost
      BY <2>1 DEF AnswerInv, LogOf, CostKnown
    <2>4. CASE ExecOK(r) /\ Goto(r, "charge") /\ log' = [log EXCEPT ![r] = response[r].cost]
      <3>1. pc'[r] = "charge" /\ log'[r] = response[r].cost /\ \A s \in Requests \ {r} : log'[s] = log[s]
        BY <2>4 DEF Goto, TypeOK
      <3>2. log'[r] # -1
        BY <2>3, <3>1, ChatAssumption
      <3>3. LogOf(r)'
        BY <2>1, <2>3, <3>1, <3>2 DEF LogOf
      <3> QED BY <2>1, <2>2, <2>4, <3>1, <3>3, AnswerOf
    <2>5. CASE ExecFails(r) /\ Goto(r, "set") /\ log' = log
      <3>1. pc'[r] = "set" /\ log[r] = -1
        BY <2>1, <2>5 DEF Goto, TypeOK, AnswerInv, LogOf
      <3>2. ~Undisturbed(r)'
        BY <2>1, <2>5, ChatAssumption DEF ExecFails, Fault, Undisturbed, TypeOK
      <3>3. LogOf(r)'
        BY <2>1, <2>3, <2>5, <3>1, <3>2 DEF LogOf
      <3> QED BY <2>1, <2>2, <2>5, <3>3, AnswerOf
    <2> QED BY <2>1, <2>4, <2>5
  <1>8. ASSUME NEW r \in Requests, Charge(r) PROVE AnswerInv'
    <2>1. /\ pc[r] = "charge" /\ UNCHANGED <<response, log, ctxDone>> /\ Goto(r, "set")
          /\ ExecOK(r) \/ ExecFails(r)
      BY <1>8 DEF Charge, local
    <2>2. faults' = 0 => faults = 0
      BY <2>1, FaultsStay
    <2>3. pc'[r] = "set"
      BY <2>1 DEF Goto, TypeOK
    <2>4. LogOf(r)
      BY DEF AnswerInv
    <2>5. LogOf(r)'
      BY <2>1, <2>3, <2>4 DEF LogOf
    <2> QED BY <2>1, <2>2, <2>5, AnswerOf
  <1>9. ASSUME NEW r \in Requests, CacheSet(r) PROVE AnswerInv'
    <2>1. /\ pc[r] = "set" /\ UNCHANGED <<response, log, ctxDone>> /\ Goto(r, "returned")
          /\ ExecOK(r) \/ ExecFails(r)
      BY <1>9 DEF CacheSet, local
    <2>2. faults' = 0 => faults = 0
      BY <2>1, FaultsStay
    <2>3. pc'[r] = "returned"
      BY <2>1 DEF Goto, TypeOK
    <2>4. LogOf(r)
      BY DEF AnswerInv
    <2>5. LogOf(r)'
      BY <2>1, <2>2, <2>3, <2>4 DEF LogOf, Undisturbed
    <2> QED BY <2>1, <2>2, <2>5, AnswerOf
  <1>10. ASSUME NEW r \in Requests, CtxDone(r) PROVE AnswerInv'
    <2>1. Aside
      BY <1>10 DEF Aside, CtxDone, TypeOK, tables, local
    <2> QED BY <2>1, AnswersAside
  <1>11. ASSUME NEW k \in Keys, Deactivate(k) \/ EditBlocked(k) \/ DeleteGuardrail(k)
                                 \/ \E row \in Rows : UpsertGuardrail(k, row)
         PROVE  AnswerInv'
    <2>1. Aside
      BY <1>11 DEF Aside, Deactivate, EditBlocked, DeleteGuardrail, UpsertGuardrail, local
    <2> QED BY <2>1, AnswersAside
  <1>12. ASSUME NEW q \in Questions, Expire(q) PROVE AnswerInv'
    <2>1. Aside
      BY <1>12 DEF Aside, Expire, local
    <2> QED BY <2>1, AnswersAside
  <1>13. CASE UNCHANGED vars
    <2>1. Aside
      BY <1>13 DEF Aside, vars, tables, local
    <2> QED BY <2>1, AnswersAside
  <1> QED BY <1>1, <1>2, <1>3, <1>4, <1>5, <1>6, <1>7, <1>8, <1>9, <1>10, <1>11, <1>12, <1>13 DEF Next, Step

(* At the start there is no answer. *)
LEMMA AnswerInit == Init => AnswerInv
  BY DEF Init, AnswerInv, LogOf, None

(* AnswerInv holds in every state. *)
LEMMA AnswerInductive == Spec => []AnswerInv
  <1>1. BudgetInv => TypeOK /\ CostKnown
    BY DEF BudgetInv
  <1> QED BY <1>1, BudgetInit, BudgetStep, AnswerInit, AnswerStep, PTL DEF Spec

(* For any number of requests, failures and clients that go away:            *)
(* RecordSpend writes a row of spend_log for an answer of the router, with   *)
(* its cost and once, and for nothing else; it leaves out none when nothing  *)
(* failed.                                                                   *)
THEOREM AnswersAreLoggedOnce == Spec => []AccountedOnce
  <1>1. AnswerInv => AccountedOnce
    BY DEF AnswerInv, LogOf, AccountedOnce
  <1> QED BY <1>1, AnswerInductive, PTL

-----------------------------------------------------------------------------
(* What clients are sent *)

Unanswered == {"idle", "user", "blocked", "model", "limit", "budget", "config", "chain", "get", "call",
               "complete"}

(* What a request knows of its own answer: where it came from, and that it   *)
(* was filtered under the configuration that was loaded.                     *)
Provenance(r) ==
    /\ pc[r] \in Unanswered => response[r].route = "none"
    /\ pc[r] = "chain" \/ response[r].route = "chain" => key[r] \in WithChain
    /\ pc[r] \in {"log", "charge"} => response[r].route = "router"
    /\ pc[r] \in {"set", "returned"} => response[r].route \in {"router", "chain", "completions"}
    /\ pc[r] = "cached" => response[r].route = "cache"
    /\ response[r].route = "router" /\ config[r] = "redact" => response[r].redacted

(* A request that is marked as redacting is one of chat, its key's row says  *)
(* so, and its configuration does once it is loaded, unless that failed.     *)
Demand(r) ==
    redacting[r] =>
        /\ Config(guardrail[key[r]]) = "redact"
        /\ pc[r] \notin {"idle", "complete"} /\ response[r].route # "completions"
        /\ Undisturbed(r) /\ pc[r] \in {"chain", "get", "call", "log", "charge", "set", "cached", "returned"}
              => config[r] = "redact"

OwnInv == \A r \in Requests : Provenance(r) /\ Demand(r)

(* An answer to q was made without the filter, and returned. *)
Leaked(q) == \E s \in Requests : question[s] = q /\ pc[s] = "returned" /\ Unfiltered(s)

(* What is in the cache, or was taken from it, without having been redacted  *)
(* has a source.                                                             *)
LeakInv ==
    /\ \A q \in Questions : cache[q] # None /\ ~cache[q].redacted => Leaked(q)
    /\ \A r \in Requests : response[r].route = "cache" /\ ~response[r].redacted => Leaked(question[r])

(* A step of the request r: the others stay as they are. *)
OnlyOf(r) ==
    /\ UNCHANGED <<key, question, guardrail, ctxDone>>
    /\ faults' = 0 => faults = 0
    /\ \A s \in Requests \ {r} : /\ pc'[s] = pc[s] /\ response'[s] = response[s]
                                 /\ config'[s] = config[s] /\ redacting'[s] = redacting[s]

(* It only has to look at itself. *)
LEMMA OwnOf ==
    ASSUME OwnInv, NEW r \in Requests, OnlyOf(r), Provenance(r)', Demand(r)'
    PROVE  OwnInv'
  <1>1. ASSUME NEW s \in Requests \ {r} PROVE Provenance(s)'
    BY DEF OwnInv, Provenance, OnlyOf
  <1>2. ASSUME NEW s \in Requests \ {r} PROVE Demand(s)'
    BY DEF OwnInv, Demand, OnlyOf, Undisturbed
  <1> QED BY <1>1, <1>2 DEF OwnInv

(* A step that moves r on without touching its answer and configuration. *)
LEMMA OwnMoves ==
    ASSUME TypeOK, OwnInv, NEW r \in Requests, NEW l, Goto(r, l), UNCHANGED <<response, config, redacting>>,
           UNCHANGED <<key, question, guardrail, ctxDone>>, faults' = 0 => faults = 0,
           \/ /\ pc[r] \in {"user", "blocked", "model", "limit", "budget", "config", "chain", "call", "complete"}
              /\ l \in {"user", "blocked", "model", "limit", "budget", "config", "refused", "error"}
           \/ pc[r] = "get" /\ l = "call"
           \/ pc[r] = "idle" /\ l = "complete"
           \/ pc[r] = "log" /\ l = "charge"
           \/ pc[r] \in {"log", "charge"} /\ l = "set"
           \/ pc[r] = "set" /\ l = "returned"
    PROVE  OwnInv'
  <1>1. pc'[r] = l /\ \A s \in Requests \ {r} : pc'[s] = pc[s]
    BY DEF Goto, TypeOK
  <1>2. OnlyOf(r)
    BY <1>1 DEF OnlyOf
  <1>3. Provenance(r)'
    BY <1>1 DEF OwnInv, Provenance, Unanswered
  <1>4. Demand(r)'
    BY <1>1 DEF OwnInv, Demand, Undisturbed
  <1> QED BY <1>2, <1>3, <1>4, OwnOf

(* Every step knows where its answer comes from. *)
LEMMA OwnStep == TypeOK /\ OwnInv /\ [Next]_vars => OwnInv'
  <1> SUFFICES ASSUME TypeOK, OwnInv, [Next]_vars PROVE OwnInv'
    OBVIOUS
  <1>1. ASSUME NEW r \in Requests, Arrive(r) PROVE OwnInv'
    <2>1. /\ pc[r] = "idle" /\ UNCHANGED <<key, question, guardrail, response, config, ctxDone, faults>>
          /\ pc'[r] = "user" /\ redacting'[r] = (Config(guardrail[key[r]]) = "redact")
          /\ \A s \in Requests \ {r} : pc'[s] = pc[s] /\ redacting'[s] = redacting[s]
      BY <1>1 DEF Arrive, Goto, tables, local, TypeOK
    <2>2. OnlyOf(r)
      BY <2>1 DEF OnlyOf
    <2>3. Provenance(r)'
      BY <2>1 DEF OwnInv, Provenance, Unanswered
    <2>4. response[r].route = "none"
      BY <2>1 DEF OwnInv, Provenance, Unanswered
    <2>5. Demand(r)'
      BY <2>1, <2>4 DEF Demand
    <2> QED BY <2>2, <2>3, <2>5, OwnOf
  <1>2. ASSUME NEW r \in Requests, LookUpUser(r) \/ CheckBlocked(r) \/ CheckAllowedModels(r) \/ CheckLimit(r)
                                   \/ CheckBudget(r) \/ CallFails(r)
        PROVE  OwnInv'
    <2>1. /\ pc[r] \in {"user", "blocked", "model", "limit", "budget", "chain", "call", "complete"}
          /\ \E l \in {"blocked", "model", "limit", "budget", "config", "refused", "error"} : Goto(r, l)
      BY <1>2 DEF LookUpUser, CheckBlocked, CheckAllowedModels, CheckLimit, CheckBudget, CallFails
    <2>2. /\ UNCHANGED <<response, config, redacting, key, question, guardrail, ctxDone>>
          /\ faults' = 0 => faults = 0
      BY <1>2, FaultsStay DEF LookUpUser, CheckBlocked, CheckAllowedModels, CheckLimit, CheckBudget, CallFails,
                              tables, local
    <2> QED BY <2>1, <2>2, OwnMoves
  <1>3. ASSUME NEW r \in Requests, CheckGuardrails(r) PROVE OwnInv'
    <2>1. PICK c \in {Config(guardrail[key[r]]), Global} :
             /\ \/ c = Config(guardrail[key[r]]) /\ ExecOK(r)
                \/ c = Global /\ ExecFails(r)
             /\ config' = [config EXCEPT ![r] = c]
             /\ Goto(r, AfterCheck(r)) \/ Goto(r, "error") \/ (c # "off" /\ Goto(r, "refused"))
      BY <1>3 DEF CheckGuardrails
    <2>2. /\ pc[r] = "config" /\ UNCHANGED <<response, redacting, key, question, guardrail, ctxDone>>
          /\ faults' = 0 => faults = 0
      BY <1>3, <2>1, FaultsStay DEF CheckGuardrails, tables
    <2>3. /\ config'[r] = c
          /\ pc'[r] \in {"chain", "get", "error", "refused"} /\ (pc'[r] = "chain" => key[r] \in WithChain)
          /\ \A s \in Requests \ {r} : pc'[s] = pc[s] /\ config'[s] = config[s]
      BY <2>1 DEF Goto, AfterCheck, TypeOK
    <2>4. OnlyOf(r)
      BY <2>2, <2>3 DEF OnlyOf
    <2>5. response[r].route = "none"
      BY <2>2 DEF OwnInv, Provenance, Unanswered
    <2>6. Provenance(r)'
      BY <2>2, <2>3, <2>5 DEF Provenance, Unanswered
    <2>7. ExecFails(r) => ~Undisturbed(r)'
      BY <2>2, ChatAssumption DEF ExecFails, Fault, Undisturbed, TypeOK
    <2>8. Demand(r)'
      BY <2>1, <2>2, <2>3, <2>5, <2>7 DEF OwnInv, Demand
    <2> QED BY <2>4, <2>6, <2>8, OwnOf
  <1>4. ASSUME NEW r \in Requests, CacheGet(r) \/ CompletionGet(r) PROVE OwnInv'
    <2>1. /\ UNCHANGED <<config, redacting, key, question, guardrail, ctxDone>>
          /\ faults' = 0 => faults = 0
      BY <1>4, FaultsStay DEF CacheGet, CompletionGet, tables
    <2>2. CASE /\ response' = response
               /\ \/ pc[r] = "get" /\ Goto(r, "call")
                  \/ pc[r] = "idle" /\ Goto(r, "complete")
      BY <2>1, <2>2, OwnMoves
    <2>3. CASE /\ pc[r] \in {"get", "idle"} /\ Goto(r, "cached")
               /\ response' = [response EXCEPT ![r] = Hit(question[r])]
      <3>1. cache[question[r]] \in Responses
        BY DEF TypeOK
      <3>2. Hit(question[r]).route = "cache"
        BY <3>1 DEF Hit, Responses
      <3>3. /\ pc'[r] = "cached" /\ response'[r].route = "cache"
            /\ \A s \in Requests \ {r} : pc'[s] = pc[s] /\ response'[s] = response[s]
        BY <2>3, <3>2 DEF Goto, TypeOK
      <3>4. OnlyOf(r)
        BY <2>1, <3>3 DEF OnlyOf
      <3>5. Provenance(r)'
        BY <3>3 DEF Provenance, Unanswered
      <3>6. Demand(r)'
        BY <2>1, <2>3, <3>3 DEF OwnInv, Demand, Undisturbed
      <3> QED BY <3>4, <3>5, <3>6, OwnOf
    <2>4. \/ pc[r] \in {"get", "idle"} /\ Goto(r, "cached") /\ response' = [response EXCEPT ![r] = Hit(question[r])]
          \/ /\ response' = response
             /\ \/ pc[r] = "get" /\ Goto(r, "call")
                \/ pc[r] = "idle" /\ Goto(r, "complete")
      BY <1>4 DEF CacheGet, CompletionGet
    <2> QED BY <2>2, <2>3, <2>4
  <1>5. ASSUME NEW r \in Requests, CallAnswers(r) PROVE OwnInv'
    <2>1. PICK c \in Costs : response' = [response EXCEPT ![r] =
             [cost |-> c, redacted |-> Filter(config[r]), route |-> "router"]]
      BY <1>5 DEF CallAnswers
    <2>2. /\ pc[r] = "call" /\ pc'[r] = "log"
          /\ response'[r].route = "router" /\ response'[r].redacted = (config[r] = "redact")
          /\ \A s \in Requests \ {r} : pc'[s] = pc[s] /\ response'[s] = response[s]
          /\ UNCHANGED <<config, redacting, key, question, guardrail, ctxDone, faults>>
      BY <1>5, <2>1 DEF CallAnswers, Goto, Filter, tables, TypeOK
    <2>3. OnlyOf(r)
      BY <2>2 DEF OnlyOf
    <2>4. Provenance(r)'
      BY <2>2 DEF Provenance, Unanswered
    <2>5. Demand(r)'
      BY <2>2 DEF OwnInv, Demand, Undisturbed
    <2> QED BY <2>3, <2>4, <2>5, OwnOf
  <1>6. ASSUME NEW r \in Requests, ChainAnswers(r) PROVE OwnInv'
    <2>1. /\ pc[r] = "chain" /\ pc'[r] = "set" /\ response'[r].route = "chain"
          /\ \A s \in Requests \ {r} : pc'[s] = pc[s] /\ response'[s] = response[s]
          /\ UNCHANGED <<config, redacting, key, question, guardrail, ctxDone, faults>>
      BY <1>6 DEF ChainAnswers, Goto, tables, TypeOK
    <2>2. OnlyOf(r)
      BY <2>1 DEF OnlyOf
    <2>3. Provenance(r)'
      BY <2>1 DEF OwnInv, Provenance, Unanswered
    <2>4. Demand(r)'
      BY <2>1 DEF OwnInv, Demand, Undisturbed
    <2> QED BY <2>2, <2>3, <2>4, OwnOf
  <1>7. ASSUME NEW r \in Requests, CompletionAnswers(r) PROVE OwnInv'
    <2>1. /\ pc[r] = "complete" /\ pc'[r] = "set" /\ response'[r].route = "completions"
          /\ \A s \in Requests \ {r} : pc'[s] = pc[s] /\ response'[s] = response[s]
          /\ UNCHANGED <<config, redacting, key, question, guardrail, ctxDone, faults>>
      BY <1>7 DEF CompletionAnswers, Goto, tables, TypeOK
    <2>2. OnlyOf(r)
      BY <2>1 DEF OnlyOf
    <2>3. Provenance(r)'
      BY <2>1 DEF OwnInv, Provenance, Unanswered
    <2>4. Demand(r)'
      BY <2>1 DEF OwnInv, Demand
    <2> QED BY <2>2, <2>3, <2>4, OwnOf
  <1>8. ASSUME NEW r \in Requests, InsertLog(r) \/ Charge(r) \/ CacheSet(r) PROVE OwnInv'
    <2>1. /\ UNCHANGED <<response, config, redacting, key, question, guardrail, ctxDone>>
          /\ faults' = 0 => faults = 0
      BY <1>8, FaultsStay DEF InsertLog, Charge, CacheSet, local
    <2>2. \/ pc[r] = "log" /\ (Goto(r, "charge") \/ Goto(r, "set"))
          \/ pc[r] = "charge" /\ Goto(r, "set")
          \/ pc[r] = "set" /\ Goto(r, "returned")
      BY <1>8 DEF InsertLog, Charge, CacheSet
    <2> QED BY <2>1, <2>2, OwnMoves
  <1>9. ASSUME NEW r \in Requests, CtxDone(r) PROVE OwnInv'
    <2>1. /\ UNCHANGED <<pc, response, config, redacting, key, guardrail, faults>>
          /\ \A s \in Requests : ctxDone[s] => ctxDone'[s]
      BY <1>9 DEF CtxDone, TypeOK, tables, local
    <2> QED BY <2>1 DEF OwnInv, Provenance, Demand, Undisturbed
  <1>10. ASSUME NEW k \in Keys, DeleteGuardrail(k) \/ \E row \in Rows : UpsertGuardrail(k, row)
         PROVE  OwnInv'
    <2>1. /\ UNCHANGED <<pc, response, config, key, faults, ctxDone>>
          /\ \A s \in Requests : redacting'[s] = (redacting[s] /\ Config(guardrail'[key[s]]) = "redact")
      BY <1>10 DEF DeleteGuardrail, UpsertGuardrail, StillRedacting, local
    <2> QED BY <2>1 DEF OwnInv, Provenance, Demand, Undisturbed
  <1>11. ASSUME UNCHANGED <<pc, response, config, redacting, key, guardrail, faults, ctxDone>> PROVE OwnInv'
    BY <1>11 DEF OwnInv, Provenance, Demand, Undisturbed
  <1>12. ASSUME NEW k \in Keys, Deactivate(k) \/ EditBlocked(k) PROVE OwnInv'
    BY <1>11, <1>12 DEF Deactivate, EditBlocked, local
  <1>13. ASSUME NEW q \in Questions, Expire(q) PROVE OwnInv'
    BY <1>11, <1>13 DEF Expire, local
  <1>14. CASE UNCHANGED vars
    BY <1>11, <1>14 DEF vars, tables, local
  <1> QED BY <1>1, <1>2, <1>3, <1>4, <1>5, <1>6, <1>7, <1>8, <1>9, <1>10, <1>12, <1>13, <1>14 DEF Next, Step

(* A request that has returned keeps its answer. *)
Kept ==
    /\ question' = question
    /\ \A s \in Requests : pc[s] = "returned" =>
          pc'[s] = "returned" /\ response'[s] = response[s] /\ config'[s] = config[s]

(* No step takes it back. *)
LEMMA StepKeeps == ASSUME TypeOK, [Next]_vars PROVE Kept
  <1> USE DEF Kept
  <1>1. ASSUME NEW r \in Requests, Arrive(r) \/ LookUpUser(r) \/ CheckBlocked(r) \/ CheckAllowedModels(r)
        PROVE  Kept
    BY <1>1 DEF Arrive, LookUpUser, CheckBlocked, CheckAllowedModels, Goto, TypeOK, local
  <1>2. ASSUME NEW r \in Requests, CheckLimit(r) \/ CheckBudget(r) \/ CallFails(r) PROVE Kept
    BY <1>2 DEF CheckLimit, CheckBudget, CallFails, Goto, TypeOK, local
  <1>3. ASSUME NEW r \in Requests, CheckGuardrails(r) PROVE Kept
    BY <1>3 DEF CheckGuardrails, Goto, TypeOK
  <1>4. ASSUME NEW r \in Requests, CacheGet(r) \/ CompletionGet(r) PROVE Kept
    BY <1>4 DEF CacheGet, CompletionGet, Goto, TypeOK
  <1>5. ASSUME NEW r \in Requests, CallAnswers(r) \/ ChainAnswers(r) \/ CompletionAnswers(r) PROVE Kept
    BY <1>5 DEF CallAnswers, ChainAnswers, CompletionAnswers, Goto, TypeOK
  <1>6. ASSUME NEW r \in Requests, InsertLog(r) \/ Charge(r) \/ CacheSet(r) PROVE Kept
    BY <1>6 DEF InsertLog, Charge, CacheSet, Goto, TypeOK, local
  <1>7. ASSUME NEW r \in Requests, CtxDone(r) PROVE Kept
    BY <1>7 DEF CtxDone, local
  <1>8. ASSUME NEW k \in Keys, Deactivate(k) \/ EditBlocked(k) \/ DeleteGuardrail(k)
                                \/ \E row \in Rows : UpsertGuardrail(k, row)
        PROVE  Kept
    BY <1>8 DEF Deactivate, EditBlocked, DeleteGuardrail, UpsertGuardrail, local
  <1>9. ASSUME NEW q \in Questions, Expire(q) PROVE Kept
    BY <1>9 DEF Expire, local
  <1>10. CASE UNCHANGED vars
    BY <1>10 DEF vars, local
  <1> HIDE DEF Kept
  <1> QED BY <1>1, <1>2, <1>3, <1>4, <1>5, <1>6, <1>7, <1>8, <1>9, <1>10 DEF Next, Step

(* So a source stays one. *)
LEMMA LeakStays == ASSUME Kept, NEW q, Leaked(q) PROVE Leaked(q)'
  BY DEF Kept, Leaked, Unfiltered

(* Only CacheSet stores, and only what is returned next. *)
LEMMA CacheStep ==
    ASSUME TypeOK, [Next]_vars
    PROVE  \/ \A q \in Questions : cache'[q] \in {cache[q], None}
           \/ \E r \in Requests : CacheSet(r)
  <1>1. ASSUME NEW r \in Requests, Arrive(r) \/ Step(r) \/ CtxDone(r), ~CacheSet(r) PROVE cache' = cache
    BY <1>1 DEF Step, Arrive, LookUpUser, CheckBlocked, CheckAllowedModels, CheckLimit, CheckBudget,
       CheckGuardrails, CacheGet, CallAnswers, CallFails, ChainAnswers, CompletionGet, CompletionAnswers,
       InsertLog, Charge, CtxDone, tables
  <1>2. ASSUME NEW k \in Keys, Deactivate(k) \/ EditBlocked(k) \/ DeleteGuardrail(k)
                                \/ \E row \in Rows : UpsertGuardrail(k, row)
        PROVE  cache' = cache
    BY <1>2 DEF Deactivate, EditBlocked, DeleteGuardrail, UpsertGuardrail
  <1>3. ASSUME NEW q \in Questions, Expire(q) PROVE \A p \in Questions : cache'[p] \in {cache[p], None}
    BY <1>3 DEF Expire, TypeOK
  <1>4. CASE UNCHANGED vars
    BY <1>4 DEF vars, tables
  <1> QED BY <1>1, <1>2, <1>3, <1>4 DEF Next

(* Only a hit takes an answer out of the cache. *)
LEMMA HitStep ==
    ASSUME TypeOK, [Next]_vars, NEW r \in Requests, response'[r].route = "cache"
    PROVE  \/ response'[r] = response[r]
           \/ cache[question[r]] # None /\ response'[r] = Hit(question[r])
  <1>1. ASSUME NEW s \in Requests, CacheGet(s) \/ CompletionGet(s)
        PROVE  \/ response'[r] = response[r]
               \/ cache[question[r]] # None /\ response'[r] = Hit(question[r])
    BY <1>1 DEF CacheGet, CompletionGet, TypeOK
  <1>2. ASSUME NEW s \in Requests, CallAnswers(s) PROVE response'[r] = response[r]
    BY <1>2 DEF CallAnswers, TypeOK
  <1>3. ASSUME NEW s \in Requests, ChainAnswers(s) \/ CompletionAnswers(s) PROVE response'[r] = response[r]
    BY <1>3 DEF ChainAnswers, CompletionAnswers, TypeOK
  <1>4. ASSUME NEW s \in Requests,
               \/ Arrive(s) \/ LookUpUser(s) \/ CheckBlocked(s) \/ CheckAllowedModels(s) \/ CheckLimit(s)
               \/ CheckBudget(s) \/ CheckGuardrails(s) \/ CallFails(s) \/ InsertLog(s) \/ Charge(s)
               \/ CacheSet(s) \/ CtxDone(s)
        PROVE  response' = response
    BY <1>4 DEF Arrive, LookUpUser, CheckBlocked, CheckAllowedModels, CheckLimit, CheckBudget,
       CheckGuardrails, CallFails, InsertLog, Charge, CacheSet, CtxDone, local
  <1>5. ASSUME NEW k \in Keys, Deactivate(k) \/ EditBlocked(k) \/ DeleteGuardrail(k)
                                \/ \E row \in Rows : UpsertGuardrail(k, row)
        PROVE  response' = response
    BY <1>5 DEF Deactivate, EditBlocked, DeleteGuardrail, UpsertGuardrail, local
  <1>6. ASSUME NEW q \in Questions, Expire(q) PROVE response' = response
    BY <1>6 DEF Expire, local
  <1>7. CASE UNCHANGED vars
    BY <1>7 DEF vars, local
  <1> QED BY <1>1, <1>2, <1>3, <1>4, <1>5, <1>6, <1>7 DEF Next, Step

(* Every step keeps a source for what is stored and for what was taken. *)
LEMMA LeakStep == TypeOK /\ OwnInv /\ LeakInv /\ [Next]_vars => LeakInv'
  <1> SUFFICES ASSUME TypeOK, OwnInv, LeakInv, [Next]_vars PROVE LeakInv'
    OBVIOUS
  <1>1. Kept
    BY StepKeeps
  <1>2. ASSUME NEW q \in Questions, cache'[q] # None, ~cache'[q].redacted PROVE Leaked(q)'
    <2>1. CASE cache'[q] = cache[q]
      BY <1>1, <1>2, <2>1, LeakStays DEF LeakInv
    <2>2. CASE cache'[q] # cache[q]
      <3>1. PICK r \in Requests : CacheSet(r)
        BY <1>2, <2>2, CacheStep
      <3>2. /\ pc[r] = "set" /\ pc'[r] = "returned" /\ question[r] = q /\ cache'[q] = response[r]
            /\ UNCHANGED <<response, config, question>>
        BY <2>2, <3>1 DEF CacheSet, Goto, TypeOK, local
      <3>3. Unfiltered(r)'
        BY <1>2, <3>2 DEF OwnInv, Provenance, Unfiltered
      <3> QED BY <3>2, <3>3 DEF Leaked
    <2> QED BY <2>1, <2>2
  <1>3. ASSUME NEW r \in Requests, response'[r].route = "cache", ~response'[r].redacted
        PROVE  Leaked(question[r])'
    <2>1. question' = question
      BY <1>1 DEF Kept
    <2>2. Leaked(question[r])
      <3>1. CASE response'[r] = response[r]
        BY <1>3, <3>1 DEF LeakInv
      <3>2. CASE cache[question[r]] # None /\ response'[r] = Hit(question[r])
        <4>1. cache[question[r]] \in Responses /\ question[r] \in Questions
          BY DEF TypeOK
        <4>2. ~cache[question[r]].redacted
          BY <1>3, <3>2, <4>1 DEF Hit, Responses
        <4> QED BY <3>2, <4>1, <4>2 DEF LeakInv
      <3> QED BY <1>3, <3>1, <3>2, HitStep
    <2>3. PICK s \in Requests : question[s] = question[r] /\ pc[s] = "returned" /\ Unfiltered(s)
      BY <2>2 DEF Leaked
    <2>4. pc'[s] = "returned" /\ Unfiltered(s)'
      BY <1>1, <2>3 DEF Kept, Unfiltered
    <2> QED BY <2>1, <2>3, <2>4 DEF Leaked
  <1> QED BY <1>2, <1>3 DEF LeakInv

(* At the start there is neither an answer nor a demand. *)
LEMMA SourceInit == Init => OwnInv /\ LeakInv
  BY DEF Init, OwnInv, Provenance, Demand, LeakInv, None

(* For any number of requests, keys, questions, failures and edits of        *)
(* guardrail_configs: a key that redacts gets an answer that Filter has not  *)
(* seen only over its own fallback chain, or out of the cache and then from  *)
(* another request for the same question that has returned unfiltered.       *)
THEOREM UnredactedAnswersHaveASource == Spec => []RedactionHolds
  <1>1. ASSUME OwnInv, LeakInv PROVE RedactionHolds
    <2> SUFFICES ASSUME NEW r \in Requests, redacting[r], Undisturbed(r), pc[r] \in {"cached", "returned"},
                        ~response[r].redacted, ~(response[r].route = "chain" /\ key[r] \in WithChain)
                 PROVE  /\ response[r].route = "cache"
                        /\ \E s \in Requests \ {r} :
                              question[s] = question[r] /\ pc[s] = "returned" /\ Unfiltered(s)
      BY DEF RedactionHolds
    <2>1. config[r] = "redact" /\ response[r].route # "completions"
      BY <1>1 DEF OwnInv, Demand
    <2>2. response[r].route = "cache"
      BY <1>1, <2>1 DEF OwnInv, Provenance
    <2>3. PICK s \in Requests : question[s] = question[r] /\ pc[s] = "returned" /\ Unfiltered(s)
      BY <1>1, <2>2 DEF LeakInv, Leaked
    <2>4. s # r
      BY <2>2, <2>3 DEF Unfiltered
    <2> QED BY <2>2, <2>3, <2>4
  <1> QED BY <1>1, ChatTypeCorrect, SourceInit, OwnStep, LeakStep, PTL DEF Spec

-----------------------------------------------------------------------------
(* Sums.  MapThenSumSet adds the values of the elements of a set one by one, *)
(* in an order of its own.  The induction over the set is made with the set  *)
(* of counterexamples, of which a smallest one is looked at.                 *)

(* The elements are taken in the order of CHOOSE; g holds the sums of all    *)
(* subsets.                                                                  *)
Pick(s) == CHOOSE x \in s : TRUE
Totals(f, S, g) == g = [s \in SUBSET S |-> IF s = {} THEN 0 ELSE f[Pick(s)] + g[s \ {Pick(s)}]]

(* The sum of the values of f over S. *)
Sum(f, S) == (CHOOSE g : Totals(f, S, g))[S]

(* It is what MapThenSumSet computes. *)
LEMMA SumIs == ASSUME NEW S, NEW f PROVE MapThenSumSet(LAMBDA r : f[r], S) = Sum(f, S)
  BY DEF Sum, MapThenSumSet, MapThenFoldSet, Totals, Pick

(* A set of subsets of a finite set has a smallest member. *)
LEMMA SmallestSubset ==
  ASSUME NEW S, IsFiniteSet(S), NEW T, T \subseteq SUBSET S, T # {}
  PROVE  \E x \in T : \A y \in T : y \subseteq x => y = x
  <1> DEFINE R == StrictSubsetOrdering(S)
  <1>1. IsWellFoundedOn(R, SUBSET S)
    BY FS_StrictSubsetOrderingWellFounded, FS_FiniteSubsetsOfFinite
  <1> HIDE DEF R
  <1>2. PICK x \in T : \A y \in T : ~ (<<y, x>> \in R)
    BY <1>1, WFMin, Zenon
  <1>3. ASSUME NEW y \in T, y \subseteq x PROVE y = x
    BY <1>2, <1>3 DEF R, StrictSubsetOrdering
  <1> QED BY <1>3

(* The element that is chosen is one of the set. *)
LEMMA Picked == ASSUME NEW s, s # {} PROVE Pick(s) \in s
  BY DEF Pick

(* The sums of all subsets exist: by the size of the subsets, each sum is    *)
(* put together from the one without the element that is chosen.             *)
LEMMA TotalsExist ==
  ASSUME NEW S, IsFiniteSet(S), NEW f PROVE \E g : Totals(f, S, g)
  <1> DEFINE Small(n) == {s \in SUBSET S : Cardinality(s) <= n}
             On(n, g) == g = [s \in Small(n) |-> IF s = {} THEN 0 ELSE f[Pick(s)] + g[s \ {Pick(s)}]]
             N == {n \in Nat : ~ \E g : On(n, g)}
  <1>0. \A s \in SUBSET S : IsFiniteSet(s) /\ Cardinality(s) \in Nat
    BY FS_Subset, FS_CardinalityType
  <1>1. N = {}
    <2> SUFFICES ASSUME N # {} PROVE FALSE
      OBVIOUS
    <2>1. PICK n \in N : \A m \in N : ~ (<<m, n>> \in OpToRel(<, Nat))
      <3> N \subseteq Nat
        OBVIOUS
      <3> HIDE DEF N
      <3> QED BY WFMin, NatLessThanWellFounded, Zenon
    <2>2. \A m \in Nat : m < n => m \notin N
      BY <2>1 DEF OpToRel
    <2>3. n \in Nat /\ ~ \E g : On(n, g)
      OBVIOUS
    <2>4. CASE n = 0
      <3>1. Small(0) = {{}}
        BY <1>0, FS_EmptySet
      <3> DEFINE g == [s \in Small(0) |-> 0]
      <3>2. On(0, g)
        BY <3>1
      <3> QED BY <2>3, <2>4, <3>2
    <2>5. CASE n # 0
      <3>1. n - 1 \in Nat /\ n - 1 < n
        BY <2>3, <2>5
      <3>2. PICK g : On(n - 1, g)
        BY <2>2, <3>1
      <3> DEFINE h == [s \in Small(n) |-> IF s = {} THEN 0 ELSE f[Pick(s)] + g[s \ {Pick(s)}]]
      <3>3. \A s \in Small(n) : s # {} => s \ {Pick(s)} \in Small(n - 1)
        BY <1>0, <2>3, FS_RemoveElement, Picked
      <3>4. Small(n - 1) \subseteq Small(n)
        BY <1>0, <2>3
      <3>5. \A s \in Small(n - 1) : g[s] = h[s]
        BY <3>2, <3>4
      <3>6. h = [s \in Small(n) |-> IF s = {} THEN 0 ELSE f[Pick(s)] + h[s \ {Pick(s)}]]
        <4> HIDE DEF Small
        <4>1. \A s \in Small(n) : s # {} => h[s \ {Pick(s)}] = g[s \ {Pick(s)}]
          BY <3>3, <3>5
        <4> QED BY <4>1
      <3> QED BY <2>3, <3>6
    <2> QED BY <2>4, <2>5
  <1>2. PICK g : On(Cardinality(S), g)
    BY <1>0, <1>1
  <1>3. Small(Cardinality(S)) = SUBSET S
    BY FS_Subset
  <1> QED BY <1>2, <1>3 DEF Totals

(* They are integers. *)
LEMMA TotalsType ==
  ASSUME NEW S, IsFiniteSet(S), NEW f, \A x \in S : f[x] \in Int, NEW g, Totals(f, S, g)
  PROVE  \A s \in SUBSET S : g[s] \in Int
  <1> DEFINE T == {s \in SUBSET S : g[s] \notin Int}
  <1> SUFFICES ASSUME T # {} PROVE FALSE
    OBVIOUS
  <1>1. PICK s \in T : \A u \in T : u \subseteq s => u = s
    <2> T \subseteq SUBSET S
      OBVIOUS
    <2> HIDE DEF T
    <2> QED BY SmallestSubset
  <1>2. CASE s = {}
    BY <1>2 DEF Totals
  <1>3. CASE s # {}
    <2>1. Pick(s) \in s
      BY <1>3, Picked
    <2>2. s \ {Pick(s)} \in SUBSET S /\ s \ {Pick(s)} # s /\ s \ {Pick(s)} \subseteq s
      BY <2>1
    <2>3. g[s \ {Pick(s)}] \in Int
      BY <1>1, <2>2
    <2>4. g[s] = f[Pick(s)] + g[s \ {Pick(s)}]
      BY <1>3 DEF Totals
    <2> QED BY <2>1, <2>3, <2>4
  <1> QED BY <1>2, <1>3

(* Any other element may be taken first. *)
LEMMA TotalsAny ==
  ASSUME NEW S, IsFiniteSet(S), NEW f, \A x \in S : f[x] \in Int, NEW g, Totals(f, S, g)
  PROVE  \A x \in S : g[S] = f[x] + g[S \ {x}]
  <1> DEFINE T == {s \in SUBSET S : \E x \in s : g[s] # f[x] + g[s \ {x}]}
  <1> SUFFICES ASSUME T # {} PROVE FALSE
    <2>1. S \in SUBSET S
      OBVIOUS
    <2> QED BY <2>1
  <1>1. PICK s \in T : \A u \in T : u \subseteq s => u = s
    <2> T \subseteq SUBSET S
      OBVIOUS
    <2> HIDE DEF T
    <2> QED BY SmallestSubset
  <1>2. PICK x \in s : g[s] # f[x] + g[s \ {x}]
    OBVIOUS
  <1> DEFINE p == Pick(s)
             v == (s \ {p}) \ {x}
  <1>3. p \in s /\ g[s] = f[p] + g[s \ {p}]
    BY <1>2, Picked DEF Totals
  <1>4. x # p
    BY <1>2, <1>3
  <1> HIDE DEF p
  <1>5. g[s \ {p}] = f[x] + g[v]
    <2>1. s \ {p} \in SUBSET S /\ s \ {p} # s /\ s \ {p} \subseteq s /\ x \in s \ {p}
      BY <1>3, <1>4
    <2> QED BY <1>1, <2>1
  <1>6. g[s \ {x}] = f[p] + g[v]
    <2>1. s \ {x} \in SUBSET S /\ s \ {x} # s /\ s \ {x} \subseteq s /\ p \in s \ {x}
      BY <1>3, <1>4
    <2>2. (s \ {x}) \ {p} = v
      OBVIOUS
    <2> QED BY <1>1, <2>1, <2>2
  <1>7. f[x] \in Int /\ f[p] \in Int /\ g[v] \in Int
    BY <1>3, TotalsType
  <1> HIDE DEF v
  <1> QED BY <1>2, <1>3, <1>5, <1>6, <1>7

(* Two sums of the same values are the same, also if they are parts of sums  *)
(* over different sets.                                                      *)
LEMMA TotalsSame ==
  ASSUME NEW S, NEW U, IsFiniteSet(S), IsFiniteSet(U), NEW f, NEW e, NEW g, NEW h,
         Totals(f, S, g), Totals(e, U, h), \A x \in S \cap U : f[x] = e[x]
  PROVE  \A s \in SUBSET (S \cap U) : g[s] = h[s]
  <1> DEFINE T == {s \in SUBSET (S \cap U) : g[s] # h[s]}
  <1> SUFFICES ASSUME T # {} PROVE FALSE
    OBVIOUS
  <1>1. PICK s \in T : \A u \in T : u \subseteq s => u = s
    <2> T \subseteq SUBSET S
      OBVIOUS
    <2> HIDE DEF T
    <2> QED BY SmallestSubset
  <1>2. s \in SUBSET S /\ s \in SUBSET U
    OBVIOUS
  <1>3. CASE s = {}
    BY <1>2, <1>3 DEF Totals
  <1>4. CASE s # {}
    <2>1. Pick(s) \in s
      BY <1>4, Picked
    <2>2. s \ {Pick(s)} \in SUBSET (S \cap U) /\ s \ {Pick(s)} # s /\ s \ {Pick(s)} \subseteq s
      BY <2>1
    <2>3. g[s \ {Pick(s)}] = h[s \ {Pick(s)}]
      BY <1>1, <2>2
    <2>4. g[s] = f[Pick(s)] + g[s \ {Pick(s)}]
      BY <1>2, <1>4 DEF Totals
    <2>5. h[s] = e[Pick(s)] + h[s \ {Pick(s)}]
      BY <1>2, <1>4 DEF Totals
    <2> QED BY <2>1, <2>3, <2>4, <2>5
  <1> QED BY <1>3, <1>4

(* The sum is one of those of the subsets. *)
LEMMA SumUnfolds ==
  ASSUME NEW S, IsFiniteSet(S), NEW f
  PROVE  \E g : Totals(f, S, g) /\ Sum(f, S) = g[S]
  BY TotalsExist DEF Sum

(* A sum does not depend on the values of other elements. *)
LEMMA SumSame ==
  ASSUME NEW S, IsFiniteSet(S), NEW f, NEW e, \A x \in S : f[x] = e[x]
  PROVE  Sum(f, S) = Sum(e, S)
  BY SumUnfolds, TotalsSame

(* The sum of integers is one. *)
LEMMA SumType ==
  ASSUME NEW S, IsFiniteSet(S), NEW f, \A x \in S : f[x] \in Int
  PROVE  Sum(f, S) \in Int
  BY SumUnfolds, TotalsType

(* The sum over no element. *)
LEMMA SumEmpty == ASSUME NEW f PROVE Sum(f, {}) = 0
  BY SumUnfolds, FS_EmptySet DEF Totals

(* An element adds its value. *)
LEMMA SumRemove ==
  ASSUME NEW S, IsFiniteSet(S), NEW f, \A y \in S : f[y] \in Int, NEW x \in S
  PROVE  Sum(f, S) = f[x] + Sum(f, S \ {x})
  <1>1. IsFiniteSet(S \ {x})
    BY FS_RemoveElement
  <1>2. PICK g : Totals(f, S, g) /\ Sum(f, S) = g[S]
    BY SumUnfolds
  <1>3. PICK h : Totals(f, S \ {x}, h) /\ Sum(f, S \ {x}) = h[S \ {x}]
    BY <1>1, SumUnfolds
  <1>4. g[S] = f[x] + g[S \ {x}]
    <2>1. Totals(f, S, g)
      BY <1>2
    <2>2. \A y \in S : g[S] = f[y] + g[S \ {y}]
      BY <2>1, TotalsAny
    <2> QED BY <2>2
  <1>5. g[S \ {x}] = h[S \ {x}]
    BY <1>1, <1>2, <1>3, TotalsSame
  <1> QED BY <1>2, <1>3, <1>4, <1>5

-----------------------------------------------------------------------------
(* What was charged *)

(* What the rows of a key and its current_spend may differ by. *)
Drift(k) == 2 * (Scale * spend[k] - Sum(log, Charges(k)))
Follows(k) ==
    (\A r \in Charges(k) : Undisturbed(r)) =>
        /\ Drift(k) <= Scale * Cardinality(Charges(k))
        /\ Drift(k) >= -(Scale * Cardinality(Charges(k)))
SpendInv == \A k \in budgeted : Follows(k)

(* A step that charges nobody. *)
Uncharged ==
    /\ UNCHANGED <<budgeted, key, spend>>
    /\ faults' = 0 => faults = 0
    /\ \A s \in Requests :
          /\ ctxDone[s] => ctxDone'[s]
          /\ log'[s] # -1 /\ pc'[s] # "charge" <=> log[s] # -1 /\ pc[s] # "charge"
          /\ log[s] # -1 => log'[s] = log[s]

(* The requests that were charged are finitely many, with a row each. *)
LEMMA ChargesFinite ==
    ASSUME TypeOK, NEW k
    PROVE  /\ IsFiniteSet(Charges(k)) /\ Cardinality(Charges(k)) \in Nat
           /\ \A r \in Charges(k) : log[r] \in Int
           /\ Sum(log, Charges(k)) \in Int
  <1>1. Charges(k) \subseteq Requests
    BY DEF Charges
  <1>2. IsFiniteSet(Charges(k)) /\ Cardinality(Charges(k)) \in Nat
    BY <1>1, ChatAssumption, FS_Subset, FS_CardinalityType
  <1>3. \A r \in Charges(k) : log[r] \in Int
    BY <1>1, ChatAssumption DEF TypeOK
  <1> QED BY <1>2, <1>3, SumType

(* The difference after a step. *)
LEMMA DriftAfter == ASSUME NEW k PROVE Drift(k)' = 2 * (Scale * spend'[k] - Sum(log', Charges(k)'))
  BY DEF Drift

(* Such a step leaves the difference as it is. *)
LEMMA SpendUncharged == ASSUME TypeOK, SpendInv, Uncharged PROVE SpendInv'
  <1> SUFFICES ASSUME NEW k \in budgeted PROVE Follows(k)'
    BY DEF SpendInv, Uncharged
  <1>1. Charges(k)' = Charges(k)
    BY DEF Charges, Uncharged
  <1>2. \A r \in Charges(k) : log[r] = log'[r]
    BY DEF Charges, Uncharged
  <1>3. Sum(log, Charges(k)) = Sum(log', Charges(k))
    BY <1>2, ChargesFinite, SumSame
  <1>4. Drift(k)' = Drift(k)
    BY <1>1, <1>3, DriftAfter DEF Drift, Uncharged
  <1>5. \A r \in Charges(k) : Undisturbed(r)' => Undisturbed(r)
    BY DEF Undisturbed, Uncharged, Charges
  <1>6. Follows(k)
    BY DEF SpendInv
  <1> QED BY <1>1, <1>4, <1>5, <1>6 DEF Follows

(* Rounding is off by half a digit of current_spend at most. *)
LEMMA RoundingError ==
    ASSUME NEW c \in Nat
    PROVE  /\ 2 * (Scale * Rounded(c) - c) <= Scale /\ 2 * (Scale * Rounded(c) - c) >= -Scale
           /\ Rounded(c) \in Nat
  <1> DEFINE d == 2 * Scale
             x == 2 * c + Scale
             q == x \div d
  <1>1. Scale \in Nat \ {0}
    BY ChatAssumption
  <1>2. d \in Nat \ {0} /\ x \in Nat
    BY <1>1
  <1> HIDE DEF d, x
  <1>3. q \in Nat /\ d * q <= x /\ x < d * q + d
    BY <1>2, SMT
  <1>4. Rounded(c) = q
    BY DEF Rounded, d, x, q
  <1> HIDE DEF q
  <1>5. Scale * q \in Nat /\ d * q = 2 * (Scale * q)
    BY <1>1, <1>3, SMT DEF d
  <1> QED BY <1>1, <1>3, <1>4, <1>5, SMT DEF d, x

(* A charge adds a row, and its rounded cost. *)
LEMMA SpendCharge ==
    ASSUME TypeOK, CostKnown, AnswerInv, SpendInv, NEW r \in Requests, Charge(r)
    PROVE  SpendInv'
  <1>1. /\ pc[r] = "charge" /\ UNCHANGED <<key, log, response, budgeted, ctxDone>> /\ Goto(r, "set")
        /\ \/ ExecOK(r) /\ spend' = [spend EXCEPT ![key[r]] =
                 IF key[r] \in budgeted THEN @ + Rounded(response[r].cost) ELSE @]
           \/ ExecFails(r) /\ spend' = spend
    BY DEF Charge, local
  <1>2. faults' = 0 => faults = 0
    BY <1>1, FaultsStay
  <1>3. log[r] # -1 /\ log[r] = response[r].cost /\ response[r].cost \in Nat
    BY <1>1, ChatAssumption DEF AnswerInv, LogOf, CostKnown
  <1> SUFFICES ASSUME NEW k \in budgeted, \A s \in Charges(k)' : Undisturbed(s)'
               PROVE  /\ Drift(k)' <= Scale * Cardinality(Charges(k)')
                      /\ Drift(k)' >= -(Scale * Cardinality(Charges(k)'))
    BY <1>1 DEF SpendInv, Follows
  <1>4. \A s \in Requests : pc'[s] = IF s = r THEN "set" ELSE pc[s]
    BY <1>1 DEF Goto, TypeOK
  <1>5. Follows(k) /\ k \in Keys
    BY DEF SpendInv, TypeOK
  <1>6. CASE key[r] # k
    <2>1. Charges(k)' = Charges(k)
      BY <1>1, <1>4, <1>6 DEF Charges
    <2>2. spend'[k] = spend[k]
      BY <1>1, <1>6 DEF TypeOK
    <2>3. \A s \in Charges(k) : Undisturbed(s)
      BY <1>1, <1>2, <2>1 DEF Undisturbed
    <2>4. Drift(k)' = Drift(k)
      BY <1>1, <2>1, <2>2, DriftAfter DEF Drift
    <2> QED BY <1>5, <2>1, <2>3, <2>4 DEF Follows
  <1>7. CASE key[r] = k
    <2>1. r \notin Charges(k) /\ Charges(k)' = Charges(k) \cup {r}
      BY <1>1, <1>3, <1>4, <1>7 DEF Charges
    <2>2. Undisturbed(r)'
      BY <2>1
    <2>3. spend'[k] = spend[k] + Rounded(response[r].cost)
      <3>1. ~ExecFails(r)
        BY <1>1, <2>2, ChatAssumption DEF ExecFails, Fault, Undisturbed, TypeOK
      <3> QED BY <1>1, <1>7, <3>1 DEF TypeOK
    <2>4. \A s \in Charges(k) : Undisturbed(s)
      BY <1>1, <1>2, <2>1 DEF Undisturbed
    <2> DEFINE n == Cardinality(Charges(k))
               m == Sum(log, Charges(k))
               c == response[r].cost
               p == spend[k]
               e == Rounded(c)
    <2>5. Cardinality(Charges(k)') = n + 1 /\ n \in Nat
      BY <2>1, ChargesFinite, FS_AddElement
    <2>6. Sum(log, Charges(k)') = c + m /\ m \in Int
      <3> DEFINE C == Charges(k) \cup {r}
      <3>1. IsFiniteSet(C) /\ \A s \in C : log[s] \in Int
        BY <1>3, ChargesFinite, FS_AddElement
      <3>2. C \ {r} = Charges(k)
        BY <2>1
      <3>3. Sum(log, C) = log[r] + Sum(log, C \ {r})
        <4> HIDE DEF C
        <4>1. r \in C
          BY DEF C
        <4> QED BY <3>1, <4>1, SumRemove
      <3> QED BY <1>3, <2>1, <3>2, <3>3, ChargesFinite
    <2>7. Drift(k)' = 2 * (Scale * (p + e) - (c + m))
      BY <1>1, <2>3, <2>6, DriftAfter
    <2>8. 2 * (Scale * p - m) <= Scale * n /\ 2 * (Scale * p - m) >= -(Scale * n)
      BY <1>5, <2>4 DEF Follows, Drift
    <2>9. /\ 2 * (Scale * e - c) <= Scale /\ 2 * (Scale * e - c) >= -Scale
          /\ e \in Nat /\ c \in Nat /\ p \in Nat /\ Scale \in Nat
      BY <1>3, RoundingError, ChatAssumption DEF TypeOK
    <2> HIDE DEF n, m, c, p, e
    <2>10. Scale * (p + e) = Scale * p + Scale * e /\ Scale * (n + 1) = Scale * n + Scale
      BY <2>5, <2>9, SMT
    <2>11. Scale * p \in Nat /\ Scale * e \in Nat /\ Scale * n \in Nat
      BY <2>5, <2>9, SMT
    <2> DEFINE a == Scale * p
               b == Scale * e
               d == Scale * n
    <2>12. 2 * (a + b - (c + m)) <= d + Scale /\ 2 * (a + b - (c + m)) >= -(d + Scale)
      <3> HIDE DEF a, b, d
      <3> QED BY <2>6, <2>8, <2>9, <2>11 DEF a, b, d
    <2>13. Scale * Cardinality(Charges(k)') = d + Scale
      BY <2>5, <2>10, Zenon
    <2>14. Drift(k)' = 2 * (a + b - (c + m))
      <3>1. Scale * (p + e) = a + b
        BY <2>10
      <3> HIDE DEF a, b
      <3> QED BY <2>7, <3>1, <2>9, <2>6, <2>11 DEF a, b
    <2> HIDE DEF a, b, d
    <2> QED BY <2>12, <2>13, <2>14
  <1> QED BY <1>6, <1>7

(* Every step keeps current_spend close to spend_log. *)
LEMMA SpendInvStep == TypeOK /\ CostKnown /\ AnswerInv /\ SpendInv /\ [Next]_vars => SpendInv'
  <1> SUFFICES ASSUME TypeOK, CostKnown, AnswerInv, SpendInv, [Next]_vars PROVE SpendInv'
    OBVIOUS
  <1>1. ASSUME NEW r \in Requests, Arrive(r) \/ LookUpUser(r) \/ CheckBlocked(r) \/ CheckAllowedModels(r)
        PROVE  SpendInv'
    <2>1. Uncharged
      BY <1>1, FaultsStay DEF Uncharged, Arrive, LookUpUser, CheckBlocked, CheckAllowedModels, Goto, TypeOK,
                              tables, local
    <2> QED BY <2>1, SpendUncharged
  <1>2. ASSUME NEW r \in Requests, CheckLimit(r) \/ CheckBudget(r) \/ CallFails(r) PROVE SpendInv'
    <2>1. Uncharged
      BY <1>2, FaultsStay DEF Uncharged, CheckLimit, CheckBudget, CallFails, Goto, TypeOK, tables, local
    <2> QED BY <2>1, SpendUncharged
  <1>3. ASSUME NEW r \in Requests, CheckGuardrails(r) PROVE SpendInv'
    <2>1. \E l \in {"chain", "get", "error", "refused"} : Goto(r, l)
      BY <1>3 DEF CheckGuardrails, AfterCheck
    <2>2. /\ pc[r] = "config" /\ UNCHANGED <<budgeted, key, spend, log, ctxDone>>
          /\ ExecOK(r) \/ ExecFails(r)
      BY <1>3 DEF CheckGuardrails, tables
    <2>3. Uncharged
      BY <2>1, <2>2, FaultsStay DEF Uncharged, Goto, TypeOK
    <2> QED BY <2>3, SpendUncharged
  <1>4. ASSUME NEW r \in Requests, \/ CacheGet(r) \/ CallAnswers(r) \/ ChainAnswers(r) \/ CacheSet(r)
                                   \/ CompletionGet(r) \/ CompletionAnswers(r)
        PROVE  SpendInv'
    <2>1. /\ pc[r] \in {"get", "call", "chain", "set", "idle", "complete"} /\ UNCHANGED <<budgeted, key, spend, log, ctxDone>>
          /\ ExecOK(r) \/ ExecFails(r) \/ faults' = faults
          /\ \E l \in {"cached", "call", "complete", "log", "set", "returned"} : Goto(r, l)
      BY <1>4 DEF CacheGet, CallAnswers, ChainAnswers, CacheSet, CompletionGet, CompletionAnswers,
                  tables, local
    <2>2. Uncharged
      BY <2>1, FaultsStay DEF Uncharged, Goto, TypeOK
    <2> QED BY <2>2, SpendUncharged
  <1>5. ASSUME NEW r \in Requests, InsertLog(r) PROVE SpendInv'
    <2>1. /\ pc[r] = "log" /\ UNCHANGED <<budgeted, key, spend, ctxDone>>
          /\ \/ ExecOK(r) /\ Goto(r, "charge") /\ log' = [log EXCEPT ![r] = response[r].cost]
             \/ ExecFails(r) /\ Goto(r, "set") /\ log' = log
      BY <1>5 DEF InsertLog, local
    <2>2. log[r] = -1
      BY <2>1 DEF AnswerInv, LogOf
    <2>3. Uncharged
      BY <2>1, <2>2, FaultsStay DEF Uncharged, Goto, TypeOK
    <2> QED BY <2>3, SpendUncharged
  <1>6. ASSUME NEW r \in Requests, CtxDone(r) PROVE SpendInv'
    <2>1. Uncharged
      BY <1>6 DEF Uncharged, CtxDone, TypeOK, tables, local
    <2> QED BY <2>1, SpendUncharged
  <1>7. ASSUME NEW k \in Keys, Deactivate(k) \/ EditBlocked(k) \/ DeleteGuardrail(k)
                                \/ \E row \in Rows : UpsertGuardrail(k, row)
        PROVE  SpendInv'
    <2>1. Uncharged
      BY <1>7 DEF Uncharged, Deactivate, EditBlocked, DeleteGuardrail, UpsertGuardrail, local
    <2> QED BY <2>1, SpendUncharged
  <1>8. ASSUME NEW q \in Questions, Expire(q) PROVE SpendInv'
    <2>1. Uncharged
      BY <1>8 DEF Uncharged, Expire, local
    <2> QED BY <2>1, SpendUncharged
  <1>9. CASE UNCHANGED vars
    <2>1. Uncharged
      BY <1>9 DEF Uncharged, vars, tables, local
    <2> QED BY <2>1, SpendUncharged
  <1>10. ASSUME NEW r \in Requests, Charge(r) PROVE SpendInv'
    BY <1>10, SpendCharge
  <1> QED BY <1>1, <1>2, <1>3, <1>4, <1>5, <1>6, <1>7, <1>8, <1>9, <1>10 DEF Next, Step

(* At the start nobody was charged. *)
LEMMA SpendInit == Init => SpendInv
  <1> SUFFICES ASSUME Init, NEW k \in budgeted PROVE Follows(k)
    BY DEF SpendInv
  <1>1. Charges(k) = {} /\ spend[k] = 0
    BY DEF Init, Charges
  <1>2. Sum(log, Charges(k)) = 0 /\ Cardinality(Charges(k)) = 0
    BY <1>1, SumEmpty, FS_EmptySet
  <1>3. Drift(k) = 0
    BY <1>1, <1>2, ChatAssumption DEF Drift
  <1> QED BY <1>2, <1>3, ChatAssumption DEF Follows

(* SpendInv holds in every state. *)
LEMMA SpendInductive == Spec => [](TypeOK /\ SpendInv)
  <1>1. BudgetInv => TypeOK /\ CostKnown
    BY DEF BudgetInv
  <1> QED BY <1>1, BudgetInit, BudgetStep, AnswerInductive, SpendInit, SpendInvStep, PTL DEF Spec

(* For any number of requests, keys, failures and clients that go away:      *)
(* answers, the rows of spend_log and current_spend agree; whatever order    *)
(* the two statements of overlapping calls of RecordSpend have, current_spend *)
(* is off by at most half of its last digit for each charge.                 *)
THEOREM SpendIsAccounted == Spec => []Accounting
  <1>1. ASSUME TypeOK, SpendInv PROVE SpendFollowsLog
    <2> SUFFICES ASSUME NEW k \in budgeted, \A r \in Charges(k) : Undisturbed(r)
                 PROVE  2 * (Scale * spend[k] - MapThenSumSet(LAMBDA r : log[r], Charges(k)))
                           \in -(Scale * Cardinality(Charges(k)))..(Scale * Cardinality(Charges(k)))
      BY DEF SpendFollowsLog
    <2>1. /\ Drift(k) <= Scale * Cardinality(Charges(k))
          /\ Drift(k) >= -(Scale * Cardinality(Charges(k)))
      BY <1>1 DEF SpendInv, Follows
    <2>2. Drift(k) = 2 * (Scale * spend[k] - MapThenSumSet(LAMBDA r : log[r], Charges(k)))
      BY SumIs DEF Drift
    <2>3. Drift(k) \in Int /\ Scale * Cardinality(Charges(k)) \in Int
      <3>1. Sum(log, Charges(k)) \in Int /\ Cardinality(Charges(k)) \in Nat
        BY <1>1, ChargesFinite
      <3>2. spend[k] \in Nat /\ Scale \in Nat
        BY <1>1, ChatAssumption DEF TypeOK
      <3> DEFINE m == Sum(log, Charges(k))
                 n == Cardinality(Charges(k))
                 p == spend[k]
      <3>3. Drift(k) = 2 * (Scale * p - m)
        BY DEF Drift
      <3> HIDE DEF m, n, p
      <3>4. 2 * (Scale * p - m) \in Int /\ Scale * n \in Int
        BY <3>1, <3>2, SMT DEF m, n, p
      <3> QED BY <3>3, <3>4 DEF n
    <2> QED BY <2>1, <2>2, <2>3
  <1>2. TypeOK /\ SpendInv => SpendFollowsLog
    BY <1>1
  <1>3. SpendFollowsLog /\ AccountedOnce => Accounting
    BY DEF Accounting
  <1> QED BY <1>2, <1>3, SpendInductive, AnswersAreLoggedOnce, PTL

=============================================================================
