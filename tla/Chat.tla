-------------------------------- MODULE Chat --------------------------------
(***************************************************************************)
(* A chat request on its way through handler/chat.go: the checks of the    *)
(* key, guardrails, cache, provider call, accounting and reply, with the   *)
(* budget of budget/budget.go, the configuration loader and the filter of  *)
(* guardrails/guardrails.go and the cache of cache/cache.go, which the     *)
(* requests of handler/completions.go share.                               *)
(*                                                                         *)
(* Each SQL statement, each Redis command and the call of the router is a  *)
(* step of its own; a statement or command fails once the context of the   *)
(* request has ended, and up to MaxFaults of them fail for other reasons.  *)
(* Most failures let the request pass.  A question stands for the model    *)
(* and the messages, which are what the cache key is made of.  Inside the  *)
(* call, see Router; the requests-per-minute check may refuse at any time  *)
(* (see RateLimit).  The token counter and the headers of the reply only   *)
(* report, and are left out.                                               *)
(***************************************************************************)
EXTENDS Integers, FiniteSets, FiniteSetsExt

CONSTANTS
    Requests,    \* the requests, one goroutine each
    Keys,        \* the API keys
    WithChain,   \* the keys with a fallback chain (of two registered providers) of their own
    Questions,   \* what may be asked
    Permitted,   \* the questions whose model each key may use
    Global,      \* the guardrails of the environment: "off", "plain" or "redact"
    Rows,        \* bound: what rows of guardrail_configs may say
    MaxBudget,   \* budgets.max_budget, in units of its last digit
    Costs,       \* bound: the costs of calls, in units of the last digit of spend_log.cost
    MaxCost,     \* the largest of them
    Scale,       \* how many of the latter make one of the former, 100
    MaxFaults,   \* bound: statements and commands that fail
    MaxEdits     \* bound: changes an administrator makes

ASSUME ChatAssumption ==
    /\ IsFiniteSet(Requests) /\ WithChain \subseteq Keys
    /\ Permitted \in [Keys -> SUBSET Questions]
    /\ Global \in {"off", "plain", "redact"}
    /\ Rows \subseteq {"disabled", "none", "redact", "other"}
    /\ MaxBudget \in Nat \ {0} /\ Scale \in Nat \ {0}
    /\ MaxCost \in Nat /\ Costs \subseteq 0..MaxCost
    /\ MaxFaults \in Nat /\ MaxEdits \in Nat

VARIABLES
    active,      \* the keys with an active row in virtual_keys
    blocked,     \* the keys whose user is in blocked_users
    guardrail,   \* guardrail_configs: what the key's row says, "absent" without one
    budgeted,    \* the keys with a row in budgets
    spend,       \* budgets.current_spend
    log,         \* spend_log.cost of the row of a request; -1 without a row
    cache,       \* the cached response to each question, or None
    pc, key, question, config, response, ctxDone, faults, edits,
    peak,        \* history: the most requests of a key between budget check and charge
    restricted,  \* history: since it arrived, the request should have been refused
    redacting    \* history: since it arrived, the guardrails of its key redact

tables == <<active, blocked, guardrail, budgeted, spend, log, cache>>
local  == <<key, question, config, response>>
vars   == <<tables, pc, local, ctxDone, faults, edits, peak, restricted, redacting>>

None == [cost |-> -1, redacted |-> FALSE, route |-> "none"]

Init ==
    /\ active = Keys
    /\ blocked = {} /\ budgeted \in {{}, Keys}
    /\ guardrail \in [Keys -> Rows \cup {"absent"}]
    /\ spend = [k \in Keys |-> 0]
    /\ log = [r \in Requests |-> -1]
    /\ cache = [q \in Questions |-> None]
    /\ pc = [r \in Requests |-> "idle"]
    /\ key \in [Requests -> Keys] /\ question \in [Requests -> Questions]
    /\ config = [r \in Requests |-> "off"]
    /\ response = [r \in Requests |-> None]
    /\ ctxDone = [r \in Requests |-> FALSE]
    /\ faults = 0 /\ edits = 0
    /\ peak = [k \in Keys |-> 0]
    /\ restricted = [r \in Requests |-> FALSE] /\ redacting = [r \in Requests |-> FALSE]

Fault == faults < MaxFaults /\ faults' = faults + 1
ExecOK(r) == ~ctxDone[r] /\ UNCHANGED faults
ExecFails(r) == (ctxDone[r] /\ UNCHANGED faults) \/ Fault
Goto(r, l) == pc' = [pc EXCEPT ![r] = l]

(* What a check on the key should object to. *)
Objection(r, act, blk) ==
    key[r] \in act /\ (key[r] \in blk \/ question[r] \notin Permitted[key[r]])

(* LoadConfig, with the key's row as it was read.  The row counts only when *)
(* the guardrails are enabled globally; a row that says "none" leaves the   *)
(* global action.                                                           *)
Config(row) ==
    CASE Global = "off" -> "off"
      [] Global # "off" /\ row \in {"absent", "none"} -> Global
      [] Global # "off" /\ row = "disabled" -> "off"
      [] Global # "off" /\ row = "other" -> "plain"
      [] Global # "off" /\ row = "redact" -> "redact"

-----------------------------------------------------------------------------
(* The checks of the key *)

(* The request has passed the key middleware and the checks of its form. *)
Arrive(r) ==
    /\ pc[r] = "idle"
    /\ Goto(r, "user")
    /\ restricted' = [restricted EXCEPT ![r] = Objection(r, active, blocked)]
    /\ redacting' = [redacting EXCEPT ![r] = Config(guardrail[key[r]]) = "redact"]
    /\ UNCHANGED <<tables, local, ctxDone, faults, edits, peak>>

(* checkBlockedUser: the key's user is looked up, then the block list.  No  *)
(* active row and any error let the request pass.                           *)
LookUpUser(r) ==
    /\ pc[r] = "user"
    /\ \/ ExecOK(r) /\ Goto(r, IF key[r] \in active THEN "blocked" ELSE "model")
       \/ ExecFails(r) /\ Goto(r, "model")
    /\ UNCHANGED <<tables, local, ctxDone, edits, peak, restricted, redacting>>

(* Fault: the answer of the block list is ignored. *)
CheckBlockedNever(r) ==
    /\ pc[r] = "blocked"
    /\ ExecOK(r) \/ ExecFails(r)
    /\ Goto(r, "model")
    /\ UNCHANGED <<tables, local, ctxDone, edits, peak, restricted, redacting>>

CheckBlocked(r) ==
    /\ pc[r] = "blocked"
    /\ \/ ExecOK(r) /\ Goto(r, IF key[r] \in blocked THEN "refused" ELSE "model")
       \/ ExecFails(r) /\ Goto(r, "model")
    /\ UNCHANGED <<tables, local, ctxDone, edits, peak, restricted, redacting>>

CheckAllowedModels(r) ==
    /\ pc[r] = "model"
    /\ \/ /\ ExecOK(r)
          /\ Goto(r, IF key[r] \in active /\ question[r] \notin Permitted[key[r]]
                     THEN "refused" ELSE "limit")
       \/ ExecFails(r) /\ Goto(r, "limit")
    /\ UNCHANGED <<tables, local, ctxDone, edits, peak, restricted, redacting>>

(* loadVirtualKey and CheckRateLimit *)
CheckLimit(r) ==
    /\ pc[r] = "limit"
    /\ \/ ExecOK(r) /\ (Goto(r, "budget") \/ (key[r] \in active /\ Goto(r, "refused")))
       \/ ExecFails(r) /\ Goto(r, "budget")
    /\ UNCHANGED <<tables, local, ctxDone, edits, peak, restricted, redacting>>

(* Requests of a key that have passed the budget check and may be charged. *)
Open(k) == {r \in Requests : /\ key[r] = k /\ ~ctxDone[r]
                             /\ pc[r] \in {"config", "get", "call", "log", "charge"}}

(* Fault: the comparison includes the budget itself. *)
WithinBudgetInclusive(k) == k \in budgeted => spend[k] <= MaxBudget

(* Without a row, as with a max_budget of 0, there is no limit. *)
WithinBudget(k) == k \in budgeted => spend[k] < MaxBudget

(* An error of the query counts as being within the budget. *)
CheckBudget(r) ==
    /\ pc[r] = "budget"
    /\ \/ /\ (WithinBudget(key[r]) /\ ExecOK(r)) \/ ExecFails(r)
          /\ Goto(r, "config")
          /\ LET n == Cardinality(Open(key[r]) \cup {r}) IN
             peak' = [peak EXCEPT ![key[r]] = IF n > @ THEN n ELSE @]
       \/ /\ ~WithinBudget(key[r]) /\ ExecOK(r)
          /\ Goto(r, "refused") /\ UNCHANGED peak
    /\ UNCHANGED <<tables, local, ctxDone, edits, restricted, redacting>>

-----------------------------------------------------------------------------
(* Guardrails, cache and call *)

AfterCheck(r) == IF key[r] \in WithChain THEN "chain" ELSE "get"

(* LoadConfig and Check; unless the guardrails are off the messages may be  *)
(* refused.  After that the model is resolved, on either route.             *)
CheckGuardrails(r) ==
    /\ pc[r] = "config"
    /\ \E c \in {Config(guardrail[key[r]]), Global} :
          /\ \/ c = Config(guardrail[key[r]]) /\ ExecOK(r)
             \/ c = Global /\ ExecFails(r)
          /\ config' = [config EXCEPT ![r] = c]
          /\ Goto(r, AfterCheck(r)) \/ Goto(r, "error") \/ (c # "off" /\ Goto(r, "refused"))
    /\ UNCHANGED <<tables, key, question, response, ctxDone, edits, peak, restricted, redacting>>

Hit(q) == [cache[q] EXCEPT !.route = "cache"]

(* Cache.Get; an error is a miss.  A hit is marked as cached and returned   *)
(* at once.                                                                 *)
CacheGet(r) ==
    /\ pc[r] = "get"
    /\ \/ /\ ExecOK(r) /\ cache[question[r]] # None
          /\ response' = [response EXCEPT ![r] = Hit(question[r])]
          /\ Goto(r, "cached")
       \/ /\ (ExecOK(r) /\ cache[question[r]] = None) \/ ExecFails(r)
          /\ Goto(r, "call") /\ UNCHANGED response
    /\ UNCHANGED <<tables, key, question, config, ctxDone, edits, peak, restricted, redacting>>

(* Fault: the response is not filtered. *)
FilterNothing(c) == FALSE

(* Filter redacts the response in place, or leaves it as it is. *)
Filter(c) == c = "redact"

(* The router's answer, filtered and with its cost. *)
CallAnswers(r) ==
    /\ pc[r] = "call" /\ ~ctxDone[r]
    /\ \E c \in Costs :
          response' = [response EXCEPT ![r] =
             [cost |-> c, redacted |-> Filter(config[r]), route |-> "router"]]
    /\ Goto(r, "log")
    /\ UNCHANGED <<tables, key, question, config, ctxDone, faults, edits, peak, restricted, redacting>>

CallFails(r) ==
    /\ pc[r] \in {"call", "chain", "complete"}
    /\ Goto(r, "error")
    /\ UNCHANGED <<tables, local, ctxDone, faults, edits, peak, restricted, redacting>>

(* The fallback chain of the key answers: no filter, no cost, no accounting. *)
ChainAnswers(r) ==
    /\ pc[r] = "chain" /\ ~ctxDone[r]
    /\ response' = [response EXCEPT ![r] =
          [cost |-> 0, redacted |-> FALSE, route |-> "chain"]]
    /\ Goto(r, "set")
    /\ UNCHANGED <<tables, key, question, config, ctxDone, faults, edits, peak, restricted, redacting>>

(* Legacy completions look into the same cache, with none of the checks of  *)
(* the key (a form or model that is not known ends them before this) ...    *)
CompletionGet(r) ==
    /\ pc[r] = "idle"
    /\ \/ /\ ExecOK(r) /\ cache[question[r]] # None
          /\ response' = [response EXCEPT ![r] = Hit(question[r])]
          /\ Goto(r, "cached")
       \/ /\ (ExecOK(r) /\ cache[question[r]] = None) \/ ExecFails(r)
          /\ Goto(r, "complete") /\ UNCHANGED response
    /\ UNCHANGED <<tables, key, question, config, ctxDone, edits, peak, restricted, redacting>>

(* ... and store the router's answer there without a filter. *)
CompletionAnswers(r) ==
    /\ pc[r] = "complete" /\ ~ctxDone[r]
    /\ response' = [response EXCEPT ![r] =
          [cost |-> 0, redacted |-> FALSE, route |-> "completions"]]
    /\ Goto(r, "set")
    /\ UNCHANGED <<tables, key, question, config, ctxDone, faults, edits, peak, restricted, redacting>>

-----------------------------------------------------------------------------
(* RecordSpend and the rest *)

(* The cost as spend_log keeps it; without the row the budget is not        *)
(* charged either.                                                          *)
InsertLog(r) ==
    /\ pc[r] = "log"
    /\ \/ /\ ExecOK(r) /\ log' = [log EXCEPT ![r] = response[r].cost]
          /\ Goto(r, "charge")
       \/ ExecFails(r) /\ Goto(r, "set") /\ UNCHANGED log
    /\ UNCHANGED <<active, blocked, guardrail, budgeted, spend, cache, local, ctxDone, edits, peak, restricted, redacting>>

(* Fault: the cost is cut off instead of rounded. *)
RoundedDown(cost) == cost \div Scale

(* The cost as it is added to current_spend, which has fewer digits. *)
Rounded(cost) == (2 * cost + Scale) \div (2 * Scale)

(* The update changes nothing when the key has no row in budgets. *)
Charge(r) ==
    /\ pc[r] = "charge"
    /\ \/ /\ ExecOK(r)
          /\ spend' = [spend EXCEPT ![key[r]] =
                IF key[r] \in budgeted THEN @ + Rounded(response[r].cost) ELSE @]
       \/ ExecFails(r) /\ UNCHANGED spend
    /\ Goto(r, "set")
    /\ UNCHANGED <<active, blocked, guardrail, budgeted, log, cache, local, ctxDone, edits, peak, restricted, redacting>>

CacheSet(r) ==
    /\ pc[r] = "set"
    /\ \/ ExecOK(r) /\ cache' = [cache EXCEPT ![question[r]] = response[r]]
       \/ ExecFails(r) /\ UNCHANGED cache
    /\ Goto(r, "returned")
    /\ UNCHANGED <<active, blocked, guardrail, budgeted, spend, log, local, ctxDone, edits, peak, restricted, redacting>>

(* The client goes away while its request is handled. *)
CtxDone(r) ==
    /\ pc[r] \notin {"idle", "refused", "error", "cached", "returned"} /\ ~ctxDone[r]
    /\ ctxDone' = [ctxDone EXCEPT ![r] = TRUE]
    /\ UNCHANGED <<tables, pc, local, faults, edits, peak, restricted, redacting>>

-----------------------------------------------------------------------------
(* What others do meanwhile *)

Edit == edits < MaxEdits /\ edits' = edits + 1

(* Restricted requests stay so only as long as there is an objection. *)
StillRestricted(act, blk) ==
    restricted' = [r \in Requests |-> restricted[r] /\ Objection(r, act, blk)]

StillRedacting(rows) ==
    redacting' = [r \in Requests |-> redacting[r] /\ Config(rows[key[r]]) = "redact"]

(* KeyDelete *)
Deactivate(k) ==
    /\ Edit
    /\ k \in active /\ active' = active \ {k}
    /\ StillRestricted(active', blocked)
    /\ UNCHANGED <<blocked, guardrail, budgeted, spend, log, cache, pc, local, ctxDone, faults, peak, redacting>>

(* The block list is edited by hand: no handler writes to it. *)
EditBlocked(k) ==
    /\ Edit
    /\ blocked' = IF k \in blocked THEN blocked \ {k} ELSE blocked \cup {k}
    /\ StillRestricted(active, blocked')
    /\ UNCHANGED <<active, guardrail, budgeted, spend, log, cache, pc, local, ctxDone, faults, peak, redacting>>

UpsertGuardrail(k, row) ==
    /\ Edit
    /\ guardrail' = [guardrail EXCEPT ![k] = row]
    /\ StillRedacting(guardrail')
    /\ UNCHANGED <<active, blocked, budgeted, spend, log, cache, pc, local, ctxDone, faults, peak, restricted>>

DeleteGuardrail(k) ==
    /\ Edit
    /\ guardrail[k] # "absent"
    /\ guardrail' = [guardrail EXCEPT ![k] = "absent"]
    /\ StillRedacting(guardrail')
    /\ UNCHANGED <<active, blocked, budgeted, spend, log, cache, pc, local, ctxDone, faults, peak, restricted>>

(* A cached response reaches the end of its life. *)
Expire(q) ==
    /\ cache[q] # None
    /\ cache' = [cache EXCEPT ![q] = None]
    /\ UNCHANGED <<active, blocked, guardrail, budgeted, spend, log, pc, local, ctxDone, faults, edits, peak, restricted, redacting>>

Step(r) ==
    \/ LookUpUser(r) \/ CheckBlocked(r) \/ CheckAllowedModels(r) \/ CheckLimit(r) \/ CheckBudget(r)
    \/ CheckGuardrails(r) \/ CacheGet(r) \/ CallAnswers(r) \/ CallFails(r) \/ ChainAnswers(r)
    \/ CompletionGet(r) \/ CompletionAnswers(r) \/ InsertLog(r) \/ Charge(r) \/ CacheSet(r)

Next ==
    \/ \E r \in Requests : Arrive(r) \/ Step(r) \/ CtxDone(r)
    \/ \E k \in Keys :
          \/ Deactivate(k) \/ EditBlocked(k) \/ DeleteGuardrail(k)
          \/ \E row \in Rows : UpsertGuardrail(k, row)
    \/ \E q \in Questions : Expire(q)

Spec == Init /\ [][Next]_vars

-----------------------------------------------------------------------------
(* Properties *)

Responses == [cost : -1..MaxCost, redacted : BOOLEAN,
              route : {"none", "router", "chain", "completions", "cache"}]

Answered == {"refused", "error", "cached", "returned"}

TypeOK ==
    /\ active \subseteq Keys /\ blocked \subseteq Keys /\ budgeted \subseteq Keys
    /\ guardrail \in [Keys -> Rows \cup {"absent"}]
    /\ spend \in [Keys -> Nat] /\ peak \in [Keys -> Nat]
    /\ log \in [Requests -> -1..MaxCost]
    /\ pc \in [Requests -> {"idle", "user", "blocked", "model", "limit", "budget", "config", "chain",
                            "get", "call", "complete", "log", "charge", "set"} \cup Answered]
    /\ key \in [Requests -> Keys] /\ question \in [Requests -> Questions]
    /\ config \in [Requests -> {"off", "plain", "redact"}]
    /\ response \in [Requests -> Responses] /\ cache \in [Questions -> Responses]
    /\ ctxDone \in [Requests -> BOOLEAN] /\ restricted \in [Requests -> BOOLEAN]
    /\ redacting \in [Requests -> BOOLEAN]
    /\ faults \in 0..MaxFaults /\ edits \in 0..MaxEdits

(* The budget is checked before the call and charged after it, so requests   *)
(* that overlap overshoot it - by no more than one charge for each request   *)
(* that was ever under way at the same time, and for each query that failed. *)
OvershootBounded ==
    \A k \in Keys : spend[k] < MaxBudget + (peak[k] + faults) * Rounded(MaxCost)

Undisturbed(r) == faults = 0 /\ ~ctxDone[r]

(* A chat request has one row in spend_log exactly when it got an answer from *)
(* the router: never for a cached or refused one, never twice.  Failures and     *)
(* clients that go away cost rows, and never add one.                        *)
AccountedOnce ==
    \A r \in Requests :
        /\ log[r] # -1 => response[r].route = "router" /\ log[r] = response[r].cost
                          /\ pc[r] \in {"charge", "set", "returned"}
        /\ pc[r] = "returned" /\ response[r].route = "router" /\ Undisturbed(r) => log[r] # -1

(* What a key has been charged: the rows of its requests that have passed    *)
(* the update.                                                               *)
Charges(k) == {r \in Requests : key[r] = k /\ log[r] # -1 /\ pc[r] # "charge"}

(* current_spend has fewer digits than spend_log: as long as nothing fails   *)
(* the two drift apart by at most half a digit for each charge.              *)
SpendFollowsLog ==
    \A k \in budgeted : (\A r \in Charges(k) : Undisturbed(r)) =>
        LET logged == MapThenSumSet(LAMBDA r : log[r], Charges(k))
            drift  == 2 * (Scale * spend[k] - logged)
            bound  == Scale * Cardinality(Charges(k))
        IN drift \in -bound..bound

(* Answers, spend_log and current_spend agree, over retried, cached, failed  *)
(* and abandoned requests.                                                   *)
Accounting == AccountedOnce /\ SpendFollowsLog

(* A request to which there is an objection from its arrival on, the key's   *)
(* user being blocked or the model not permitted, never reaches a provider,  *)
(* unless a query fails or the key is deactivated under it.                  *)
RestrictionsHold ==
    \A r \in Requests : restricted[r] /\ Undisturbed(r) =>
        pc[r] \notin {"chain", "get", "call", "log", "charge", "set", "cached", "returned"}

(* The response of s was made without the filter: over the fallback chain of *)
(* its key, for the completions API, or under guardrails that do not redact. *)
Unfiltered(s) ==
    \/ response[s].route \in {"chain", "completions"}
    \/ response[s].route = "router" /\ config[s] # "redact"

(* "Replace PII in responses" (README.md:117), as far as the code keeps it: a *)
(* chat request whose key redacts from the request's arrival to its answer    *)
(* gets an answer that Filter has seen, whatever happens to guardrail_configs *)
(* and to the cache meanwhile - but for two ways past it.  The fallback chain *)
(* of the key itself is not filtered (chat.go:102-110); and a hit is returned *)
(* as it is stored (chat.go:133), so it may be what an earlier request for    *)
(* the same question, of whatever key, put there unfiltered.                  *)
RedactionHolds ==
    \A r \in Requests :
        redacting[r] /\ Undisturbed(r) /\ pc[r] \in {"cached", "returned"} =>
            \/ response[r].redacted
            \/ response[r].route = "chain" /\ key[r] \in WithChain
            \/ /\ response[r].route = "cache"
               /\ \E s \in Requests \ {r} :
                     question[s] = question[r] /\ pc[s] = "returned" /\ Unfiltered(s)

=============================================================================
