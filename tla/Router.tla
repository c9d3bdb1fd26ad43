------------------------------- MODULE Router -------------------------------
(***************************************************************************)
(* Requests on their way to the providers: Router.ChatCompletion and       *)
(* ChatCompletionStream of routing/router.go, the retry loop of retry.go,  *)
(* the trackers of cooldown.go and inflight.go, and the fallback chains of *)
(* provider/fallback.go.                                                   *)
(*                                                                         *)
(* A request takes one of three routes.  "direct" and "global" go through  *)
(* the router, to one provider or to the registered composite provider     *)
(* "fallback"; "perkey" is the chain of an API key, which handler/chat.go  *)
(* calls without the router.  The trackers are shared and locked, so each  *)
(* call of one is a step.  Error kinds are kept as far as the code tells   *)
(* them apart: the retryable ones, the token limit, and the rest.  The     *)
(* latency and usage trackers are left out: no decision here reads them.   *)
(***************************************************************************)
EXTENDS Integers, Sequences, FiniteSets

CONSTANTS
    Requests,    \* the requests, one goroutine each
    Streaming,   \* the requests that stream
    WithAlt,     \* the requests whose model has a larger-context alternative
    Providers,   \* the providers proper
    Streamers,   \* the providers that implement StreamingProvider
    Chain,       \* the members of the fallback chain, in order
    Fallback,    \* the name of the composite provider
    Routes,      \* the routes the requests may take
    MaxRetries,  \* RETRY_MAX
    Threshold,   \* COOLDOWN_THRESHOLD
    Period,      \* COOLDOWN_PERIOD_SECONDS, in ticks of the clock
    MaxTime      \* bound on the clock

ASSUME RouterAssumption ==
    /\ Streaming \subseteq Requests /\ WithAlt \subseteq Requests
    /\ IsFiniteSet(Requests)
    /\ Streamers \subseteq Providers /\ Fallback \notin Providers
    /\ Chain \in Seq(Providers)
    /\ Routes \subseteq {"direct", "global", "perkey"}
    /\ MaxRetries \in Nat /\ Threshold \in Nat \ {0}
    /\ Period \in Nat /\ MaxTime \in Nat

Names == Providers \cup {Fallback}

(* ErrRateLimit, ErrServerError and ErrTimeout are "transient". *)
Kinds == {"transient", "token_limit", "other"}
IsRetryable(kind) == kind = "transient"

VARIABLES
    now,            \* the clock
    failures,       \* CooldownTracker.failures
    cooldownUntil,  \* CooldownTracker.cooldownUntil; -1 stands for no entry
    inFlight,       \* InFlightTracker.counts
    pc, route, target,   \* where a request is, its route, the name it is routed to
    attempt,        \* the loop variable of Execute
    pos,            \* the loop variable of the fallback chain
    lastErr,        \* the kind of lastErr in the fallback chain ("other": nil)
    answer,         \* what the request, or its latest attempt, came to
    calls           \* history: upstream calls a request has made

trackers == <<failures, cooldownUntil, inFlight>>
vars == <<now, trackers, pc, route, target, attempt, pos, lastErr, answer, calls>>

Init ==
    /\ now = 0
    /\ failures = [p \in Names |-> 0]
    /\ cooldownUntil = [p \in Names |-> -1]
    /\ inFlight = [p \in Names |-> 0]
    /\ pc = [r \in Requests |-> "idle"]
    /\ route = [r \in Requests |-> "none"]
    /\ target = [r \in Requests |-> Fallback]
    /\ attempt = [r \in Requests |-> 0]
    /\ pos = [r \in Requests |-> 1]
    /\ lastErr = [r \in Requests |-> "other"]
    /\ answer = [r \in Requests |-> "none"]
    /\ calls = [r \in Requests |-> 0]

-----------------------------------------------------------------------------
(* CooldownTracker *)

(* time.Now().After(until) is strict. *)
IsAvailable(p) == cooldownUntil[p] = -1 \/ now > cooldownUntil[p]

RecordFailure(p) ==
    /\ failures' = [failures EXCEPT ![p] = @ + 1]
    /\ cooldownUntil' = [cooldownUntil EXCEPT ![p] =
                            IF failures[p] + 1 >= Threshold THEN now + Period ELSE @]

(* Fault: a success resets the count and leaves the cooldown. *)
RecordSuccessKeepsCooldown(p) ==
    /\ failures' = [failures EXCEPT ![p] = 0]
    /\ UNCHANGED cooldownUntil

RecordSuccess(p) ==
    /\ failures' = [failures EXCEPT ![p] = 0]
    /\ cooldownUntil' = [cooldownUntil EXCEPT ![p] = -1]

NoRecord == UNCHANGED <<failures, cooldownUntil>>

(* InFlightTracker; Decrement never goes below zero. *)
Increment(p) == inFlight' = [inFlight EXCEPT ![p] = @ + 1]
Decrement(p) == inFlight' = [inFlight EXCEPT ![p] = IF @ > 0 THEN @ - 1 ELSE 0]

-----------------------------------------------------------------------------
Goto(r, l) == pc' = [pc EXCEPT ![r] = l]

(* The request is resolved to a provider; a streaming request needs one     *)
(* that streams and knows no per-key chain.                                 *)
Arrive(r) ==
    /\ pc[r] = "idle"
    /\ \E k \in Routes, p \in Names :
          /\ k = "direct" => p \in (IF r \in Streaming THEN Streamers ELSE Providers)
          /\ k # "direct" => p = Fallback
          /\ k = "perkey" => r \notin Streaming
          /\ route' = [route EXCEPT ![r] = k]
          /\ target' = [target EXCEPT ![r] = p]
          /\ Goto(r, IF k = "perkey" THEN "chain" ELSE "check")
    /\ UNCHANGED <<now, trackers, attempt, pos, lastErr, answer, calls>>

CheckCooldown(r) ==
    /\ pc[r] = "check"
    /\ IF IsAvailable(target[r])
       THEN Goto(r, "admitted") /\ UNCHANGED answer
       ELSE Goto(r, "returned") /\ answer' = [answer EXCEPT ![r] = "cooldown"]
    /\ UNCHANGED <<now, trackers, route, target, attempt, pos, lastErr, calls>>

(* Where fn of the retry loop begins. *)
Begin(r) == IF route[r] = "direct" THEN "call" ELSE "chain"

Admit(r) ==
    /\ pc[r] = "admitted"
    /\ Increment(target[r])
    /\ Goto(r, Begin(r))
    /\ NoRecord
    /\ UNCHANGED <<now, route, target, attempt, pos, lastErr, answer, calls>>

-----------------------------------------------------------------------------
(* RetryPolicy.Execute and ExecuteStream *)

(* What the loop does with an attempt that failed with an error of a kind. *)
AfterFailure(r, kind) ==
    IF route[r] = "perkey" THEN "leaving"
    ELSE IF IsRetryable(kind) /\ attempt[r] < MaxRetries THEN "backoff" ELSE "failure"

AfterSuccess(r) == IF route[r] = "perkey" THEN "leaving" ELSE "success"

Called(r) == calls' = [calls EXCEPT ![r] = @ + 1]

CallReturns(r) ==
    /\ pc[r] = "call"
    /\ Called(r)
    /\ \/ Goto(r, "success")
       \/ \E kind \in Kinds : Goto(r, AfterFailure(r, kind))
    /\ UNCHANGED <<now, trackers, route, target, attempt, pos, lastErr, answer>>

(* Fault: the attempt is not counted. *)
BackoffEndsUncounted(r) ==
    /\ pc[r] = "backoff"
    /\ pos' = [pos EXCEPT ![r] = 1]
    /\ lastErr' = [lastErr EXCEPT ![r] = "other"]
    /\ Goto(r, Begin(r))
    /\ UNCHANGED <<now, trackers, attempt, route, target, answer, calls>>

(* The delay is over: the next attempt starts with fresh variables. *)
BackoffEnds(r) ==
    /\ pc[r] = "backoff"
    /\ attempt' = [attempt EXCEPT ![r] = @ + 1]
    /\ pos' = [pos EXCEPT ![r] = 1]
    /\ lastErr' = [lastErr EXCEPT ![r] = "other"]
    /\ Goto(r, Begin(r))
    /\ UNCHANGED <<now, trackers, route, target, answer, calls>>

BackoffCtxDone(r) ==
    /\ pc[r] = "backoff"
    /\ Goto(r, "failure")
    /\ UNCHANGED <<now, trackers, route, target, attempt, pos, lastErr, answer, calls>>

(* The provider panics: only the deferred Decrement runs. *)
CallPanics(r) ==
    /\ pc[r] \in {"call", "member", "alt"}
    /\ Called(r)
    /\ Goto(r, "leaving")
    /\ answer' = [answer EXCEPT ![r] = "panic"]
    /\ UNCHANGED <<now, trackers, route, target, attempt, pos, lastErr>>

-----------------------------------------------------------------------------
(* FallbackProvider.ChatCompletion and ChatCompletionStream *)

Member(r) == Chain[pos[r]]
InChain(r) == pc[r] = "chain" /\ pos[r] <= Len(Chain)
Usable(r) == IsAvailable(Member(r)) /\ (r \in Streaming => Member(r) \in Streamers)

(* Fault: the loop waits for a member in cooldown instead of skipping it. *)
ChainSkipNever(r) ==
    /\ InChain(r) /\ ~Usable(r)
    /\ UNCHANGED vars

ChainSkip(r) ==
    /\ InChain(r) /\ ~Usable(r)
    /\ pos' = [pos EXCEPT ![r] = @ + 1]
    /\ UNCHANGED <<now, trackers, pc, route, target, attempt, lastErr, answer, calls>>

ChainTry(r) ==
    /\ InChain(r) /\ Usable(r)
    /\ Goto(r, "member")
    /\ UNCHANGED <<now, trackers, route, target, attempt, pos, lastErr, answer, calls>>

MemberAnswers(r) ==
    /\ pc[r] = "member"
    /\ Called(r)
    /\ RecordSuccess(Member(r))
    /\ Goto(r, AfterSuccess(r))
    /\ answer' = [answer EXCEPT ![r] = "ok"]
    /\ UNCHANGED <<now, inFlight, route, target, attempt, pos, lastErr>>

NextMember(r, kind) ==
    /\ Goto(r, "chain")
    /\ pos' = [pos EXCEPT ![r] = @ + 1]
    /\ lastErr' = [lastErr EXCEPT ![r] = kind]

(* On a token limit the larger model of the same provider is tried first. *)
MemberFails(r, kind) ==
    /\ pc[r] = "member"
    /\ Called(r)
    /\ RecordFailure(Member(r))
    /\ IF kind = "token_limit" /\ r \in WithAlt \ Streaming
       THEN Goto(r, "alt") /\ UNCHANGED <<pos, lastErr>>
       ELSE NextMember(r, kind)
    /\ UNCHANGED <<now, inFlight, route, target, attempt, answer>>

(* The larger model answers; the tracker is not told. *)
AltAnswers(r) ==
    /\ pc[r] = "alt"
    /\ Called(r)
    /\ Goto(r, AfterSuccess(r))
    /\ answer' = [answer EXCEPT ![r] = "ok"]
    /\ UNCHANGED <<now, trackers, route, target, attempt, pos, lastErr>>

AltFails(r) ==
    /\ pc[r] = "alt"
    /\ Called(r)
    /\ NextMember(r, "token_limit")
    /\ UNCHANGED <<now, trackers, route, target, attempt, answer>>

(* "all providers in fallback chain failed", wrapping the last error. *)
ChainFails(r) ==
    /\ pc[r] = "chain" /\ pos[r] > Len(Chain)
    /\ Goto(r, AfterFailure(r, lastErr[r]))
    /\ answer' = [answer EXCEPT ![r] = "error"]
    /\ UNCHANGED <<now, trackers, route, target, attempt, pos, lastErr, calls>>

-----------------------------------------------------------------------------
(* The rest of Router.ChatCompletion *)

Failed(r) ==
    /\ pc[r] = "failure"
    /\ RecordFailure(target[r])
    /\ Goto(r, "leaving")
    /\ answer' = [answer EXCEPT ![r] = "error"]
    /\ UNCHANGED <<now, inFlight, route, target, attempt, pos, lastErr, calls>>

Succeeded(r) ==
    /\ pc[r] = "success"
    /\ RecordSuccess(target[r])
    /\ Goto(r, "leaving")
    /\ answer' = [answer EXCEPT ![r] = "ok"]
    /\ UNCHANGED <<now, inFlight, route, target, attempt, pos, lastErr, calls>>

(* The deferred Decrement; a per-key chain has nothing to undo. *)
Leave(r) ==
    /\ pc[r] = "leaving"
    /\ IF route[r] = "perkey" THEN UNCHANGED inFlight ELSE Decrement(target[r])
    /\ Goto(r, "returned")
    /\ NoRecord
    /\ UNCHANGED <<now, route, target, attempt, pos, lastErr, answer, calls>>

Tick ==
    /\ now < MaxTime /\ now' = now + 1
    /\ UNCHANGED <<trackers, pc, route, target, attempt, pos, lastErr, answer, calls>>

-----------------------------------------------------------------------------
Step(r) ==
    \/ CheckCooldown(r) \/ Admit(r) \/ CallReturns(r) \/ BackoffEnds(r) \/ BackoffCtxDone(r)
    \/ CallPanics(r) \/ ChainSkip(r) \/ ChainTry(r) \/ MemberAnswers(r)
    \/ (\E kind \in Kinds : MemberFails(r, kind))
    \/ AltAnswers(r) \/ AltFails(r) \/ ChainFails(r) \/ Failed(r) \/ Succeeded(r) \/ Leave(r)

Next == (\E r \in Requests : Arrive(r) \/ Step(r)) \/ Tick

Spec == Init /\ [][Next]_vars

(* Provider calls return, delays end and goroutines are scheduled. *)
FairSpec == Spec /\ \A r \in Requests : WF_vars(Step(r))

-----------------------------------------------------------------------------
(* Properties *)

TypeOK ==
    /\ now \in 0..MaxTime
    /\ failures \in [Names -> Nat]
    /\ cooldownUntil \in [Names -> Int]
    /\ \A p \in Names : cooldownUntil[p] \in {-1} \cup (0..(now + Period))
    /\ inFlight \in [Names -> Nat]
    /\ pc \in [Requests -> {"idle", "check", "admitted", "call", "backoff", "chain", "member",
                            "alt", "failure", "success", "leaving", "returned"}]
    /\ route \in [Requests -> Routes \cup {"none"}]
    /\ target \in [Requests -> Names]
    /\ attempt \in [Requests -> 0..MaxRetries]
    /\ pos \in [Requests -> 1..(Len(Chain) + 1)]
    /\ lastErr \in [Requests -> Kinds]
    /\ answer \in [Requests -> {"none", "ok", "error", "cooldown", "panic"}]
    /\ calls \in [Requests -> Nat]

(* The requests InFlightTracker has counted in and not yet out. *)
Busy(p) == {r \in Requests : /\ target[r] = p /\ route[r] \in {"direct", "global"}
                             /\ pc[r] \notin {"idle", "check", "admitted", "returned"}}

(* The in-flight count of a provider is the number of requests between       *)
(* Increment and the deferred Decrement, on every way out, panics included:  *)
(* the correction to zero in Decrement is never needed.                      *)
InFlightExact == \A p \in Names : inFlight[p] = Cardinality(Busy(p))

(* A provider has a cooldown exactly when it has reached the threshold, so   *)
(* no interleaving of successes and failures leaves one without the other.   *)
CooldownMatchesFailures ==
    \A p \in Names : cooldownUntil[p] # -1 <=> failures[p] >= Threshold

(* Both trackers tell what happened, over every interleaving of requests     *)
(* that share them.                                                          *)
TrackersExact == TypeOK /\ InFlightExact /\ CooldownMatchesFailures

(* One attempt of a request, through the chain or not, makes at most this    *)
(* many calls.                                                               *)
PerAttempt(r) ==
    IF route[r] = "direct" THEN 1
    ELSE IF r \in WithAlt \ Streaming THEN 2 * Len(Chain) ELSE Len(Chain)

(* Retries multiplied with the fallback chain and the larger models stay     *)
(* within (MaxRetries + 1) attempts; a per-key chain is gone through once.   *)
UpstreamBound ==
    \A r \in Requests : route[r] # "none" =>
        calls[r] <= PerAttempt(r) * (IF route[r] = "perkey" THEN 1 ELSE MaxRetries + 1)

(* Every request gets its answer: neither the retry loop nor the chain, with *)
(* members that go into cooldown and come back under it, goes on for ever.   *)
EveryRequestReturns == \A r \in Requests : pc[r] # "idle" ~> pc[r] = "returned"

=============================================================================
