------------------------------ MODULE RateLimit ------------------------------
(***************************************************************************)
(* The limits of an API key (middleware/ratelimit.go).                     *)
(*                                                                         *)
(* Requests per minute: CheckRateLimit on a Redis sorted set.  Score and   *)
(* member of an entry are the time of the request in whole seconds, so the *)
(* set holds each second at most once.  Each Redis command is a step of    *)
(* its own; a command may fail, and only the errors of ZCARD and GET are   *)
(* looked at.  The key's own expiry (two windows after the last request)   *)
(* removes nothing that a later call would not remove itself, and is left  *)
(* out.                                                                    *)
(*                                                                         *)
(* Tokens per minute: RecordTokenUsage, after the answer came, on a        *)
(* counter whose lifetime starts anew each time it is raised.              *)
(***************************************************************************)
EXTENDS Integers, FiniteSets, FiniteSetsExt

CONSTANTS
    Requests,   \* the requests made with one key
    RpmLimit,   \* virtual_keys.rate_limit_rpm; without one there is no check
    TpmLimit,   \* virtual_keys.rate_limit_tpm
    Usages,     \* the numbers of tokens an answer may have used
    Window,     \* the length of the window, 60 seconds
    MaxTime,    \* bound on the clock
    MaxFaults   \* bound: Redis commands that fail

ASSUME RateLimitAssumption ==
    /\ IsFiniteSet(Requests)
    /\ RpmLimit \in Nat \ {0} /\ TpmLimit \in Nat \ {0} /\ Usages \subseteq Nat \ {0}
    /\ IsFiniteSet(Usages) /\ Window \in Nat \ {0} /\ MaxTime \in Nat /\ MaxFaults \in Nat

VARIABLES
    clock,    \* the time in seconds
    entries,  \* the members of llmgw:rpm:<key>
    pc,       \* where each request is
    now,      \* the time a request has read
    passed,   \* history: the clock when a request was let through
    tokens,   \* llmgw:tpm:<key>: [count, until], until is when it expires
    used,     \* the tokens of a request's answer
    counted,  \* history: the clock when they were added, -1 if they were not
    peak,     \* history: the most requests that were being checked, or being
              \* counted, at once
    faults

tpm  == <<tokens, used, counted>>
vars == <<clock, entries, pc, now, passed, tpm, peak, faults>>

Init ==
    /\ clock = 0 /\ entries = {}
    /\ pc = [r \in Requests |-> "idle"]
    /\ now = [r \in Requests |-> 0]
    /\ passed = [r \in Requests |-> 0]
    /\ tokens = [count |-> 0, until |-> 0]
    /\ used = [r \in Requests |-> 0] /\ counted = [r \in Requests |-> -1]
    /\ peak = [check |-> 0, count |-> 0]
    /\ faults = 0

Fault == faults < MaxFaults /\ faults' = faults + 1
Goto(r, l) == pc' = [pc EXCEPT ![r] = l]
At(labels) == {r \in Requests : pc[r] \in labels}
LetThrough(r) == Goto(r, "ok") /\ passed' = [passed EXCEPT ![r] = clock]

Start(r) ==
    /\ pc[r] = "idle"
    /\ now' = [now EXCEPT ![r] = clock]
    /\ Goto(r, "trim")
    /\ peak' = [peak EXCEPT !.check = Max({@, 1 + Cardinality(At({"trim", "card", "add"}))})]
    /\ UNCHANGED <<clock, entries, passed, tpm, faults>>

(* Fault: the window is one second too short. *)
InShortWindow(t) == {e \in entries : e > t - Window + 1}

(* What ZREMRANGEBYSCORE key 0 (t - 60), both ends included, leaves. *)
InWindow(t) == {e \in entries : e > t - Window}

Trim(r) ==
    /\ pc[r] = "trim"
    /\ \/ entries' = InWindow(now[r]) /\ UNCHANGED faults
       \/ Fault /\ UNCHANGED entries
    /\ Goto(r, "card")
    /\ UNCHANGED <<clock, now, passed, tpm, peak>>

(* Faults: a request is refused one entry too early, or too late. *)
FullEarly == Cardinality(entries) + 1 >= RpmLimit
FullLate  == Cardinality(entries) > RpmLimit

Full == Cardinality(entries) >= RpmLimit

(* ZCARD; on an error the request is let through. *)
Card(r) ==
    /\ pc[r] = "card"
    /\ \/ Goto(r, IF Full THEN "limited" ELSE "add") /\ UNCHANGED <<passed, faults>>
       \/ Fault /\ LetThrough(r)
    /\ UNCHANGED <<clock, entries, now, tpm, peak>>

(* ZADD: the same second again changes nothing. *)
AddEntry(r) ==
    /\ pc[r] = "add"
    /\ \/ entries' = entries \cup {now[r]} /\ UNCHANGED faults
       \/ Fault /\ UNCHANGED entries
    /\ LetThrough(r)
    /\ UNCHANGED <<clock, now, tpm, peak>>

(* GetRateLimitInfo: ZCOUNT key (now - 60) +inf, both ends included. *)
Remaining ==
    LET n == Cardinality({e \in entries : e >= clock - Window})
    IN IF n > RpmLimit THEN 0 ELSE RpmLimit - n

Tick ==
    /\ clock < MaxTime /\ clock' = clock + 1
    /\ UNCHANGED <<entries, pc, now, passed, tpm, peak, faults>>

(* What GET finds: nothing once the key has expired. *)
Current == IF clock < tokens.until THEN tokens.count ELSE 0

Fits(n) == Current + n <= TpmLimit

(* RecordTokenUsage compares; what it says is ignored by its caller. *)
ReadTokens(r) ==
    /\ pc[r] = "ok"
    /\ \E n \in Usages :
          \/ Fits(n)  /\ Goto(r, "count") /\ used' = [used EXCEPT ![r] = n] /\ UNCHANGED faults
          \/ ~Fits(n) /\ Goto(r, "done") /\ UNCHANGED <<used, faults>>
          \/ Fault    /\ Goto(r, "done") /\ UNCHANGED used
    /\ peak' = IF pc'[r] = "count"
               THEN [peak EXCEPT !.count = Max({@, 1 + Cardinality(At({"count"}))})] ELSE peak
    /\ UNCHANGED <<clock, entries, now, passed, tokens, counted>>

(* Fault: only the first INCRBY sets the lifetime. *)
LifetimeOnce == IF Current = 0 THEN clock + Window ELSE tokens.until
Lifetime     == clock + Window

(* INCRBY and EXPIRE, in one transaction. *)
AddTokens(r) ==
    /\ pc[r] = "count"
    /\ \/ /\ tokens' = [count |-> Current + used[r], until |-> Lifetime]
          /\ counted' = [counted EXCEPT ![r] = clock]
          /\ UNCHANGED faults
       \/ Fault /\ UNCHANGED <<tokens, counted>>
    /\ Goto(r, "done")
    /\ UNCHANGED <<clock, entries, now, passed, used, peak>>

Step(r) == Start(r) \/ Trim(r) \/ Card(r) \/ AddEntry(r) \/ ReadTokens(r) \/ AddTokens(r)

Next == (\E r \in Requests : Step(r)) \/ Tick

Spec == Init /\ [][Next]_vars

-----------------------------------------------------------------------------
(* Properties *)

TypeOK ==
    /\ clock \in 0..MaxTime
    /\ entries \subseteq 0..MaxTime
    /\ pc \in [Requests -> {"idle", "trim", "card", "add", "limited", "ok", "count", "done"}]
    /\ now \in [Requests -> 0..MaxTime]
    /\ passed \in [Requests -> 0..MaxTime]
    /\ tokens \in [count : Nat, until : 0..(MaxTime + Window)]
    /\ used \in [Requests -> Usages \cup {0}] /\ counted \in [Requests -> -1..MaxTime]
    /\ peak \in [check : Nat, count : Nat]
    /\ faults \in 0..MaxFaults

(* The requests that were let through after time t, up to time u. *)
Through == At({"ok", "count", "done"})
Passed(t, u) == {r \in Through : passed[r] > t /\ passed[r] <= u}

(* A request is refused only for a reason: unless a command failed, at least *)
(* RpmLimit requests were let through less than a window before the time it  *)
(* was stamped with, or since.  The clocks that overlapping requests have    *)
(* read may be out of order.                                                 *)
RefusedForReason ==
    \A r \in Requests : pc[r] = "limited" /\ faults = 0 =>
        Cardinality(Passed(now[r] - Window, clock)) >= RpmLimit

(* No call trims what is still inside the window: every second in which a    *)
(* request was let through stays in the set for a whole window.              *)
WindowKept ==
    faults = 0 =>
        \A r \in Through : now[r] > clock - Window => now[r] \in entries

(* What GetRateLimitInfo reports and what CheckRateLimit decides are counted *)
(* by different commands with different ends of the window; the report is    *)
(* never the more generous one.  A request that trims and counts in this     *)
(* second, alone, is let through whenever a remaining request was reported,  *)
(* also over entries a failed ZREMRANGEBYSCORE has left behind.              *)
RemainingIsHonoured ==
    Remaining > 0 => Cardinality(InWindow(clock)) < RpmLimit

(* The sorted set is well-formed and whole, and its two readers agree about  *)
(* it.                                                                       *)
WindowInv == TypeOK /\ WindowKept /\ RemainingIsHonoured

(* The seconds of the window that ends with t in which requests were let     *)
(* through.                                                                  *)
Seconds(t) == {now[r] : r \in {s \in Through : now[s] > t - Window /\ now[s] <= t}}

(* What the limit limits: unless a command failed, the seconds of one window *)
(* in which requests were let through are no more than RpmLimit, and two     *)
(* more for each further request that was being checked at the same time:    *)
(* one that has counted before the others add their entries, and one that    *)
(* counts after a later request has trimmed theirs.  (The requests           *)
(* themselves are not bounded: those of one second share one entry.)         *)
SecondsWithinLimit ==
    faults = 0 => \A t \in 0..MaxTime :
        Seconds(t) # {} => Cardinality(Seconds(t)) <= RpmLimit + 2 * (peak.check - 1)

(* The tokens that were added less than a window ago. *)
Recent == {r \in Requests : counted[r] >= 0 /\ counted[r] > clock - Window}

(* The counter exceeds TpmLimit by no more than the answers that were        *)
(* compared before it was raised, one per request counted at the same time,  *)
(* and it never tells too little: whatever was added less than a window ago  *)
(* is in it, whenever its lifetime began.                                    *)
TokensCounted ==
    /\ tokens.count > 0 => tokens.count <= TpmLimit + (peak.count - 1) * Max(Usages)
    /\ MapThenSumSet(LAMBDA r : used[r], Recent) <= Current

=============================================================================
