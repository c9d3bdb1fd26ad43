-------------------------- MODULE MiddlewareProofs --------------------------
(***************************************************************************)
(* Proofs about what the middleware keeps of a key: RateLimit and, in the  *)
(* last section, KeyStore.                                                 *)
(*                                                                         *)
(* RateLimit, for any number of requests, any limits, any window and any   *)
(* number of failing commands.  WindowIInv is inductive and holds whatever *)
(* fails; ReasonInv and SecondsInv are inductive next to it as long as     *)
(* nothing has failed.  TokensInv, about the counter of tokens, adds up    *)
(* what requests used; the facts about sums are proved before it.          *)
(***************************************************************************)
EXTENDS RateLimit, KeyStore, FiniteSetTheorems, TLAPS

Checking == At({"trim", "card", "add"})

(* A request has read a time that has passed, and was let through after it. *)
Times(r) ==
    /\ now[r] <= clock
    /\ r \in Through => now[r] <= passed[r] /\ passed[r] <= clock

(* Whatever is in the set, a request was let through for it. *)
Backed == \A e \in entries : \E r \in Through : now[r] = e

(* All that are being checked now are counted. *)
Counted == Cardinality(Checking) <= peak.check

WindowIInv ==
    /\ TypeOK /\ Backed /\ Counted
    /\ \A r \in Requests : Times(r)
    /\ WindowKept

(* Between ZREMRANGEBYSCORE and ZCARD: what is in the set was let through    *)
(* less than a window before the time of the request, or since.              *)
ReasonOf(r) ==
    /\ pc[r] = "card" =>
          \A e \in entries : \E s \in Through : now[s] = e /\ passed[s] > now[r] - Window
    /\ pc[r] = "limited" => Cardinality(Passed(now[r] - Window, clock)) >= RpmLimit
ReasonInv == faults = 0 => \A r \in Requests : ReasonOf(r)

InTime(r, t) == now[r] > t - Window /\ now[r] <= t
Adding(t)  == {r \in Requests : pc[r] = "add" /\ InTime(r, t)}
Waiting(t) == {r \in Requests : pc[r] \in {"trim", "card"} /\ InTime(r, t)}

(* As long as no second of the window is missing, all requests but those     *)
(* that are being added at the same time have seen it.                       *)
Whole(t) ==
    /\ Seconds(t) \subseteq entries
    /\ Cardinality(Seconds(t)) + Cardinality(Adding(t)) <= RpmLimit - 1 + peak.check

(* Once one is missing the window is over, and the requests that are still   *)
(* being checked for it were under way together with the one that trimmed.   *)
Over(t) ==
    /\ clock > t
    /\ Cardinality(Seconds(t)) + Cardinality(Adding(t)) + Cardinality(Waiting(t))
          <= RpmLimit + 2 * (peak.check - 1)

SecondsInv == faults = 0 => \A t \in 0..MaxTime : Whole(t) \/ Over(t)


-----------------------------------------------------------------------------
(* Sets and numbers *)

(* The larger one of two numbers. *)
LEMMA MaxOfTwo ==
    ASSUME NEW a \in Nat, NEW b \in Nat
    PROVE  Max({a, b}) \in Nat /\ Max({a, b}) >= a /\ Max({a, b}) >= b
  <1>1. \E x \in {a, b} : \A y \in {a, b} : x >= y
    <2>1. CASE a >= b
      BY <2>1
    <2>2. CASE b >= a
      BY <2>2
    <2> QED BY <2>1, <2>2
  <1>2. Max({a, b}) \in {a, b} /\ \A y \in {a, b} : Max({a, b}) >= y
    BY <1>1 DEF Max
  <1> QED BY <1>2

(* A part of a finite set. *)
LEMMA Part ==
    ASSUME NEW T, IsFiniteSet(T), NEW S, S \subseteq T
    PROVE  IsFiniteSet(S) /\ Cardinality(S) \in Nat /\ Cardinality(S) <= Cardinality(T)
  <1>1. IsFiniteSet(S) /\ Cardinality(S) <= Cardinality(T)
    BY FS_Subset
  <1> QED BY <1>1, FS_CardinalityType

(* A set of requests is finite. *)
LEMMA RequestsFinite ==
    ASSUME NEW S, S \subseteq Requests
    PROVE  IsFiniteSet(S) /\ Cardinality(S) \in Nat
  BY Part, RateLimitAssumption

(* A set of times the clock can show is finite. *)
LEMMA TimesFinite ==
    ASSUME NEW S, S \subseteq 0..MaxTime
    PROVE  IsFiniteSet(S) /\ Cardinality(S) \in Nat
  <1>1. IsFiniteSet(0..MaxTime)
    BY FS_Interval, RateLimitAssumption
  <1> QED BY <1>1, Part

-----------------------------------------------------------------------------
(* The state stays well-formed *)

PCs == {"idle", "trim", "card", "add", "limited", "ok", "count", "done"}

(* A command that fails is counted. *)
LEMMA FaultType ==
    ASSUME TypeOK, Fault \/ UNCHANGED faults
    PROVE  faults' \in 0..MaxFaults /\ (faults' = 0 => faults = 0 /\ UNCHANGED faults)
  BY RateLimitAssumption DEF TypeOK, Fault

(* What a request that begins does to peak. *)
LEMMA StartPeak ==
    ASSUME TypeOK, NEW r \in Requests, Start(r)
    PROVE  /\ peak' \in [check : Nat, count : Nat]
           /\ peak'.check >= peak.check /\ peak'.check >= 1 + Cardinality(Checking)
  <1> DEFINE n == 1 + Cardinality(Checking)
  <1>1. peak.check \in Nat /\ peak.count \in Nat /\ peak \in [check : Nat, count : Nat]
    BY DEF TypeOK
  <1>2. n \in Nat
    <2>1. Checking \subseteq Requests
      BY DEF Checking, At
    <2> QED BY <2>1, RequestsFinite
  <1>3. peak' = [peak EXCEPT !.check = Max({peak.check, n})]
    BY DEF Start, Checking
  <1> HIDE DEF n
  <1>4. Max({peak.check, n}) \in Nat /\ Max({peak.check, n}) >= peak.check /\ Max({peak.check, n}) >= n
    BY <1>1, <1>2, MaxOfTwo
  <1>5. peak' \in [check : Nat, count : Nat] /\ peak'.check = Max({peak.check, n})
    BY <1>1, <1>3, <1>4
  <1> QED BY <1>4, <1>5 DEF n

(* What a request does to peak whose tokens are to be counted. *)
LEMMA ReadPeak ==
    ASSUME TypeOK, NEW r \in Requests, ReadTokens(r)
    PROVE  peak' \in [check : Nat, count : Nat] /\ peak'.check = peak.check
  <1> DEFINE n == 1 + Cardinality(At({"count"}))
  <1>1. peak.check \in Nat /\ peak.count \in Nat /\ peak \in [check : Nat, count : Nat]
    BY DEF TypeOK
  <1>2. n \in Nat
    <2>1. At({"count"}) \subseteq Requests
      BY DEF At
    <2> QED BY <2>1, RequestsFinite
  <1>3. peak' = [peak EXCEPT !.count = Max({peak.count, n})] \/ peak' = peak
    BY DEF ReadTokens
  <1> HIDE DEF n
  <1>4. Max({peak.count, n}) \in Nat
    BY <1>1, <1>2, MaxOfTwo
  <1> QED BY <1>1, <1>3, <1>4

(* Every step keeps the state well-formed. *)
LEMMA TypeStep == ASSUME TypeOK, [Next]_vars PROVE TypeOK'
  <1>1. ASSUME NEW r \in Requests, Start(r) PROVE TypeOK'
    BY <1>1, StartPeak DEF Start, TypeOK, Goto, tpm
  <1>2. ASSUME NEW r \in Requests, Trim(r) PROVE TypeOK'
    <2>1. entries' \subseteq 0..MaxTime
      BY <1>2 DEF Trim, InWindow, TypeOK
    <2>2. faults' \in 0..MaxFaults
      BY <1>2, FaultType DEF Trim
    <2> QED BY <1>2, <2>1, <2>2 DEF Trim, TypeOK, Goto, tpm
  <1>3. ASSUME NEW r \in Requests, Card(r) PROVE TypeOK'
    <2>1. faults' \in 0..MaxFaults
      BY <1>3, FaultType DEF Card
    <2>2. \E l \in {"limited", "add", "ok"} : pc' = [pc EXCEPT ![r] = l]
      BY <1>3 DEF Card, LetThrough, Goto
    <2>3. passed' \in [Requests -> 0..MaxTime]
      BY <1>3 DEF Card, LetThrough, TypeOK
    <2>4. UNCHANGED <<clock, entries, now, tpm, peak>>
      BY <1>3 DEF Card
    <2> QED BY <2>1, <2>2, <2>3, <2>4 DEF TypeOK, tpm
  <1>4. ASSUME NEW r \in Requests, AddEntry(r) PROVE TypeOK'
    <2>1. entries' \subseteq 0..MaxTime
      <3>1. entries \subseteq 0..MaxTime /\ now[r] \in 0..MaxTime
        BY DEF TypeOK
      <3>2. entries' = entries \cup {now[r]} \/ entries' = entries
        BY <1>4 DEF AddEntry
      <3> QED BY <3>1, <3>2
    <2>2. faults' \in 0..MaxFaults
      BY <1>4, FaultType DEF AddEntry
    <2> QED BY <1>4, <2>1, <2>2 DEF AddEntry, LetThrough, TypeOK, Goto, tpm
  <1>5. ASSUME NEW r \in Requests, ReadTokens(r) PROVE TypeOK'
    <2>1. faults' \in 0..MaxFaults
      BY <1>5, FaultType DEF ReadTokens
    <2>2. \E l \in {"count", "done"} : pc' = [pc EXCEPT ![r] = l]
      BY <1>5 DEF ReadTokens, Goto
    <2>3. used' \in [Requests -> Usages \cup {0}]
      BY <1>5 DEF ReadTokens, TypeOK
    <2>4. UNCHANGED <<clock, entries, now, passed, tokens, counted>>
      BY <1>5 DEF ReadTokens
    <2> QED BY <1>5, <2>1, <2>2, <2>3, <2>4, ReadPeak DEF TypeOK
  <1>6. ASSUME NEW r \in Requests, AddTokens(r) PROVE TypeOK'
    <2>1. faults' \in 0..MaxFaults
      BY <1>6, FaultType DEF AddTokens
    <2>2. Current + used[r] \in Nat
      <3>1. used[r] \in Nat
        <4>1. used[r] \in Usages \cup {0}
          BY DEF TypeOK
        <4>2. Usages \subseteq Nat
          BY RateLimitAssumption, Zenon
        <4>3. CASE used[r] = 0
          BY <4>3
        <4>4. CASE used[r] \in Usages
          BY <4>2, <4>4
        <4> QED BY <4>1, <4>3, <4>4
      <3>2. Current \in Nat
        <4>1. tokens.count \in Nat
          BY DEF TypeOK
        <4> QED BY <4>1 DEF Current
      <3> QED BY <3>1, <3>2
    <2>3. Lifetime \in 0..(MaxTime + Window)
      BY RateLimitAssumption DEF TypeOK, Lifetime
    <2>4. tokens' \in [count : Nat, until : 0..(MaxTime + Window)]
      BY <1>6, <2>2, <2>3 DEF AddTokens, TypeOK
    <2>5. clock \in -1..MaxTime
      BY RateLimitAssumption DEF TypeOK
    <2>6. counted' \in [Requests -> -1..MaxTime]
      BY <1>6, <2>5 DEF AddTokens, TypeOK
    <2> QED BY <1>6, <2>1, <2>4, <2>6 DEF AddTokens, TypeOK, Goto
  <1>7. CASE Tick
    <2>1. clock' \in 0..MaxTime
      BY <1>7, RateLimitAssumption DEF Tick, TypeOK
    <2> QED BY <1>7, <2>1 DEF Tick, TypeOK, tpm
  <1>8. CASE UNCHANGED vars
    BY <1>8 DEF vars, tpm, TypeOK
  <1> QED BY <1>1, <1>2, <1>3, <1>4, <1>5, <1>6, <1>7, <1>8 DEF Next, Step


-----------------------------------------------------------------------------
(* What the steps change of the window *)

(* Steps around the check: they leave the set alone, and neither begin nor   *)
(* end a check.                                                              *)
Around ==
    /\ UNCHANGED <<entries, now, passed>> /\ clock' >= clock /\ peak'.check = peak.check
    /\ \A s \in Requests :
          \/ pc'[s] = pc[s]
          \/ pc[s] \in {"ok", "count"} /\ pc'[s] \in {"ok", "count", "done"}
    /\ faults' = 0 => faults = 0

(* The clock and the tokens are such. *)
LEMMA AroundSteps ==
    ASSUME TypeOK,
           \/ Tick \/ UNCHANGED vars
           \/ \E r \in Requests : ReadTokens(r) \/ AddTokens(r)
    PROVE  Around
  <1>1. clock \in Nat
    BY RateLimitAssumption DEF TypeOK
  <1>2. CASE Tick
    BY <1>1, <1>2 DEF Tick, Around
  <1>3. CASE UNCHANGED vars
    BY <1>1, <1>3 DEF vars, Around
  <1>4. ASSUME NEW r \in Requests, ReadTokens(r) PROVE Around
    <2>1. /\ pc[r] = "ok" /\ UNCHANGED <<clock, entries, now, passed>>
          /\ Fault \/ UNCHANGED faults
          /\ \E l \in {"count", "done"} : pc' = [pc EXCEPT ![r] = l]
      BY <1>4 DEF ReadTokens, Goto
    <2>2. peak'.check = peak.check
      BY <1>4, ReadPeak
    <2>3. faults' = 0 => faults = 0
      BY <2>1, FaultType
    <2> QED BY <1>1, <2>1, <2>2, <2>3 DEF Around, TypeOK
  <1>5. ASSUME NEW r \in Requests, AddTokens(r) PROVE Around
    <2>1. /\ pc[r] = "count" /\ UNCHANGED <<clock, entries, now, passed, peak>>
          /\ Fault \/ UNCHANGED faults
          /\ pc' = [pc EXCEPT ![r] = "done"]
      BY <1>5 DEF AddTokens, Goto
    <2>2. faults' = 0 => faults = 0
      BY <2>1, FaultType
    <2> QED BY <1>1, <2>1, <2>2 DEF Around, TypeOK
  <1> QED BY <1>2, <1>3, <1>4, <1>5

(* A request that begins. *)
Starts(r) ==
    /\ pc[r] = "idle" /\ pc'[r] = "trim" /\ now'[r] = clock
    /\ \A s \in Requests \ {r} : pc'[s] = pc[s] /\ now'[s] = now[s]
    /\ peak'.check >= peak.check /\ peak'.check >= 1 + Cardinality(Checking)
    /\ UNCHANGED <<clock, entries, passed, faults>>

(* One that removes what is too old. *)
Trims(r) ==
    /\ pc[r] = "trim" /\ pc'[r] = "card"
    /\ \A s \in Requests \ {r} : pc'[s] = pc[s]
    /\ UNCHANGED <<clock, now, passed, peak>>
    /\ faults' = 0 => faults = 0 /\ entries' = InWindow(now[r])
    /\ entries' \in {entries, InWindow(now[r])}

(* One that has counted. *)
Decides(r) ==
    /\ pc[r] = "card"
    /\ \/ pc'[r] = "limited" /\ Full /\ passed' = passed
       \/ pc'[r] = "add" /\ ~Full /\ passed' = passed
       \/ pc'[r] = "ok" /\ faults' # 0 /\ passed'[r] = clock
    /\ \A s \in Requests \ {r} : pc'[s] = pc[s] /\ passed'[s] = passed[s]
    /\ UNCHANGED <<clock, entries, now, peak>>
    /\ faults' = 0 => faults = 0

(* One that is let through with an entry. *)
Adds(r) ==
    /\ pc[r] = "add" /\ pc'[r] = "ok" /\ passed'[r] = clock
    /\ \A s \in Requests \ {r} : pc'[s] = pc[s] /\ passed'[s] = passed[s]
    /\ UNCHANGED <<clock, now, peak>>
    /\ faults' = 0 => faults = 0 /\ entries' = entries \cup {now[r]}
    /\ entries' \in {entries, entries \cup {now[r]}}

(* There are no other steps. *)
LEMMA Steps ==
    ASSUME TypeOK, [Next]_vars
    PROVE  \/ Around
           \/ \E r \in Requests : Starts(r) \/ Trims(r) \/ Decides(r) \/ Adds(r)
  <1>1. ASSUME NEW r \in Requests, Start(r) PROVE Starts(r)
    <2>1. /\ pc[r] = "idle" /\ pc' = [pc EXCEPT ![r] = "trim"] /\ now' = [now EXCEPT ![r] = clock]
          /\ UNCHANGED <<clock, entries, passed, faults>>
      BY <1>1 DEF Start, Goto
    <2>2. peak'.check >= peak.check /\ peak'.check >= 1 + Cardinality(Checking)
      BY <1>1, StartPeak
    <2> QED BY <2>1, <2>2 DEF Starts, TypeOK
  <1>2. ASSUME NEW r \in Requests, Trim(r) PROVE Trims(r)
    <2>1. /\ pc[r] = "trim" /\ pc' = [pc EXCEPT ![r] = "card"] /\ UNCHANGED <<clock, now, passed, peak>>
          /\ \/ entries' = InWindow(now[r]) /\ UNCHANGED faults
             \/ Fault /\ UNCHANGED entries
      BY <1>2 DEF Trim, Goto
    <2>2. Fault => faults' # 0
      BY RateLimitAssumption DEF Fault, TypeOK
    <2> QED BY <2>1, <2>2 DEF Trims, TypeOK
  <1>3. ASSUME NEW r \in Requests, Card(r) PROVE Decides(r)
    <2>1. /\ pc[r] = "card" /\ UNCHANGED <<clock, entries, now, peak>>
          /\ \/ Full /\ pc' = [pc EXCEPT ![r] = "limited"] /\ UNCHANGED <<passed, faults>>
             \/ ~Full /\ pc' = [pc EXCEPT ![r] = "add"] /\ UNCHANGED <<passed, faults>>
             \/ Fault /\ pc' = [pc EXCEPT ![r] = "ok"] /\ passed' = [passed EXCEPT ![r] = clock]
      BY <1>3 DEF Card, LetThrough, Goto
    <2>2. Fault => faults' # 0
      BY RateLimitAssumption DEF Fault, TypeOK
    <2> QED BY <2>1, <2>2 DEF Decides, TypeOK
  <1>4. ASSUME NEW r \in Requests, AddEntry(r) PROVE Adds(r)
    <2>1. /\ pc[r] = "add" /\ pc' = [pc EXCEPT ![r] = "ok"] /\ passed' = [passed EXCEPT ![r] = clock]
          /\ UNCHANGED <<clock, now, peak>>
          /\ \/ entries' = entries \cup {now[r]} /\ UNCHANGED faults
             \/ Fault /\ UNCHANGED entries
      BY <1>4 DEF AddEntry, LetThrough, Goto
    <2>2. Fault => faults' # 0
      BY RateLimitAssumption DEF Fault, TypeOK
    <2> QED BY <2>1, <2>2 DEF Adds, TypeOK
  <1> QED BY <1>1, <1>2, <1>3, <1>4, AroundSteps DEF Next, Step

(* Whoever was let through stays so, with the times it has. *)
LEMMA ThroughStays ==
    ASSUME TypeOK, [Next]_vars
    PROVE  /\ \A s \in Through : s \in Through' /\ now'[s] = now[s] /\ passed'[s] = passed[s]
           /\ clock' >= clock /\ (faults' = 0 => faults = 0)
  <1>1. clock \in Nat
    BY RateLimitAssumption DEF TypeOK
  <1>2. CASE Around
    BY <1>2 DEF Around, Through, At
  <1>3. ASSUME NEW r \in Requests, Starts(r)
        PROVE  /\ \A s \in Through : s \in Through' /\ now'[s] = now[s] /\ passed'[s] = passed[s]
               /\ clock' = clock /\ (faults' = 0 => faults = 0)
    BY <1>3 DEF Starts, Through, At
  <1>4. ASSUME NEW r \in Requests, Trims(r) \/ Decides(r) \/ Adds(r)
        PROVE  /\ \A s \in Through : s \in Through' /\ now'[s] = now[s] /\ passed'[s] = passed[s]
               /\ clock' = clock /\ (faults' = 0 => faults = 0)
    <2>1. /\ pc[r] \notin {"ok", "count", "done"}
          /\ \A s \in Requests \ {r} : pc'[s] = pc[s] /\ passed'[s] = passed[s]
          /\ now' = now /\ clock' = clock /\ (faults' = 0 => faults = 0)
      BY <1>4 DEF Trims, Decides, Adds
    <2> QED BY <2>1 DEF Through, At
  <1> QED BY <1>1, <1>2, <1>3, <1>4, Steps

(* Whom a step lets through, it lets through now. *)
LEMMA ThroughGrows ==
    ASSUME TypeOK, [Next]_vars, NEW s \in Through'
    PROVE  \/ s \in Through
           \/ (Adds(s) \/ Decides(s)) /\ passed'[s] = clock /\ now'[s] = now[s] /\ clock' = clock
  <1>1. s \in Requests /\ pc'[s] \in {"ok", "count", "done"}
    BY DEF Through, At
  <1>2. CASE Around
    BY <1>1, <1>2 DEF Around, Through, At
  <1>3. ASSUME NEW r \in Requests, Starts(r) \/ Trims(r) PROVE s \in Through
    BY <1>1, <1>3 DEF Starts, Trims, Through, At
  <1>4. ASSUME NEW r \in Requests, Decides(r) \/ Adds(r)
        PROVE  \/ s \in Through
               \/ (Adds(s) \/ Decides(s)) /\ passed'[s] = clock /\ now'[s] = now[s] /\ clock' = clock
    <2>1. CASE s = r
      BY <1>1, <1>4, <2>1 DEF Decides, Adds
    <2>2. CASE s # r
      <3>1. pc'[s] = pc[s]
        BY <1>1, <1>4, <2>2 DEF Decides, Adds
      <3> QED BY <1>1, <3>1 DEF Through, At
    <2> QED BY <2>1, <2>2
  <1> QED BY <1>2, <1>3, <1>4, Steps

-----------------------------------------------------------------------------
(* The set *)

(* Times are in order. *)
LEMMA TimesStep ==
    ASSUME TypeOK, \A r \in Requests : Times(r), [Next]_vars, NEW s \in Requests
    PROVE  Times(s)'
  <1>1. clock \in Nat /\ clock' \in Nat /\ now[s] \in Nat /\ passed[s] \in Nat
    BY TypeStep, RateLimitAssumption DEF TypeOK
  <1>2. now'[s] = now[s] \/ (now'[s] = clock /\ s \notin Through')
    <2>1. CASE Around
      BY <2>1 DEF Around
    <2>2. ASSUME NEW r \in Requests, Starts(r)
          PROVE  now'[s] = now[s] \/ (now'[s] = clock /\ s \notin Through')
      BY <2>2 DEF Starts, Through, At
    <2>3. ASSUME NEW r \in Requests, Trims(r) \/ Decides(r) \/ Adds(r) PROVE now'[s] = now[s]
      BY <2>3 DEF Trims, Decides, Adds
    <2> QED BY <2>1, <2>2, <2>3, Steps
  <1>3. Times(s) /\ clock' >= clock
    BY ThroughStays
  <1>4. now'[s] <= clock'
    BY <1>1, <1>2, <1>3 DEF Times
  <1>5. s \in Through' => now'[s] <= passed'[s] /\ passed'[s] <= clock'
    <2> SUFFICES ASSUME s \in Through' PROVE now'[s] <= passed'[s] /\ passed'[s] <= clock'
      OBVIOUS
    <2>1. CASE s \in Through
      <3>1. now'[s] = now[s] /\ passed'[s] = passed[s]
        BY <2>1, ThroughStays
      <3> QED BY <1>1, <1>3, <2>1, <3>1 DEF Times
    <2>2. CASE passed'[s] = clock /\ now'[s] = now[s] /\ clock' = clock
      BY <1>1, <1>3, <2>2 DEF Times
    <2> QED BY <2>1, <2>2, ThroughGrows
  <1> QED BY <1>4, <1>5 DEF Times

(* An entry that is new is one of a request that is let through with it. *)
LEMMA EntriesGrow ==
    ASSUME TypeOK, [Next]_vars, NEW e \in entries'
    PROVE  \/ e \in entries
           \/ \E r \in Requests : Adds(r) /\ e = now[r] /\ r \in Through' /\ now'[r] = e /\ passed'[r] = clock
  <1>1. CASE Around
    BY <1>1 DEF Around
  <1>2. ASSUME NEW r \in Requests, Starts(r) \/ Trims(r) \/ Decides(r) PROVE e \in entries
    BY <1>2 DEF Starts, Trims, Decides, InWindow
  <1>3. ASSUME NEW r \in Requests, Adds(r)
        PROVE  e \in entries \/ (e = now[r] /\ r \in Through' /\ now'[r] = e /\ passed'[r] = clock)
    BY <1>3 DEF Adds, Through, At
  <1> QED BY <1>1, <1>2, <1>3, Steps

(* ZADD adds only what is let through. *)
LEMMA BackedStep ==
    ASSUME TypeOK, Backed, [Next]_vars
    PROVE  Backed'
  <1> SUFFICES ASSUME NEW e \in entries' PROVE \E r \in Through' : now'[r] = e
    BY DEF Backed
  <1>1. CASE e \in entries
    BY <1>1, ThroughStays DEF Backed
  <1> QED BY <1>1, EntriesGrow

(* peak counts all that are being checked. *)
LEMMA CountedStep ==
    ASSUME TypeOK, Counted, [Next]_vars
    PROVE  Counted'
  <1>1. Checking \subseteq Requests /\ Checking' \subseteq Requests
    BY DEF Checking, At
  <1>2. /\ IsFiniteSet(Checking) /\ IsFiniteSet(Checking') /\ Cardinality(Checking) \in Nat
        /\ Cardinality(Checking') \in Nat
    BY <1>1, RequestsFinite
  <1>3. peak.check \in Nat /\ peak'.check \in Nat
    BY TypeStep DEF TypeOK
  <1>4. ASSUME NEW r \in Requests, Starts(r) PROVE Counted'
    <2>1. Checking' \subseteq Checking \cup {r}
      BY <1>4 DEF Starts, Checking, At
    <2>2. IsFiniteSet(Checking \cup {r}) /\ Cardinality(Checking \cup {r}) <= 1 + Cardinality(Checking)
      <3>1. /\ IsFiniteSet(Checking \cup {r})
            /\ Cardinality(Checking \cup {r}) =
                  IF r \in Checking THEN Cardinality(Checking) ELSE Cardinality(Checking) + 1
        BY <1>2, FS_AddElement
      <3> QED BY <1>2, <3>1
    <2>3. Cardinality(Checking') <= Cardinality(Checking \cup {r}) /\ Cardinality(Checking \cup {r}) \in Nat
      BY <2>1, <2>2, Part, FS_CardinalityType
    <2>4. peak'.check >= 1 + Cardinality(Checking)
      BY <1>4 DEF Starts
    <2> QED BY <1>2, <1>3, <2>2, <2>3, <2>4 DEF Counted
  <1>5. ASSUME Checking' \subseteq Checking, peak'.check = peak.check PROVE Counted'
    <2>1. Cardinality(Checking') <= Cardinality(Checking)
      BY <1>2, <1>5, Part
    <2> QED BY <1>2, <1>3, <1>5, <2>1 DEF Counted
  <1>6. CASE Around
    <2>1. Checking' \subseteq Checking
      BY <1>6 DEF Around, Checking, At
    <2> QED BY <1>5, <1>6, <2>1 DEF Around
  <1>7. ASSUME NEW r \in Requests, Trims(r) \/ Decides(r) \/ Adds(r) PROVE Counted'
    <2>1. /\ r \in Checking /\ peak' = peak
          /\ \A s \in Requests \ {r} : pc'[s] = pc[s]
      BY <1>7 DEF Trims, Decides, Adds, Checking, At
    <2>2. Checking' \subseteq Checking
      BY <2>1 DEF Checking, At
    <2> QED BY <1>5, <2>1, <2>2
  <1> QED BY <1>4, <1>6, <1>7, Steps

(* ZREMRANGEBYSCORE never removes what another request still needs. *)
LEMMA KeptStep ==
    ASSUME TypeOK, \A r \in Requests : Times(r), WindowKept, [Next]_vars
    PROVE  WindowKept'
  <1> SUFFICES ASSUME faults' = 0, NEW s \in Through', now'[s] > clock' - Window
               PROVE  now'[s] \in entries'
    BY DEF WindowKept
  <1>1. /\ s \in Requests /\ clock \in Nat /\ clock' \in Nat /\ Window \in Nat
        /\ now[s] \in Nat /\ now'[s] \in Nat /\ faults = 0 /\ clock' >= clock
    BY TypeStep, ThroughStays, RateLimitAssumption DEF TypeOK, Through, At
  <1>2. CASE s \in Through
    <2>1. now'[s] = now[s]
      BY <1>2, ThroughStays
    <2>2. now[s] > clock - Window
      BY <1>1, <2>1
    <2>3. now[s] \in entries
      BY <1>1, <1>2, <2>2 DEF WindowKept
    <2>4. CASE Around
      BY <2>1, <2>3, <2>4 DEF Around
    <2>5. ASSUME NEW r \in Requests, Starts(r) \/ Decides(r) \/ Adds(r) PROVE now[s] \in entries'
      BY <2>3, <2>5 DEF Starts, Decides, Adds
    <2>6. ASSUME NEW r \in Requests, Trims(r) PROVE now[s] \in entries'
      <3>1. now[r] <= clock /\ now[r] \in Nat
        BY RateLimitAssumption DEF Times, TypeOK
      <3>2. now[s] > now[r] - Window
        BY <1>1, <2>2, <3>1
      <3> QED BY <2>3, <2>6, <3>2 DEF Trims, InWindow
    <2> QED BY <2>1, <2>4, <2>5, <2>6, Steps
  <1>3. CASE Adds(s) \/ Decides(s)
    <2>1. Adds(s)
      BY <1>3 DEF Decides, Through, At
    <2> QED BY <2>1 DEF Adds
  <1> QED BY <1>2, <1>3, ThroughGrows

(* Every step keeps WindowIInv. *)
LEMMA WindowStep == WindowIInv /\ [Next]_vars => WindowIInv'
  BY TypeStep, BackedStep, CountedStep, TimesStep, KeptStep DEF WindowIInv

(* It holds at the start. *)
LEMMA WindowInit == Init => WindowIInv
  <1> SUFFICES ASSUME Init PROVE WindowIInv
    OBVIOUS
  <1>1. TypeOK
    BY RateLimitAssumption DEF Init, TypeOK
  <1>2. Through = {} /\ Checking = {}
    BY DEF Init, Through, Checking, At
  <1>3. Counted
    BY <1>2, FS_EmptySet DEF Counted, Init
  <1>4. Backed /\ WindowKept /\ \A r \in Requests : Times(r)
    BY <1>2 DEF Init, Backed, WindowKept, Times
  <1> QED BY <1>1, <1>3, <1>4 DEF WindowIInv

(* It holds in every state. *)
LEMMA WindowInductive == Spec => []WindowIInv
  BY WindowInit, WindowStep, PTL DEF Spec

(* For any limit, any window and any number of requests and failures: no     *)
(* call of CheckRateLimit trims what is inside the window of another, and    *)
(* GetRateLimitInfo never reports more than CheckRateLimit lets through.     *)
THEOREM WindowIsWhole == Spec => []WindowInv
  <1>1. WindowIInv => WindowInv
    <2> SUFFICES ASSUME WindowIInv PROVE WindowInv
      OBVIOUS
    <2>1. TypeOK /\ WindowKept
      BY DEF WindowIInv
    <2>2. RemainingIsHonoured
      <3> DEFINE S == {e \in entries : e >= clock - Window}
      <3> SUFFICES ASSUME Remaining > 0 PROVE Cardinality(InWindow(clock)) < RpmLimit
        BY DEF RemainingIsHonoured
      <3>1. S \subseteq 0..MaxTime
        BY <2>1 DEF TypeOK
      <3>2. IsFiniteSet(S) /\ Cardinality(S) \in Nat
        BY <3>1, TimesFinite
      <3>3. InWindow(clock) \subseteq S
        <4>1. \A e \in entries : e \in Int /\ clock \in Int /\ Window \in Int
          BY <2>1, RateLimitAssumption DEF TypeOK
        <4>2. \A e \in entries : e > clock - Window => e >= clock - Window
          BY <4>1
        <4> QED BY <4>2 DEF InWindow
      <3>4. /\ Cardinality(InWindow(clock)) <= Cardinality(S)
            /\ Cardinality(InWindow(clock)) \in Nat
        BY <3>2, <3>3, Part
      <3>5. Remaining = IF Cardinality(S) > RpmLimit THEN 0 ELSE RpmLimit - Cardinality(S)
        BY DEF Remaining
      <3> HIDE DEF S
      <3>6. Cardinality(S) < RpmLimit
        BY <3>2, <3>5, RateLimitAssumption
      <3> QED BY <3>2, <3>4, <3>6, RateLimitAssumption
    <2> QED BY <2>1, <2>2 DEF WindowInv
  <1> QED BY <1>1, WindowInductive, PTL


-----------------------------------------------------------------------------
(* Refusals *)

(* More requests than entries were let through. *)
LEMMA EntriesCounted ==
    ASSUME TypeOK, NEW r \in Requests, \A s \in Requests : Times(s),
           \A e \in entries : \E s \in Through : now[s] = e /\ passed[s] > now[r] - Window
    PROVE  Cardinality(entries) <= Cardinality(Passed(now[r] - Window, clock))
  <1> DEFINE P == Passed(now[r] - Window, clock)
             f == [e \in entries |-> CHOOSE s \in P : now[s] = e]
  <1>1. P \subseteq Requests
    BY DEF Passed, Through, At
  <1>2. IsFiniteSet(P)
    BY <1>1, RequestsFinite
  <1>3. ASSUME NEW e \in entries PROVE \E s \in P : now[s] = e
    <2>1. PICK s \in Through : now[s] = e /\ passed[s] > now[r] - Window
      OBVIOUS
    <2>2. s \in Requests
      BY DEF Through, At
    <2>3. passed[s] <= clock
      BY <2>1, <2>2 DEF Times
    <2> QED BY <2>1, <2>3 DEF Passed
  <1>4. \A e \in entries : f[e] \in P /\ now[f[e]] = e
    BY <1>3
  <1> HIDE DEF P
  <1>5. f \in [entries -> P]
    BY <1>4
  <1>6. \A d, e \in entries : f[d] = f[e] => d = e
    BY <1>4
  <1> HIDE DEF f
  <1>7. f \in Injection(entries, P)
    BY <1>5, <1>6 DEF Injection, IsInjective
  <1>8. Cardinality(entries) <= Cardinality(P)
    BY <1>2, <1>7, FS_Injection
  <1> QED BY <1>8 DEF P

(* A refusal, once justified, remains so. *)
LEMMA PassedGrows ==
    ASSUME TypeOK, [Next]_vars, NEW t \in Int
    PROVE  Cardinality(Passed(t, clock)) <= Cardinality(Passed(t, clock)')
  <1>1. Passed(t, clock)' \subseteq Requests
    BY DEF Passed, Through, At
  <1>2. \A s \in Requests : passed[s] \in Int /\ clock \in Int /\ clock' \in Int
    BY TypeStep DEF TypeOK
  <1>3. Through \subseteq Requests
    BY DEF Through, At
  <1>4. Passed(t, clock) \subseteq Passed(t, clock)'
    BY <1>2, <1>3, ThroughStays DEF Passed
  <1> QED BY <1>1, <1>4, Part, RequestsFinite

(* Every step keeps ReasonInv. *)
LEMMA ReasonStep ==
    ASSUME WindowIInv, ReasonInv, [Next]_vars
    PROVE  ReasonInv'
  <1> SUFFICES ASSUME faults' = 0, NEW r \in Requests PROVE ReasonOf(r)'
    BY DEF ReasonInv
  <1>1. /\ TypeOK /\ Backed /\ \A s \in Requests : Times(s)
        /\ faults = 0 /\ ReasonOf(r)
    BY ThroughStays DEF WindowIInv, ReasonInv
  <1>2. /\ clock \in Int /\ Window \in Nat \ {0} /\ now[r] \in Int /\ now[r] <= clock
        /\ now[r] - Window \in Int /\ RpmLimit \in Nat
    BY <1>1, RateLimitAssumption DEF TypeOK, Times
  <1>3. ASSUME pc'[r] = "card", NEW e \in entries'
        PROVE  \E s \in Through' : now'[s] = e /\ passed'[s] > now'[r] - Window
    <2>1. now'[r] = now[r]
      <3>1. ASSUME NEW q \in Requests, Starts(q) PROVE now'[r] = now[r]
        BY <1>3, <3>1 DEF Starts
      <3> QED BY <1>1, <3>1, Steps DEF Around, Trims, Decides, Adds
    <2>2. CASE Trims(r)
      <3>1. e \in entries /\ e > now[r] - Window
        BY <1>3, <2>2 DEF Trims, InWindow
      <3>2. PICK s \in Through : now[s] = e
        BY <1>1, <3>1 DEF Backed
      <3>3. s \in Requests /\ now[s] <= passed[s] /\ passed[s] \in Int /\ now[s] \in Int
        BY <1>1, <3>2 DEF Through, At, Times, TypeOK
      <3>4. s \in Through' /\ now'[s] = e /\ passed'[s] = passed[s]
        BY <1>1, <3>2, ThroughStays
      <3>5. passed'[s] > now[r] - Window
        BY <1>2, <3>1, <3>2, <3>3, <3>4
      <3> QED BY <2>1, <3>4, <3>5
    <2>3. CASE ~Trims(r)
      <3>1. pc[r] = "card"
        <4>1. CASE Around
          BY <1>3, <4>1 DEF Around
        <4>2. ASSUME NEW q \in Requests, Starts(q) \/ Decides(q) \/ Adds(q) PROVE pc[r] = "card"
          BY <1>3, <4>2 DEF Starts, Decides, Adds
        <4>3. ASSUME NEW q \in Requests, Trims(q) PROVE pc[r] = "card"
          BY <1>3, <2>3, <4>3 DEF Trims
        <4> QED BY <1>1, <4>1, <4>2, <4>3, Steps
      <3>2. CASE e \in entries
        <4>1. PICK s \in Through : now[s] = e /\ passed[s] > now[r] - Window
          BY <1>1, <3>1, <3>2 DEF ReasonOf
        <4>2. s \in Through' /\ now'[s] = e /\ passed'[s] = passed[s]
          BY <1>1, <4>1, ThroughStays
        <4> QED BY <2>1, <4>1, <4>2
      <3>3. ASSUME NEW q \in Requests, q \in Through', now'[q] = e, passed'[q] = clock
            PROVE  \E s \in Through' : now'[s] = e /\ passed'[s] > now'[r] - Window
        <4>1. clock > now[r] - Window
          BY <1>2
        <4> QED BY <2>1, <3>3, <4>1
      <3> QED BY <1>1, <3>2, <3>3, EntriesGrow
    <2> QED BY <2>2, <2>3
  <1>4. ASSUME pc'[r] = "limited"
        PROVE  Cardinality(Passed(now[r] - Window, clock)') >= RpmLimit /\ now'[r] = now[r]
    <2>1. now'[r] = now[r]
      <3>1. ASSUME NEW q \in Requests, Starts(q) PROVE now'[r] = now[r]
        BY <1>4, <3>1 DEF Starts
      <3> QED BY <1>1, <3>1, Steps DEF Around, Trims, Decides, Adds
    <2>2. Passed(now[r] - Window, clock) \subseteq Requests
      BY DEF Passed, Through, At
    <2>3. Passed(now[r] - Window, clock)' \subseteq Requests
      BY DEF Passed, Through, At
    <2>4. /\ Cardinality(Passed(now[r] - Window, clock)) \in Nat
          /\ Cardinality(Passed(now[r] - Window, clock)') \in Nat
      BY <2>2, <2>3, RequestsFinite
    <2>5. Cardinality(Passed(now[r] - Window, clock)) >= RpmLimit
      <3>1. CASE pc[r] = "limited"
        BY <1>1, <3>1 DEF ReasonOf
      <3>2. CASE pc[r] # "limited"
        <4>1. pc[r] = "card" /\ Full
          <5>1. CASE Around
            BY <1>4, <3>2, <5>1 DEF Around
          <5>2. ASSUME NEW q \in Requests, Starts(q) \/ Trims(q) \/ Adds(q) PROVE FALSE
            BY <1>4, <3>2, <5>2 DEF Starts, Trims, Adds
          <5>3. ASSUME NEW q \in Requests, Decides(q) PROVE pc[r] = "card" /\ Full
            BY <1>4, <3>2, <5>3 DEF Decides
          <5> QED BY <1>1, <5>1, <5>2, <5>3, Steps
        <4>2. \A e \in entries : \E s \in Through : now[s] = e /\ passed[s] > now[r] - Window
          BY <1>1, <4>1 DEF ReasonOf
        <4>3. Cardinality(entries) <= Cardinality(Passed(now[r] - Window, clock))
          BY <1>1, <4>2, EntriesCounted
        <4>4. Cardinality(entries) \in Nat
          BY <1>1, TimesFinite DEF TypeOK
        <4> QED BY <1>2, <2>4, <4>1, <4>3, <4>4 DEF Full
      <3> QED BY <3>1, <3>2
    <2>6. Cardinality(Passed(now[r] - Window, clock)) <= Cardinality(Passed(now[r] - Window, clock)')
      <3>1. PICK t \in Int : t = now[r] - Window
        BY <1>2
      <3>2. Cardinality(Passed(t, clock)) <= Cardinality(Passed(t, clock)')
        BY <1>1, PassedGrows
      <3>3. Passed(t, clock)' = Passed(now[r] - Window, clock)'
        BY <2>1, <3>1
      <3> QED BY <3>1, <3>2, <3>3
    <2> QED BY <1>2, <2>1, <2>4, <2>5, <2>6
  <1> QED BY <1>3, <1>4 DEF ReasonOf

(* For any limit and any number of overlapping requests: unless a command    *)
(* failed, CheckRateLimit refuses a request only when RpmLimit others were   *)
(* let through less than a window before it, or since.                       *)
THEOREM RefusalsHaveAReason == Spec => []RefusedForReason
  <1>1. Init => ReasonInv
    BY DEF Init, ReasonInv, ReasonOf
  <1>2. WindowIInv /\ ReasonInv /\ [Next]_vars => ReasonInv'
    BY ReasonStep
  <1>3. ReasonInv => RefusedForReason
    BY DEF ReasonInv, ReasonOf, RefusedForReason
  <1> QED BY <1>1, <1>2, <1>3, WindowInductive, PTL DEF Spec


-----------------------------------------------------------------------------
(* The seconds of a window *)

(* Their number, and the requests on their way to one, can be counted. *)
LEMMA WindowCounts ==
    ASSUME TypeOK, NEW t \in 0..MaxTime
    PROVE  /\ IsFiniteSet(Seconds(t)) /\ Cardinality(Seconds(t)) \in Nat /\ Seconds(t) \subseteq 0..MaxTime
           /\ IsFiniteSet(Adding(t)) /\ Cardinality(Adding(t)) \in Nat
           /\ IsFiniteSet(Waiting(t)) /\ Cardinality(Waiting(t)) \in Nat
           /\ peak.check \in Nat /\ RpmLimit \in Nat /\ t \in Int /\ clock \in Int /\ Window \in Nat
           /\ \A r \in Requests : now[r] \in Int
  <1>1. Seconds(t) \subseteq 0..MaxTime
    BY DEF Seconds, Through, At, TypeOK
  <1>2. Adding(t) \subseteq Requests /\ Waiting(t) \subseteq Requests
    BY DEF Adding, Waiting
  <1>3. peak.check \in Nat /\ clock \in Int /\ \A r \in Requests : now[r] \in Int
    BY DEF TypeOK
  <1> QED BY <1>1, <1>2, <1>3, RequestsFinite, TimesFinite, RateLimitAssumption

(* What is being added or waits for the window is being checked. *)
LEMMA AddingIsChecked ==
    ASSUME TypeOK, Counted, NEW t \in 0..MaxTime
    PROVE  Cardinality(Adding(t)) <= peak.check
  <1>1. Adding(t) \subseteq Checking /\ Checking \subseteq Requests
    BY DEF Adding, Checking, At
  <1>2. /\ Cardinality(Adding(t)) <= Cardinality(Checking)
        /\ Cardinality(Checking) \in Nat /\ Cardinality(Adding(t)) \in Nat
    BY <1>1, Part, RequestsFinite
  <1> QED BY <1>2, WindowCounts DEF Counted

(* If somebody else is being checked as well, there is one less of them. *)
LEMMA OneIsElsewhere ==
    ASSUME TypeOK, Counted, NEW t \in 0..MaxTime, NEW p \in Checking, p \notin Adding(t) \cup Waiting(t)
    PROVE  Cardinality(Adding(t)) + Cardinality(Waiting(t)) + 1 <= peak.check
  <1> DEFINE B == Adding(t) \cup Waiting(t)
  <1>1. Adding(t) \cap Waiting(t) = {}
    BY DEF Adding, Waiting
  <1>2. /\ IsFiniteSet(B)
        /\ Cardinality(B) = Cardinality(Adding(t)) + Cardinality(Waiting(t)) - Cardinality(Adding(t) \cap Waiting(t))
    BY WindowCounts, FS_Union
  <1>3. Cardinality(Adding(t) \cap Waiting(t)) = 0
    BY <1>1, FS_EmptySet
  <1>4. Cardinality(B) = Cardinality(Adding(t)) + Cardinality(Waiting(t))
    BY <1>2, <1>3, WindowCounts
  <1>5. B \cup {p} \subseteq Checking /\ Checking \subseteq Requests
    BY DEF Adding, Waiting, Checking, At
  <1> HIDE DEF B
  <1>6. Cardinality(B \cup {p}) = Cardinality(B) + 1
    BY <1>2, FS_AddElement DEF B
  <1>7. /\ Cardinality(B \cup {p}) <= Cardinality(Checking)
        /\ Cardinality(Checking) \in Nat
    BY <1>5, Part, RequestsFinite
  <1> QED BY <1>4, <1>6, <1>7, WindowCounts DEF Counted

(* Whoever begins or ends nothing in the window leaves its numbers alone. *)
LEMMA SameSeconds ==
    ASSUME TypeOK, [Next]_vars, \A r \in Requests : ~Adds(r) /\ ~Decides(r), NEW t
    PROVE  Seconds(t)' = Seconds(t)
  <1>1. Through' = Through
    <2>1. Through' \subseteq Through
      <3> SUFFICES ASSUME NEW s \in Through' PROVE s \in Through
        OBVIOUS
      <3>1. s \in Requests
        BY DEF Through, At
      <3> QED BY <3>1, ThroughGrows
    <2>2. Through \subseteq Through'
      BY ThroughStays
    <2> QED BY <2>1, <2>2
  <1>2. \A s \in Through : now'[s] = now[s]
    BY ThroughStays
  <1> QED BY <1>1, <1>2 DEF Seconds

(* A step that adds nothing to the window and takes nothing from the set. *)
LEMMA SecondsFrame ==
    ASSUME TypeOK, TypeOK', NEW t \in 0..MaxTime, Whole(t) \/ Over(t),
           Seconds(t)' = Seconds(t), Adding(t)' \subseteq Adding(t), entries \subseteq entries',
           Waiting(t)' \subseteq Waiting(t) \/ clock <= t,
           peak.check <= peak'.check, clock <= clock'
    PROVE  Whole(t)' \/ Over(t)'
  <1>1. /\ Cardinality(Seconds(t)) \in Nat /\ Cardinality(Adding(t)) \in Nat /\ Cardinality(Waiting(t)) \in Nat
        /\ peak.check \in Nat /\ clock \in Int /\ RpmLimit \in Nat /\ t \in Int
    BY WindowCounts
  <1>2. /\ Cardinality(Adding(t)') \in Nat /\ Cardinality(Waiting(t)') \in Nat
        /\ peak'.check \in Nat /\ clock' \in Int
    <2>1. /\ Adding(t)' \subseteq Requests /\ Waiting(t)' \subseteq Requests
      BY DEF Adding, Waiting
    <2> QED BY <2>1, RequestsFinite DEF TypeOK
  <1>3. Cardinality(Adding(t)') <= Cardinality(Adding(t))
    BY WindowCounts, Part
  <1>4. CASE Whole(t)
    <2>1. Seconds(t)' \subseteq entries'
      BY <1>4 DEF Whole
    <2>2. Cardinality(Seconds(t)') + Cardinality(Adding(t)') <= RpmLimit - 1 + peak'.check
      BY <1>1, <1>2, <1>3, <1>4 DEF Whole
    <2> QED BY <2>1, <2>2 DEF Whole
  <1>5. CASE Over(t)
    <2>1. clock > t /\ clock' > t
      BY <1>1, <1>2, <1>5 DEF Over
    <2>2. Waiting(t)' \subseteq Waiting(t)
      BY <1>1, <2>1
    <2>3. Cardinality(Waiting(t)') <= Cardinality(Waiting(t))
      BY <2>2, WindowCounts, Part
    <2>4. Cardinality(Seconds(t)') + Cardinality(Adding(t)') + Cardinality(Waiting(t)')
             <= RpmLimit + 2 * (peak'.check - 1)
      BY <1>1, <1>2, <1>3, <1>5, <2>3 DEF Over
    <2> QED BY <2>1, <2>4 DEF Over
  <1> QED BY <1>4, <1>5

(* The clock, the tokens, and requests that begin. *)
LEMMA SecondsAround ==
    ASSUME WindowIInv, [Next]_vars, NEW t \in 0..MaxTime, Whole(t) \/ Over(t),
           Around \/ \E r \in Requests : Starts(r)
    PROVE  Whole(t)' \/ Over(t)'
  <1>1. TypeOK /\ TypeOK'
    BY TypeStep DEF WindowIInv
  <1>2. \A r \in Requests : now[r] \in Int /\ clock \in Int /\ t \in Int /\ peak.check \in Nat
    BY <1>1, WindowCounts
  <1>3. CASE Around
    <2>1. \A r \in Requests : ~Adds(r) /\ ~Decides(r)
      BY <1>3 DEF Around, Adds, Decides
    <2>2. Seconds(t)' = Seconds(t)
      BY <1>1, <2>1, SameSeconds
    <2>3. Adding(t)' \subseteq Adding(t) /\ Waiting(t)' \subseteq Waiting(t)
      BY <1>3 DEF Around, Adding, Waiting, InTime
    <2>4. entries \subseteq entries' /\ peak.check <= peak'.check /\ clock <= clock'
      <3>1. peak.check \in Nat /\ clock \in Int /\ clock' \in Int
        BY <1>1 DEF TypeOK
      <3> QED BY <1>3, <3>1 DEF Around
    <2> QED BY <1>1, <2>2, <2>3, <2>4, SecondsFrame
  <1>4. ASSUME NEW r \in Requests, Starts(r) PROVE Whole(t)' \/ Over(t)'
    <2>1. \A s \in Requests : ~Adds(s) /\ ~Decides(s)
      BY <1>4 DEF Starts, Adds, Decides
    <2>2. Seconds(t)' = Seconds(t)
      BY <1>1, <2>1, SameSeconds
    <2>3. Adding(t)' \subseteq Adding(t)
      BY <1>4 DEF Starts, Adding, InTime
    <2>4. Waiting(t)' \subseteq Waiting(t) \/ clock <= t
      BY <1>4 DEF Starts, Waiting, InTime
    <2>5. entries \subseteq entries' /\ peak.check <= peak'.check /\ clock <= clock'
      <3>1. peak.check \in Nat /\ peak'.check \in Nat /\ clock \in Int
        BY <1>1 DEF TypeOK
      <3> QED BY <1>4, <3>1 DEF Starts
    <2> QED BY <1>1, <2>2, <2>3, <2>4, <2>5, SecondsFrame
  <1> QED BY <1>3, <1>4

(* ZREMRANGEBYSCORE: a window that loses a second is over, and the request   *)
(* that trims it is not one of it.                                           *)
LEMMA SecondsTrim ==
    ASSUME WindowIInv, [Next]_vars, NEW t \in 0..MaxTime, Whole(t) \/ Over(t), faults' = 0,
           NEW r \in Requests, Trims(r)
    PROVE  Whole(t)' \/ Over(t)'
  <1>1. TypeOK /\ TypeOK' /\ Counted /\ Times(r)
    BY TypeStep DEF WindowIInv
  <1>2. /\ Cardinality(Seconds(t)) \in Nat /\ Cardinality(Adding(t)) \in Nat /\ Cardinality(Waiting(t)) \in Nat
        /\ peak.check \in Nat /\ RpmLimit \in Nat /\ t \in Int /\ clock \in Int /\ Window \in Nat
        /\ (\A s \in Requests : now[s] \in Int) /\ Seconds(t) \subseteq 0..MaxTime
    BY <1>1, WindowCounts
  <1>3. Seconds(t)' = Seconds(t)
    <2>1. \A s \in Requests : ~Adds(s) /\ ~Decides(s)
      <3>1. \A s \in Requests : pc[s] \in {"card", "add"} => pc'[s] = pc[s]
        BY DEF Trims
      <3> QED BY <3>1 DEF Adds, Decides
    <2> QED BY <1>1, <2>1, SameSeconds
  <1>4. Adding(t)' = Adding(t) /\ Waiting(t)' = Waiting(t) /\ clock' = clock /\ peak' = peak
    BY DEF Trims, Adding, Waiting, InTime
  <1>5. CASE Over(t)
    BY <1>3, <1>4, <1>5 DEF Over
  <1>6. CASE Whole(t) /\ Seconds(t) \subseteq entries'
    BY <1>3, <1>4, <1>6 DEF Whole
  <1>7. CASE Whole(t) /\ ~(Seconds(t) \subseteq entries')
    <2>1. PICK x \in Seconds(t) : x \notin entries'
      BY <1>7
    <2>2. x \in entries /\ x \in Int /\ x > t - Window
      BY <1>2, <1>7, <2>1 DEF Whole, Seconds
    <2>3. ~(x > now[r] - Window)
      BY <2>1, <2>2 DEF Trims, InWindow
    <2>4. now[r] > t
      BY <1>2, <2>2, <2>3
    <2>5. clock > t
      BY <1>1, <1>2, <2>4 DEF Times
    <2>6. r \in Checking /\ r \notin Adding(t) \cup Waiting(t)
      BY <1>2, <2>4 DEF Trims, Checking, At, Adding, Waiting, InTime
    <2>7. Cardinality(Adding(t)) + Cardinality(Waiting(t)) + 1 <= peak.check
      BY <1>1, <2>6, OneIsElsewhere
    <2>8. Cardinality(Seconds(t)) + Cardinality(Adding(t)) <= RpmLimit - 1 + peak.check
      BY <1>7 DEF Whole
    <2>9. Cardinality(Seconds(t)) + Cardinality(Adding(t)) + Cardinality(Waiting(t))
             <= RpmLimit + 2 * (peak.check - 1)
      BY <1>2, <2>7, <2>8
    <2> QED BY <1>3, <1>4, <2>5, <2>9 DEF Over
  <1> QED BY <1>5, <1>6, <1>7

(* ZCARD: a request that is to be added has seen all the seconds there are,  *)
(* or the window is over.                                                    *)
LEMMA SecondsDecide ==
    ASSUME WindowIInv, [Next]_vars, NEW t \in 0..MaxTime, Whole(t) \/ Over(t), faults' = 0,
           NEW r \in Requests, Decides(r)
    PROVE  Whole(t)' \/ Over(t)'
  <1>1. TypeOK /\ TypeOK' /\ Counted /\ Counted'
    BY TypeStep, CountedStep DEF WindowIInv
  <1>2. /\ Cardinality(Seconds(t)) \in Nat /\ Cardinality(Adding(t)) \in Nat /\ Cardinality(Waiting(t)) \in Nat
        /\ peak.check \in Nat /\ RpmLimit \in Nat /\ t \in Int /\ clock \in Int
        /\ IsFiniteSet(Adding(t)) /\ IsFiniteSet(Waiting(t)) /\ IsFiniteSet(Seconds(t))
    BY <1>1, WindowCounts
  <1>3. Seconds(t)' = Seconds(t)
    <2>1. Through' = Through
      BY DEF Decides, Through, At
    <2> QED BY <2>1 DEF Seconds, Decides
  <1>4. clock' = clock /\ peak' = peak /\ entries' = entries
    BY DEF Decides
  <1>5. CASE pc'[r] = "add" /\ ~Full
    <2>1. Cardinality(Adding(t)') <= peak.check
      <3>1. Adding(t)' \subseteq Checking' /\ Checking' \subseteq Requests
        BY DEF Adding, Checking, At
      <3>2. /\ Cardinality(Adding(t)') <= Cardinality(Checking')
            /\ Cardinality(Checking') \in Nat /\ Cardinality(Adding(t)') \in Nat
        BY <3>1, Part, RequestsFinite
      <3>3. Cardinality(Checking') <= peak.check
        BY <1>1, <1>4 DEF Counted
      <3> QED BY <1>2, <3>2, <3>3
    <2>2. Cardinality(Adding(t)') \in Nat /\ Cardinality(Waiting(t)') \in Nat
      <3>1. Adding(t)' \subseteq Requests /\ Waiting(t)' \subseteq Requests
        BY DEF Adding, Waiting
      <3> QED BY <3>1, RequestsFinite
    <2>3. CASE Whole(t)
      <3>1. IsFiniteSet(entries) /\ Cardinality(entries) \in Nat
        BY <1>1, TimesFinite DEF TypeOK
      <3>2. Cardinality(Seconds(t)) <= Cardinality(entries)
        BY <2>3, <3>1, Part DEF Whole
      <3>3. Cardinality(entries) < RpmLimit
        BY <1>2, <1>5, <3>1 DEF Full
      <3>4. Cardinality(Seconds(t)) + Cardinality(Adding(t)') <= RpmLimit - 1 + peak.check
        BY <1>2, <2>1, <2>2, <3>1, <3>2, <3>3
      <3> QED BY <1>3, <1>4, <2>3, <3>4 DEF Whole
    <2>4. CASE Over(t)
      <3>1. CASE InTime(r, t)
        <4>1. Adding(t)' \subseteq Adding(t) \cup {r} /\ Waiting(t)' \subseteq Waiting(t) \ {r} /\ r \in Waiting(t)
          BY <1>5, <3>1 DEF Decides, Adding, Waiting, InTime
        <4>2. r \notin Adding(t)
          BY DEF Decides, Adding
        <4>3. IsFiniteSet(Adding(t) \cup {r}) /\ Cardinality(Adding(t) \cup {r}) = Cardinality(Adding(t)) + 1
          BY <1>2, <4>2, FS_AddElement
        <4>4. IsFiniteSet(Waiting(t) \ {r}) /\ Cardinality(Waiting(t) \ {r}) = Cardinality(Waiting(t)) - 1
          BY <1>2, <4>1, FS_RemoveElement
        <4>5. /\ Cardinality(Adding(t)') <= Cardinality(Adding(t)) + 1
              /\ Cardinality(Waiting(t)') <= Cardinality(Waiting(t)) - 1
          BY <4>1, <4>3, <4>4, Part
        <4>6. Cardinality(Seconds(t)) + Cardinality(Adding(t)') + Cardinality(Waiting(t)')
                 <= RpmLimit + 2 * (peak.check - 1)
          BY <1>2, <2>2, <2>4, <4>5 DEF Over
        <4> QED BY <1>3, <1>4, <2>4, <4>6 DEF Over
      <3>2. CASE ~InTime(r, t)
        <4>1. Adding(t)' = Adding(t) /\ Waiting(t)' = Waiting(t)
          BY <1>5, <3>2 DEF Decides, Adding, Waiting, InTime
        <4> QED BY <1>3, <1>4, <2>4, <4>1 DEF Over
      <3> QED BY <3>1, <3>2
    <2> QED BY <2>3, <2>4
  <1>6. CASE pc'[r] = "limited"
    <2>1. Adding(t)' \subseteq Adding(t) /\ Waiting(t)' \subseteq Waiting(t)
      BY <1>6 DEF Decides, Adding, Waiting, InTime
    <2>2. entries \subseteq entries' /\ peak.check <= peak'.check /\ clock <= clock'
      BY <1>2, <1>4
    <2> QED BY <1>1, <1>3, <2>1, <2>2, SecondsFrame
  <1> QED BY <1>5, <1>6 DEF Decides

(* ZADD: what was being added becomes a second, or is one already. *)
LEMMA SecondsAdd ==
    ASSUME WindowIInv, [Next]_vars, NEW t \in 0..MaxTime, Whole(t) \/ Over(t), faults' = 0,
           NEW r \in Requests, Adds(r)
    PROVE  Whole(t)' \/ Over(t)'
  <1>1. TypeOK /\ TypeOK'
    BY TypeStep DEF WindowIInv
  <1>2. /\ Cardinality(Seconds(t)) \in Nat /\ Cardinality(Adding(t)) \in Nat /\ Cardinality(Waiting(t)) \in Nat
        /\ peak.check \in Nat /\ RpmLimit \in Nat /\ t \in Int /\ clock \in Int
        /\ IsFiniteSet(Adding(t)) /\ IsFiniteSet(Seconds(t))
    BY <1>1, WindowCounts
  <1>3. /\ entries' = entries \cup {now[r]} /\ clock' = clock /\ peak' = peak /\ now' = now
        /\ Through' = Through \cup {r}
    BY DEF Adds, Through, At
  <1>4. Waiting(t)' = Waiting(t)
    BY DEF Adds, Waiting, InTime
  <1>5. CASE InTime(r, t)
    <2>1. Seconds(t)' = Seconds(t) \cup {now[r]}
      BY <1>3, <1>5 DEF Seconds, InTime
    <2>2. Adding(t)' = Adding(t) \ {r} /\ r \in Adding(t)
      BY <1>5 DEF Adds, Adding, InTime
    <2>3. Cardinality(Seconds(t)') = IF now[r] \in Seconds(t) THEN Cardinality(Seconds(t))
                                     ELSE Cardinality(Seconds(t)) + 1
      BY <1>2, <2>1, FS_AddElement
    <2>4. Cardinality(Adding(t)') = Cardinality(Adding(t)) - 1
      BY <1>2, <2>2, FS_RemoveElement
    <2>5. CASE Whole(t)
      <3>1. Seconds(t)' \subseteq entries'
        BY <1>3, <2>1, <2>5 DEF Whole
      <3>2. Cardinality(Seconds(t)') + Cardinality(Adding(t)') <= RpmLimit - 1 + peak'.check
        BY <1>2, <1>3, <2>3, <2>4, <2>5 DEF Whole
      <3> QED BY <3>1, <3>2 DEF Whole
    <2>6. CASE Over(t)
      <3>1. Cardinality(Seconds(t)') + Cardinality(Adding(t)') + Cardinality(Waiting(t)')
               <= RpmLimit + 2 * (peak'.check - 1)
        BY <1>2, <1>3, <1>4, <2>3, <2>4, <2>6 DEF Over
      <3> QED BY <1>3, <2>6, <3>1 DEF Over
    <2> QED BY <2>5, <2>6
  <1>6. CASE ~InTime(r, t)
    <2>1. Seconds(t)' = Seconds(t)
      BY <1>3, <1>6 DEF Seconds, InTime
    <2>2. Adding(t)' = Adding(t)
      BY <1>6 DEF Adds, Adding, InTime
    <2>3. peak.check <= peak'.check /\ clock <= clock' /\ entries \subseteq entries'
      BY <1>2, <1>3
    <2> QED BY <1>1, <1>4, <2>1, <2>2, <2>3, SecondsFrame
  <1> QED BY <1>5, <1>6

(* Every step keeps SecondsInv. *)
LEMMA SecondsStep == WindowIInv /\ SecondsInv /\ [Next]_vars => SecondsInv'
  <1> SUFFICES ASSUME WindowIInv, SecondsInv, [Next]_vars, faults' = 0, NEW t \in 0..MaxTime
               PROVE  Whole(t)' \/ Over(t)'
    BY DEF SecondsInv
  <1>1. TypeOK
    BY DEF WindowIInv
  <1>2. Whole(t) \/ Over(t)
    BY <1>1, ThroughStays DEF SecondsInv
  <1> QED BY <1>1, <1>2, Steps, SecondsAround, SecondsTrim, SecondsDecide, SecondsAdd

(* At the start no window has a second. *)
LEMMA SecondsInit == Init => SecondsInv
  <1> SUFFICES ASSUME Init, NEW t \in 0..MaxTime PROVE Whole(t)
    BY DEF SecondsInv
  <1>1. Seconds(t) = {} /\ Adding(t) = {} /\ peak.check = 0
    BY DEF Init, Seconds, Adding, Through, At
  <1>2. Cardinality(Seconds(t)) = 0 /\ Cardinality(Adding(t)) = 0
    BY <1>1, FS_EmptySet
  <1> QED BY <1>1, <1>2, RateLimitAssumption DEF Whole

(* Who has begun has been counted. *)
Begun == \A r \in Requests : pc[r] # "idle" => peak.check >= 1

(* No step takes that back. *)
LEMMA BegunStep == TypeOK /\ Begun /\ [Next]_vars => Begun'
  <1> SUFFICES ASSUME TypeOK, Begun, [Next]_vars PROVE Begun'
    OBVIOUS
  <1>1. peak.check \in Nat /\ peak'.check \in Nat
    BY TypeStep DEF TypeOK
  <1>2. CASE Around
    BY <1>2 DEF Around, Begun
  <1>3. ASSUME NEW r \in Requests, Starts(r) PROVE Begun'
    <2>1. Checking \subseteq Requests
      BY DEF Checking, At
    <2>2. Cardinality(Checking) \in Nat
      BY <2>1, RequestsFinite
    <2>3. peak'.check >= 1
      BY <1>1, <1>3, <2>2 DEF Starts
    <2> QED BY <2>3 DEF Begun
  <1>4. ASSUME NEW r \in Requests, Trims(r) \/ Decides(r) \/ Adds(r) PROVE Begun'
    BY <1>4 DEF Trims, Decides, Adds, Begun
  <1> QED BY <1>2, <1>3, <1>4, Steps

(* For any limit, any window and any number of requests: unless a command    *)
(* failed, the seconds of a window in which CheckRateLimit lets requests     *)
(* through exceed the limit by at most two for each further request that was *)
(* ever being checked at the same time.                                      *)
THEOREM SecondsAreLimited == Spec => []SecondsWithinLimit
  <1>1. TypeOK /\ Begun /\ SecondsInv => SecondsWithinLimit
    <2> SUFFICES ASSUME TypeOK, Begun, SecondsInv, faults = 0, NEW t \in 0..MaxTime, Seconds(t) # {}
                 PROVE  Cardinality(Seconds(t)) <= RpmLimit + 2 * (peak.check - 1)
      BY DEF SecondsWithinLimit
    <2>1. PICK r \in Requests : pc[r] \in {"ok", "count", "done"}
      BY DEF Seconds, Through, At
    <2>2. peak.check >= 1
      BY <2>1 DEF Begun
    <2>3. /\ Cardinality(Seconds(t)) \in Nat /\ Cardinality(Adding(t)) \in Nat /\ Cardinality(Waiting(t)) \in Nat
          /\ peak.check \in Nat /\ RpmLimit \in Nat
      BY WindowCounts
    <2>4. CASE Whole(t)
      BY <2>2, <2>3, <2>4 DEF Whole
    <2>5. CASE Over(t)
      BY <2>2, <2>3, <2>5 DEF Over
    <2> QED BY <2>4, <2>5 DEF SecondsInv
  <1>2. Init => Begun
    BY DEF Init, Begun
  <1>3. WindowIInv => TypeOK
    BY DEF WindowIInv
  <1> QED BY <1>1, <1>2, <1>3, BegunStep, SecondsInit, SecondsStep, WindowInductive, PTL DEF Spec

-----------------------------------------------------------------------------
(* Sums.  MapThenSumSet adds the values of the elements of a set one by one, *)
(* in an order of its own.  The induction over the set is made with the set  *)
(* of counterexamples, of which a smallest one is looked at.                 *)

(* The elements are taken in the order of CHOOSE; g holds the sums of all    *)
(* subsets.                                                                  *)
Pick(s) == CHOOSE x \in s : TRUE
Totals(f, S, g) == g = [s \in SUBSET S |-> IF s = {} THEN 0 ELSE f[Pick(s)] + g[s \ {Pick(s)}]]

(* The sum of the values of f over S. *)
Sum(f, S) == (CHOOSE g : Totals(f, S, g))[S]

(* It is what MapThenSumSet computes. *)
LEMMA SumIs == ASSUME NEW S, NEW f PROVE MapThenSumSet(LAMBDA r : f[r], S) = Sum(f, S)
  BY DEF Sum, MapThenSumSet, MapThenFoldSet, Totals, Pick

(* A set of subsets of a finite set has a smallest member. *)
LEMMA SmallestSubset ==
  ASSUME NEW S, IsFiniteSet(S), NEW T, T \subseteq SUBSET S, T # {}
  PROVE  \E x \in T : \A y \in T : y \subseteq x => y = x
  <1> DEFINE R == StrictSubsetOrdering(S)
  <1>1. IsWellFoundedOn(R, SUBSET S)
    BY FS_StrictSubsetOrderingWellFounded, FS_FiniteSubsetsOfFinite
  <1> HIDE DEF R
  <1>2. PICK x \in T : \A y \in T : ~ (<<y, x>> \in R)
    BY <1>1, WFMin, Zenon
  <1>3. ASSUME NEW y \in T, y \subseteq x PROVE y = x
    BY <1>2, <1>3 DEF R, StrictSubsetOrdering
  <1> QED BY <1>3

(* The element that is chosen is one of the set. *)
LEMMA Picked == ASSUME NEW s, s # {} PROVE Pick(s) \in s
  BY DEF Pick

(* The sums of all subsets exist: by the size of the subsets, each sum is    *)
(* put together from the one without the element that is chosen.             *)
LEMMA TotalsExist ==
  ASSUME NEW S, IsFiniteSet(S), NEW f PROVE \E g : Totals(f, S, g)
  <1> DEFINE Small(n) == {s \in SUBSET S : Cardinality(s) <= n}
             On(n, g) == g = [s \in Small(n) |-> IF s = {} THEN 0 ELSE f[Pick(s)] + g[s \ {Pick(s)}]]
             N == {n \in Nat : ~ \E g : On(n, g)}
  <1>0. \A s \in SUBSET S : IsFiniteSet(s) /\ Cardinality(s) \in Nat
    BY FS_Subset, FS_CardinalityType
  <1>1. N = {}
    <2> SUFFICES ASSUME N # {} PROVE FALSE
      OBVIOUS
    <2>1. PICK n \in N : \A m \in N : ~ (<<m, n>> \in OpToRel(<, Nat))
      <3> N \subseteq Nat
        OBVIOUS
      <3> HIDE DEF N
      <3> QED BY WFMin, NatLessThanWellFounded, Zenon
    <2>2. \A m \in Nat : m < n => m \notin N
      BY <2>1 DEF OpToRel
    <2>3. n \in Nat /\ ~ \E g : On(n, g)
      OBVIOUS
    <2>4. CASE n = 0
      <3>1. Small(0) = {{}}
        BY <1>0, FS_EmptySet
      <3> DEFINE g == [s \in Small(0) |-> 0]
      <3>2. On(0, g)
        BY <3>1
      <3> QED BY <2>3, <2>4, <3>2
    <2>5. CASE n # 0
      <3>1. n - 1 \in Nat /\ n - 1 < n
        BY <2>3, <2>5
      <3>2. PICK g : On(n - 1, g)
        BY <2>2, <3>1
      <3> DEFINE h == [s \in Small(n) |-> IF s = {} THEN 0 ELSE f[Pick(s)] + g[s \ {Pick(s)}]]
      <3>3. \A s \in Small(n) : s # {} => s \ {Pick(s)} \in Small(n - 1)
        BY <1>0, <2>3, FS_RemoveElement, Picked
      <3>4. Small(n - 1) \subseteq Small(n)
        BY <1>0, <2>3
      <3>5. \A s \in Small(n - 1) : g[s] = h[s]
        BY <3>2, <3>4
      <3>6. h = [s \in Small(n) |-> IF s = {} THEN 0 ELSE f[Pick(s)] + h[s \ {Pick(s)}]]
        <4> HIDE DEF Small
        <4>1. \A s \in Small(n) : s # {} => h[s \ {Pick(s)}] = g[s \ {Pick(s)}]
          BY <3>3, <3>5
        <4> QED BY <4>1
      <3> QED BY <2>3, <3>6
    <2> QED BY <2>4, <2>5
  <1>2. PICK g : On(Cardinality(S), g)
    BY <1>0, <1>1
  <1>3. Small(Cardinality(S)) = SUBSET S
    BY FS_Subset
  <1> QED BY <1>2, <1>3 DEF Totals

(* They are integers. *)
LEMMA TotalsType ==
  ASSUME NEW S, IsFiniteSet(S), NEW f, \A x \in S : f[x] \in Int, NEW g, Totals(f, S, g)
  PROVE  \A s \in SUBSET S : g[s] \in Int
  <1> DEFINE T == {s \in SUBSET S : g[s] \notin Int}
  <1> SUFFICES ASSUME T # {} PROVE FALSE
    OBVIOUS
  <1>1. PICK s \in T : \A u \in T : u \subseteq s => u = s
    <2> T \subseteq SUBSET S
      OBVIOUS
    <2> HIDE DEF T
    <2> QED BY SmallestSubset
  <1>2. CASE s = {}
    BY <1>2 DEF Totals
  <1>3. CASE s # {}
    <2>1. Pick(s) \in s
      BY <1>3, Picked
    <2>2. s \ {Pick(s)} \in SUBSET S /\ s \ {Pick(s)} # s /\ s \ {Pick(s)} \subseteq s
      BY <2>1
    <2>3. g[s \ {Pick(s)}] \in Int
      BY <1>1, <2>2
    <2>4. g[s] = f[Pick(s)] + g[s \ {Pick(s)}]
      BY <1>3 DEF Totals
    <2> QED BY <2>1, <2>3, <2>4
  <1> QED BY <1>2, <1>3

(* Any other element may be taken first. *)
LEMMA TotalsAny ==
  ASSUME NEW S, IsFiniteSet(S), NEW f, \A x \in S : f[x] \in Int, NEW g, Totals(f, S, g)
  PROVE  \A x \in S : g[S] = f[x] + g[S \ {x}]
  <1> DEFINE T == {s \in SUBSET S : \E x \in s : g[s] # f[x] + g[s \ {x}]}
  <1> SUFFICES ASSUME T # {} PROVE FALSE
    <2>1. S \in SUBSET S
      OBVIOUS
    <2> QED BY <2>1
  <1>1. PICK s \in T : \A u \in T : u \subseteq s => u = s
    <2> T \subseteq SUBSET S
      OBVIOUS
    <2> HIDE DEF T
    <2> QED BY SmallestSubset
  <1>2. PICK x \in s : g[s] # f[x] + g[s \ {x}]
    OBVIOUS
  <1> DEFINE p == Pick(s)
             v == (s \ {p}) \ {x}
  <1>3. p \in s /\ g[s] = f[p] + g[s \ {p}]
    BY <1>2, Picked DEF Totals
  <1>4. x # p
    BY <1>2, <1>3
  <1> HIDE DEF p
  <1>5. g[s \ {p}] = f[x] + g[v]
    <2>1. s \ {p} \in SUBSET S /\ s \ {p} # s /\ s \ {p} \subseteq s /\ x \in s \ {p}
      BY <1>3, <1>4
    <2> QED BY <1>1, <2>1
  <1>6. g[s \ {x}] = f[p] + g[v]
    <2>1. s \ {x} \in SUBSET S /\ s \ {x} # s /\ s \ {x} \subseteq s /\ p \in s \ {x}
      BY <1>3, <1>4
    <2>2. (s \ {x}) \ {p} = v
      OBVIOUS
    <2> QED BY <1>1, <2>1, <2>2
  <1>7. f[x] \in Int /\ f[p] \in Int /\ g[v] \in Int
    BY <1>3, TotalsType
  <1> HIDE DEF v
  <1> QED BY <1>2, <1>3, <1>5, <1>6, <1>7

(* Two sums of the same values are the same, also if they are parts of sums  *)
(* over different sets.                                                      *)
LEMMA TotalsSame ==
  ASSUME NEW S, NEW U, IsFiniteSet(S), IsFiniteSet(U), NEW f, NEW e, NEW g, NEW h,
         Totals(f, S, g), Totals(e, U, h), \A x \in S \cap U : f[x] = e[x]
  PROVE  \A s \in SUBSET (S \cap U) : g[s] = h[s]
  <1> DEFINE T == {s \in SUBSET (S \cap U) : g[s] # h[s]}
  <1> SUFFICES ASSUME T # {} PROVE FALSE
    OBVIOUS
  <1>1. PICK s \in T : \A u \in T : u \subseteq s => u = s
    <2> T \subseteq SUBSET S
      OBVIOUS
    <2> HIDE DEF T
    <2> QED BY SmallestSubset
  <1>2. s \in SUBSET S /\ s \in SUBSET U
    OBVIOUS
  <1>3. CASE s = {}
    BY <1>2, <1>3 DEF Totals
  <1>4. CASE s # {}
    <2>1. Pick(s) \in s
      BY <1>4, Picked
    <2>2. s \ {Pick(s)} \in SUBSET (S \cap U) /\ s \ {Pick(s)} # s /\ s \ {Pick(s)} \subseteq s
      BY <2>1
    <2>3. g[s \ {Pick(s)}] = h[s \ {Pick(s)}]
      BY <1>1, <2>2
    <2>4. g[s] = f[Pick(s)] + g[s \ {Pick(s)}]
      BY <1>2, <1>4 DEF Totals
    <2>5. h[s] = e[Pick(s)] + h[s \ {Pick(s)}]
      BY <1>2, <1>4 DEF Totals
    <2> QED BY <2>1, <2>3, <2>4, <2>5
  <1> QED BY <1>3, <1>4

(* The sum is one of those of the subsets. *)
LEMMA SumUnfolds ==
  ASSUME NEW S, IsFiniteSet(S), NEW f
  PROVE  \E g : Totals(f, S, g) /\ Sum(f, S) = g[S]
  BY TotalsExist DEF Sum

(* A sum does not depend on the values of other elements. *)
LEMMA SumSame ==
  ASSUME NEW S, IsFiniteSet(S), NEW f, NEW e, \A x \in S : f[x] = e[x]
  PROVE  Sum(f, S) = Sum(e, S)
  BY SumUnfolds, TotalsSame

(* The sum of integers is one. *)
LEMMA SumType ==
  ASSUME NEW S, IsFiniteSet(S), NEW f, \A x \in S : f[x] \in Int
  PROVE  Sum(f, S) \in Int
  BY SumUnfolds, TotalsType

(* The sum over no element. *)
LEMMA SumEmpty == ASSUME NEW f PROVE Sum(f, {}) = 0
  BY SumUnfolds, FS_EmptySet DEF Totals

(* An element adds its value. *)
LEMMA SumRemove ==
  ASSUME NEW S, IsFiniteSet(S), NEW f, \A y \in S : f[y] \in Int, NEW x \in S
  PROVE  Sum(f, S) = f[x] + Sum(f, S \ {x})
  <1>1. IsFiniteSet(S \ {x})
    BY FS_RemoveElement
  <1>2. PICK g : Totals(f, S, g) /\ Sum(f, S) = g[S]
    BY SumUnfolds
  <1>3. PICK h : Totals(f, S \ {x}, h) /\ Sum(f, S \ {x}) = h[S \ {x}]
    BY <1>1, SumUnfolds
  <1>4. g[S] = f[x] + g[S \ {x}]
    <2>1. Totals(f, S, g)
      BY <1>2
    <2>2. \A y \in S : g[S] = f[y] + g[S \ {y}]
      BY <2>1, TotalsAny
    <2> QED BY <2>2
  <1>5. g[S \ {x}] = h[S \ {x}]
    BY <1>1, <1>2, <1>3, TotalsSame
  <1> QED BY <1>2, <1>3, <1>4, <1>5

(* A part of a set of natural numbers adds up to less. *)
LEMMA SumMonotone ==
  ASSUME NEW S, IsFiniteSet(S), NEW f, \A y \in S : f[y] \in Nat, NEW U, U \subseteq S
  PROVE  Sum(f, U) <= Sum(f, S)
  <1> DEFINE T == {s \in SUBSET S : U \subseteq s /\ ~(Sum(f, U) <= Sum(f, s))}
  <1> SUFFICES ASSUME T # {} PROVE FALSE
    <2>1. S \in SUBSET S
      OBVIOUS
    <2> QED BY <2>1
  <1>1. PICK s \in T : \A u \in T : u \subseteq s => u = s
    <2> T \subseteq SUBSET S
      OBVIOUS
    <2> HIDE DEF T
    <2> QED BY SmallestSubset
  <1>2. s \subseteq S /\ U \subseteq s /\ ~(Sum(f, U) <= Sum(f, s))
    OBVIOUS
  <1>3. IsFiniteSet(U) /\ IsFiniteSet(s) /\ \A y \in s : f[y] \in Int
    BY <1>2, FS_Subset
  <1>4. Sum(f, U) \in Int
    BY <1>2, <1>3, SumType
  <1>5. PICK x \in s : x \notin U
    BY <1>2, <1>4
  <1>6. Sum(f, U) <= Sum(f, s \ {x})
    <2>1. s \ {x} \in SUBSET S /\ U \subseteq s \ {x} /\ s \ {x} # s /\ s \ {x} \subseteq s
      BY <1>2, <1>5
    <2> QED BY <1>1, <2>1
  <1>7. Sum(f, s) = f[x] + Sum(f, s \ {x})
    BY <1>3, SumRemove
  <1>8. Sum(f, s \ {x}) \in Int
    <2>1. IsFiniteSet(s \ {x}) /\ \A y \in s \ {x} : f[y] \in Int
      BY <1>3, FS_RemoveElement
    <2> QED BY <2>1, SumType
  <1>9. f[x] \in Nat
    BY <1>2
  <1> QED BY <1>2, <1>4, <1>6, <1>7, <1>8, <1>9

(* So many numbers add up to so many times the largest one at most. *)
LEMMA SumBounded ==
  ASSUME NEW S, IsFiniteSet(S), NEW f, NEW m \in Nat, \A y \in S : f[y] \in 0..m
  PROVE  Sum(f, S) <= Cardinality(S) * m
  <1> DEFINE T == {s \in SUBSET S : ~(Sum(f, s) <= Cardinality(s) * m)}
  <1> SUFFICES ASSUME T # {} PROVE FALSE
    <2>1. S \in SUBSET S
      OBVIOUS
    <2> QED BY <2>1
  <1>1. PICK s \in T : \A u \in T : u \subseteq s => u = s
    <2> T \subseteq SUBSET S
      OBVIOUS
    <2> HIDE DEF T
    <2> QED BY SmallestSubset
  <1>2. s \subseteq S /\ ~(Sum(f, s) <= Cardinality(s) * m)
    OBVIOUS
  <1>3. IsFiniteSet(s) /\ \A y \in s : f[y] \in Int
    BY <1>2, FS_Subset
  <1>4. s # {}
    <2>1. Sum(f, {}) = 0 /\ Cardinality({}) = 0
      BY SumEmpty, FS_EmptySet
    <2> QED BY <1>2, <2>1
  <1>5. PICK x \in s : TRUE
    BY <1>4
  <1>6. Sum(f, s \ {x}) <= Cardinality(s \ {x}) * m
    <2>1. s \ {x} \in SUBSET S /\ s \ {x} # s /\ s \ {x} \subseteq s
      BY <1>2
    <2> QED BY <1>1, <2>1
  <1>7. Sum(f, s) = f[x] + Sum(f, s \ {x})
    BY <1>3, SumRemove
  <1>8. /\ IsFiniteSet(s \ {x}) /\ Cardinality(s \ {x}) = Cardinality(s) - 1
        /\ Cardinality(s) \in Nat /\ Cardinality(s \ {x}) \in Nat
    BY <1>3, FS_RemoveElement, FS_CardinalityType
  <1>9. Sum(f, s \ {x}) \in Int
    BY <1>3, <1>8, SumType
  <1>10. f[x] \in 0..m
    BY <1>2
  <1> DEFINE n == Cardinality(s \ {x})
  <1>11. Cardinality(s) * m = n * m + m /\ n * m \in Nat
    <2>1. Cardinality(s) = n + 1 /\ n \in Nat
      BY <1>8
    <2> HIDE DEF n
    <2>2. (n + 1) * m = n * m + m /\ n * m \in Nat
      BY <2>1, SMT
    <2> QED BY <2>1, <2>2
  <1> DEFINE k == n * m
             a == Sum(f, s \ {x})
  <1>12. a <= k /\ a \in Int /\ k \in Nat /\ ~(f[x] + a <= k + m)
    BY <1>2, <1>6, <1>7, <1>9, <1>11
  <1> HIDE DEF k, a
  <1> QED BY <1>10, <1>12

(* A finite set of numbers has a largest one. *)
LEMMA MaxOfSet ==
  ASSUME NEW S, IsFiniteSet(S)
  PROVE  S \subseteq Nat /\ S # {} => Max(S) \in S /\ \A y \in S : Max(S) >= y
  <1> DEFINE T == {s \in SUBSET S : s # {} /\ ~ \E x \in s : \A y \in s : x >= y}
  <1>0. ASSUME T # {} PROVE \E s \in T : \A u \in T : u \subseteq s => u = s
    <2> T \subseteq SUBSET S
      OBVIOUS
    <2> HIDE DEF T
    <2> QED BY <1>0, SmallestSubset
  <1> SUFFICES ASSUME S \subseteq Nat, S # {} PROVE Max(S) \in S /\ \A y \in S : Max(S) >= y
    OBVIOUS
  <1>1. T = {}
    <2> SUFFICES ASSUME T # {} PROVE FALSE
      OBVIOUS
    <2>1. PICK s \in T : \A u \in T : u \subseteq s => u = s
      BY <1>0
    <2>2. s \subseteq Nat /\ s # {} /\ ~ \E x \in s : \A y \in s : x >= y
      OBVIOUS
    <2>3. PICK x \in s : TRUE
      BY <2>2
    <2>4. s \ {x} # {}
      BY <2>2
    <2>5. PICK z \in s \ {x} : \A y \in s \ {x} : z >= y
      <3>1. s \ {x} \in SUBSET S /\ s \ {x} # s /\ s \ {x} \subseteq s
        BY <2>3
      <3> QED BY <2>1, <2>4, <3>1
    <2>6. CASE z >= x
      BY <2>2, <2>5, <2>6
    <2>7. CASE x >= z
      <3>1. \A y \in s : x >= y
        BY <2>2, <2>5, <2>7
      <3> QED BY <2>2, <3>1
    <2> QED BY <2>2, <2>5, <2>6, <2>7
  <1>2. \E x \in S : \A y \in S : x >= y
    <2>1. S \in SUBSET S
      OBVIOUS
    <2> QED BY <1>1, <2>1
  <1> QED BY <1>2 DEF Max

-----------------------------------------------------------------------------
(* The tokens *)

Counting == At({"count"})
MaxUsage == Max(Usages)
Ceiling  == TpmLimit + (peak.count - 1) * MaxUsage

(* A request whose tokens were added is done, and the counter lives for a    *)
(* whole window after it.                                                    *)
Raised(r) ==
    counted[r] >= 0 =>
        pc[r] = "done" /\ counted[r] <= clock /\ counted[r] + Window <= tokens.until

(* What was compared and is still to be added is paid in advance; what was   *)
(* added less than a window ago is in the counter.                           *)
TokensInv ==
    /\ \A r \in Counting : used[r] \in Usages
    /\ \A r \in Requests : Raised(r)
    /\ tokens.count > 0 => tokens.count <= Ceiling
    /\ Counting # {} => Current + Sum(used, Counting) <= Ceiling
    /\ Sum(used, Recent) <= Current

(* The numbers of tokens and the set they belong to. *)
LEMMA TokensType ==
    ASSUME TypeOK
    PROVE  /\ \A r \in Requests : used[r] \in Nat /\ counted[r] \in Int
           /\ Current \in Nat /\ tokens.count \in Nat /\ tokens.until \in Nat /\ peak.count \in Nat
           /\ clock \in Nat /\ Window \in Nat \ {0} /\ TpmLimit \in Nat
           /\ IsFiniteSet(Counting) /\ Cardinality(Counting) \in Nat /\ Counting \subseteq Requests
           /\ IsFiniteSet(Recent) /\ Recent \subseteq Requests
           /\ Sum(used, Counting) \in Int /\ Sum(used, Recent) \in Int
  <1>1. \A r \in Requests : used[r] \in Nat /\ counted[r] \in Int
    <2>1. Usages \subseteq Nat
      BY RateLimitAssumption, Zenon
    <2>2. Usages \cup {0} \subseteq Nat
      BY <2>1
    <2>3. \A r \in Requests : used[r] \in Usages \cup {0}
      BY DEF TypeOK
    <2>4. \A r \in Requests : counted[r] \in Int
      BY RateLimitAssumption DEF TypeOK
    <2> QED BY <2>2, <2>3, <2>4
  <1>2. tokens.count \in Nat /\ tokens.until \in Nat /\ peak.count \in Nat /\ clock \in Nat
    BY RateLimitAssumption DEF TypeOK
  <1>3. Current \in Nat
    BY <1>2 DEF Current
  <1>4. Counting \subseteq Requests /\ Recent \subseteq Requests
    BY DEF Counting, Recent, At
  <1>5. IsFiniteSet(Counting) /\ Cardinality(Counting) \in Nat /\ IsFiniteSet(Recent)
    BY <1>4, RequestsFinite
  <1>6. Sum(used, Counting) \in Int /\ Sum(used, Recent) \in Int
    <2>1. (\A r \in Counting : used[r] \in Int) /\ (\A r \in Recent : used[r] \in Int)
      BY <1>1, <1>4
    <2> QED BY <1>5, <2>1, SumType
  <1>7. Window \in Nat \ {0} /\ TpmLimit \in Nat
    BY RateLimitAssumption
  <1> QED BY <1>1, <1>2, <1>3, <1>4, <1>5, <1>6, <1>7

(* There is a largest answer as soon as there is one. *)
LEMMA LargestUsage ==
    ASSUME Usages # {}
    PROVE  MaxUsage \in Nat /\ \A n \in Usages : n \in 0..MaxUsage
  <1>1. IsFiniteSet(Usages) /\ Usages \subseteq Nat
    BY RateLimitAssumption, Zenon
  <1>2. MaxUsage \in Usages /\ \A n \in Usages : MaxUsage >= n
    BY <1>1, MaxOfSet DEF MaxUsage
  <1> QED BY <1>1, <1>2

(* The ceiling is a number, and rises with the requests counted at once. *)
LEMMA CeilingRises ==
    ASSUME Usages # {}, NEW a \in Nat, NEW b \in Nat, a <= b
    PROVE  /\ TpmLimit + (a - 1) * MaxUsage \in Int
           /\ TpmLimit + (a - 1) * MaxUsage <= TpmLimit + (b - 1) * MaxUsage
  <1> DEFINE m == MaxUsage
  <1>1. m \in Nat /\ TpmLimit \in Nat
    BY LargestUsage, RateLimitAssumption
  <1> HIDE DEF m
  <1>2. (a - 1) * m \in Int /\ (b - 1) * m \in Int /\ (a - 1) * m <= (b - 1) * m
    <2>1. PICK d \in Nat : b = a + d
      <3>1. b - a \in Nat /\ b = a + (b - a)
        OBVIOUS
      <3> QED BY <3>1
    <2>2. (a - 1) * m \in Int /\ d * m \in Nat
      BY <1>1, SMT
    <2>3. ((a + d) - 1) * m = (a - 1) * m + d * m
      BY <1>1, SMT
    <2> QED BY <2>1, <2>2, <2>3
  <1> QED BY <1>1, <1>2 DEF m

(* The tokens still to be added, and those of the window, are no less than   *)
(* none.                                                                     *)
LEMMA SumNatural ==
  ASSUME NEW S, IsFiniteSet(S), NEW f, \A y \in S : f[y] \in Nat
  PROVE  Sum(f, S) \in Nat
  <1>1. Sum(f, S) \in Int
    BY SumType
  <1>2. Sum(f, {}) <= Sum(f, S)
    <2>1. {} \subseteq S
      OBVIOUS
    <2> QED BY <2>1, SumMonotone
  <1>3. Sum(f, {}) = 0
    BY SumEmpty
  <1> QED BY <1>1, <1>2, <1>3

(* A step that has nothing to do with tokens. *)
Beside ==
    /\ UNCHANGED <<clock, tokens, used, counted>> /\ peak'.count = peak.count
    /\ \A r \in Requests :
          /\ pc'[r] = "count" <=> pc[r] = "count"
          /\ pc[r] = "done" => pc'[r] = "done"

(* It keeps TokensInv. *)
LEMMA TokensBeside == ASSUME TypeOK, TokensInv, Beside PROVE TokensInv'
  <1>1. Counting' = Counting /\ Recent' = Recent
    BY DEF Beside, Counting, Recent, At
  <1>2. Current' = Current /\ Ceiling' = Ceiling /\ used' = used /\ tokens' = tokens
    BY DEF Beside, Current, Ceiling
  <1>3. \A r \in Requests : Raised(r)'
    BY DEF Beside, TokensInv, Raised
  <1> QED BY <1>1, <1>2, <1>3 DEF TokensInv

(* CheckRateLimit is such. *)
LEMMA BesideSteps ==
    ASSUME TypeOK,
           \/ UNCHANGED vars
           \/ \E r \in Requests : Start(r) \/ Trim(r) \/ Card(r) \/ AddEntry(r)
    PROVE  Beside
  <1>1. CASE UNCHANGED vars
    BY <1>1 DEF vars, tpm, Beside
  <1>2. ASSUME NEW r \in Requests, Start(r) PROVE Beside
    <2>1. /\ pc[r] = "idle" /\ pc' = [pc EXCEPT ![r] = "trim"]
          /\ UNCHANGED <<clock, tokens, used, counted>>
          /\ \E n : peak' = [peak EXCEPT !.check = n]
      BY <1>2 DEF Start, Goto, tpm
    <2>2. peak'.count = peak.count
      BY <2>1 DEF TypeOK
    <2> QED BY <2>1, <2>2 DEF Beside, TypeOK
  <1>3. ASSUME NEW r \in Requests, Trim(r) PROVE Beside
    <2>1. /\ pc[r] = "trim" /\ pc' = [pc EXCEPT ![r] = "card"]
          /\ UNCHANGED <<clock, tokens, used, counted, peak>>
      BY <1>3 DEF Trim, Goto, tpm
    <2> QED BY <2>1 DEF Beside, TypeOK
  <1>4. ASSUME NEW r \in Requests, Card(r) \/ AddEntry(r) PROVE Beside
    <2>1. /\ pc[r] \in {"card", "add"} /\ \E l \in {"limited", "add", "ok"} : pc' = [pc EXCEPT ![r] = l]
          /\ UNCHANGED <<clock, tokens, used, counted, peak>>
      BY <1>4 DEF Card, AddEntry, LetThrough, Goto, tpm
    <2> QED BY <2>1 DEF Beside, TypeOK
  <1> QED BY <1>1, <1>2, <1>3, <1>4

(* GET, with an answer that fits: it is paid in advance, and those that      *)
(* fitted before it by the requests counted at once.                         *)
LEMMA TokensFit ==
    ASSUME TypeOK, TokensInv, NEW r \in Requests, ReadTokens(r), pc'[r] = "count"
    PROVE  TokensInv'
  <1>1. PICK n \in Usages : Fits(n) /\ used' = [used EXCEPT ![r] = n]
    BY DEF ReadTokens, Goto, TypeOK
  <1>2. /\ pc[r] = "ok" /\ pc' = [pc EXCEPT ![r] = "count"]
        /\ UNCHANGED <<clock, tokens, counted>>
        /\ peak' = [peak EXCEPT !.count = Max({peak.count, 1 + Cardinality(Counting)})]
    BY DEF ReadTokens, Goto, TypeOK, Counting
  <1>3. /\ \A s \in Requests : used[s] \in Nat /\ counted[s] \in Int
        /\ Current \in Nat /\ tokens.count \in Nat /\ peak.count \in Nat /\ TpmLimit \in Nat
        /\ IsFiniteSet(Counting) /\ Cardinality(Counting) \in Nat /\ Counting \subseteq Requests
        /\ IsFiniteSet(Recent) /\ Recent \subseteq Requests
        /\ Sum(used, Counting) \in Int
    BY TokensType
  <1>4. n \in Nat /\ Usages # {}
    <2>1. Usages \subseteq Nat
      BY RateLimitAssumption, Zenon
    <2> QED BY <2>1
  <1>5. /\ Counting' = Counting \cup {r} /\ r \notin Counting /\ Counting = Counting' \ {r}
        /\ Recent' = Recent /\ Current' = Current
    BY <1>2 DEF Counting, At, Recent, Current, TypeOK
  <1>6. /\ \A s \in Requests \ {r} : used'[s] = used[s]
        /\ used'[r] = n
    BY <1>1 DEF TypeOK
  <1>7. \A s \in Requests : Raised(s)'
    BY <1>2 DEF TokensInv, Raised, TypeOK
  <1>8. r \notin Recent
    BY <1>2 DEF TokensInv, Raised, Recent
  <1>9. peak'.count \in Nat /\ peak'.count >= peak.count /\ peak'.count >= 1 + Cardinality(Counting)
    <2> DEFINE p == peak.count
               q == 1 + Cardinality(Counting)
    <2>1. peak'.count = Max({p, q})
      BY <1>2 DEF TypeOK
    <2>2. p \in Nat /\ q \in Nat
      BY <1>3
    <2> HIDE DEF p, q
    <2>3. Max({p, q}) \in Nat /\ Max({p, q}) >= p /\ Max({p, q}) >= q
      BY <2>2, MaxOfTwo
    <2> QED BY <2>1, <2>3 DEF p, q
  <1>10. \A s \in Counting' : used'[s] \in Usages
    BY <1>1, <1>3, <1>5, <1>6 DEF TokensInv
  <1>11. Ceiling \in Int /\ Ceiling' \in Int /\ Ceiling <= Ceiling'
    <2>1. Ceiling' = TpmLimit + (peak'.count - 1) * MaxUsage
      BY DEF Ceiling, MaxUsage
    <2> QED BY <1>3, <1>4, <1>9, <2>1, CeilingRises DEF Ceiling
  <1>12. tokens'.count > 0 => tokens'.count <= Ceiling'
    BY <1>2, <1>3, <1>11 DEF TokensInv
  <1>13. Sum(used', Recent') <= Current'
    <2>1. \A s \in Recent : used[s] = used'[s]
      BY <1>3, <1>6, <1>8
    <2>2. Sum(used, Recent) = Sum(used', Recent)
      BY <1>3, <2>1, SumSame
    <2> QED BY <1>5, <2>2 DEF TokensInv
  <1>14. Current' + Sum(used', Counting') <= Ceiling'
    <2>1. Sum(used', Counting') = n + Sum(used, Counting)
      <3> DEFINE C == Counting'
      <3>1. IsFiniteSet(C) /\ \A s \in C : used'[s] \in Int
        <4>1. IsFiniteSet(C)
          BY <1>3, <1>5, FS_AddElement
        <4>2. \A s \in C : used'[s] \in Int
          BY <1>3, <1>4, <1>5, <1>6
        <4> QED BY <4>1, <4>2
      <3>2. r \in C
        BY <1>5
      <3>3. Sum(used', C) = used'[r] + Sum(used', C \ {r})
        <4> HIDE DEF C
        <4> QED BY <3>1, <3>2, SumRemove
      <3>4. \A s \in Counting : used[s] = used'[s]
        BY <1>3, <1>5, <1>6
      <3>5. Sum(used, Counting) = Sum(used', Counting)
        BY <1>3, <3>4, SumSame
      <3> QED BY <1>5, <1>6, <3>3, <3>5
    <2>2. Current + n <= TpmLimit
      BY <1>1 DEF Fits
    <2> DEFINE c == Cardinality(Counting)
               m == MaxUsage
    <2>3. Sum(used, Counting) <= c * m
      <3>1. \A s \in Counting : used[s] \in 0..MaxUsage
        BY <1>4, LargestUsage DEF TokensInv
      <3>2. MaxUsage \in Nat
        BY <1>4, LargestUsage
      <3> QED BY <1>3, <3>1, <3>2, SumBounded
    <2>4. TpmLimit + c * m <= Ceiling' /\ c * m \in Int
      <3>1. Ceiling' = TpmLimit + (peak'.count - 1) * MaxUsage
        BY DEF Ceiling, MaxUsage
      <3>2. 1 + c \in Nat /\ 1 + c <= peak'.count
        BY <1>3, <1>9
      <3>3. /\ TpmLimit + ((1 + c) - 1) * MaxUsage <= TpmLimit + (peak'.count - 1) * MaxUsage
            /\ MaxUsage \in Nat
        BY <1>4, <1>9, <3>2, CeilingRises, LargestUsage
      <3>4. (1 + c) - 1 = c /\ c \in Nat
        BY <1>3
      <3> HIDE DEF c, m
      <3>5. c * m \in Int
        BY <3>3, <3>4, SMT DEF m
      <3> QED BY <3>1, <3>3, <3>4, <3>5 DEF m
    <2> DEFINE a == Sum(used, Counting)
               k == c * m
    <2>5. a <= k /\ k \in Int /\ a \in Int /\ TpmLimit + k <= Ceiling'
      BY <1>3, <2>3, <2>4
    <2> HIDE DEF a, k
    <2>6. Current + (n + a) <= Ceiling'
      BY <1>3, <1>4, <1>11, <2>2, <2>5
    <2> QED BY <1>5, <2>1, <2>6 DEF a
  <1> QED BY <1>7, <1>10, <1>12, <1>13, <1>14 DEF TokensInv

(* GET, also one that fails. *)
LEMMA TokensRead ==
    ASSUME TypeOK, TokensInv, NEW r \in Requests, ReadTokens(r) PROVE TokensInv'
  <1>1. CASE pc'[r] = "count"
    BY <1>1, TokensFit
  <1>2. CASE pc'[r] # "count"
    <2>1. /\ pc[r] = "ok" /\ pc' = [pc EXCEPT ![r] = "done"]
          /\ UNCHANGED <<clock, tokens, used, counted, peak>>
      BY <1>2 DEF ReadTokens, Goto, TypeOK
    <2>2. Beside
      BY <2>1 DEF Beside, TypeOK
    <2> QED BY <2>2, TokensBeside
  <1> QED BY <1>1, <1>2

(* INCRBY and EXPIRE: what was paid in advance is added, and lives for a     *)
(* window from now on, with all that was added before.                       *)
LEMMA TokensAdd ==
    ASSUME TypeOK, TokensInv, NEW r \in Requests, AddTokens(r) PROVE TokensInv'
  <1>1. /\ pc[r] = "count" /\ pc' = [pc EXCEPT ![r] = "done"] /\ UNCHANGED <<clock, used, peak>>
        /\ \/ /\ tokens' = [count |-> Current + used[r], until |-> clock + Window]
              /\ counted' = [counted EXCEPT ![r] = clock]
           \/ UNCHANGED <<tokens, counted>>
    BY DEF AddTokens, Goto, Lifetime
  <1>2. /\ \A s \in Requests : used[s] \in Nat /\ counted[s] \in Int
        /\ Current \in Nat /\ tokens.count \in Nat /\ tokens.until \in Nat /\ peak.count \in Nat
        /\ clock \in Nat /\ Window \in Nat \ {0} /\ TpmLimit \in Nat
        /\ IsFiniteSet(Counting) /\ Counting \subseteq Requests
        /\ IsFiniteSet(Recent) /\ Recent \subseteq Requests
        /\ Sum(used, Counting) \in Int /\ Sum(used, Recent) \in Int
    BY TokensType
  <1>3. Counting' = Counting \ {r} /\ r \in Counting
    BY <1>1 DEF Counting, At, TypeOK
  <1>4. Sum(used, Counting) = used[r] + Sum(used, Counting')
    <2>1. \A s \in Counting : used[s] \in Int
      BY <1>2
    <2> QED BY <1>2, <1>3, <2>1, SumRemove
  <1>5. Sum(used, Counting') \in Nat
    <2>1. IsFiniteSet(Counting') /\ \A s \in Counting' : used[s] \in Nat
      BY <1>2, <1>3, FS_RemoveElement
    <2> QED BY <2>1, SumNatural
  <1>6. Ceiling' = Ceiling /\ Ceiling \in Int
    <2>1. Usages # {}
      BY <1>3 DEF TokensInv
    <2> QED BY <1>1, <1>2, <2>1, CeilingRises DEF Ceiling, MaxUsage
  <1>7. Current + Sum(used, Counting) <= Ceiling
    BY <1>3 DEF TokensInv
  <1>8. \A s \in Counting' : used'[s] \in Usages
    BY <1>1, <1>3 DEF TokensInv
  <1>9. CASE UNCHANGED <<tokens, counted>>
    <2>1. Recent' = Recent /\ Current' = Current
      BY <1>1, <1>9 DEF Recent, Current
    <2>2. \A s \in Requests : Raised(s)'
      BY <1>1, <1>9 DEF TokensInv, Raised, TypeOK
    <2>3. tokens'.count > 0 => tokens'.count <= Ceiling'
      BY <1>6, <1>9 DEF TokensInv
    <2>4. Current' + Sum(used', Counting') <= Ceiling'
      BY <1>1, <1>2, <1>4, <1>5, <1>6, <1>7, <2>1
    <2>5. Sum(used', Recent') <= Current'
      BY <1>1, <2>1 DEF TokensInv
    <2> QED BY <1>8, <2>2, <2>3, <2>4, <2>5 DEF TokensInv
  <1>10. CASE /\ tokens' = [count |-> Current + used[r], until |-> clock + Window]
              /\ counted' = [counted EXCEPT ![r] = clock]
    <2>1. Current' = Current + used[r]
      <3>1. clock' = clock /\ clock < clock + Window
        BY <1>1, <1>2
      <3>2. tokens'.until = clock + Window /\ tokens'.count = Current + used[r]
        BY <1>10
      <3> QED BY <3>1, <3>2 DEF Current
    <2>2. counted'[r] = clock /\ \A s \in Requests \ {r} : counted'[s] = counted[s]
      BY <1>10 DEF TypeOK
    <2>3. Recent' = Recent \cup {r}
      BY <1>1, <1>2, <2>2 DEF Recent
    <2>4. r \notin Recent
      BY <1>1 DEF TokensInv, Raised, Recent
    <2>5. \A s \in Requests : Raised(s)'
      <3> SUFFICES ASSUME NEW s \in Requests, counted'[s] >= 0
                   PROVE  pc'[s] = "done" /\ counted'[s] <= clock' /\ counted'[s] + Window <= tokens'.until
        BY DEF Raised
      <3>1. tokens'.until = clock + Window
        BY <1>10
      <3>2. CASE s = r
        BY <1>1, <1>2, <2>2, <3>1, <3>2 DEF TypeOK
      <3>3. CASE s # r
        <4>1. pc[s] = "done" /\ counted[s] <= clock /\ counted'[s] = counted[s]
          BY <2>2, <3>3 DEF TokensInv, Raised
        <4> QED BY <1>1, <1>2, <3>1, <3>3, <4>1 DEF TypeOK
      <3> QED BY <3>2, <3>3
    <2>6. tokens'.count <= Ceiling'
      <3>1. tokens'.count = Current + used[r]
        BY <1>10
      <3> QED BY <1>2, <1>4, <1>5, <1>6, <1>7, <3>1
    <2>7. Current' + Sum(used', Counting') <= Ceiling'
      BY <1>1, <1>2, <1>4, <1>5, <1>6, <1>7, <2>1
    <2>8. Sum(used', Recent') <= Current'
      <3> DEFINE R == Recent'
      <3>1. IsFiniteSet(R) /\ \A s \in R : used[s] \in Int
        BY <1>2, <2>3, FS_AddElement
      <3>2. r \in R /\ R \ {r} = Recent
        BY <2>3, <2>4
      <3>3. Sum(used, R) = used[r] + Sum(used, R \ {r})
        <4> HIDE DEF R
        <4> QED BY <3>1, <3>2, SumRemove
      <3>4. Sum(used, Recent) <= Current
        BY DEF TokensInv
      <3>5. Sum(used, R) = used[r] + Sum(used, Recent)
        BY <3>2, <3>3
      <3>6. used[r] + Sum(used, Recent) <= Current'
        BY <1>2, <2>1, <3>4
      <3> QED BY <1>1, <3>5, <3>6
    <2> QED BY <1>8, <2>5, <2>6, <2>7, <2>8 DEF TokensInv
  <1> QED BY <1>1, <1>9, <1>10

(* The clock: what leaves the window leaves the sum, and when the counter    *)
(* expires nothing is left in the window.                                    *)
LEMMA TokensTick == ASSUME TypeOK, TokensInv, Tick PROVE TokensInv'
  <1>1. clock' = clock + 1 /\ UNCHANGED <<pc, tokens, used, counted, peak>>
    BY DEF Tick, tpm
  <1>2. /\ \A s \in Requests : used[s] \in Nat /\ counted[s] \in Int
        /\ Current \in Nat /\ tokens.count \in Nat /\ tokens.until \in Nat /\ peak.count \in Nat
        /\ clock \in Nat /\ Window \in Nat \ {0} /\ TpmLimit \in Nat
        /\ IsFiniteSet(Counting) /\ Counting \subseteq Requests
        /\ IsFiniteSet(Recent) /\ Recent \subseteq Requests
        /\ Sum(used, Counting) \in Int /\ Sum(used, Recent) \in Int
    BY TokensType
  <1>3. Counting' = Counting /\ Ceiling' = Ceiling
    BY <1>1 DEF Counting, At, Ceiling
  <1>4. Current' <= Current /\ Current' \in Nat
    BY <1>1, <1>2 DEF Current
  <1>5. \A s \in Requests : Raised(s)'
    <2> SUFFICES ASSUME NEW s \in Requests, counted[s] >= 0
                 PROVE  pc[s] = "done" /\ counted[s] <= clock + 1 /\ counted[s] + Window <= tokens.until
      BY <1>1 DEF Raised
    <2> QED BY <1>2 DEF TokensInv, Raised
  <1>6. Counting' # {} => Current' + Sum(used', Counting') <= Ceiling'
    <2> SUFFICES ASSUME Counting # {} PROVE Current' + Sum(used, Counting) <= Ceiling
      BY <1>1, <1>3
    <2>1. Usages # {}
      BY DEF TokensInv
    <2>2. Ceiling \in Int
      BY <1>2, <2>1, CeilingRises DEF Ceiling
    <2> QED BY <1>2, <1>4, <2>2 DEF TokensInv
  <1>7. Sum(used', Recent') <= Current'
    <2>1. Recent' \subseteq Recent
      BY <1>1, <1>2 DEF Recent
    <2>2. \A s \in Recent : used[s] \in Nat
      BY <1>2
    <2>3. Sum(used, Recent') <= Sum(used, Recent)
      BY <1>2, <2>1, <2>2, SumMonotone
    <2>4. Sum(used, Recent') \in Int
      <3>1. IsFiniteSet(Recent') /\ \A s \in Recent' : used[s] \in Int
        BY <1>2, <2>1, FS_Subset
      <3> QED BY <3>1, SumType
    <2>5. CASE Current' = Current
      BY <1>1, <1>2, <2>3, <2>4, <2>5 DEF TokensInv
    <2>6. CASE Current' # Current
      <3>1. clock + 1 >= tokens.until /\ Current' = 0
        BY <1>1, <1>2, <2>6 DEF Current
      <3>2. Recent' = {}
        <4> SUFFICES ASSUME NEW s \in Recent' PROVE FALSE
          OBVIOUS
        <4>1. s \in Requests /\ counted[s] >= 0 /\ counted[s] > clock + 1 - Window
          BY <1>1, <1>2 DEF Recent
        <4>2. counted[s] + Window <= tokens.until
          BY <4>1 DEF TokensInv, Raised
        <4> QED BY <1>2, <3>1, <4>1, <4>2
      <3> QED BY <3>1, <3>2, SumEmpty
    <2> QED BY <2>5, <2>6
  <1>8. tokens'.count > 0 => tokens'.count <= Ceiling'
    BY <1>1, <1>3 DEF TokensInv
  <1>9. \A s \in Counting' : used'[s] \in Usages
    BY <1>1, <1>3 DEF TokensInv
  <1> QED BY <1>5, <1>6, <1>7, <1>8, <1>9 DEF TokensInv

(* Every step keeps TokensInv. *)
LEMMA TokensStep == TypeOK /\ TokensInv /\ [Next]_vars => TokensInv'
  <1> SUFFICES ASSUME TypeOK, TokensInv, [Next]_vars PROVE TokensInv'
    OBVIOUS
  <1>1. CASE Beside
    BY <1>1, TokensBeside
  <1>2. ASSUME NEW r \in Requests, ReadTokens(r) PROVE TokensInv'
    BY <1>2, TokensRead
  <1>3. ASSUME NEW r \in Requests, AddTokens(r) PROVE TokensInv'
    BY <1>3, TokensAdd
  <1>4. CASE Tick
    BY <1>4, TokensTick
  <1> QED BY <1>1, <1>2, <1>3, <1>4, BesideSteps DEF Next, Step

(* At the start there are none. *)
LEMMA TokensInit == Init => TokensInv
  <1> SUFFICES ASSUME Init PROVE TokensInv
    OBVIOUS
  <1>1. Counting = {} /\ Recent = {} /\ Current = 0 /\ tokens.count = 0
    BY DEF Init, Counting, At, Recent, Current
  <1>2. \A r \in Requests : Raised(r)
    BY DEF Init, Raised
  <1> QED BY <1>1, <1>2, SumEmpty DEF TokensInv

(* For any limit, any window, any number of requests and whatever fails: the *)
(* counter of RecordTokenUsage exceeds the limit by at most one answer for   *)
(* each further request that was ever counted at the same time, and holds    *)
(* all that was added less than a window ago.                                *)
THEOREM TokensAreCounted == Spec => []TokensCounted
  <1>1. TokensInv => TokensCounted
    <2> SUFFICES ASSUME TokensInv PROVE TokensCounted
      OBVIOUS
    <2>1. MapThenSumSet(LAMBDA r : used[r], Recent) = Sum(used, Recent)
      BY SumIs
    <2> QED BY <2>1 DEF TokensInv, TokensCounted, Ceiling, MaxUsage
  <1>2. WindowIInv => TypeOK
    BY DEF WindowIInv
  <1> QED BY <1>1, <1>2, TokensInit, TokensStep, WindowInductive, PTL DEF Spec

-----------------------------------------------------------------------------
(* The key store, for any set of keys and of overlapping handler calls, any  *)
(* number of failing statements and any number of restarts.  KeyInv is       *)
(* inductive; DatabaseFirst and ActiveKeysAccepted follow.                   *)

(* The hash of the generated key has its row and is still to be added. *)
Joining(o) == place[o] = "add" \/ (place[o] = "remove" /\ kind[o] = "rotate")

(* The old hash has been deactivated and is still to be removed. *)
Retiring(o) == place[o] = "remove" \/ (place[o] = "insert" /\ kind[o] = "rotate")

(* A generated hash is nobody else's and has no row until the INSERT; a row  *)
(* that a call has named, or a hash it has inserted, stays in the table.     *)
HashInv ==
    /\ \A k \in cache : row[k] # "none"
    /\ \A o \in Ops :
          /\ place[o] = "insert" => /\ newKey[o] \in Keys /\ row[newKey[o]] = "none"
                                 /\ \A p \in Ops \ {o} : newKey[p] # newKey[o]
          /\ Joining(o) => newKey[o] \in Keys /\ row[newKey[o]] # "none"
          /\ place[o] \in {"read", "deactivate"} => id[o] \in Keys /\ row[id[o]] # "none"

(* As long as no statement has failed, what is about to be removed from the  *)
(* map is inactive for good, and an active key that the map lacks is about   *)
(* to be added.                                                              *)
CoverInv ==
    failures = 0 =>
        /\ \A o \in Ops : place[o] \in {"read", "deactivate"} => oldKey[o] = id[o]
        /\ \A o \in Ops : Retiring(o) => oldKey[o] \in Keys /\ row[oldKey[o]] = "inactive"
        /\ up => \A k \in Keys : row[k] = "active" =>
                    k \in cache \/ \E o \in Ops : Joining(o) /\ newKey[o] = k

(* Calls that follow one another: only one is under way, nobody deactivates  *)
(* the key it is about to add, and an inactive key in the map is the one it  *)
(* is about to remove.                                                       *)
SerialInv ==
    ~overlapped =>
        /\ \A o, p \in Busy : o = p
        /\ \A o \in Ops : Joining(o) => row[newKey[o]] = "active"
        /\ up /\ failures = 0 =>
              \A k \in cache : row[k] = "active" \/ \E o \in Ops : Retiring(o) /\ oldKey[o] = k

(* No call survives the process. *)
DownInv == ~up => Busy = {}

KeyInv == StoreTypeOK /\ HashInv /\ CoverInv /\ SerialInv /\ DownInv

-----------------------------------------------------------------------------
(* At the start the table and the map are empty and no call is under way. *)
LEMMA KeyInvInit == StoreInit => KeyInv
  <1> SUFFICES ASSUME StoreInit PROVE KeyInv
    OBVIOUS
  <1> USE KeyStoreAssumption DEF StoreInit
  <1>1. up \in BOOLEAN /\ overlapped \in BOOLEAN
    OBVIOUS
  <1>2. StoreTypeOK
    BY <1>1 DEF StoreTypeOK
  <1>3. HashInv /\ CoverInv
    BY DEF HashInv, CoverInv, Joining, Retiring
  <1>4. SerialInv /\ DownInv
    BY DEF SerialInv, DownInv, Busy, Joining
  <1>. QED
    BY <1>2, <1>3, <1>4 DEF KeyInv

(* KeyGenerate makes a hash that nobody has. *)
LEMMA KeyStartGenerateStep ==
  ASSUME KeyInv, NEW o \in Ops, StartGenerate(o)
  PROVE  KeyInv'
  <1> USE KeyStoreAssumption DEF KeyInv, StoreTypeOK, StartGenerate, MayStart, Fresh, Proceed
  <1>1. StoreTypeOK'
    OBVIOUS
  <1>2. HashInv'
    BY DEF HashInv, Joining
  <1>3. CoverInv'
    BY DEF HashInv, CoverInv, Joining, Retiring
  <1>4. SerialInv'
    <2>1. ~overlapped' => ~overlapped /\ Busy = {}
      OBVIOUS
    <2>. QED
      BY <2>1 DEF HashInv, CoverInv, SerialInv, Joining, Retiring, Busy
  <1>5. DownInv'
    BY DEF DownInv, Busy
  <1>. QED
    BY <1>1, <1>2, <1>3, <1>4, <1>5

(* KeyDelete and KeyRotate look up the row they were given. *)
LEMMA KeyLookupStep ==
  ASSUME KeyInv, NEW o \in Ops, Lookup(o)
  PROVE  KeyInv'
  <1> USE KeyStoreAssumption DEF KeyInv, StoreTypeOK, Lookup, MayStart, Proceed, StatementFails
  <1>1. StoreTypeOK'
    OBVIOUS
  <1>2. HashInv'
    BY DEF HashInv, Joining
  <1>3. CoverInv'
    BY DEF HashInv, CoverInv, Joining, Retiring
  <1>4. SerialInv'
    <2>1. ~overlapped' => ~overlapped /\ Busy = {}
      OBVIOUS
    <2>. QED
      BY <2>1 DEF HashInv, CoverInv, SerialInv, Joining, Retiring, Busy
  <1>5. DownInv'
    BY DEF DownInv, Busy
  <1>. QED
    BY <1>1, <1>2, <1>3, <1>4, <1>5

(* The INSERT makes the row before the map hears of the key. *)
LEMMA KeyInsertStep ==
  ASSUME KeyInv, NEW o \in Ops, Insert(o)
  PROVE  KeyInv'
  <1> USE KeyStoreAssumption DEF KeyInv, StoreTypeOK, Insert, Proceed, Return, StatementFails
  <1>1. StoreTypeOK'
    OBVIOUS
  <1>2. HashInv'
    BY DEF HashInv, Joining
  <1>3. CoverInv'
    BY DEF HashInv, CoverInv, Joining, Retiring
  <1>4. SerialInv'
    BY DEF HashInv, CoverInv, SerialInv, Joining, Retiring, Busy
  <1>5. DownInv'
    BY DEF DownInv, Busy
  <1>. QED
    BY <1>1, <1>2, <1>3, <1>4, <1>5

(* What Add puts into the map has its row. *)
LEMMA KeyAddStep ==
  ASSUME KeyInv, NEW o \in Ops, Add(o)
  PROVE  KeyInv'
  <1> USE KeyStoreAssumption DEF KeyInv, StoreTypeOK, Add, Proceed, Return
  <1>1. StoreTypeOK'
    BY DEF HashInv, Joining
  <1>2. HashInv'
    BY DEF HashInv, Joining
  <1>3. CoverInv'
    BY DEF HashInv, CoverInv, Joining, Retiring
  <1>4. SerialInv'
    BY DEF HashInv, CoverInv, SerialInv, Joining, Retiring, Busy
  <1>5. DownInv'
    BY DEF DownInv, Busy
  <1>. QED
    BY <1>1, <1>2, <1>3, <1>4, <1>5

(* A rotation reads the row and changes nothing. *)
LEMMA KeyReadActiveStep ==
  ASSUME KeyInv, NEW o \in Ops, ReadActive(o)
  PROVE  KeyInv'
  <1> USE KeyStoreAssumption DEF KeyInv, StoreTypeOK, ReadActive, Proceed, Return, StatementFails
  <1>1. StoreTypeOK'
    OBVIOUS
  <1>2. HashInv'
    BY DEF HashInv, Joining
  <1>3. CoverInv'
    BY DEF HashInv, CoverInv, Joining, Retiring
  <1>4. SerialInv'
    BY DEF HashInv, CoverInv, SerialInv, Joining, Retiring, Busy
  <1>5. DownInv'
    BY DEF DownInv, Busy
  <1>. QED
    BY <1>1, <1>2, <1>3, <1>4, <1>5

(* The UPDATE takes a key out of the active ones; a rotation generates a hash. *)
LEMMA KeyDeactivateStep ==
  ASSUME KeyInv, NEW o \in Ops, Deactivate(o)
  PROVE  KeyInv'
  <1> USE KeyStoreAssumption DEF KeyInv, StoreTypeOK, Deactivate, Proceed, Return, Fresh, StatementFails
  <1>1. StoreTypeOK'
    OBVIOUS
  <1>2. HashInv'
    BY DEF HashInv, Joining
  <1>3. CoverInv'
    BY DEF HashInv, CoverInv, Joining, Retiring
  <1>4. SerialInv'
    BY DEF HashInv, CoverInv, SerialInv, Joining, Retiring, Busy
  <1>5. DownInv'
    BY DEF DownInv, Busy
  <1>. QED
    BY <1>1, <1>2, <1>3, <1>4, <1>5

(* What Remove takes out of the map is no longer active. *)
LEMMA KeyRemoveStep ==
  ASSUME KeyInv, NEW o \in Ops, Remove(o)
  PROVE  KeyInv'
  <1> USE KeyStoreAssumption DEF KeyInv, StoreTypeOK, Remove, Proceed, Return
  <1>1. StoreTypeOK'
    OBVIOUS
  <1>2. HashInv'
    BY DEF HashInv, Joining
  <1>3. CoverInv'
    BY DEF HashInv, CoverInv, Joining, Retiring
  <1>4. SerialInv'
    BY DEF HashInv, CoverInv, SerialInv, Joining, Retiring, Busy
  <1>5. DownInv'
    BY DEF DownInv, Busy
  <1>. QED
    BY <1>1, <1>2, <1>3, <1>4, <1>5

(* The process stops: neither map nor calls are left. *)
LEMMA KeyStopStep ==
  ASSUME KeyInv, Stop
  PROVE  KeyInv'
  <1> USE KeyStoreAssumption DEF KeyInv, StoreTypeOK, Stop
  <1>1. StoreTypeOK'
    <2>1. up' \in BOOLEAN
      OBVIOUS
    <2>2. restarts' \in 0..MaxRestarts
      OBVIOUS
    <2>. QED
      BY <2>1, <2>2
  <1>2. HashInv' /\ CoverInv'
    BY DEF HashInv, CoverInv, Joining, Retiring
  <1>3. SerialInv' /\ DownInv'
    BY DEF SerialInv, DownInv, Busy, Joining
  <1>. QED
    BY <1>1, <1>2, <1>3

(* The process starts: no call is under way and the map is the table's. *)
LEMMA KeyLoadStep ==
  ASSUME KeyInv, LoadFromDB
  PROVE  KeyInv'
  <1> USE KeyStoreAssumption DEF KeyInv, StoreTypeOK, LoadFromDB, Active, StatementFails, calls
  <1>1. StoreTypeOK'
    OBVIOUS
  <1>2. HashInv'
    BY DEF HashInv, Joining
  <1>3. CoverInv'
    BY DEF CoverInv, Joining, Retiring
  <1>4. SerialInv'
    BY DEF SerialInv, Busy, Joining, Retiring
  <1>5. DownInv'
    BY DEF DownInv
  <1>. QED
    BY <1>1, <1>2, <1>3, <1>4, <1>5

(* Every step of the handlers and of the process keeps the invariant. *)
LEMMA KeyInvStep == KeyInv /\ [StoreNext]_storeVars => KeyInv'
  <1> SUFFICES ASSUME KeyInv, [StoreNext]_storeVars PROVE KeyInv'
    OBVIOUS
  <1>1. ASSUME NEW o \in Ops, StartGenerate(o) \/ Lookup(o) PROVE KeyInv'
    BY <1>1, KeyStartGenerateStep, KeyLookupStep
  <1>2. ASSUME NEW o \in Ops, OpStep(o) PROVE KeyInv'
    BY <1>2, KeyInsertStep, KeyAddStep, KeyReadActiveStep, KeyDeactivateStep, KeyRemoveStep DEF OpStep
  <1>3. CASE Stop \/ LoadFromDB
    BY <1>3, KeyStopStep, KeyLoadStep
  <1>4. CASE UNCHANGED storeVars
    BY <1>4 DEF storeVars, calls, KeyInv, StoreTypeOK, HashInv, CoverInv, SerialInv, DownInv, Busy,
                Joining, Retiring
  <1>. QED
    BY <1>1, <1>2, <1>3, <1>4 DEF StoreNext

-----------------------------------------------------------------------------
(* "Updates go to DB first, then the map": whatever calls overlap, whichever *)
(* statements fail and whenever the process is restarted, the map holds no   *)
(* key that the table has not.                                               *)
THEOREM DatabaseIsFirst == StoreSpec => []DatabaseFirst
  <1>1. KeyInv => DatabaseFirst
    BY DEF KeyInv, HashInv, DatabaseFirst
  <1>. QED
    BY <1>1, KeyInvInit, KeyInvStep, PTL DEF StoreSpec

(* When no statement has failed and no call is under way, every active key   *)
(* is accepted, and after calls that followed one another no other key is.   *)
THEOREM ActiveKeysAreAccepted == StoreSpec => []ActiveKeysAccepted
  <1>1. KeyInv => ActiveKeysAccepted
    <2> SUFFICES ASSUME KeyInv, Settled, failures = 0 PROVE Active \subseteq cache /\ (~overlapped => cache = Active)
      BY DEF ActiveKeysAccepted
    <2>1. \A o \in Ops : ~Joining(o) /\ ~Retiring(o)
      BY DEF Settled, Busy, Joining, Retiring
    <2>2. Active \subseteq cache
      BY <2>1 DEF KeyInv, CoverInv, Settled, Active
    <2>3. ASSUME ~overlapped PROVE cache \subseteq Active
      BY <2>1, <2>3 DEF KeyInv, StoreTypeOK, SerialInv, Settled, Active
    <2>. QED
      BY <2>2, <2>3
  <1>. QED
    BY <1>1, KeyInvInit, KeyInvStep, PTL DEF StoreSpec

=============================================================================
