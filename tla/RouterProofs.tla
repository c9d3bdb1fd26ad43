---------------------------- MODULE RouterProofs ----------------------------
(***************************************************************************)
(* Proofs about Router, for any number of requests and providers, any      *)
(* fallback chain and any retry and cooldown settings.  RouterInv is       *)
(* inductive; TrackersExact and UpstreamBound follow.                      *)
(***************************************************************************)
EXTENDS Router, FiniteSetTheorems, TLAPS

(* Where a request can be on which route, and what its loop variables say    *)
(* there.                                                                    *)
Place(r) ==
    /\ pc[r] \in {"idle", "check", "admitted"} => calls[r] = 0 /\ attempt[r] = 0 /\ pos[r] = 1
    /\ pc[r] = "idle" <=> route[r] = "none"
    /\ pc[r] \in {"check", "admitted", "backoff", "failure", "success"} =>
          route[r] \in {"direct", "global"}
    /\ pc[r] = "call" => route[r] = "direct"
    /\ pc[r] \in {"chain", "member", "alt"} => route[r] \in {"global", "perkey"}
    /\ pc[r] \in {"member", "alt"} => pos[r] <= Len(Chain)
    /\ pc[r] = "alt" => r \in WithAlt \ Streaming
    /\ pc[r] = "backoff" => attempt[r] < MaxRetries
    /\ route[r] = "perkey" => attempt[r] = 0
PlaceInv == \A r \in Requests : Place(r)

(* The calls the current attempt of a request may have made so far. *)
Cost(r, members) == IF r \in WithAlt \ Streaming THEN 2 * members ELSE members
Spent(r) ==
    IF pc[r] \in {"idle", "check", "admitted", "call"} THEN 0
    ELSE IF pc[r] \in {"chain", "member"} THEN Cost(r, pos[r] - 1)
    ELSE IF pc[r] = "alt" THEN Cost(r, pos[r] - 1) + 1
    ELSE PerAttempt(r)

(* Every attempt that is over has cost at most PerAttempt calls. *)
CallsInv == \A r \in Requests : calls[r] <= PerAttempt(r) * attempt[r] + Spent(r)

RouterInv == TypeOK /\ PlaceInv /\ InFlightExact /\ CooldownMatchesFailures /\ CallsInv

-----------------------------------------------------------------------------
(* The chain is a sequence of providers. *)
LEMMA ChainType == Len(Chain) \in Nat /\ \A i \in 1..Len(Chain) : Chain[i] \in Names
  BY RouterAssumption DEF Names

(* The settings of the router. *)
LEMMA Limits == MaxRetries \in Nat /\ Threshold \in Nat \ {0} /\ Period \in Nat /\ MaxTime \in Nat
  BY RouterAssumption

(* A request in the chain stands at one of its members. *)
LEMMA MemberType ==
  ASSUME TypeOK, NEW r \in Requests, pos[r] <= Len(Chain)
  PROVE  Member(r) \in Names
  BY ChainType DEF TypeOK, Member

(* The calls of an attempt, in terms of the members of the chain. *)
LEMMA Bounds ==
  ASSUME TypeOK, NEW r \in Requests
  PROVE  /\ route[r] # "direct" => PerAttempt(r) = Cost(r, Len(Chain))
         /\ route[r] = "direct" => PerAttempt(r) = 1
         /\ PerAttempt(r) \in Nat
  BY ChainType DEF TypeOK, Cost, PerAttempt

(* The same after a step. *)
LEMMA BoundsAfter ==
  ASSUME TypeOK', NEW r \in Requests
  PROVE  /\ route'[r] # "direct" => PerAttempt(r)' = Cost(r, Len(Chain))
         /\ route'[r] = "direct" => PerAttempt(r)' = 1
         /\ PerAttempt(r)' \in Nat
  BY ChainType DEF TypeOK, Cost, PerAttempt

(* Another member costs at least one more call, two with a larger model. *)
LEMMA CostGrows ==
  ASSUME NEW r, NEW m \in Nat \ {0}
  PROVE  /\ Cost(r, m - 1) + 1 <= Cost(r, m + 1 - 1)
         /\ r \in WithAlt \ Streaming => Cost(r, m - 1) + 2 <= Cost(r, m + 1 - 1)
         /\ Cost(r, m - 1) \in Nat
  BY DEF Cost

(* Where a request can be. *)
Places == {"idle", "check", "admitted", "call", "backoff", "chain", "member", "alt", "failure",
           "success", "leaving", "returned"}

(* What a request can have come to. *)
Answers == {"none", "ok", "error", "cooldown", "panic"}

(* What Spent is worth where a request can be. *)
LEMMA SpentType ==
  ASSUME TypeOK, NEW r \in Requests
  PROVE  /\ Spent(r) \in Nat
         /\ pc[r] \in {"idle", "check", "admitted", "call"} => Spent(r) = 0
         /\ pc[r] \in {"chain", "member"} => Spent(r) = Cost(r, pos[r] - 1)
         /\ pc[r] = "alt" => Spent(r) = Cost(r, pos[r] - 1) + 1
         /\ pc[r] \in {"backoff", "failure", "success", "leaving", "returned"} =>
               Spent(r) = PerAttempt(r)
  <1>1. pc[r] \in Places /\ pos[r] \in 1..(Len(Chain) + 1)
    BY DEF TypeOK, Places
  <1>. QED
    BY <1>1, Bounds, ChainType DEF Spent, Cost, Places

(* Spent after a step. *)
LEMMA SpentTypeAfter ==
  ASSUME TypeOK', NEW r \in Requests
  PROVE  /\ Spent(r)' \in Nat
         /\ pc'[r] \in {"idle", "check", "admitted", "call"} => Spent(r)' = 0
         /\ pc'[r] \in {"chain", "member"} => Spent(r)' = Cost(r, pos'[r] - 1)
         /\ pc'[r] = "alt" => Spent(r)' = Cost(r, pos'[r] - 1) + 1
         /\ pc'[r] \in {"backoff", "failure", "success", "leaving", "returned"} =>
               Spent(r)' = PerAttempt(r)'
  <1>1. pc'[r] \in Places /\ pos'[r] \in 1..(Len(Chain) + 1)
    BY DEF TypeOK, Places
  <1>. QED
    BY <1>1, BoundsAfter, ChainType DEF Spent, Cost, Places

(* Products grow with their factors. *)
LEMMA Product ==
  ASSUME NEW a \in Nat, NEW m \in Nat, NEW n \in Nat, m <= n
  PROVE  a * m <= a * n /\ a * m \in Nat /\ a * (m + 1) = a * m + a
  OBVIOUS

(* Nothing is under way and nothing has been recorded at the start. *)
LEMMA InvInit == Init => RouterInv
  <1> SUFFICES ASSUME Init PROVE RouterInv
    OBVIOUS
  <1> USE RouterAssumption, ChainType DEF Init
  <1>1. TypeOK
    BY DEF TypeOK, Names, Kinds
  <1>2. PlaceInv
    BY DEF PlaceInv, Place
  <1>3. InFlightExact
    <2>1. \A p \in Names : Busy(p) = {}
      BY DEF Busy
    <2>. QED
      BY <2>1, FS_EmptySet DEF InFlightExact
  <1>4. CooldownMatchesFailures
    BY DEF CooldownMatchesFailures
  <1>5. CallsInv
    BY <1>1, Bounds DEF CallsInv, Spent
  <1>. QED
    BY <1>1, <1>2, <1>3, <1>4, <1>5 DEF RouterInv

-----------------------------------------------------------------------------
(* A step that moves no request into or out of the tracked section. *)
LEMMA FlightFrame ==
  ASSUME RouterInv, \A p \in Names : Busy(p)' = Busy(p), inFlight' = inFlight
  PROVE  InFlightExact'
  BY DEF RouterInv, InFlightExact

(* A failure sets count and cooldown together. *)
LEMMA FailureKeeps ==
  ASSUME TypeOK, CooldownMatchesFailures, NEW p \in Names, RecordFailure(p)
  PROVE  /\ failures' \in [Names -> Nat] /\ cooldownUntil' \in [Names -> Int]
         /\ \A n \in Names : cooldownUntil'[n] \in {-1} \cup (0..(now + Period))
         /\ CooldownMatchesFailures'
  <1> USE Limits DEF TypeOK, RecordFailure
  <1>1. failures' \in [Names -> Nat] /\ cooldownUntil' \in [Names -> Int]
    OBVIOUS
  <1>2. \A n \in Names : cooldownUntil'[n] \in {-1} \cup (0..(now + Period))
    OBVIOUS
  <1>3. CooldownMatchesFailures'
    BY <1>1 DEF CooldownMatchesFailures
  <1>. QED
    BY <1>1, <1>2, <1>3

(* A success clears both. *)
LEMMA SuccessKeeps ==
  ASSUME TypeOK, CooldownMatchesFailures, NEW p \in Names, RecordSuccess(p)
  PROVE  /\ failures' \in [Names -> Nat] /\ cooldownUntil' \in [Names -> Int]
         /\ \A n \in Names : cooldownUntil'[n] \in {-1} \cup (0..(now + Period))
         /\ CooldownMatchesFailures'
  <1> USE Limits DEF TypeOK, RecordSuccess
  <1>1. failures' \in [Names -> Nat] /\ cooldownUntil' \in [Names -> Int]
    OBVIOUS
  <1>2. \A n \in Names : cooldownUntil'[n] \in {-1} \cup (0..(now + Period))
    OBVIOUS
  <1>3. CooldownMatchesFailures'
    BY <1>1 DEF CooldownMatchesFailures
  <1>. QED
    BY <1>1, <1>2, <1>3

(* What the other requests look like after a step of request r. *)
OthersStay(r) ==
    \A s \in Requests \ {r} : /\ calls'[s] = calls[s] /\ attempt'[s] = attempt[s]
                              /\ route'[s] = route[s] /\ pc'[s] = pc[s] /\ pos'[s] = pos[s]

(* A step that moves a request, its chain and its answer about keeps the     *)
(* types if the new values have them.                                        *)
LEMMA TypeFrame ==
  ASSUME TypeOK, pc' \in [Requests -> Places], calls' \in [Requests -> Nat],
         answer' \in [Requests -> Answers], pos' \in [Requests -> 1..(Len(Chain) + 1)],
         lastErr' \in [Requests -> Kinds],
         failures' \in [Names -> Nat], cooldownUntil' \in [Names -> Int],
         \A n \in Names : cooldownUntil'[n] \in {-1} \cup (0..(now + Period)),
         UNCHANGED <<now, inFlight, route, target, attempt>>
  PROVE  TypeOK'
  BY DEF TypeOK, Places, Answers

(* A step of one request leaves the places of the others. *)
LEMMA PlaceFrame ==
  ASSUME PlaceInv, NEW r \in Requests, OthersStay(r), Place(r)'
  PROVE  PlaceInv'
  <1> SUFFICES ASSUME NEW s \in Requests PROVE Place(s)'
    BY DEF PlaceInv
  <1>1. CASE s = r
    BY <1>1
  <1>2. CASE s # r
    BY <1>2 DEF PlaceInv, Place, OthersStay
  <1>. QED
    BY <1>1, <1>2

(* A step of one request leaves the bound of the others. *)
LEMMA CallsFrame ==
  ASSUME CallsInv, NEW r \in Requests, OthersStay(r),
         calls'[r] <= PerAttempt(r)' * attempt'[r] + Spent(r)'
  PROVE  CallsInv'
  BY DEF CallsInv, OthersStay, Spent, PerAttempt

(* Within an attempt the calls grow no faster than Spent. *)
LEMMA CallsMove ==
  ASSUME RouterInv, NEW r \in Requests, OthersStay(r), TypeOK',
         route'[r] = route[r], attempt'[r] = attempt[r],
         Spent(r) \in Nat, Spent(r)' \in Nat, calls'[r] + Spent(r) <= calls[r] + Spent(r)'
  PROVE  CallsInv'
  <1>1. PerAttempt(r)' = PerAttempt(r)
    BY DEF PerAttempt
  <1> DEFINE x == PerAttempt(r) * attempt[r]
  <1>2. x \in Nat
    <2>1. TypeOK /\ attempt[r] \in 0..MaxRetries
      BY DEF RouterInv, TypeOK
    <2>2. PerAttempt(r) \in Nat /\ attempt[r] \in Nat
      BY <2>1, Bounds, Limits
    <2>. QED
      BY <2>2, Product
  <1>3. calls[r] <= x + Spent(r)
    BY DEF RouterInv, CallsInv
  <1>4. calls[r] \in Nat /\ calls'[r] \in Nat
    BY DEF RouterInv, TypeOK
  <1> HIDE DEF x
  <1>5. calls'[r] <= x + Spent(r)'
    BY <1>2, <1>3, <1>4
  <1>. QED
    BY <1>1, <1>5, CallsFrame DEF x, RouterInv

-----------------------------------------------------------------------------
(* The cooldown is checked once, before anything is counted. *)
LEMMA CheckCooldownStep ==
  ASSUME RouterInv, NEW r \in Requests, CheckCooldown(r)
  PROVE  RouterInv'
  <1> USE DEF CheckCooldown, Goto, trackers
  <1>1. TypeOK /\ PlaceInv /\ CooldownMatchesFailures
    BY DEF RouterInv
  <1>2. Place(r)
    BY <1>1 DEF PlaceInv
  <1>4. CooldownMatchesFailures'
    BY <1>1 DEF CooldownMatchesFailures
  <1>5. TypeOK'
    <2>1. pc' \in [Requests -> Places]
      <3>1. \E l \in {"admitted", "returned"} : pc' = [pc EXCEPT ![r] = l]
        OBVIOUS
      <3>. QED
        BY <1>1, <3>1 DEF TypeOK, Places
    <2>2. calls' \in [Requests -> Nat]
      BY <1>1 DEF TypeOK
    <2>3. answer' \in [Requests -> Answers]
      BY <1>1 DEF TypeOK, Answers
    <2>4. pos' \in [Requests -> 1..(Len(Chain) + 1)]
      BY <1>1 DEF TypeOK
    <2>5. lastErr' \in [Requests -> Kinds]
      BY <1>1 DEF TypeOK
    <2>6. /\ failures' \in [Names -> Nat] /\ cooldownUntil' \in [Names -> Int]
          /\ \A n \in Names : cooldownUntil'[n] \in {-1} \cup (0..(now + Period))
      BY <1>1 DEF TypeOK
    <2>. QED
      BY <1>1, <2>1, <2>2, <2>3, <2>4, <2>5, <2>6, TypeFrame
  <1>6. PlaceInv'
    <2>1. OthersStay(r)
      BY <1>1 DEF TypeOK, OthersStay
    <2>2. Place(r)'
      BY <1>1, <1>2 DEF TypeOK, Place
    <2>. QED
      BY <1>1, <2>1, <2>2, PlaceFrame
  <1>7. InFlightExact'
    <2>1. \A p \in Names : Busy(p)' = Busy(p)
      BY <1>1, <1>2 DEF TypeOK, Busy, Place
    <2>. QED
      BY <2>1, FlightFrame
  <1>8. CallsInv'
    <2>1. OthersStay(r) /\ route'[r] = route[r] /\ attempt'[r] = attempt[r]
      BY <1>1 DEF TypeOK, OthersStay
    <2>2. Spent(r) \in Nat /\ Spent(r)' \in Nat
      BY <1>1, <1>5, SpentType, SpentTypeAfter
    <2>3. calls[r] \in Nat /\ pos[r] \in 1..(Len(Chain) + 1)
      BY <1>1 DEF TypeOK
    <2>4. /\ pc[r] = "check"
          /\ pc'[r] \in {"admitted", "returned"}
          /\ calls'[r] = calls[r]
      BY <1>1 DEF TypeOK
    <2>5. calls'[r] + Spent(r) <= calls[r] + Spent(r)'
      <3> HIDE DEF CheckCooldown, Goto, trackers
      <3>1. Spent(r) = 0
        BY <1>1, <2>4, SpentType
      <3>. QED
        BY <2>2, <2>3, <2>4, <3>1, ChainType DEF Cost
    <2>. QED
      BY <1>5, <2>1, <2>2, <2>5, CallsMove
  <1>. QED
    BY <1>4, <1>5, <1>6, <1>7, <1>8 DEF RouterInv

(* The context ends during the delay. *)
LEMMA BackoffCtxDoneStep ==
  ASSUME RouterInv, NEW r \in Requests, BackoffCtxDone(r)
  PROVE  RouterInv'
  <1> USE DEF BackoffCtxDone, Goto, trackers
  <1>1. TypeOK /\ PlaceInv /\ CooldownMatchesFailures
    BY DEF RouterInv
  <1>2. Place(r)
    BY <1>1 DEF PlaceInv
  <1>4. CooldownMatchesFailures'
    BY <1>1 DEF CooldownMatchesFailures
  <1>5. TypeOK'
    <2>1. pc' \in [Requests -> Places]
      BY <1>1 DEF TypeOK, Places
    <2>2. calls' \in [Requests -> Nat]
      BY <1>1 DEF TypeOK
    <2>3. answer' \in [Requests -> Answers]
      BY <1>1 DEF TypeOK, Answers
    <2>4. pos' \in [Requests -> 1..(Len(Chain) + 1)]
      BY <1>1 DEF TypeOK
    <2>5. lastErr' \in [Requests -> Kinds]
      BY <1>1 DEF TypeOK
    <2>6. /\ failures' \in [Names -> Nat] /\ cooldownUntil' \in [Names -> Int]
          /\ \A n \in Names : cooldownUntil'[n] \in {-1} \cup (0..(now + Period))
      BY <1>1 DEF TypeOK
    <2>. QED
      BY <1>1, <2>1, <2>2, <2>3, <2>4, <2>5, <2>6, TypeFrame
  <1>6. PlaceInv'
    <2>1. OthersStay(r)
      BY <1>1 DEF TypeOK, OthersStay
    <2>2. Place(r)'
      BY <1>1, <1>2 DEF TypeOK, Place
    <2>. QED
      BY <1>1, <2>1, <2>2, PlaceFrame
  <1>7. InFlightExact'
    <2>1. \A p \in Names : Busy(p)' = Busy(p)
      BY <1>1, <1>2 DEF TypeOK, Busy, Place
    <2>. QED
      BY <2>1, FlightFrame
  <1>8. CallsInv'
    <2>1. OthersStay(r) /\ route'[r] = route[r] /\ attempt'[r] = attempt[r]
      BY <1>1 DEF TypeOK, OthersStay
    <2>2. Spent(r) \in Nat /\ Spent(r)' \in Nat
      BY <1>1, <1>5, SpentType, SpentTypeAfter
    <2>3. calls[r] \in Nat /\ pos[r] \in 1..(Len(Chain) + 1)
      BY <1>1 DEF TypeOK
    <2>4. /\ pc[r] = "backoff"
          /\ pc'[r] = "failure"
          /\ calls'[r] = calls[r]
      BY <1>1 DEF TypeOK
    <2>5. calls'[r] + Spent(r) <= calls[r] + Spent(r)'
      <3> HIDE DEF BackoffCtxDone, Goto, trackers
      <3>1. Spent(r) = PerAttempt(r)
        BY <1>1, <2>4, SpentType
      <3>2. Spent(r)' = PerAttempt(r)'
        BY <1>5, <2>4, SpentTypeAfter
      <3>4. PerAttempt(r)' = PerAttempt(r)
        BY <2>1 DEF PerAttempt
      <3>. QED
        BY <2>2, <2>3, <2>4, <3>1, <3>2, <3>4, ChainType DEF Cost
    <2>. QED
      BY <1>5, <2>1, <2>2, <2>5, CallsMove
  <1>. QED
    BY <1>4, <1>5, <1>6, <1>7, <1>8 DEF RouterInv

(* A member in cooldown is passed over. *)
LEMMA ChainSkipStep ==
  ASSUME RouterInv, NEW r \in Requests, ChainSkip(r)
  PROVE  RouterInv'
  <1> USE DEF ChainSkip, Goto, trackers, InChain
  <1>1. TypeOK /\ PlaceInv /\ CooldownMatchesFailures
    BY DEF RouterInv
  <1>2. Place(r)
    BY <1>1 DEF PlaceInv
  <1>4. CooldownMatchesFailures'
    BY <1>1 DEF CooldownMatchesFailures
  <1>5. TypeOK'
    <2>1. pc' \in [Requests -> Places]
      BY <1>1 DEF TypeOK, Places
    <2>2. calls' \in [Requests -> Nat]
      BY <1>1 DEF TypeOK
    <2>3. answer' \in [Requests -> Answers]
      BY <1>1 DEF TypeOK, Answers
    <2>4. pos' \in [Requests -> 1..(Len(Chain) + 1)]
      BY <1>1 DEF TypeOK
    <2>5. lastErr' \in [Requests -> Kinds]
      BY <1>1 DEF TypeOK
    <2>6. /\ failures' \in [Names -> Nat] /\ cooldownUntil' \in [Names -> Int]
          /\ \A n \in Names : cooldownUntil'[n] \in {-1} \cup (0..(now + Period))
      BY <1>1 DEF TypeOK
    <2>. QED
      BY <1>1, <2>1, <2>2, <2>3, <2>4, <2>5, <2>6, TypeFrame
  <1>6. PlaceInv'
    <2>1. OthersStay(r)
      BY <1>1 DEF TypeOK, OthersStay
    <2>2. Place(r)'
      BY <1>1, <1>2 DEF TypeOK, Place
    <2>. QED
      BY <1>1, <2>1, <2>2, PlaceFrame
  <1>7. InFlightExact'
    <2>1. \A p \in Names : Busy(p)' = Busy(p)
      BY <1>1, <1>2 DEF TypeOK, Busy, Place
    <2>. QED
      BY <2>1, FlightFrame
  <1>8. CallsInv'
    <2>1. OthersStay(r) /\ route'[r] = route[r] /\ attempt'[r] = attempt[r]
      BY <1>1 DEF TypeOK, OthersStay
    <2>2. Spent(r) \in Nat /\ Spent(r)' \in Nat
      BY <1>1, <1>5, SpentType, SpentTypeAfter
    <2>3. calls[r] \in Nat /\ pos[r] \in 1..(Len(Chain) + 1)
      BY <1>1 DEF TypeOK
    <2>4. /\ pc[r] = "chain"
          /\ pc'[r] = "chain"
          /\ pos'[r] = pos[r] + 1
          /\ calls'[r] = calls[r]
      BY <1>1 DEF TypeOK
    <2>5. calls'[r] + Spent(r) <= calls[r] + Spent(r)'
      <3> HIDE DEF ChainSkip, Goto, trackers, InChain
      <3>1. Spent(r) = Cost(r, pos[r] - 1)
        BY <1>1, <2>4, SpentType
      <3>2. Spent(r)' = Cost(r, pos'[r] - 1)
        BY <1>5, <2>4, SpentTypeAfter
      <3>3. Cost(r, pos[r] - 1) + 1 <= Cost(r, pos'[r] - 1) /\ Cost(r, pos[r] - 1) \in Nat
        <4>1. pos[r] \in Nat \ {0}
          BY <2>3, ChainType
        <4>. QED
          BY <2>4, <4>1, CostGrows
      <3>4. calls'[r] = calls[r]
        BY <2>4
      <3>. QED
        BY <2>2, <2>3, <3>1, <3>2, <3>3, <3>4
    <2>. QED
      BY <1>5, <2>1, <2>2, <2>5, CallsMove
  <1>. QED
    BY <1>4, <1>5, <1>6, <1>7, <1>8 DEF RouterInv

(* The next member of the chain is called. *)
LEMMA ChainTryStep ==
  ASSUME RouterInv, NEW r \in Requests, ChainTry(r)
  PROVE  RouterInv'
  <1> USE DEF ChainTry, Goto, trackers, InChain
  <1>1. TypeOK /\ PlaceInv /\ CooldownMatchesFailures
    BY DEF RouterInv
  <1>2. Place(r)
    BY <1>1 DEF PlaceInv
  <1>4. CooldownMatchesFailures'
    BY <1>1 DEF CooldownMatchesFailures
  <1>5. TypeOK'
    <2>1. pc' \in [Requests -> Places]
      BY <1>1 DEF TypeOK, Places
    <2>2. calls' \in [Requests -> Nat]
      BY <1>1 DEF TypeOK
    <2>3. answer' \in [Requests -> Answers]
      BY <1>1 DEF TypeOK, Answers
    <2>4. pos' \in [Requests -> 1..(Len(Chain) + 1)]
      BY <1>1 DEF TypeOK
    <2>5. lastErr' \in [Requests -> Kinds]
      BY <1>1 DEF TypeOK
    <2>6. /\ failures' \in [Names -> Nat] /\ cooldownUntil' \in [Names -> Int]
          /\ \A n \in Names : cooldownUntil'[n] \in {-1} \cup (0..(now + Period))
      BY <1>1 DEF TypeOK
    <2>. QED
      BY <1>1, <2>1, <2>2, <2>3, <2>4, <2>5, <2>6, TypeFrame
  <1>6. PlaceInv'
    <2>1. OthersStay(r)
      BY <1>1 DEF TypeOK, OthersStay
    <2>2. Place(r)'
      BY <1>1, <1>2 DEF TypeOK, Place
    <2>. QED
      BY <1>1, <2>1, <2>2, PlaceFrame
  <1>7. InFlightExact'
    <2>1. \A p \in Names : Busy(p)' = Busy(p)
      BY <1>1, <1>2 DEF TypeOK, Busy, Place
    <2>. QED
      BY <2>1, FlightFrame
  <1>8. CallsInv'
    <2>1. OthersStay(r) /\ route'[r] = route[r] /\ attempt'[r] = attempt[r]
      BY <1>1 DEF TypeOK, OthersStay
    <2>2. Spent(r) \in Nat /\ Spent(r)' \in Nat
      BY <1>1, <1>5, SpentType, SpentTypeAfter
    <2>3. calls[r] \in Nat /\ pos[r] \in 1..(Len(Chain) + 1)
      BY <1>1 DEF TypeOK
    <2>4. /\ pc[r] = "chain"
          /\ pc'[r] = "member"
          /\ pos'[r] = pos[r]
          /\ calls'[r] = calls[r]
      BY <1>1 DEF TypeOK
    <2>5. calls'[r] + Spent(r) <= calls[r] + Spent(r)'
      <3> HIDE DEF ChainTry, Goto, trackers, InChain
      <3>1. Spent(r) = Cost(r, pos[r] - 1)
        BY <1>1, <2>4, SpentType
      <3>2. Spent(r)' = Cost(r, pos'[r] - 1)
        BY <1>5, <2>4, SpentTypeAfter
      <3>. QED
        BY <2>2, <2>3, <2>4, <3>1, <3>2, ChainType DEF Cost
    <2>. QED
      BY <1>5, <2>1, <2>2, <2>5, CallsMove
  <1>. QED
    BY <1>4, <1>5, <1>6, <1>7, <1>8 DEF RouterInv

(* The provider answers or fails. *)
LEMMA CallReturnsStep ==
  ASSUME RouterInv, NEW r \in Requests, CallReturns(r)
  PROVE  RouterInv'
  <1> USE DEF CallReturns, Goto, trackers, Called, AfterFailure, IsRetryable, Kinds
  <1>1. TypeOK /\ PlaceInv /\ CooldownMatchesFailures
    BY DEF RouterInv
  <1>2. Place(r)
    BY <1>1 DEF PlaceInv
  <1>4. CooldownMatchesFailures'
    BY <1>1 DEF CooldownMatchesFailures
  <1>5. TypeOK'
    <2>1. pc' \in [Requests -> Places]
      <3>1. \E l \in {"success", "leaving", "backoff", "failure"} : pc' = [pc EXCEPT ![r] = l]
        OBVIOUS
      <3>. QED
        BY <1>1, <3>1 DEF TypeOK, Places
    <2>2. calls' \in [Requests -> Nat]
      BY <1>1 DEF TypeOK
    <2>3. answer' \in [Requests -> Answers]
      BY <1>1 DEF TypeOK, Answers
    <2>4. pos' \in [Requests -> 1..(Len(Chain) + 1)]
      BY <1>1 DEF TypeOK
    <2>5. lastErr' \in [Requests -> Kinds]
      BY <1>1 DEF TypeOK
    <2>6. /\ failures' \in [Names -> Nat] /\ cooldownUntil' \in [Names -> Int]
          /\ \A n \in Names : cooldownUntil'[n] \in {-1} \cup (0..(now + Period))
      BY <1>1 DEF TypeOK
    <2>. QED
      BY <1>1, <2>1, <2>2, <2>3, <2>4, <2>5, <2>6, TypeFrame
  <1>6. PlaceInv'
    <2>1. OthersStay(r)
      BY <1>1 DEF TypeOK, OthersStay
    <2>2. Place(r)'
      BY <1>1, <1>2 DEF TypeOK, Place
    <2>. QED
      BY <1>1, <2>1, <2>2, PlaceFrame
  <1>7. InFlightExact'
    <2>1. \A p \in Names : Busy(p)' = Busy(p)
      BY <1>1, <1>2 DEF TypeOK, Busy, Place
    <2>. QED
      BY <2>1, FlightFrame
  <1>8. CallsInv'
    <2>1. OthersStay(r) /\ route'[r] = route[r] /\ attempt'[r] = attempt[r]
      BY <1>1 DEF TypeOK, OthersStay
    <2>2. Spent(r) \in Nat /\ Spent(r)' \in Nat
      BY <1>1, <1>5, SpentType, SpentTypeAfter
    <2>3. calls[r] \in Nat /\ pos[r] \in 1..(Len(Chain) + 1)
      BY <1>1 DEF TypeOK
    <2>4. /\ pc[r] = "call"
          /\ pc'[r] \in {"success", "backoff", "failure", "leaving"}
          /\ calls'[r] = calls[r] + 1
      BY <1>1 DEF TypeOK
    <2>5. calls'[r] + Spent(r) <= calls[r] + Spent(r)'
      <3> HIDE DEF CallReturns, Goto, trackers, Called, AfterFailure, IsRetryable, Kinds
      <3>1. Spent(r) = 0
        BY <1>1, <2>4, SpentType
      <3>2. Spent(r)' = PerAttempt(r)'
        BY <1>5, <2>4, SpentTypeAfter
      <3>3. route[r] = "direct"
        BY <1>2, <2>4 DEF Place
      <3>4. PerAttempt(r)' = 1
        BY <1>5, <2>1, <3>3, BoundsAfter
      <3>. QED
        BY <2>2, <2>3, <2>4, <3>1, <3>2, <3>3, <3>4, ChainType DEF Cost
    <2>. QED
      BY <1>5, <2>1, <2>2, <2>5, CallsMove
  <1>. QED
    BY <1>4, <1>5, <1>6, <1>7, <1>8 DEF RouterInv

(* A panic leaves by the deferred Decrement. *)
LEMMA CallPanicsStep ==
  ASSUME RouterInv, NEW r \in Requests, CallPanics(r)
  PROVE  RouterInv'
  <1> USE DEF CallPanics, Goto, trackers, Called
  <1>1. TypeOK /\ PlaceInv /\ CooldownMatchesFailures
    BY DEF RouterInv
  <1>2. Place(r)
    BY <1>1 DEF PlaceInv
  <1>4. CooldownMatchesFailures'
    BY <1>1 DEF CooldownMatchesFailures
  <1>5. TypeOK'
    <2>1. pc' \in [Requests -> Places]
      BY <1>1 DEF TypeOK, Places
    <2>2. calls' \in [Requests -> Nat]
      BY <1>1 DEF TypeOK
    <2>3. answer' \in [Requests -> Answers]
      BY <1>1 DEF TypeOK, Answers
    <2>4. pos' \in [Requests -> 1..(Len(Chain) + 1)]
      BY <1>1 DEF TypeOK
    <2>5. lastErr' \in [Requests -> Kinds]
      BY <1>1 DEF TypeOK
    <2>6. /\ failures' \in [Names -> Nat] /\ cooldownUntil' \in [Names -> Int]
          /\ \A n \in Names : cooldownUntil'[n] \in {-1} \cup (0..(now + Period))
      BY <1>1 DEF TypeOK
    <2>. QED
      BY <1>1, <2>1, <2>2, <2>3, <2>4, <2>5, <2>6, TypeFrame
  <1>6. PlaceInv'
    <2>1. OthersStay(r)
      BY <1>1 DEF TypeOK, OthersStay
    <2>2. Place(r)'
      BY <1>1, <1>2 DEF TypeOK, Place
    <2>. QED
      BY <1>1, <2>1, <2>2, PlaceFrame
  <1>7. InFlightExact'
    <2>1. \A p \in Names : Busy(p)' = Busy(p)
      BY <1>1, <1>2 DEF TypeOK, Busy, Place
    <2>. QED
      BY <2>1, FlightFrame
  <1>8. CallsInv'
    <2>1. OthersStay(r) /\ route'[r] = route[r] /\ attempt'[r] = attempt[r]
      BY <1>1 DEF TypeOK, OthersStay
    <2>2. Spent(r) \in Nat /\ Spent(r)' \in Nat
      BY <1>1, <1>5, SpentType, SpentTypeAfter
    <2>3. calls[r] \in Nat /\ pos[r] \in 1..(Len(Chain) + 1)
      BY <1>1 DEF TypeOK
    <2>4. /\ pc[r] \in {"call", "member", "alt"}
          /\ pc'[r] = "leaving"
          /\ pos'[r] = pos[r]
          /\ calls'[r] = calls[r] + 1
      BY <1>1 DEF TypeOK
    <2>5. calls'[r] + Spent(r) <= calls[r] + Spent(r)'
      <3> HIDE DEF CallPanics, Goto, trackers, Called
      <3>1. CASE pc[r] = "call"
        <4>1. Spent(r) = 0
          BY <1>1, <2>4, <3>1, SpentType
        <4>2. Spent(r)' = PerAttempt(r)'
          BY <1>5, <2>4, <3>1, SpentTypeAfter
        <4>3. route[r] = "direct"
          BY <1>2, <2>4, <3>1 DEF Place
        <4>4. PerAttempt(r)' = 1
          BY <1>5, <2>1, <4>3, BoundsAfter
        <4>. QED
          BY <2>2, <2>3, <2>4, <4>1, <4>2, <4>3, <4>4, <3>1, ChainType DEF Cost
      <3>2. CASE pc[r] = "member"
        <4>1. Spent(r) = Cost(r, pos[r] - 1)
          BY <1>1, <2>4, <3>2, SpentType
        <4>2. Spent(r)' = PerAttempt(r)'
          BY <1>5, <2>4, <3>2, SpentTypeAfter
        <4>3. route[r] # "direct" /\ pos[r] <= Len(Chain)
          BY <1>2, <2>4, <3>2 DEF Place
        <4>4. PerAttempt(r)' = Cost(r, Len(Chain))
          BY <1>5, <2>1, <4>3, BoundsAfter
        <4>. QED
          BY <2>2, <2>3, <2>4, <4>1, <4>2, <4>3, <4>4, <3>2, ChainType DEF Cost
      <3>3. CASE pc[r] = "alt"
        <4>1. Spent(r) = Cost(r, pos[r] - 1) + 1
          BY <1>1, <2>4, <3>3, SpentType
        <4>2. Spent(r)' = PerAttempt(r)'
          BY <1>5, <2>4, <3>3, SpentTypeAfter
        <4>3. route[r] # "direct" /\ pos[r] <= Len(Chain) /\ r \in WithAlt \ Streaming
          BY <1>2, <2>4, <3>3 DEF Place
        <4>4. PerAttempt(r)' = Cost(r, Len(Chain))
          BY <1>5, <2>1, <4>3, BoundsAfter
        <4>. QED
          BY <2>2, <2>3, <2>4, <4>1, <4>2, <4>3, <4>4, <3>3, ChainType DEF Cost
      <3>. QED
        BY <2>4, <3>1, <3>2, <3>3
    <2>. QED
      BY <1>5, <2>1, <2>2, <2>5, CallsMove
  <1>. QED
    BY <1>4, <1>5, <1>6, <1>7, <1>8 DEF RouterInv

(* A member of the chain answers. *)
LEMMA MemberAnswersStep ==
  ASSUME RouterInv, NEW r \in Requests, MemberAnswers(r)
  PROVE  RouterInv'
  <1> USE DEF MemberAnswers, Goto, trackers, Called, AfterSuccess
  <1>1. TypeOK /\ PlaceInv /\ CooldownMatchesFailures
    BY DEF RouterInv
  <1>2. Place(r)
    BY <1>1 DEF PlaceInv
  <1>3. Member(r) \in Names
    BY <1>1, <1>2, MemberType DEF Place
  <1>4. /\ failures' \in [Names -> Nat] /\ cooldownUntil' \in [Names -> Int]
        /\ \A n \in Names : cooldownUntil'[n] \in {-1} \cup (0..(now + Period))
        /\ CooldownMatchesFailures'
    BY <1>1, <1>3, SuccessKeeps
  <1>5. TypeOK'
    <2>1. pc' \in [Requests -> Places]
      BY <1>1 DEF TypeOK, Places
    <2>2. calls' \in [Requests -> Nat]
      BY <1>1 DEF TypeOK
    <2>3. answer' \in [Requests -> Answers]
      BY <1>1 DEF TypeOK, Answers
    <2>4. pos' \in [Requests -> 1..(Len(Chain) + 1)]
      BY <1>1 DEF TypeOK
    <2>5. lastErr' \in [Requests -> Kinds]
      BY <1>1 DEF TypeOK
    <2>. QED
      BY <1>1, <1>4, <2>1, <2>2, <2>3, <2>4, <2>5, TypeFrame
  <1>6. PlaceInv'
    <2>1. OthersStay(r)
      BY <1>1 DEF TypeOK, OthersStay
    <2>2. Place(r)'
      BY <1>1, <1>2 DEF TypeOK, Place
    <2>. QED
      BY <1>1, <2>1, <2>2, PlaceFrame
  <1>7. InFlightExact'
    <2>1. \A p \in Names : Busy(p)' = Busy(p)
      BY <1>1, <1>2 DEF TypeOK, Busy, Place
    <2>. QED
      BY <2>1, FlightFrame
  <1>8. CallsInv'
    <2>1. OthersStay(r) /\ route'[r] = route[r] /\ attempt'[r] = attempt[r]
      BY <1>1 DEF TypeOK, OthersStay
    <2>2. Spent(r) \in Nat /\ Spent(r)' \in Nat
      BY <1>1, <1>5, SpentType, SpentTypeAfter
    <2>3. calls[r] \in Nat /\ pos[r] \in 1..(Len(Chain) + 1)
      BY <1>1 DEF TypeOK
    <2>4. /\ pc[r] = "member"
          /\ pc'[r] \in {"success", "leaving"}
          /\ pos'[r] = pos[r]
          /\ calls'[r] = calls[r] + 1
      BY <1>1 DEF TypeOK
    <2>5. calls'[r] + Spent(r) <= calls[r] + Spent(r)'
      <3> HIDE DEF MemberAnswers, Goto, trackers, Called, AfterSuccess
      <3>1. Spent(r) = Cost(r, pos[r] - 1)
        BY <1>1, <2>4, SpentType
      <3>2. Spent(r)' = PerAttempt(r)'
        BY <1>5, <2>4, SpentTypeAfter
      <3>3. route[r] # "direct" /\ pos[r] <= Len(Chain)
        BY <1>2, <2>4 DEF Place
      <3>4. PerAttempt(r)' = Cost(r, Len(Chain))
        BY <1>5, <2>1, <3>3, BoundsAfter
      <3>. QED
        BY <2>2, <2>3, <2>4, <3>1, <3>2, <3>3, <3>4, ChainType DEF Cost
    <2>. QED
      BY <1>5, <2>1, <2>2, <2>5, CallsMove
  <1>. QED
    BY <1>4, <1>5, <1>6, <1>7, <1>8 DEF RouterInv

(* A member of the chain fails. *)
LEMMA MemberFailsStep ==
  ASSUME RouterInv, NEW r \in Requests, NEW kind \in Kinds, MemberFails(r, kind)
  PROVE  RouterInv'
  <1> USE DEF MemberFails, Goto, trackers, Called, NextMember
  <1>1. TypeOK /\ PlaceInv /\ CooldownMatchesFailures
    BY DEF RouterInv
  <1>2. Place(r)
    BY <1>1 DEF PlaceInv
  <1>3. Member(r) \in Names
    BY <1>1, <1>2, MemberType DEF Place
  <1>4. /\ failures' \in [Names -> Nat] /\ cooldownUntil' \in [Names -> Int]
        /\ \A n \in Names : cooldownUntil'[n] \in {-1} \cup (0..(now + Period))
        /\ CooldownMatchesFailures'
    BY <1>1, <1>3, FailureKeeps
  <1>5. TypeOK'
    <2>1. pc' \in [Requests -> Places]
      BY <1>1 DEF TypeOK, Places
    <2>2. calls' \in [Requests -> Nat]
      BY <1>1 DEF TypeOK
    <2>3. answer' \in [Requests -> Answers]
      BY <1>1 DEF TypeOK, Answers
    <2>4. pos' \in [Requests -> 1..(Len(Chain) + 1)]
      <3>1. pos[r] \in 1..Len(Chain)
        BY <1>1, <1>2, ChainType DEF TypeOK, Place
      <3>2. pos[r] + 1 \in 1..(Len(Chain) + 1)
        BY <3>1, ChainType
      <3>. QED
        BY <1>1, <3>2 DEF TypeOK
    <2>5. lastErr' \in [Requests -> Kinds]
      BY <1>1 DEF TypeOK, Kinds
    <2>. QED
      BY <1>1, <1>4, <2>1, <2>2, <2>3, <2>4, <2>5, TypeFrame
  <1>6. PlaceInv'
    <2>1. OthersStay(r)
      BY <1>1 DEF TypeOK, OthersStay
    <2>2. Place(r)'
      BY <1>1, <1>2 DEF TypeOK, Place
    <2>. QED
      BY <1>1, <2>1, <2>2, PlaceFrame
  <1>7. InFlightExact'
    <2>1. \A p \in Names : Busy(p)' = Busy(p)
      BY <1>1, <1>2 DEF TypeOK, Busy, Place
    <2>. QED
      BY <2>1, FlightFrame
  <1>8. CallsInv'
    <2>1. OthersStay(r) /\ route'[r] = route[r] /\ attempt'[r] = attempt[r]
      BY <1>1 DEF TypeOK, OthersStay
    <2>2. Spent(r) \in Nat /\ Spent(r)' \in Nat
      BY <1>1, <1>5, SpentType, SpentTypeAfter
    <2>3. calls[r] \in Nat /\ pos[r] \in 1..(Len(Chain) + 1)
      BY <1>1 DEF TypeOK
    <2>4. /\ pc[r] = "member"
          /\ \/ pc'[r] = "alt" /\ pos'[r] = pos[r] /\ r \in WithAlt \ Streaming
             \/ pc'[r] = "chain" /\ pos'[r] = pos[r] + 1
          /\ calls'[r] = calls[r] + 1
      BY <1>1 DEF TypeOK
    <2>5. calls'[r] + Spent(r) <= calls[r] + Spent(r)'
      <3> HIDE DEF MemberFails, Goto, trackers, Called, NextMember
      <3>1. calls'[r] = calls[r] + 1
        BY <2>4
      <3>2. CASE pc'[r] = "alt"
        <4>1. Spent(r) = Cost(r, pos[r] - 1)
          BY <1>1, <2>4, <3>2, SpentType
        <4>2. Spent(r)' = Cost(r, pos'[r] - 1) + 1
          BY <1>5, <2>4, <3>2, SpentTypeAfter
        <4>3. pos'[r] = pos[r] /\ r \in WithAlt \ Streaming
          BY <2>4, <3>2
        <4>. QED
          BY <2>2, <2>3, <3>1, <4>1, <4>2, <4>3, <3>2, ChainType DEF Cost
      <3>3. CASE pc'[r] = "chain"
        <4>1. Spent(r) = Cost(r, pos[r] - 1)
          BY <1>1, <2>4, <3>3, SpentType
        <4>2. Spent(r)' = Cost(r, pos'[r] - 1)
          BY <1>5, <2>4, <3>3, SpentTypeAfter
        <4>3. pos'[r] = pos[r] + 1
          BY <2>4, <3>3
        <4>. QED
          BY <2>2, <2>3, <3>1, <4>1, <4>2, <4>3, ChainType, CostGrows
      <3>. QED
        BY <2>4, <3>2, <3>3
    <2>. QED
      BY <1>5, <2>1, <2>2, <2>5, CallsMove
  <1>. QED
    BY <1>4, <1>5, <1>6, <1>7, <1>8 DEF RouterInv

(* The larger model answers. *)
LEMMA AltAnswersStep ==
  ASSUME RouterInv, NEW r \in Requests, AltAnswers(r)
  PROVE  RouterInv'
  <1> USE DEF AltAnswers, Goto, trackers, Called, AfterSuccess
  <1>1. TypeOK /\ PlaceInv /\ CooldownMatchesFailures
    BY DEF RouterInv
  <1>2. Place(r)
    BY <1>1 DEF PlaceInv
  <1>4. CooldownMatchesFailures'
    BY <1>1 DEF CooldownMatchesFailures
  <1>5. TypeOK'
    <2>1. pc' \in [Requests -> Places]
      BY <1>1 DEF TypeOK, Places
    <2>2. calls' \in [Requests -> Nat]
      BY <1>1 DEF TypeOK
    <2>3. answer' \in [Requests -> Answers]
      BY <1>1 DEF TypeOK, Answers
    <2>4. pos' \in [Requests -> 1..(Len(Chain) + 1)]
      BY <1>1 DEF TypeOK
    <2>5. lastErr' \in [Requests -> Kinds]
      BY <1>1 DEF TypeOK
    <2>6. /\ failures' \in [Names -> Nat] /\ cooldownUntil' \in [Names -> Int]
          /\ \A n \in Names : cooldownUntil'[n] \in {-1} \cup (0..(now + Period))
      BY <1>1 DEF TypeOK
    <2>. QED
      BY <1>1, <2>1, <2>2, <2>3, <2>4, <2>5, <2>6, TypeFrame
  <1>6. PlaceInv'
    <2>1. OthersStay(r)
      BY <1>1 DEF TypeOK, OthersStay
    <2>2. Place(r)'
      BY <1>1, <1>2 DEF TypeOK, Place
    <2>. QED
      BY <1>1, <2>1, <2>2, PlaceFrame
  <1>7. InFlightExact'
    <2>1. \A p \in Names : Busy(p)' = Busy(p)
      BY <1>1, <1>2 DEF TypeOK, Busy, Place
    <2>. QED
      BY <2>1, FlightFrame
  <1>8. CallsInv'
    <2>1. OthersStay(r) /\ route'[r] = route[r] /\ attempt'[r] = attempt[r]
      BY <1>1 DEF TypeOK, OthersStay
    <2>2. Spent(r) \in Nat /\ Spent(r)' \in Nat
      BY <1>1, <1>5, SpentType, SpentTypeAfter
    <2>3. calls[r] \in Nat /\ pos[r] \in 1..(Len(Chain) + 1)
      BY <1>1 DEF TypeOK
    <2>4. /\ pc[r] = "alt"
          /\ pc'[r] \in {"success", "leaving"}
          /\ pos'[r] = pos[r]
          /\ calls'[r] = calls[r] + 1
      BY <1>1 DEF TypeOK
    <2>5. calls'[r] + Spent(r) <= calls[r] + Spent(r)'
      <3> HIDE DEF AltAnswers, Goto, trackers, Called, AfterSuccess
      <3>1. Spent(r) = Cost(r, pos[r] - 1) + 1
        BY <1>1, <2>4, SpentType
      <3>2. Spent(r)' = PerAttempt(r)'
        BY <1>5, <2>4, SpentTypeAfter
      <3>3. route[r] # "direct" /\ pos[r] <= Len(Chain) /\ r \in WithAlt \ Streaming
        BY <1>2, <2>4 DEF Place
      <3>4. PerAttempt(r)' = Cost(r, Len(Chain))
        BY <1>5, <2>1, <3>3, BoundsAfter
      <3>. QED
        BY <2>2, <2>3, <2>4, <3>1, <3>2, <3>3, <3>4, ChainType DEF Cost
    <2>. QED
      BY <1>5, <2>1, <2>2, <2>5, CallsMove
  <1>. QED
    BY <1>4, <1>5, <1>6, <1>7, <1>8 DEF RouterInv

(* The larger model fails as well. *)
LEMMA AltFailsStep ==
  ASSUME RouterInv, NEW r \in Requests, AltFails(r)
  PROVE  RouterInv'
  <1> USE DEF AltFails, Goto, trackers, Called, NextMember
  <1>1. TypeOK /\ PlaceInv /\ CooldownMatchesFailures
    BY DEF RouterInv
  <1>2. Place(r)
    BY <1>1 DEF PlaceInv
  <1>4. CooldownMatchesFailures'
    BY <1>1 DEF CooldownMatchesFailures
  <1>5. TypeOK'
    <2>1. pc' \in [Requests -> Places]
      BY <1>1 DEF TypeOK, Places
    <2>2. calls' \in [Requests -> Nat]
      BY <1>1 DEF TypeOK
    <2>3. answer' \in [Requests -> Answers]
      BY <1>1 DEF TypeOK, Answers
    <2>4. pos' \in [Requests -> 1..(Len(Chain) + 1)]
      <3>1. pos[r] \in 1..Len(Chain)
        BY <1>1, <1>2, ChainType DEF TypeOK, Place
      <3>2. pos[r] + 1 \in 1..(Len(Chain) + 1)
        BY <3>1, ChainType
      <3>. QED
        BY <1>1, <3>2 DEF TypeOK
    <2>5. lastErr' \in [Requests -> Kinds]
      BY <1>1 DEF TypeOK, Kinds
    <2>6. /\ failures' \in [Names -> Nat] /\ cooldownUntil' \in [Names -> Int]
          /\ \A n \in Names : cooldownUntil'[n] \in {-1} \cup (0..(now + Period))
      BY <1>1 DEF TypeOK
    <2>. QED
      BY <1>1, <2>1, <2>2, <2>3, <2>4, <2>5, <2>6, TypeFrame
  <1>6. PlaceInv'
    <2>1. OthersStay(r)
      BY <1>1 DEF TypeOK, OthersStay
    <2>2. Place(r)'
      BY <1>1, <1>2 DEF TypeOK, Place
    <2>. QED
      BY <1>1, <2>1, <2>2, PlaceFrame
  <1>7. InFlightExact'
    <2>1. \A p \in Names : Busy(p)' = Busy(p)
      BY <1>1, <1>2 DEF TypeOK, Busy, Place
    <2>. QED
      BY <2>1, FlightFrame
  <1>8. CallsInv'
    <2>1. OthersStay(r) /\ route'[r] = route[r] /\ attempt'[r] = attempt[r]
      BY <1>1 DEF TypeOK, OthersStay
    <2>2. Spent(r) \in Nat /\ Spent(r)' \in Nat
      BY <1>1, <1>5, SpentType, SpentTypeAfter
    <2>3. calls[r] \in Nat /\ pos[r] \in 1..(Len(Chain) + 1)
      BY <1>1 DEF TypeOK
    <2>4. /\ pc[r] = "alt"
          /\ pc'[r] = "chain"
          /\ pos'[r] = pos[r] + 1
          /\ calls'[r] = calls[r] + 1
      BY <1>1 DEF TypeOK
    <2>5. calls'[r] + Spent(r) <= calls[r] + Spent(r)'
      <3> HIDE DEF AltFails, Goto, trackers, Called, NextMember
      <3>1. Spent(r) = Cost(r, pos[r] - 1) + 1
        BY <1>1, <2>4, SpentType
      <3>2. Spent(r)' = Cost(r, pos'[r] - 1)
        BY <1>5, <2>4, SpentTypeAfter
      <3>3. r \in WithAlt \ Streaming
        BY <1>2, <2>4 DEF Place
      <3>4. Cost(r, pos[r] - 1) + 2 <= Cost(r, pos'[r] - 1) /\ Cost(r, pos[r] - 1) \in Nat
        <4>1. pos[r] \in Nat \ {0}
          BY <2>3, ChainType
        <4>. QED
          BY <2>4, <3>3, <4>1, CostGrows
      <3>5. calls'[r] = calls[r] + 1
        BY <2>4
      <3>. QED
        BY <2>2, <2>3, <3>1, <3>2, <3>4, <3>5
    <2>. QED
      BY <1>5, <2>1, <2>2, <2>5, CallsMove
  <1>. QED
    BY <1>4, <1>5, <1>6, <1>7, <1>8 DEF RouterInv

(* The chain is through. *)
LEMMA ChainFailsStep ==
  ASSUME RouterInv, NEW r \in Requests, ChainFails(r)
  PROVE  RouterInv'
  <1> USE DEF ChainFails, Goto, trackers, AfterFailure, IsRetryable
  <1>1. TypeOK /\ PlaceInv /\ CooldownMatchesFailures
    BY DEF RouterInv
  <1>2. Place(r)
    BY <1>1 DEF PlaceInv
  <1>4. CooldownMatchesFailures'
    BY <1>1 DEF CooldownMatchesFailures
  <1>5. TypeOK'
    <2>1. pc' \in [Requests -> Places]
      BY <1>1 DEF TypeOK, Places
    <2>2. calls' \in [Requests -> Nat]
      BY <1>1 DEF TypeOK
    <2>3. answer' \in [Requests -> Answers]
      BY <1>1 DEF TypeOK, Answers
    <2>4. pos' \in [Requests -> 1..(Len(Chain) + 1)]
      BY <1>1 DEF TypeOK
    <2>5. lastErr' \in [Requests -> Kinds]
      BY <1>1 DEF TypeOK
    <2>6. /\ failures' \in [Names -> Nat] /\ cooldownUntil' \in [Names -> Int]
          /\ \A n \in Names : cooldownUntil'[n] \in {-1} \cup (0..(now + Period))
      BY <1>1 DEF TypeOK
    <2>. QED
      BY <1>1, <2>1, <2>2, <2>3, <2>4, <2>5, <2>6, TypeFrame
  <1>6. PlaceInv'
    <2>1. OthersStay(r)
      BY <1>1 DEF TypeOK, OthersStay
    <2>2. Place(r)'
      BY <1>1, <1>2 DEF TypeOK, Place
    <2>. QED
      BY <1>1, <2>1, <2>2, PlaceFrame
  <1>7. InFlightExact'
    <2>1. \A p \in Names : Busy(p)' = Busy(p)
      BY <1>1, <1>2 DEF TypeOK, Busy, Place
    <2>. QED
      BY <2>1, FlightFrame
  <1>8. CallsInv'
    <2>1. OthersStay(r) /\ route'[r] = route[r] /\ attempt'[r] = attempt[r]
      BY <1>1 DEF TypeOK, OthersStay
    <2>2. Spent(r) \in Nat /\ Spent(r)' \in Nat
      BY <1>1, <1>5, SpentType, SpentTypeAfter
    <2>3. calls[r] \in Nat /\ pos[r] \in 1..(Len(Chain) + 1)
      BY <1>1 DEF TypeOK
    <2>4. /\ pc[r] = "chain"
          /\ pc'[r] \in {"leaving", "backoff", "failure"}
          /\ pos[r] > Len(Chain)
          /\ calls'[r] = calls[r]
      BY <1>1 DEF TypeOK
    <2>5. calls'[r] + Spent(r) <= calls[r] + Spent(r)'
      <3> HIDE DEF ChainFails, Goto, trackers, AfterFailure, IsRetryable
      <3>1. Spent(r) = Cost(r, pos[r] - 1)
        BY <1>1, <2>4, SpentType
      <3>2. Spent(r)' = PerAttempt(r)'
        BY <1>5, <2>4, SpentTypeAfter
      <3>3. route[r] # "direct"
        BY <1>2, <2>4 DEF Place
      <3>4. PerAttempt(r)' = Cost(r, Len(Chain))
        BY <1>5, <2>1, <3>3, BoundsAfter
      <3>. QED
        BY <2>2, <2>3, <2>4, <3>1, <3>2, <3>3, <3>4, ChainType DEF Cost
    <2>. QED
      BY <1>5, <2>1, <2>2, <2>5, CallsMove
  <1>. QED
    BY <1>4, <1>5, <1>6, <1>7, <1>8 DEF RouterInv

(* The failure is recorded. *)
LEMMA FailedStep ==
  ASSUME RouterInv, NEW r \in Requests, Failed(r)
  PROVE  RouterInv'
  <1> USE DEF Failed, Goto, trackers
  <1>1. TypeOK /\ PlaceInv /\ CooldownMatchesFailures
    BY DEF RouterInv
  <1>2. Place(r)
    BY <1>1 DEF PlaceInv
  <1>3. target[r] \in Names
    BY <1>1, <1>2 DEF TypeOK
  <1>4. /\ failures' \in [Names -> Nat] /\ cooldownUntil' \in [Names -> Int]
        /\ \A n \in Names : cooldownUntil'[n] \in {-1} \cup (0..(now + Period))
        /\ CooldownMatchesFailures'
    BY <1>1, <1>3, FailureKeeps
  <1>5. TypeOK'
    <2>1. pc' \in [Requests -> Places]
      BY <1>1 DEF TypeOK, Places
    <2>2. calls' \in [Requests -> Nat]
      BY <1>1 DEF TypeOK
    <2>3. answer' \in [Requests -> Answers]
      BY <1>1 DEF TypeOK, Answers
    <2>4. pos' \in [Requests -> 1..(Len(Chain) + 1)]
      BY <1>1 DEF TypeOK
    <2>5. lastErr' \in [Requests -> Kinds]
      BY <1>1 DEF TypeOK
    <2>. QED
      BY <1>1, <1>4, <2>1, <2>2, <2>3, <2>4, <2>5, TypeFrame
  <1>6. PlaceInv'
    <2>1. OthersStay(r)
      BY <1>1 DEF TypeOK, OthersStay
    <2>2. Place(r)'
      BY <1>1, <1>2 DEF TypeOK, Place
    <2>. QED
      BY <1>1, <2>1, <2>2, PlaceFrame
  <1>7. InFlightExact'
    <2>1. \A p \in Names : Busy(p)' = Busy(p)
      BY <1>1, <1>2 DEF TypeOK, Busy, Place
    <2>. QED
      BY <2>1, FlightFrame
  <1>8. CallsInv'
    <2>1. OthersStay(r) /\ route'[r] = route[r] /\ attempt'[r] = attempt[r]
      BY <1>1 DEF TypeOK, OthersStay
    <2>2. Spent(r) \in Nat /\ Spent(r)' \in Nat
      BY <1>1, <1>5, SpentType, SpentTypeAfter
    <2>3. calls[r] \in Nat /\ pos[r] \in 1..(Len(Chain) + 1)
      BY <1>1 DEF TypeOK
    <2>4. /\ pc[r] = "failure"
          /\ pc'[r] = "leaving"
          /\ calls'[r] = calls[r]
      BY <1>1 DEF TypeOK
    <2>5. calls'[r] + Spent(r) <= calls[r] + Spent(r)'
      <3> HIDE DEF Failed, Goto, trackers
      <3>1. Spent(r) = PerAttempt(r)
        BY <1>1, <2>4, SpentType
      <3>2. Spent(r)' = PerAttempt(r)'
        BY <1>5, <2>4, SpentTypeAfter
      <3>4. PerAttempt(r)' = PerAttempt(r)
        BY <2>1 DEF PerAttempt
      <3>. QED
        BY <2>2, <2>3, <2>4, <3>1, <3>2, <3>4, ChainType DEF Cost
    <2>. QED
      BY <1>5, <2>1, <2>2, <2>5, CallsMove
  <1>. QED
    BY <1>4, <1>5, <1>6, <1>7, <1>8 DEF RouterInv

(* The success is recorded. *)
LEMMA SucceededStep ==
  ASSUME RouterInv, NEW r \in Requests, Succeeded(r)
  PROVE  RouterInv'
  <1> USE DEF Succeeded, Goto, trackers
  <1>1. TypeOK /\ PlaceInv /\ CooldownMatchesFailures
    BY DEF RouterInv
  <1>2. Place(r)
    BY <1>1 DEF PlaceInv
  <1>3. target[r] \in Names
    BY <1>1, <1>2 DEF TypeOK
  <1>4. /\ failures' \in [Names -> Nat] /\ cooldownUntil' \in [Names -> Int]
        /\ \A n \in Names : cooldownUntil'[n] \in {-1} \cup (0..(now + Period))
        /\ CooldownMatchesFailures'
    BY <1>1, <1>3, SuccessKeeps
  <1>5. TypeOK'
    <2>1. pc' \in [Requests -> Places]
      BY <1>1 DEF TypeOK, Places
    <2>2. calls' \in [Requests -> Nat]
      BY <1>1 DEF TypeOK
    <2>3. answer' \in [Requests -> Answers]
      BY <1>1 DEF TypeOK, Answers
    <2>4. pos' \in [Requests -> 1..(Len(Chain) + 1)]
      BY <1>1 DEF TypeOK
    <2>5. lastErr' \in [Requests -> Kinds]
      BY <1>1 DEF TypeOK
    <2>. QED
      BY <1>1, <1>4, <2>1, <2>2, <2>3, <2>4, <2>5, TypeFrame
  <1>6. PlaceInv'
    <2>1. OthersStay(r)
      BY <1>1 DEF TypeOK, OthersStay
    <2>2. Place(r)'
      BY <1>1, <1>2 DEF TypeOK, Place
    <2>. QED
      BY <1>1, <2>1, <2>2, PlaceFrame
  <1>7. InFlightExact'
    <2>1. \A p \in Names : Busy(p)' = Busy(p)
      BY <1>1, <1>2 DEF TypeOK, Busy, Place
    <2>. QED
      BY <2>1, FlightFrame
  <1>8. CallsInv'
    <2>1. OthersStay(r) /\ route'[r] = route[r] /\ attempt'[r] = attempt[r]
      BY <1>1 DEF TypeOK, OthersStay
    <2>2. Spent(r) \in Nat /\ Spent(r)' \in Nat
      BY <1>1, <1>5, SpentType, SpentTypeAfter
    <2>3. calls[r] \in Nat /\ pos[r] \in 1..(Len(Chain) + 1)
      BY <1>1 DEF TypeOK
    <2>4. /\ pc[r] = "success"
          /\ pc'[r] = "leaving"
          /\ calls'[r] = calls[r]
      BY <1>1 DEF TypeOK
    <2>5. calls'[r] + Spent(r) <= calls[r] + Spent(r)'
      <3> HIDE DEF Succeeded, Goto, trackers
      <3>1. Spent(r) = PerAttempt(r)
        BY <1>1, <2>4, SpentType
      <3>2. Spent(r)' = PerAttempt(r)'
        BY <1>5, <2>4, SpentTypeAfter
      <3>4. PerAttempt(r)' = PerAttempt(r)
        BY <2>1 DEF PerAttempt
      <3>. QED
        BY <2>2, <2>3, <2>4, <3>1, <3>2, <3>4, ChainType DEF Cost
    <2>. QED
      BY <1>5, <2>1, <2>2, <2>5, CallsMove
  <1>. QED
    BY <1>4, <1>5, <1>6, <1>7, <1>8 DEF RouterInv

(* A request arrives with nothing counted yet. *)
LEMMA ArriveStep ==
  ASSUME RouterInv, NEW r \in Requests, Arrive(r)
  PROVE  RouterInv'
  <1>1. TypeOK /\ PlaceInv /\ CooldownMatchesFailures /\ CallsInv
    BY DEF RouterInv
  <1>2. Place(r) /\ pc[r] = "idle"
    BY <1>1 DEF PlaceInv, Arrive
  <1>3. PICK k \in Routes, n \in Names :
          /\ route' = [route EXCEPT ![r] = k]
          /\ target' = [target EXCEPT ![r] = n]
          /\ pc' = [pc EXCEPT ![r] = IF k = "perkey" THEN "chain" ELSE "check"]
    BY DEF Arrive, Goto
  <1>4. k \in {"direct", "global", "perkey"}
    BY RouterAssumption
  <1>5. UNCHANGED <<now, trackers, attempt, pos, lastErr, answer, calls>>
    BY DEF Arrive
  <1>6. CooldownMatchesFailures'
    BY <1>1, <1>5 DEF CooldownMatchesFailures, trackers
  <1>7. TypeOK'
    BY <1>1, <1>3, <1>5 DEF TypeOK, trackers
  <1>8. PlaceInv'
    BY <1>1, <1>2, <1>3, <1>4, <1>5 DEF TypeOK, PlaceInv, Place
  <1>9. InFlightExact'
    <2>1. \A p \in Names : Busy(p)' = Busy(p)
      BY <1>1, <1>2, <1>3, <1>4 DEF TypeOK, Busy
    <2>. QED
      BY <1>5, <2>1, FlightFrame DEF trackers
  <1>10. CallsInv'
    <2>1. OthersStay(r)
      BY <1>1, <1>3, <1>5 DEF TypeOK, OthersStay
    <2>2. calls'[r] = 0 /\ attempt'[r] = 0
      BY <1>2, <1>5 DEF Place
    <2>3. PerAttempt(r)' \in Nat /\ Spent(r)' \in Nat
      BY <1>7, BoundsAfter, SpentTypeAfter
    <2>4. calls'[r] <= PerAttempt(r)' * attempt'[r] + Spent(r)'
      BY <2>2, <2>3
    <2>. QED
      BY <1>1, <2>1, <2>4, CallsFrame
  <1>. QED
    BY <1>6, <1>7, <1>8, <1>9, <1>10 DEF RouterInv

(* The next attempt starts: the last one is paid for. *)
LEMMA BackoffEndsStep ==
  ASSUME RouterInv, NEW r \in Requests, BackoffEnds(r)
  PROVE  RouterInv'
  <1> USE DEF BackoffEnds, Goto, Begin, trackers
  <1>1. TypeOK /\ PlaceInv /\ CooldownMatchesFailures /\ CallsInv
    BY DEF RouterInv
  <1>2. Place(r)
    BY <1>1 DEF PlaceInv
  <1>3. attempt[r] \in Nat /\ attempt[r] + 1 \in 0..MaxRetries
    BY <1>1, <1>2, Limits DEF TypeOK, Place
  <1>4. CooldownMatchesFailures'
    BY <1>1 DEF CooldownMatchesFailures
  <1>5. TypeOK'
    <2>1. pc' \in [Requests -> Places]
      BY <1>1 DEF TypeOK, Places
    <2>2. attempt' \in [Requests -> 0..MaxRetries]
      BY <1>1, <1>3 DEF TypeOK
    <2>3. pos' \in [Requests -> 1..(Len(Chain) + 1)]
      BY <1>1, ChainType DEF TypeOK
    <2>4. lastErr' \in [Requests -> Kinds]
      BY <1>1 DEF TypeOK, Kinds
    <2> HIDE DEF Goto, Begin
    <2>. QED
      BY <1>1, <2>1, <2>2, <2>3, <2>4 DEF TypeOK, Places
  <1>6. PlaceInv'
    BY <1>1, <1>2, RouterAssumption DEF TypeOK, PlaceInv, Place
  <1>7. InFlightExact'
    <2>1. \A p \in Names : Busy(p)' = Busy(p)
      BY <1>1, <1>2 DEF TypeOK, Busy, Place
    <2>. QED
      BY <2>1, FlightFrame
  <1>8. CallsInv'
    <2>1. OthersStay(r)
      BY <1>1 DEF TypeOK, OthersStay
    <2>2. /\ pc[r] = "backoff" /\ calls'[r] = calls[r] /\ attempt'[r] = attempt[r] + 1
          /\ route'[r] = route[r] /\ calls[r] \in Nat
      BY <1>1 DEF TypeOK
    <2>3. PerAttempt(r) \in Nat /\ Spent(r)' \in Nat
      BY <1>1, <1>5, Bounds, SpentTypeAfter
    <2>4. Spent(r) = PerAttempt(r)
      BY <1>1, <2>2, SpentType
    <2>5. PerAttempt(r)' = PerAttempt(r)
      BY <2>2 DEF PerAttempt
    <2>6. calls[r] <= PerAttempt(r) * attempt[r] + PerAttempt(r)
      BY <1>1, <2>4 DEF CallsInv
    <2>7. /\ PerAttempt(r) * (attempt[r] + 1) = PerAttempt(r) * attempt[r] + PerAttempt(r)
          /\ PerAttempt(r) * attempt[r] \in Nat
      BY <1>3, <2>3, Product
    <2>8. calls'[r] <= PerAttempt(r)' * attempt'[r] + Spent(r)'
      <3> HIDE DEF BackoffEnds
      <3>1. PerAttempt(r)' * attempt'[r] = PerAttempt(r) * attempt[r] + PerAttempt(r)
        BY <2>2, <2>5, <2>7
      <3>. QED
        BY <2>2, <2>3, <2>6, <2>7, <3>1
    <2>. QED
      BY <1>1, <2>1, <2>8, CallsFrame
  <1>. QED
    BY <1>4, <1>5, <1>6, <1>7, <1>8 DEF RouterInv

(* The requests a provider is busy with are finitely many. *)
LEMMA BusyFinite ==
  ASSUME NEW p
  PROVE  IsFiniteSet(Busy(p)) /\ Cardinality(Busy(p)) \in Nat
  <1>1. IsFiniteSet(Requests) /\ Busy(p) \subseteq Requests
    BY RouterAssumption DEF Busy
  <1>2. IsFiniteSet(Busy(p))
    BY <1>1, FS_Subset
  <1>. QED
    BY <1>2, FS_CardinalityType

(* Increment, and with it the request is busy. *)
LEMMA AdmitStep ==
  ASSUME RouterInv, NEW r \in Requests, Admit(r)
  PROVE  RouterInv'
  <1> USE DEF Admit, Goto, Begin, NoRecord, Increment
  <1>1. TypeOK /\ PlaceInv /\ CooldownMatchesFailures /\ InFlightExact
    BY DEF RouterInv
  <1>2. Place(r)
    BY <1>1 DEF PlaceInv
  <1>3. target[r] \in Names
    BY <1>1 DEF TypeOK
  <1>4. CooldownMatchesFailures'
    BY <1>1 DEF CooldownMatchesFailures
  <1>5. TypeOK'
    <2>1. pc' \in [Requests -> Places]
      BY <1>1 DEF TypeOK, Places
    <2>2. inFlight' \in [Names -> Nat]
      BY <1>1, <1>3 DEF TypeOK
    <2> HIDE DEF Goto, Begin, Increment
    <2>. QED
      BY <1>1, <2>1, <2>2 DEF TypeOK, Places
  <1>6. PlaceInv'
    BY <1>1, <1>2 DEF TypeOK, PlaceInv, Place
  <1>7. InFlightExact'
    <2>1. \A p \in Names : p # target[r] => Busy(p)' = Busy(p)
      BY <1>1 DEF TypeOK, Busy
    <2>2. Busy(target[r])' = Busy(target[r]) \cup {r} /\ r \notin Busy(target[r])
      BY <1>1, <1>2 DEF TypeOK, Busy, Place
    <2>3. Cardinality(Busy(target[r])') = Cardinality(Busy(target[r])) + 1
      BY <2>2, BusyFinite, FS_AddElement
    <2>4. /\ inFlight'[target[r]] = inFlight[target[r]] + 1
          /\ \A p \in Names : p # target[r] => inFlight'[p] = inFlight[p]
      BY <1>1, <1>3 DEF TypeOK
    <2> SUFFICES ASSUME NEW p \in Names PROVE inFlight'[p] = Cardinality(Busy(p)')
      BY DEF InFlightExact
    <2>5. CASE p = target[r]
      BY <1>1, <2>3, <2>4, <2>5 DEF InFlightExact
    <2>6. CASE p # target[r]
      BY <1>1, <2>1, <2>4, <2>6 DEF InFlightExact
    <2>. QED
      BY <2>5, <2>6
  <1>8. CallsInv'
    <2>1. OthersStay(r) /\ route'[r] = route[r] /\ attempt'[r] = attempt[r]
      BY <1>1 DEF TypeOK, OthersStay
    <2>2. Spent(r) \in Nat /\ Spent(r)' \in Nat /\ Spent(r) = 0
      BY <1>1, <1>5, SpentType, SpentTypeAfter
    <2>3. calls[r] \in Nat /\ calls'[r] = calls[r]
      BY <1>1 DEF TypeOK
    <2>4. calls'[r] + Spent(r) <= calls[r] + Spent(r)'
      BY <2>2, <2>3
    <2>. QED
      BY <1>5, <2>1, <2>2, <2>4, CallsMove
  <1>. QED
    BY <1>4, <1>5, <1>6, <1>7, <1>8 DEF RouterInv

(* Decrement, after which the request is no longer busy; the per-key chain   *)
(* was never counted.                                                        *)
LEMMA LeaveStep ==
  ASSUME RouterInv, NEW r \in Requests, Leave(r)
  PROVE  RouterInv'
  <1> USE DEF Leave, Goto, NoRecord
  <1>1. TypeOK /\ PlaceInv /\ CooldownMatchesFailures /\ InFlightExact
    BY DEF RouterInv
  <1>2. Place(r)
    BY <1>1 DEF PlaceInv
  <1>3. target[r] \in Names
    BY <1>1 DEF TypeOK
  <1>4. CooldownMatchesFailures'
    BY <1>1 DEF CooldownMatchesFailures
  <1>5. TypeOK'
    <2>1. pc' \in [Requests -> Places]
      BY <1>1 DEF TypeOK, Places
    <2>2. inFlight' \in [Names -> Nat]
      BY <1>1, <1>3 DEF TypeOK, Decrement
    <2> HIDE DEF Goto
    <2>. QED
      BY <1>1, <2>1, <2>2 DEF TypeOK, Places
  <1>6. PlaceInv'
    BY <1>1, <1>2 DEF TypeOK, PlaceInv, Place
  <1>7. InFlightExact'
    <2>1. CASE route[r] = "perkey"
      <3>1. \A p \in Names : Busy(p)' = Busy(p)
        BY <1>1, <2>1 DEF TypeOK, Busy
      <3>. QED
        BY <2>1, <3>1, FlightFrame
    <2>2. CASE route[r] # "perkey"
      <3>1. \A p \in Names : p # target[r] => Busy(p)' = Busy(p)
        BY <1>1 DEF TypeOK, Busy
      <3>2. route[r] \in {"direct", "global"}
        BY <1>1, <1>2, <2>2, RouterAssumption DEF TypeOK, Place
      <3>3. Busy(target[r])' = Busy(target[r]) \ {r} /\ r \in Busy(target[r])
        BY <1>1, <3>2 DEF TypeOK, Busy
      <3>4. Cardinality(Busy(target[r])') = Cardinality(Busy(target[r])) - 1
        BY <3>3, BusyFinite, FS_RemoveElement
      <3>5. Cardinality(Busy(target[r])) > 0
        BY <3>3, BusyFinite, FS_EmptySet
      <3>6. inFlight[target[r]] = Cardinality(Busy(target[r]))
        BY <1>1, <1>3 DEF InFlightExact
      <3>7. /\ inFlight'[target[r]] = inFlight[target[r]] - 1
            /\ \A p \in Names : p # target[r] => inFlight'[p] = inFlight[p]
        BY <1>1, <1>3, <2>2, <3>5, <3>6 DEF TypeOK, Decrement
      <3> SUFFICES ASSUME NEW p \in Names PROVE inFlight'[p] = Cardinality(Busy(p)')
        BY DEF InFlightExact
      <3>8. CASE p = target[r]
        BY <3>4, <3>6, <3>7, <3>8
      <3>9. CASE p # target[r]
        BY <1>1, <3>1, <3>7, <3>9 DEF InFlightExact
      <3>. QED
        BY <3>8, <3>9
    <2>. QED
      BY <2>1, <2>2
  <1>8. CallsInv'
    <2>1. OthersStay(r) /\ route'[r] = route[r] /\ attempt'[r] = attempt[r]
      BY <1>1 DEF TypeOK, OthersStay
    <2>2. /\ pc[r] = "leaving" /\ pc'[r] = "returned"
          /\ calls[r] \in Nat /\ calls'[r] = calls[r]
      BY <1>1 DEF TypeOK
    <2>3. Spent(r) \in Nat /\ Spent(r)' \in Nat
      BY <1>1, <1>5, SpentType, SpentTypeAfter
    <2>4. Spent(r) = PerAttempt(r) /\ Spent(r)' = PerAttempt(r)'
      BY <1>1, <1>5, <2>2, SpentType, SpentTypeAfter
    <2>5. PerAttempt(r)' = PerAttempt(r)
      BY <2>1 DEF PerAttempt
    <2>6. calls'[r] + Spent(r) <= calls[r] + Spent(r)'
      BY <2>2, <2>3, <2>4, <2>5
    <2>. QED
      BY <1>5, <2>1, <2>3, <2>6, CallsMove
  <1>. QED
    BY <1>4, <1>5, <1>6, <1>7, <1>8 DEF RouterInv

(* Time passing, or nothing at all, touches neither tracker. *)
LEMMA TickStep ==
  ASSUME RouterInv, Tick \/ UNCHANGED vars
  PROVE  RouterInv'
  <1>1. TypeOK /\ PlaceInv /\ CooldownMatchesFailures /\ CallsInv
    BY DEF RouterInv
  <1>2. /\ now' \in 0..MaxTime /\ now <= now' /\ now \in Nat
        /\ UNCHANGED <<failures, cooldownUntil, inFlight, pc, route, target, attempt, pos,
                        lastErr, answer, calls>>
    BY <1>1, Limits DEF TypeOK, Tick, vars, trackers
  <1>3. TypeOK'
    <2>1. \A p \in Names : cooldownUntil'[p] \in {-1} \cup (0..(now' + Period))
      BY <1>1, <1>2, Limits DEF TypeOK
    <2>. QED
      BY <1>1, <1>2, <2>1 DEF TypeOK
  <1>4. PlaceInv'
    BY <1>1, <1>2 DEF PlaceInv, Place
  <1>5. InFlightExact'
    <2>1. \A p \in Names : Busy(p)' = Busy(p)
      BY <1>2 DEF Busy
    <2>. QED
      BY <1>2, <2>1, FlightFrame
  <1>6. CooldownMatchesFailures' /\ CallsInv'
    BY <1>1, <1>2 DEF CooldownMatchesFailures, CallsInv, Spent, PerAttempt
  <1>. QED
    BY <1>3, <1>4, <1>5, <1>6 DEF RouterInv

(* RouterInv is inductive. *)
LEMMA InvNext == RouterInv /\ [Next]_vars => RouterInv'
  <1> SUFFICES ASSUME RouterInv, [Next]_vars PROVE RouterInv'
    OBVIOUS
  <1>1. CASE Tick \/ UNCHANGED vars
    BY <1>1, TickStep
  <1>2. ASSUME NEW r \in Requests, Arrive(r) PROVE RouterInv'
    BY <1>2, ArriveStep
  <1>3. ASSUME NEW r \in Requests, Step(r) PROVE RouterInv'
    BY <1>3, CheckCooldownStep, AdmitStep, CallReturnsStep, BackoffEndsStep, BackoffCtxDoneStep,
       CallPanicsStep, ChainSkipStep, ChainTryStep, MemberAnswersStep, MemberFailsStep,
       AltAnswersStep, AltFailsStep, ChainFailsStep, FailedStep, SucceededStep, LeaveStep DEF Step
  <1>. QED
    BY <1>1, <1>2, <1>3 DEF Next

-----------------------------------------------------------------------------
(* cooldown.go and inflight.go tell the truth however many requests share    *)
(* them: the in-flight count of a provider is the number of requests between *)
(* Increment and the deferred Decrement, and a provider is in cooldown       *)
(* exactly from the threshold of failures on.                                *)
THEOREM TrackersAreExact == Spec => []TrackersExact
  <1>1. RouterInv => TrackersExact
    BY DEF RouterInv, TrackersExact
  <1>. QED
    BY <1>1, InvInit, InvNext, PTL DEF Spec

(* What the bound says of a request follows from its calls per attempt. *)
LEMMA BoundFollows == RouterInv => UpstreamBound
  <1> SUFFICES ASSUME RouterInv, NEW r \in Requests, route[r] # "none"
               PROVE  calls[r] <= PerAttempt(r) *
                                    (IF route[r] = "perkey" THEN 1 ELSE MaxRetries + 1)
    BY DEF UpstreamBound
  <1>1. TypeOK /\ PlaceInv /\ CallsInv
    BY DEF RouterInv
  <1>2. Place(r)
    BY <1>1 DEF PlaceInv
  <1>3. calls[r] \in Nat /\ attempt[r] \in 0..MaxRetries /\ pc[r] \in Places
        /\ pos[r] \in 1..(Len(Chain) + 1)
    BY <1>1 DEF TypeOK, Places
  <1>4. PerAttempt(r) \in Nat
    BY <1>1, Bounds
  <1>5. Spent(r) \in Nat /\ Spent(r) <= PerAttempt(r)
    <2>1. CASE pc[r] \in {"idle", "check", "admitted", "call"}
      BY <1>1, <1>4, <2>1, SpentType
    <2>2. CASE pc[r] \in {"chain", "member"}
      <3>1. Spent(r) = Cost(r, pos[r] - 1)
        BY <1>1, <2>2, SpentType
      <3>2. PerAttempt(r) = Cost(r, Len(Chain))
        BY <1>1, <1>2, <2>2, Bounds DEF Place
      <3>. QED
        BY <1>3, <3>1, <3>2, ChainType DEF Cost
    <2>3. CASE pc[r] = "alt"
      <3>1. Spent(r) = Cost(r, pos[r] - 1) + 1
        BY <1>1, <2>3, SpentType
      <3>2. PerAttempt(r) = Cost(r, Len(Chain))
        BY <1>1, <1>2, <2>3, Bounds DEF Place
      <3>3. pos[r] <= Len(Chain) /\ r \in WithAlt \ Streaming
        BY <1>2, <2>3 DEF Place
      <3>. QED
        BY <1>3, <3>1, <3>2, <3>3, ChainType DEF Cost
    <2>4. CASE pc[r] \in {"backoff", "failure", "success", "leaving", "returned"}
      BY <1>1, <1>4, <2>4, SpentType
    <2>. QED
      BY <1>3, <2>1, <2>2, <2>3, <2>4 DEF Places
  <1>6. calls[r] <= PerAttempt(r) * attempt[r] + Spent(r)
    BY <1>1 DEF CallsInv
  <1>7. CASE route[r] = "perkey"
    <2>1. attempt[r] = 0
      BY <1>2, <1>7 DEF Place
    <2>. QED
      BY <1>3, <1>4, <1>5, <1>6, <1>7, <2>1
  <1>8. CASE route[r] # "perkey"
    <2>1. PerAttempt(r) * attempt[r] <= PerAttempt(r) * MaxRetries
      BY <1>3, <1>4, Limits, Product
    <2>2. /\ PerAttempt(r) * attempt[r] \in Nat /\ PerAttempt(r) * MaxRetries \in Nat
          /\ PerAttempt(r) * (MaxRetries + 1) = PerAttempt(r) * MaxRetries + PerAttempt(r)
      BY <1>3, <1>4, Limits, Product
    <2>3. calls[r] <= PerAttempt(r) * MaxRetries + PerAttempt(r)
      BY <1>3, <1>4, <1>5, <1>6, <2>1, <2>2
    <2>. QED
      BY <1>8, <2>2, <2>3
  <1>. QED
    BY <1>7, <1>8

(* Retries, the fallback chain and the larger models together never call     *)
(* upstream more than PerAttempt times per attempt, whatever their number.   *)
THEOREM UpstreamIsBounded == Spec => []UpstreamBound
  BY InvInit, InvNext, BoundFollows, PTL DEF Spec

=============================================================================
