------------------------------ MODULE KeyStore ------------------------------
(***************************************************************************)
(* The virtual keys: the table virtual_keys, the in-memory KeyStore of     *)
(* middleware/keystore.go that answers every request's key check, and the  *)
(* admin handlers KeyGenerate, KeyDelete and KeyRotate of handler/keys.go  *)
(* that write to both.                                                     *)
(*                                                                         *)
(* Each SQL statement and each locked access to the map is a step.  Up to  *)
(* MaxFailures statements fail, and the process is restarted up to         *)
(* MaxRestarts times; the table survives, the map is loaded from it again. *)
(***************************************************************************)
EXTENDS Integers, FiniteSets

CONSTANTS
    Keys,         \* the key hashes; generated ones are taken from here
    Ops,          \* the calls of the admin handlers
    NoKey,        \* the empty key hash
    MaxFailures,  \* bound: statements that fail
    MaxRestarts   \* bound: restarts

ASSUME KeyStoreAssumption ==
    /\ NoKey \notin Keys
    /\ MaxFailures \in Nat /\ MaxRestarts \in Nat

VARIABLES
    row,       \* virtual_keys: "none", "active" or "inactive" for each hash
    cache,     \* KeyStore.keys: the hashes mapped to true
    up,        \* the process serves requests
    kind,      \* which handler a call runs
    place,     \* where it is
    id,        \* the row a delete or rotate names
    oldKey,    \* keyHash / oldKeyHash as looked up
    newKey,    \* the hash of the key a call has generated
    result,    \* what the caller got
    overlapped,   \* history: a call was made while another was under way
    failures, restarts

calls == <<kind, place, id, oldKey, newKey, result, overlapped>>
storeVars == <<row, cache, up, calls, failures, restarts>>

StoreInit ==
    /\ row = [k \in Keys |-> "none"]
    /\ cache = {} /\ up = TRUE
    /\ kind = [o \in Ops |-> "none"]
    /\ place = [o \in Ops |-> "idle"]
    /\ id = [o \in Ops |-> NoKey]
    /\ oldKey = [o \in Ops |-> NoKey]
    /\ newKey = [o \in Ops |-> NoKey]
    /\ result = [o \in Ops |-> "none"]
    /\ overlapped = FALSE /\ failures = 0 /\ restarts = 0

Active == {k \in Keys : row[k] = "active"}
Busy == {o \in Ops : place[o] \notin {"idle", "end"}}
Settled == up /\ Busy = {}
StatementFails == failures < MaxFailures /\ failures' = failures + 1

MayStart(o) ==
    /\ place[o] = "idle" /\ up
    /\ overlapped' = (overlapped \/ Busy # {})
Proceed(o, l) == place' = [place EXCEPT ![o] = l]
Return(o, v) == Proceed(o, "end") /\ result' = [result EXCEPT ![o] = v]

(* generateRandomKey: a hash nobody has. *)
Fresh(k) == row[k] = "none" /\ \A o \in Ops : newKey[o] # k

-----------------------------------------------------------------------------
(* KeyGenerate *)

(* The request passes its checks and a key is generated. *)
StartGenerate(o) ==
    /\ MayStart(o)
    /\ \E k \in Keys : Fresh(k) /\ newKey' = [newKey EXCEPT ![o] = k]
    /\ kind' = [kind EXCEPT ![o] = "generate"]
    /\ Proceed(o, "insert")
    /\ UNCHANGED <<row, cache, up, id, oldKey, result, failures, restarts>>

(* Fault: the error of the INSERT is not looked at. *)
InsertUnchecked(o) ==
    /\ place[o] = "insert"
    /\ \/ row' = [row EXCEPT ![newKey[o]] = "active"] /\ UNCHANGED failures
       \/ StatementFails /\ UNCHANGED row
    /\ Proceed(o, IF kind[o] = "rotate" THEN "remove" ELSE "add")
    /\ UNCHANGED <<cache, up, kind, id, oldKey, newKey, result, restarts, overlapped>>

(* The INSERT of KeyGenerate and of KeyRotate; when it fails the handler    *)
(* returns at once.                                                         *)
Insert(o) ==
    /\ place[o] = "insert"
    /\ \/ /\ row' = [row EXCEPT ![newKey[o]] = "active"]
          /\ Proceed(o, IF kind[o] = "rotate" THEN "remove" ELSE "add")
          /\ UNCHANGED <<result, failures>>
       \/ StatementFails /\ Return(o, "error") /\ UNCHANGED row
    /\ UNCHANGED <<cache, up, kind, id, oldKey, newKey, restarts, overlapped>>

Add(o) ==
    /\ place[o] = "add"
    /\ cache' = cache \cup {newKey[o]}
    /\ Return(o, "ok")
    /\ UNCHANGED <<row, up, kind, id, oldKey, newKey, failures, restarts, overlapped>>

-----------------------------------------------------------------------------
(* KeyDelete and KeyRotate of the row with a given id *)

(* The hash is looked up first; an error leaves it empty. *)
Lookup(o) ==
    /\ MayStart(o)
    /\ \E h \in {"delete", "rotate"}, k \in Keys :
          /\ row[k] # "none"
          /\ kind' = [kind EXCEPT ![o] = h]
          /\ id' = [id EXCEPT ![o] = k]
          /\ \/ oldKey' = [oldKey EXCEPT ![o] = k] /\ UNCHANGED failures
             \/ StatementFails /\ UNCHANGED oldKey
          /\ Proceed(o, IF h = "rotate" THEN "read" ELSE "deactivate")
    /\ UNCHANGED <<row, cache, up, newKey, result, restarts>>

(* Rotation needs an active key. *)
ReadActive(o) ==
    /\ place[o] = "read"
    /\ \/ row[id[o]] = "active" /\ Proceed(o, "deactivate") /\ UNCHANGED <<result, failures>>
       \/ row[id[o]] # "active" /\ Return(o, "notFound") /\ UNCHANGED failures
       \/ StatementFails /\ Return(o, "error")
    /\ UNCHANGED <<row, cache, up, kind, id, oldKey, newKey, restarts, overlapped>>

(* KeyDelete returns when the update fails; KeyRotate goes on. *)
Deactivate(o) ==
    /\ place[o] = "deactivate"
    /\ \/ row' = [row EXCEPT ![id[o]] = "inactive"] /\ UNCHANGED failures
       \/ StatementFails /\ UNCHANGED row
    /\ IF kind[o] = "rotate"
       THEN /\ \E k \in Keys : Fresh(k) /\ newKey' = [newKey EXCEPT ![o] = k]
            /\ Proceed(o, "insert") /\ UNCHANGED result
       ELSE /\ IF failures' = failures THEN Proceed(o, "remove") /\ UNCHANGED result ELSE Return(o, "error")
            /\ UNCHANGED newKey
    /\ UNCHANGED <<cache, up, kind, id, oldKey, restarts, overlapped>>

(* Fault: only a rotation removes the hash from the map. *)
RemoveOnRotateOnly(o) ==
    /\ place[o] = "remove"
    /\ cache' = IF kind[o] = "rotate" THEN cache \ {oldKey[o]} ELSE cache
    /\ IF kind[o] = "rotate" THEN Proceed(o, "add") /\ UNCHANGED result ELSE Return(o, "ok")
    /\ UNCHANGED <<row, up, kind, id, oldKey, newKey, failures, restarts, overlapped>>

(* Remove of the old hash, unless the lookup came back empty. *)
Remove(o) ==
    /\ place[o] = "remove"
    /\ cache' = cache \ {oldKey[o]}
    /\ IF kind[o] = "rotate" THEN Proceed(o, "add") /\ UNCHANGED result ELSE Return(o, "ok")
    /\ UNCHANGED <<row, up, kind, id, oldKey, newKey, failures, restarts, overlapped>>

-----------------------------------------------------------------------------
(* The process stops: the calls under way are gone, and so is the map. *)
Stop ==
    /\ up /\ restarts < MaxRestarts /\ restarts' = restarts + 1
    /\ up' = FALSE /\ cache' = {}
    /\ place' = [o \in Ops |-> IF place[o] = "idle" THEN "idle" ELSE "end"]
    /\ UNCHANGED <<row, kind, id, oldKey, newKey, result, failures, overlapped>>

(* OnStart: LoadFromDB.  A row that cannot be scanned is skipped, and an    *)
(* iteration that breaks off is taken for its end.                          *)
LoadFromDB ==
    /\ ~up /\ up' = TRUE
    /\ \/ cache' = Active /\ UNCHANGED failures
       \/ StatementFails /\ \E scanned \in SUBSET Active : cache' = scanned
    /\ UNCHANGED <<row, calls, restarts>>

OpStep(o) == Insert(o) \/ Add(o) \/ ReadActive(o) \/ Deactivate(o) \/ Remove(o)

StoreNext ==
    \/ \E o \in Ops : StartGenerate(o) \/ Lookup(o) \/ OpStep(o)
    \/ Stop \/ LoadFromDB

StoreSpec == StoreInit /\ [][StoreNext]_storeVars

-----------------------------------------------------------------------------
(* Properties *)

StoreTypeOK ==
    /\ row \in [Keys -> {"none", "active", "inactive"}]
    /\ cache \subseteq Keys
    /\ up \in BOOLEAN
    /\ kind \in [Ops -> {"none", "generate", "delete", "rotate"}]
    /\ place \in [Ops -> {"idle", "insert", "add", "read", "deactivate", "remove", "end"}]
    /\ id \in [Ops -> Keys \cup {NoKey}]
    /\ oldKey \in [Ops -> Keys \cup {NoKey}]
    /\ newKey \in [Ops -> Keys \cup {NoKey}]
    /\ result \in [Ops -> {"none", "ok", "error", "notFound"}]
    /\ overlapped \in BOOLEAN /\ failures \in 0..MaxFailures /\ restarts \in 0..MaxRestarts

(* "Updates go to DB first, then the map": whatever overlaps or fails, the   *)
(* map never holds a key the table has not.                                  *)
DatabaseFirst == StoreTypeOK /\ \A k \in cache : row[k] # "none"

(* Whenever no call is under way and no statement has failed, every active   *)
(* key is accepted: overlapping calls may leave too much in the map but      *)
(* never too little.  With one call at a time the map is the set of active   *)
(* keys, also after a restart in the middle of a call.                       *)
ActiveKeysAccepted ==
    Settled /\ failures = 0 =>
        /\ Active \subseteq cache
        /\ ~overlapped => cache = Active

=============================================================================
