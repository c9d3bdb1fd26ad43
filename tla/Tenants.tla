------------------------------ MODULE Tenants -------------------------------
(***************************************************************************)
(* Organisations, teams, users and the keys that belong to them            *)
(* (handler/orgs.go, teams.go, users.go and the checks of keys.go), with   *)
(* the audit log (audit/audit.go).  The tables have no foreign keys: what  *)
(* references what is kept by the handlers, each statement of which is a   *)
(* step of its own.  The in-memory store of the keys is KeyStore's.        *)
(*                                                                         *)
(* A SERIAL id is used once; a user_id may come back after its row was     *)
(* deleted.  A user is named by user_id throughout, where the code names   *)
(* the row by its number when it deletes it.                               *)
(***************************************************************************)
EXTENDS Integers, FiniteSets

CONSTANTS
    Orgs, Teams, Users, Keys,   \* the ids of the rows
    Ops,         \* the calls of the admin handlers
    None,        \* an empty team_id or user_id
    MaxFaults    \* bound: statements that fail

ASSUME TenantsAssumption ==
    /\ None \notin Orgs \cup Teams \cup Users \cup Keys
    /\ Orgs \cap (Teams \cup Users \cup Keys) = {}
    /\ Teams \cap (Users \cup Keys) = {} /\ Users \cap Keys = {}
    /\ IsFiniteSet(Orgs) /\ IsFiniteSet(Ops)
    /\ MaxFaults \in Nat

Ids     == Orgs \cup Teams \cup Users \cup Keys
Entries == {"create", "delete"} \X (Ids \ Keys)      \* keys are not audited

VARIABLES
    row,         \* the tables: [st, org, team, user]; a key that is inactive is "gone"
    audit,       \* audit_log: how often an action on an id was logged
    done,        \* history: how often it was done
    op,          \* the calls: [kind, pc, id, org, team, user]
    overlapped,  \* history: two calls were under way at once
    racing,      \* history: two calls of DeleteOrg were
    faults

vars == <<row, audit, done, op, overlapped, racing, faults>>

NoRow == [st |-> "none", org |-> None, team |-> None, user |-> None]
Idle  == [kind |-> "none", pc |-> "idle", id |-> None, org |-> None, team |-> None, user |-> None]

Live(S) == {i \in S : row[i].st = "live"}
Busy    == {o \in Ops : op[o].pc \notin {"idle", "end"}}
At(o, l) == op[o].pc = l

(* What a row refers to is there. *)
References(r) ==
    LET live(S) == {i \in S : r[i].st = "live"} IN
    /\ \A t \in live(Teams) : r[t].org \in live(Orgs)
    /\ \A u \in live(Users) : /\ r[u].org \in live(Orgs)
                              /\ r[u].team \in live(Teams) \cup {None}
    /\ \A k \in live(Keys)  : r[k].team \in live(Teams) \cup {None}

(* The tables before: an organisation or two, and rows that fit. *)
Init ==
    /\ \E os \in SUBSET Orgs, ts \in SUBSET Teams, us \in SUBSET Users, ks \in SUBSET Keys :
          /\ Cardinality(os) \in 1..2 /\ Cardinality(ts) <= 1 /\ Cardinality(us \cup ks) <= 1
          /\ \E f \in [ts \cup us \cup ks -> os] :
                row = [i \in Ids |->
                          CASE i \in os -> [NoRow EXCEPT !.st = "live"]
                            [] i \in ts -> [NoRow EXCEPT !.st = "live", !.org = f[i]]
                            [] i \in us \cup ks -> [NoRow EXCEPT !.st = "live", !.org = f[i]]
                            [] OTHER -> NoRow]
    /\ audit = [e \in Entries |-> 0] /\ done = [e \in Entries |-> 0]
    /\ op = [o \in Ops |-> Idle]
    /\ overlapped = FALSE /\ racing = FALSE /\ faults = 0

-----------------------------------------------------------------------------
Fault    == faults < MaxFaults /\ faults' = faults + 1
Goto(o, l) == op' = [op EXCEPT ![o] = IF l = "end" THEN [Idle EXCEPT !.pc = l] ELSE [@ EXCEPT !.pc = l]]
Table(o) == UNCHANGED <<row, audit, done, overlapped, racing>>      \* a statement that only reads

Starts(o, call) ==
    /\ At(o, "idle")
    /\ op' = [op EXCEPT ![o] = call]
    /\ overlapped' = (overlapped \/ Busy # {})
    /\ racing' = (racing \/ (call.kind = "deleteOrg" /\ \E b \in Busy : op[b].kind = "deleteOrg"))
    /\ UNCHANGED <<row, audit, done, faults>>

Call(kind, pc, id, org, team, user) ==
    [kind |-> kind, pc |-> pc, id |-> id, org |-> org, team |-> team, user |-> user]

(* An id nobody has; a user_id comes with the request and may be taken. *)
Fresh(i) == row[i].st = "none" /\ \A o \in Ops : op[o].id # i

CreateOrg(o)  == \E i \in Orgs : Fresh(i) /\ Starts(o, Call("create", "insert", i, None, None, None))
CreateTeam(o) ==
    \E i \in Teams, g \in Orgs : Fresh(i) /\ Starts(o, Call("create", "checkOrg", i, g, None, None))
CreateUser(o) ==
    \E i \in Users, g \in Orgs, t \in Teams \cup {None} :
        Starts(o, Call("create", "checkOrg", i, g, t, None))
KeyGenerate(o) ==
    \E i \in Keys, g \in Orgs, t \in Teams \cup {None}, u \in Users \cup {None} :
        Fresh(i) /\ Starts(o, Call("create", "checkOrg", i, g, t, u))

DeleteOrg(o)  == \E i \in Orgs : Starts(o, Call("deleteOrg", "countOrgs", i, None, None, None))
DeleteTeam(o) == \E i \in Teams : Starts(o, Call("deleteTeam", "countUsers", i, None, None, None))
DeleteUser(o) == \E i \in Users : Starts(o, Call("deleteUser", "delete", i, None, None, None))
KeyDelete(o)  == \E i \in Keys : Starts(o, Call("deleteKey", "deactivate", i, None, None, None))
KeyRotate(o)  == \E i \in Keys : Starts(o, Call("rotate", "read", i, None, None, None))

-----------------------------------------------------------------------------
(* The checks before an INSERT: of a statement that fails the handlers think *)
(* that there is no row.                                                     *)

AfterTeam(o) == IF op[o].user # None THEN "checkUser" ELSE "insert"
AfterOrg(o)  == IF op[o].team # None THEN "checkTeam" ELSE AfterTeam(o)

Check(o, passes, next) ==
    /\ \/ Goto(o, IF passes THEN next ELSE "end") /\ UNCHANGED faults
       \/ Fault /\ Goto(o, "end")
    /\ Table(o)

(* Fault: any organisation's team will do. *)
InAnyOrg(o, i) == i \in Live(Ids)
InSameOrg(o, i) == i \in Live(Ids) /\ row[i].org = op[o].org

CheckOrg(o)  == At(o, "checkOrg") /\ Check(o, op[o].org \in Live(Orgs), AfterOrg(o))
CheckTeam(o) == At(o, "checkTeam") /\ Check(o, InSameOrg(o, op[o].team), AfterTeam(o))
CheckUser(o) == At(o, "checkUser") /\ Check(o, InSameOrg(o, op[o].user), "insert")

(* What is done to a row that the audit log should tell. *)
Does(o, action) ==
    done' = IF op[o].id \in Keys THEN done ELSE [done EXCEPT ![<<action, op[o].id>>] = @ + 1]

(* user_id is UNIQUE. *)
Insert(o) ==
    /\ At(o, "insert")
    /\ \/ /\ row[op[o].id].st # "live"
          /\ row' = [row EXCEPT ![op[o].id] = [st |-> "live", org |-> op[o].org,
                                               team |-> op[o].team, user |-> op[o].user]]
          /\ Goto(o, IF op[o].id \in Keys THEN "end" ELSE "audit")
          /\ Does(o, "create")
          /\ UNCHANGED faults
       \/ row[op[o].id].st = "live" /\ Goto(o, "end") /\ UNCHANGED <<row, done, faults>>
       \/ Fault /\ Goto(o, "end") /\ UNCHANGED <<row, done>>
    /\ UNCHANGED <<audit, overlapped, racing>>

-----------------------------------------------------------------------------
(* The counts before a DELETE: of a statement that fails the count stays 0. *)

(* Fault: only an empty table counts. *)
IsLastOrgLate == Live(Orgs) = {}
IsLastOrg     == Cardinality(Live(Orgs)) <= 1

CountOrgs(o) ==
    /\ At(o, "countOrgs")
    /\ \/ Goto(o, IF IsLastOrg THEN "end" ELSE "countTeams") /\ UNCHANGED faults
       \/ Fault /\ Goto(o, "end")
    /\ Table(o)

Count(o, rows, next) ==
    /\ \/ Goto(o, IF rows # {} THEN "end" ELSE next) /\ UNCHANGED faults
       \/ Fault /\ Goto(o, next)
    /\ Table(o)

CountTeams(o) ==
    At(o, "countTeams") /\ Count(o, {t \in Live(Teams) : row[t].org = op[o].id}, "countUsers")
CountUsers(o) ==
    /\ At(o, "countUsers")
    /\ IF op[o].kind = "deleteOrg"
       THEN Count(o, {u \in Live(Users) : row[u].org = op[o].id}, "delete")
       ELSE Count(o, {u \in Live(Users) : row[u].team = op[o].id}, "countKeys")

KeysOfTeam(o) == {k \in Live(Keys) : row[k].team = op[o].id}

CountKeys(o) == At(o, "countKeys") /\ Count(o, KeysOfTeam(o), "delete")

(* Fault: the number of rows the DELETE affected is not looked at. *)
AuditAnyway(o) == "audit"
AuditIfGone(o) == IF row[op[o].id].st = "live" THEN "audit" ELSE "end"

Delete(o) ==
    /\ At(o, "delete")
    /\ \/ /\ row' = [row EXCEPT ![op[o].id].st = IF @ = "live" THEN "gone" ELSE @]
          /\ Goto(o, AuditIfGone(o))
          /\ IF row[op[o].id].st = "live" THEN Does(o, "delete") ELSE UNCHANGED done
          /\ UNCHANGED faults
       \/ Fault /\ Goto(o, "end") /\ UNCHANGED <<row, done>>
    /\ UNCHANGED <<audit, overlapped, racing>>

(* audit.Log: an error is only logged. *)
Log(o) ==
    /\ At(o, "audit")
    /\ LET entry == <<IF op[o].kind = "create" THEN "create" ELSE "delete", op[o].id>> IN
       \/ audit' = [audit EXCEPT ![entry] = @ + 1] /\ UNCHANGED faults
       \/ Fault /\ UNCHANGED audit
    /\ Goto(o, "end")
    /\ UNCHANGED <<row, done, overlapped, racing>>

-----------------------------------------------------------------------------
(* Keys: a rotation reads the row and inserts a copy under a new hash. *)

ReadKey(o) ==
    /\ At(o, "read")
    /\ \/ /\ op' = IF op[o].id \in Live(Keys)
                   THEN [op EXCEPT ![o].pc = "deactivate", ![o].org = row[op[o].id].org,
                                   ![o].team = row[op[o].id].team, ![o].user = row[op[o].id].user]
                   ELSE [op EXCEPT ![o] = [Idle EXCEPT !.pc = "end"]]
          /\ UNCHANGED faults
       \/ Fault /\ Goto(o, "end")
    /\ Table(o)

InsertsAgain(o) == op[o].kind = "rotate"

Deactivate(o) ==
    /\ At(o, "deactivate")
    /\ \/ /\ row' = [row EXCEPT ![op[o].id].st = IF @ = "live" THEN "gone" ELSE @]
          /\ UNCHANGED faults
       \/ Fault /\ UNCHANGED row
    /\ IF InsertsAgain(o)
       THEN \E k \in Keys : Fresh(k) /\ op' = [op EXCEPT ![o].pc = "insert", ![o].id = k]
       ELSE Goto(o, "end")
    /\ UNCHANGED <<audit, done, overlapped, racing>>

Step(o) ==
    \/ CheckOrg(o) \/ CheckTeam(o) \/ CheckUser(o) \/ Insert(o)
    \/ CountOrgs(o) \/ CountTeams(o) \/ CountUsers(o) \/ CountKeys(o) \/ Delete(o) \/ Log(o)
    \/ ReadKey(o) \/ Deactivate(o)

Next == \E o \in Ops :
    \/ CreateOrg(o) \/ CreateTeam(o) \/ CreateUser(o) \/ KeyGenerate(o)
    \/ DeleteOrg(o) \/ DeleteTeam(o) \/ DeleteUser(o) \/ KeyDelete(o) \/ KeyRotate(o)
    \/ Step(o)

Spec == Init /\ [][Next]_vars

-----------------------------------------------------------------------------
TypeOK ==
    /\ row \in [Ids -> [st : {"none", "live", "gone"}, org : Orgs \cup {None},
                        team : Teams \cup {None}, user : Users \cup {None}]]
    /\ audit \in [Entries -> Nat] /\ done \in [Entries -> Nat]
    /\ \A o \in Ops :
          /\ At(o, "insert") => op[o].kind \in {"create", "rotate"}
          /\ At(o, "countKeys") => op[o].id \in Teams
          /\ At(o, "deactivate") => op[o].id \in Keys
    /\ overlapped \in BOOLEAN /\ racing \in BOOLEAN /\ faults \in 0..MaxFaults

(* orgs.go:97 "at least one must always exist": however other calls overlap   *)
(* and whichever statement fails, an organisation is left as long as no two   *)
(* calls of DeleteOrg are under way at once.                                  *)
OrgRemains == ~racing => Live(Orgs) # {}

(* Calls that follow one another, of all kinds and in any order, keep every   *)
(* reference of a team, a user and an active key to a row that exists,        *)
(* although no table has a foreign key.  (The organisation of a key is not    *)
(* among them: DeleteOrg does not look at keys.)                              *)
ReferencesHold == ~overlapped /\ faults = 0 => References(row)

(* Also when calls overlap and statements fail: a user or an active key of a  *)
(* team that exists belongs to the organisation of the team.                  *)
SameOrg ==
    \A i \in Live(Users \cup Keys) :
        row[i].team \in Live(Teams) => row[row[i].team].org = row[i].org

(* What the handlers keep in place of foreign keys. *)
TenantsInv == TypeOK /\ ReferencesHold /\ SameOrg

(* The audit log tells what happened: it never holds more entries than rows   *)
(* were made or removed, of two calls that delete the same row only one is    *)
(* logged, and when no statement failed and no call is under way nothing is   *)
(* missing.                                                                   *)
AuditIsTrue ==
    /\ \A e \in Entries : audit[e] <= done[e]
    /\ faults = 0 /\ Busy = {} => audit = done
=============================================================================
