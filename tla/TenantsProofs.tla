---------------------------- MODULE TenantsProofs ----------------------------
(***************************************************************************)
(* Proofs about Tenants, for any number of rows, calls and failing         *)
(* statements.  TenantsIInv is inductive; TenantsInv, OrgRemains and       *)
(* AuditIsTrue follow from it.                                             *)
(***************************************************************************)
EXTENDS Tenants, FiniteSetTheorems, TLAPS

Rows == [st : {"none", "live", "gone"}, org : Orgs \cup {None},
         team : Teams \cup {None}, user : Users \cup {None}]

Kinds == {"none", "create", "rotate", "deleteOrg", "deleteTeam", "deleteUser", "deleteKey"}

PCs == {"idle", "checkOrg", "checkTeam", "checkUser", "insert", "countOrgs", "countTeams",
        "countUsers", "countKeys", "delete", "audit", "read", "deactivate", "end"}

Calls == [kind : Kinds, pc : PCs, id : Ids \cup {None}, org : Orgs \cup {None},
          team : Teams \cup {None}, user : Users \cup {None}]

Shape ==
    /\ row \in [Ids -> Rows] /\ op \in [Ops -> Calls]
    /\ audit \in [Entries -> Nat] /\ done \in [Entries -> Nat]
    /\ overlapped \in BOOLEAN /\ racing \in BOOLEAN /\ faults \in 0..MaxFaults

(* A call is at a place of its kind, with an id of the table it is about. *)
Placed(c) ==
    /\ c.pc \in {"idle", "end"} => c.kind = "none" /\ c.id = None
    /\ c.pc = "checkOrg" => c.kind = "create" /\ c.id \in Teams \cup Users \cup Keys
    /\ c.pc = "checkTeam" => c.kind = "create" /\ c.id \in Users \cup Keys
    /\ c.pc = "checkUser" => c.kind = "create" /\ c.id \in Keys
    /\ c.pc = "insert" => \/ c.kind = "create" /\ c.id \in Ids
                          \/ c.kind = "rotate" /\ c.id \in Keys
    /\ c.pc \in {"countOrgs", "countTeams"} => c.kind = "deleteOrg" /\ c.id \in Orgs
    /\ c.pc = "countUsers" => \/ c.kind = "deleteOrg" /\ c.id \in Orgs
                              \/ c.kind = "deleteTeam" /\ c.id \in Teams
    /\ c.pc = "countKeys" => c.kind = "deleteTeam" /\ c.id \in Teams
    /\ c.pc = "delete" => \/ c.kind = "deleteOrg" /\ c.id \in Orgs
                          \/ c.kind = "deleteTeam" /\ c.id \in Teams
                          \/ c.kind = "deleteUser" /\ c.id \in Users
    /\ c.pc = "audit" => c.kind \in Kinds \ {"none", "rotate", "deleteKey"} /\ c.id \in Ids \ Keys
    /\ c.pc = "read" => c.kind = "rotate" /\ c.id \in Keys
    /\ c.pc = "deactivate" => c.kind \in {"rotate", "deleteKey"} /\ c.id \in Keys
    /\ c.team # None => c.id \in Users \cup Keys
    /\ c.user # None => c.id \in Keys

Creating(c) == c.pc \in {"checkOrg", "checkTeam", "checkUser", "insert"}

(* A row is made once, by one call; a user_id may come back. *)
Unborn(c) == Creating(c) /\ c.id \notin Users => row[c.id].st = "none"
OneMaker ==
    \A o, p \in Ops :
        Creating(op[o]) /\ Creating(op[p]) /\ op[o].id = op[p].id /\ op[o].id \notin Users => o = p

(* The team t is, or was, one of organisation g. *)
TeamFits(t, g) == t # None => row[t].st # "none" /\ row[t].org = g
RowTeam(i)  == row[i].st # "none" => TeamFits(row[i].team, row[i].org)
CallTeam(c) == c.pc \in {"checkUser", "insert", "deactivate"} => TeamFits(c.team, c.org)

(* What a call of DeleteOrg has counted is still there. *)
OneDeleteOrg == \A o, p \in Ops : op[o].kind = "deleteOrg" /\ op[p].kind = "deleteOrg" => o = p
Another(c) ==
    c.kind = "deleteOrg" /\ c.pc \in {"countTeams", "countUsers", "delete"} =>
        \E g \in Orgs : row[g].st = "live" /\ g # c.id
OrgInv == ~racing => /\ \E g \in Orgs : row[g].st = "live"
                     /\ OneDeleteOrg
                     /\ \A o \in Ops : Another(op[o])

(* What a call has checked is still so, when it is the only one. *)
IsLive(i) == row[i].st = "live"
Checked(c) ==
    /\ c.pc \in {"checkTeam", "checkUser", "insert"} /\ c.id \in Teams \cup Users =>
          c.org \in Orgs /\ IsLive(c.org)
    /\ c.pc \in {"checkUser", "insert", "deactivate"} /\ c.team # None => IsLive(c.team)
    /\ c.kind = "deleteOrg" /\ c.pc \in {"countUsers", "delete"} =>
          \A t \in Teams : IsLive(t) => row[t].org # c.id
    /\ c.kind = "deleteOrg" /\ c.pc = "delete" =>
          \A u \in Users : IsLive(u) => row[u].org # c.id
    /\ c.kind = "deleteTeam" /\ c.pc \in {"countKeys", "delete"} =>
          \A u \in Users : IsLive(u) => row[u].team # c.id
    /\ c.kind = "deleteTeam" /\ c.pc = "delete" =>
          \A k \in Keys : IsLive(k) => row[k].team # c.id
OneCall == \A o, p \in Busy : o = p
SeqInv ==
    /\ ~overlapped => OneCall
    /\ ~overlapped /\ faults = 0 => References(row) /\ \A o \in Ops : Checked(op[o])

(* Calls that have done what they are about to log. *)
Entry(c) == <<IF c.kind = "create" THEN "create" ELSE "delete", c.id>>
Due(e) == {o \in Ops : op[o].pc = "audit" /\ Entry(op[o]) = e}
Logged(e) == /\ audit[e] + Cardinality(Due(e)) <= done[e]
             /\ faults = 0 => audit[e] + Cardinality(Due(e)) = done[e]

CallInv  == OneMaker /\ \A o \in Ops : Placed(op[o]) /\ Unborn(op[o])
TeamInv  == (\A i \in Users \cup Keys : RowTeam(i)) /\ \A o \in Ops : CallTeam(op[o])
AuditInv == \A e \in Entries : Logged(e)

TenantsIInv == Shape /\ CallInv /\ TeamInv /\ OrgInv /\ SeqInv /\ AuditInv
-----------------------------------------------------------------------------
(* How the calls move. *)

StepOf(o) == op' \in [Ops -> Calls] /\ \A p \in Ops : p # o => op'[p] = op[p]

(* What every action does to the calls and the histories: call o moves, to a *)
(* place of its kind; a row it makes is its own, and what overlaps is seen.  *)
Control(o) ==
    /\ StepOf(o) /\ Placed(op'[o])
    /\ faults' \in 0..MaxFaults /\ (faults' = 0 => faults = 0)
    /\ overlapped' \in BOOLEAN /\ (overlapped => overlapped')
    /\ racing' \in BOOLEAN /\ (racing => racing')
    /\ Creating(op'[o]) /\ op'[o].id \notin Users =>
          \/ Creating(op[o]) /\ op'[o].id = op[o].id
          \/ \A p \in Ops : op[p].id # op'[o].id
    /\ ~racing' /\ op'[o].kind = "deleteOrg" =>
          op[o].kind = "deleteOrg" \/ \A p \in Ops : op[p].kind # "deleteOrg"
    /\ ~overlapped' => o \in Busy \/ Busy = {}

(* One maker per row, one DeleteOrg and one call at a time stay. *)
LEMMA ControlStep ==
    ASSUME TenantsIInv, NEW o \in Ops, Control(o)
    PROVE  /\ OneMaker' /\ \A p \in Ops : Placed(op'[p])
           /\ ~racing' => OneDeleteOrg'
           /\ ~overlapped' => OneCall'
  <1>1. CallInv /\ OrgInv /\ SeqInv
    BY DEF TenantsIInv
  <1>2. \A p \in Ops : p # o => op'[p] = op[p]
    BY DEF Control, StepOf
  <1>3. \A p \in Ops : Placed(op'[p])
    BY <1>1, <1>2 DEF Control, CallInv
  <1>4. OneMaker'
    BY <1>1, <1>2 DEF Control, CallInv, OneMaker
  <1>5. ~racing' => OneDeleteOrg'
    BY <1>1, <1>2 DEF Control, OrgInv, OneDeleteOrg
  <1>6. ASSUME ~overlapped' PROVE OneCall'
    <2>1. OneCall /\ (o \in Busy \/ Busy = {})
      BY <1>1, <1>6 DEF Control, SeqInv
    <2>2. \A p \in Busy' : p = o
      BY <1>2, <2>1 DEF OneCall, Busy
    <2> QED BY <2>2 DEF OneCall
  <1> QED BY <1>3, <1>4, <1>5, <1>6

(* A call under way goes on. *)
LEMMA Moves ==
    ASSUME TenantsIInv, NEW o \in Ops, NEW c \in Calls, op' = [op EXCEPT ![o] = c],
           op[o].pc \notin {"idle", "end"}, Placed(c), c.kind \in {op[o].kind, "none"},
           Creating(c) => \/ Creating(op[o]) /\ c.id = op[o].id
                          \/ \A p \in Ops : op[p].id # c.id,
           Fault \/ UNCHANGED faults, UNCHANGED <<overlapped, racing>>
    PROVE  Control(o) /\ op'[o] = c
  <1>1. op \in [Ops -> Calls] /\ faults \in 0..MaxFaults /\ overlapped \in BOOLEAN /\ racing \in BOOLEAN
    BY DEF TenantsIInv, Shape
  <1>2. op'[o] = c /\ StepOf(o)
    BY <1>1 DEF StepOf
  <1>3. faults' \in 0..MaxFaults /\ (faults' = 0 => faults = 0)
    BY <1>1, TenantsAssumption DEF Fault
  <1>4. o \in Busy
    BY DEF Busy
  <1>5. c.kind = "deleteOrg" => op[o].kind = "deleteOrg"
    OBVIOUS
  <1> QED BY <1>1, <1>2, <1>3, <1>4, <1>5 DEF Control

(* The two ways of Goto. *)
Ended == [Idle EXCEPT !.pc = "end"]

(* A call that ends forgets everything. *)
LEMMA EndedCall ==
    /\ Ended \in Calls /\ Placed(Ended) /\ Ended.kind = "none" /\ Ended.pc = "end" /\ Ended.id = None
    /\ Ended.team = None /\ Ended.user = None /\ Ended.org = None
  BY DEF Ended, Idle, Calls, Kinds, PCs, Placed

(* A call that ends. *)
LEMMA Ends ==
    ASSUME TenantsIInv, NEW o \in Ops, Goto(o, "end"), op[o].pc \notin {"idle", "end"},
           Fault \/ UNCHANGED faults, UNCHANGED <<overlapped, racing>>
    PROVE  Control(o) /\ op'[o] = Ended
  <1>1. op' = [op EXCEPT ![o] = Ended]
    BY DEF Goto, Ended
  <1>2. ~Creating(Ended)
    BY EndedCall DEF Creating
  <1> QED BY <1>1, <1>2, EndedCall, Moves

(* A call that goes on to l. *)
LEMMA Proceeds ==
    ASSUME TenantsIInv, NEW o \in Ops, NEW l \in PCs \ {"end"}, Goto(o, l), op[o].pc \notin {"idle", "end"},
           Placed([op[o] EXCEPT !.pc = l]), l \in {"checkTeam", "checkUser", "insert"} => Creating(op[o]),
           l # "checkOrg", Fault \/ UNCHANGED faults, UNCHANGED <<overlapped, racing>>
    PROVE  Control(o) /\ op'[o] = [op[o] EXCEPT !.pc = l]
  <1> DEFINE c == [op[o] EXCEPT !.pc = l]
  <1>1. op' = [op EXCEPT ![o] = c]
    BY DEF Goto
  <1>2. op[o] \in Calls
    BY DEF TenantsIInv, Shape
  <1>3. c \in Calls /\ c.pc = l /\ c.kind = op[o].kind /\ c.id = op[o].id
    BY <1>2 DEF Calls
  <1>4. Creating(c) => Creating(op[o]) /\ c.id = op[o].id
    BY <1>3 DEF Creating
  <1>5. Placed(c)
    OBVIOUS
  <1> HIDE DEF c
  <1>6. Control(o) /\ op'[o] = c
    BY <1>1, <1>3, <1>4, <1>5, Moves
  <1> QED BY <1>6 DEF c

-----------------------------------------------------------------------------
(* Steps that only read the tables. *)

(* What such a step has to show of the call that takes it. *)
LEMMA ReadsRows ==
    ASSUME TenantsIInv, NEW o \in Ops, Control(o), UNCHANGED row,
           Unborn(op'[o]), CallTeam(op'[o]),
           ~racing' => Another(op'[o]),
           ~overlapped' /\ faults' = 0 => Checked(op'[o])
    PROVE  CallInv' /\ TeamInv' /\ OrgInv' /\ SeqInv'
  <1>1. Shape /\ CallInv /\ TeamInv /\ OrgInv /\ SeqInv
    BY DEF TenantsIInv
  <1>2. /\ OneMaker' /\ \A p \in Ops : Placed(op'[p])
        /\ ~racing' => OneDeleteOrg'
        /\ ~overlapped' => OneCall'
    BY ControlStep
  <1>3. \A p \in Ops : p # o => op'[p] = op[p]
    BY DEF Control, StepOf
  <1>4. CallInv'
    <2>1. \A p \in Ops : Unborn(op'[p])
      BY <1>1, <1>3 DEF CallInv
    <2> QED BY <1>2, <2>1 DEF CallInv, Unborn
  <1>5. TeamInv'
    <2>1. \A p \in Ops : CallTeam(op'[p])
      BY <1>1, <1>3 DEF TeamInv
    <2> QED BY <1>1, <2>1 DEF TeamInv, CallTeam, RowTeam, TeamFits
  <1>6. OrgInv'
    <2>1. ~racing' => \A p \in Ops : Another(op'[p])
      BY <1>1, <1>3 DEF OrgInv, Control
    <2> QED BY <1>1, <1>2, <2>1 DEF OrgInv, Another, Control
  <1>7. SeqInv'
    <2>1. ~overlapped' /\ faults' = 0 => References(row) /\ \A p \in Ops : Checked(op'[p])
      BY <1>1, <1>3 DEF SeqInv, Control
    <2> QED BY <1>2, <2>1 DEF SeqInv, Checked, References, IsLive
  <1> QED BY <1>4, <1>5, <1>6, <1>7

(* The audit log of a step that neither does nor logs anything. *)
LEMMA AuditSame ==
    ASSUME TenantsIInv, NEW o \in Ops, Control(o), UNCHANGED <<audit, done>>,
           op[o].pc # "audit", op'[o].pc # "audit"
    PROVE  AuditInv'
  <1>1. \A p \in Ops : p # o => op'[p] = op[p]
    BY DEF Control, StepOf
  <1>2. ASSUME NEW e \in Entries PROVE Logged(e)'
    <2>1. Due(e)' = Due(e)
      BY <1>1 DEF Due
    <2>2. Logged(e)
      BY DEF TenantsIInv, AuditInv
    <2> QED BY <2>1, <2>2 DEF Logged, Control
  <1> QED BY <1>2 DEF AuditInv

(* A step that reads. *)
LEMMA Reads ==
    ASSUME TenantsIInv, NEW o \in Ops, Control(o), UNCHANGED <<row, audit, done>>,
           op[o].pc # "audit", op'[o].pc # "audit",
           Unborn(op'[o]), CallTeam(op'[o]),
           ~racing' => Another(op'[o]),
           ~overlapped' /\ faults' = 0 => Checked(op'[o])
    PROVE  TenantsIInv'
  <1>1. CallInv' /\ TeamInv' /\ OrgInv' /\ SeqInv'
    BY ReadsRows
  <1>2. AuditInv'
    BY AuditSame
  <1>3. Shape'
    BY DEF TenantsIInv, Shape, Control, StepOf
  <1> QED BY <1>1, <1>2, <1>3 DEF TenantsIInv

(* The fields of a new call. *)
LEMMA CallFields ==
    ASSUME NEW kind, NEW pc, NEW id, NEW org, NEW team, NEW user
    PROVE  LET c == Call(kind, pc, id, org, team, user)
           IN  /\ c.kind = kind /\ c.pc = pc /\ c.id = id /\ c.org = org /\ c.team = team /\ c.user = user
               /\ kind \in Kinds /\ pc \in PCs /\ id \in Ids \cup {None} /\ org \in Orgs \cup {None}
                  /\ team \in Teams \cup {None} /\ user \in Users \cup {None} => c \in Calls
  BY DEF Call, Calls

(* A call begins: it has neither checked nor done anything yet. *)
LEMMA Begins ==
    ASSUME TenantsIInv, NEW o \in Ops, NEW c \in Calls, Starts(o, c), Placed(c),
           c.pc \in {"checkOrg", "insert", "countOrgs", "countUsers", "delete", "deactivate", "read"},
           Creating(c) /\ c.id \notin Users => Fresh(c.id),
           c.pc = "insert" => c.id \in Orgs,
           c.pc # "checkOrg" => c.team = None,
           c.kind = "deleteOrg" => c.pc = "countOrgs",
           c.kind = "deleteTeam" => c.pc = "countUsers"
    PROVE  TenantsIInv'
  <1>1. Shape /\ CallInv
    BY DEF TenantsIInv
  <1>2. /\ op[o].pc = "idle" /\ op' = [op EXCEPT ![o] = c] /\ UNCHANGED <<row, audit, done, faults>>
        /\ overlapped' = (overlapped \/ Busy # {})
        /\ racing' = (racing \/ (c.kind = "deleteOrg" /\ \E b \in Busy : op[b].kind = "deleteOrg"))
    BY DEF Starts, At
  <1>3. op'[o] = c /\ StepOf(o)
    BY <1>1, <1>2 DEF Shape, StepOf
  <1>4. overlapped' \in BOOLEAN /\ (overlapped => overlapped') /\ (~overlapped' => Busy = {})
    BY <1>1, <1>2 DEF Shape
  <1>5. racing' \in BOOLEAN /\ (racing => racing')
    BY <1>1, <1>2 DEF Shape
  <1>6. ~racing' /\ c.kind = "deleteOrg" => \A p \in Ops : op[p].kind # "deleteOrg"
    <2>1. \A p \in Ops : op[p].kind = "deleteOrg" => p \in Busy
      BY <1>1 DEF CallInv, Placed, Busy
    <2> QED BY <1>2, <2>1
  <1>7. Creating(c) /\ c.id \notin Users => row[c.id].st = "none" /\ \A p \in Ops : op[p].id # c.id
    BY DEF Fresh
  <1>8. Control(o)
    BY <1>1, <1>2, <1>3, <1>4, <1>5, <1>6, <1>7 DEF Control, Shape
  <1>9. Unborn(c) /\ CallTeam(c) /\ Another(c)
    BY <1>7 DEF Unborn, CallTeam, TeamFits, Another
  <1>10. Checked(c)
    <2>1. c.pc = "insert" => c.id \notin Teams \cup Users
      BY TenantsAssumption
    <2> QED BY <2>1 DEF Checked
  <1> QED BY <1>2, <1>3, <1>8, <1>9, <1>10, Reads

(* Every call begins like that. *)
LEMMA BeginStep ==
    ASSUME TenantsIInv, NEW o \in Ops,
           \/ CreateOrg(o) \/ CreateTeam(o) \/ CreateUser(o) \/ KeyGenerate(o)
           \/ DeleteOrg(o) \/ DeleteTeam(o) \/ DeleteUser(o) \/ KeyDelete(o) \/ KeyRotate(o)
    PROVE  TenantsIInv'
  <1> USE DEF Kinds, PCs, Placed, Creating
  <1>1. CASE CreateOrg(o)
    <2>1. PICK i \in Orgs : Fresh(i) /\ Starts(o, Call("create", "insert", i, None, None, None))
      BY <1>1 DEF CreateOrg
    <2> DEFINE c == Call("create", "insert", i, None, None, None)
    <2>2. /\ c \in Calls /\ c.kind = "create" /\ c.pc = "insert" /\ c.id = i /\ c.team = None /\ c.user = None
          /\ i \in Ids
      BY CallFields DEF Ids
    <2> HIDE DEF c
    <2> QED BY <2>1, <2>2, Begins DEF c
  <1>2. CASE CreateTeam(o)
    <2>1. PICK i \in Teams, g \in Orgs : Fresh(i) /\ Starts(o, Call("create", "checkOrg", i, g, None, None))
      BY <1>2 DEF CreateTeam
    <2> DEFINE c == Call("create", "checkOrg", i, g, None, None)
    <2>2. c \in Calls /\ c.kind = "create" /\ c.pc = "checkOrg" /\ c.id = i /\ c.team = None /\ c.user = None
      BY CallFields DEF Ids
    <2> HIDE DEF c
    <2> QED BY <2>1, <2>2, Begins DEF c
  <1>3. CASE CreateUser(o)
    <2>1. PICK i \in Users, g \in Orgs, t \in Teams \cup {None} :
             Starts(o, Call("create", "checkOrg", i, g, t, None))
      BY <1>3 DEF CreateUser
    <2> DEFINE c == Call("create", "checkOrg", i, g, t, None)
    <2>2. c \in Calls /\ c.kind = "create" /\ c.pc = "checkOrg" /\ c.id = i /\ c.user = None
      BY CallFields DEF Ids
    <2> HIDE DEF c
    <2> QED BY <2>1, <2>2, Begins DEF c
  <1>4. CASE KeyGenerate(o)
    <2>1. PICK i \in Keys, g \in Orgs, t \in Teams \cup {None}, u \in Users \cup {None} :
             Fresh(i) /\ Starts(o, Call("create", "checkOrg", i, g, t, u))
      BY <1>4 DEF KeyGenerate
    <2> DEFINE c == Call("create", "checkOrg", i, g, t, u)
    <2>2. c \in Calls /\ c.kind = "create" /\ c.pc = "checkOrg" /\ c.id = i
      BY CallFields DEF Ids
    <2> HIDE DEF c
    <2> QED BY <2>1, <2>2, Begins DEF c
  <1>5. CASE DeleteOrg(o)
    <2>1. PICK i \in Orgs : Starts(o, Call("deleteOrg", "countOrgs", i, None, None, None))
      BY <1>5 DEF DeleteOrg
    <2> DEFINE c == Call("deleteOrg", "countOrgs", i, None, None, None)
    <2>2. c \in Calls /\ c.kind = "deleteOrg" /\ c.pc = "countOrgs" /\ c.id = i /\ c.team = None /\ c.user = None
      BY CallFields DEF Ids
    <2> HIDE DEF c
    <2> QED BY <2>1, <2>2, Begins DEF c
  <1>6. CASE DeleteTeam(o)
    <2>1. PICK i \in Teams : Starts(o, Call("deleteTeam", "countUsers", i, None, None, None))
      BY <1>6 DEF DeleteTeam
    <2> DEFINE c == Call("deleteTeam", "countUsers", i, None, None, None)
    <2>2. c \in Calls /\ c.kind = "deleteTeam" /\ c.pc = "countUsers" /\ c.id = i /\ c.team = None /\ c.user = None
      BY CallFields DEF Ids
    <2> HIDE DEF c
    <2> QED BY <2>1, <2>2, Begins DEF c
  <1>7. CASE DeleteUser(o)
    <2>1. PICK i \in Users : Starts(o, Call("deleteUser", "delete", i, None, None, None))
      BY <1>7 DEF DeleteUser
    <2> DEFINE c == Call("deleteUser", "delete", i, None, None, None)
    <2>2. c \in Calls /\ c.kind = "deleteUser" /\ c.pc = "delete" /\ c.id = i /\ c.team = None /\ c.user = None
      BY CallFields DEF Ids
    <2> HIDE DEF c
    <2> QED BY <2>1, <2>2, Begins DEF c
  <1>8. CASE KeyDelete(o)
    <2>1. PICK i \in Keys : Starts(o, Call("deleteKey", "deactivate", i, None, None, None))
      BY <1>8 DEF KeyDelete
    <2> DEFINE c == Call("deleteKey", "deactivate", i, None, None, None)
    <2>2. c \in Calls /\ c.kind = "deleteKey" /\ c.pc = "deactivate" /\ c.id = i /\ c.team = None /\ c.user = None
      BY CallFields DEF Ids
    <2> HIDE DEF c
    <2> QED BY <2>1, <2>2, Begins DEF c
  <1>9. CASE KeyRotate(o)
    <2>1. PICK i \in Keys : Starts(o, Call("rotate", "read", i, None, None, None))
      BY <1>9 DEF KeyRotate
    <2> DEFINE c == Call("rotate", "read", i, None, None, None)
    <2>2. c \in Calls /\ c.kind = "rotate" /\ c.pc = "read" /\ c.id = i /\ c.team = None /\ c.user = None
      BY CallFields DEF Ids
    <2> HIDE DEF c
    <2> QED BY <2>1, <2>2, Begins DEF c
  <1> QED BY <1>1, <1>2, <1>3, <1>4, <1>5, <1>6, <1>7, <1>8, <1>9

(* A call that ends with a check or a count. *)
LEMMA EndsReading ==
    ASSUME TenantsIInv, NEW o \in Ops, Goto(o, "end"), op[o].pc \notin {"idle", "end", "audit"},
           Fault \/ UNCHANGED faults, Table(o)
    PROVE  TenantsIInv'
  <1>1. UNCHANGED <<row, audit, done, overlapped, racing>>
    BY DEF Table
  <1>2. Control(o) /\ op'[o] = Ended
    BY <1>1, Ends
  <1>3. Unborn(Ended) /\ CallTeam(Ended) /\ Another(Ended) /\ Checked(Ended)
    BY EndedCall DEF Unborn, Creating, CallTeam, Another, Checked
  <1>4. Ended.pc # "audit"
    BY EndedCall
  <1> QED BY <1>1, <1>2, <1>3, <1>4, Reads

(* A call that goes on after a check or a count. *)
LEMMA GoesOn ==
    ASSUME TenantsIInv, NEW o \in Ops, NEW l \in PCs \ {"end", "audit", "checkOrg"}, Goto(o, l),
           op[o].pc \notin {"idle", "end", "audit"},
           l \in {"checkTeam", "checkUser", "insert"} => Creating(op[o]),
           Placed([op[o] EXCEPT !.pc = l]), CallTeam([op[o] EXCEPT !.pc = l]),
           ~racing => Another([op[o] EXCEPT !.pc = l]),
           ~overlapped /\ faults' = 0 => Checked([op[o] EXCEPT !.pc = l]),
           Fault \/ UNCHANGED faults, Table(o)
    PROVE  TenantsIInv'
  <1> DEFINE c == [op[o] EXCEPT !.pc = l]
  <1>1. UNCHANGED <<row, audit, done, overlapped, racing>>
    BY DEF Table
  <1>2. Control(o) /\ op'[o] = c
    BY <1>1, Proceeds
  <1>3. op[o] \in Calls /\ Unborn(op[o])
    BY DEF TenantsIInv, Shape, CallInv
  <1>4. c.pc = l /\ c.id = op[o].id
    BY <1>3 DEF Calls
  <1>5. Unborn(c)
    BY <1>3, <1>4 DEF Unborn, Creating
  <1>6. CallTeam(c) /\ (~racing => Another(c)) /\ (~overlapped /\ faults' = 0 => Checked(c))
    OBVIOUS
  <1> HIDE DEF c
  <1> QED BY <1>1, <1>2, <1>4, <1>5, <1>6, Reads

(* The fields of a call that goes on, and what the invariant says of it. *)
LEMMA OpFacts ==
    ASSUME TenantsIInv, NEW o \in Ops
    PROVE  /\ op[o] \in Calls /\ Placed(op[o]) /\ Unborn(op[o]) /\ CallTeam(op[o])
           /\ ~racing => Another(op[o])
           /\ ~overlapped /\ faults = 0 => Checked(op[o])
           /\ \A l : LET c == [op[o] EXCEPT !.pc = l]
                     IN  /\ c.pc = l /\ c.kind = op[o].kind /\ c.id = op[o].id
                         /\ c.org = op[o].org /\ c.team = op[o].team /\ c.user = op[o].user
  <1>1. op[o] \in Calls
    BY DEF TenantsIInv, Shape
  <1>2. \A l : LET c == [op[o] EXCEPT !.pc = l]
               IN  /\ c.pc = l /\ c.kind = op[o].kind /\ c.id = op[o].id
                   /\ c.org = op[o].org /\ c.team = op[o].team /\ c.user = op[o].user
    BY <1>1 DEF Calls
  <1>3. Placed(op[o]) /\ Unborn(op[o]) /\ CallTeam(op[o])
    BY DEF TenantsIInv, CallInv, TeamInv
  <1>4. (~racing => Another(op[o])) /\ (~overlapped /\ faults = 0 => Checked(op[o]))
    BY DEF TenantsIInv, OrgInv, SeqInv
  <1> QED BY <1>1, <1>2, <1>3, <1>4

(* A statement that fails leaves a fault behind. *)
LEMMA FaultLeaves == ASSUME TenantsIInv, Fault PROVE faults' # 0
  BY TenantsAssumption DEF TenantsIInv, Shape, Fault

(* The organisation is looked up. *)
LEMMA CheckOrgStep ==
    ASSUME TenantsIInv, NEW o \in Ops, CheckOrg(o)
    PROVE  TenantsIInv'
  <1> DEFINE c(l) == [op[o] EXCEPT !.pc = l]
  <1>1. op[o].pc = "checkOrg" /\ Table(o) /\ Placed(op[o]) /\ op[o] \in Calls
    BY OpFacts DEF CheckOrg, At, Check
  <1>2. CASE Goto(o, "end") /\ (Fault \/ UNCHANGED faults)
    BY <1>1, <1>2, EndsReading
  <1>3. CASE Goto(o, AfterOrg(o)) /\ UNCHANGED faults /\ op[o].org \in Live(Orgs)
    <2> DEFINE l == AfterOrg(o)
    <2>1. /\ l \in {"checkTeam", "checkUser", "insert"}
          /\ l = "checkTeam" => op[o].team # None
          /\ l = "checkUser" => op[o].team = None /\ op[o].user # None
          /\ l = "insert" => op[o].team = None
      BY DEF AfterOrg, AfterTeam
    <2> HIDE DEF l
    <2>2. /\ c(l).pc = l /\ c(l).kind = op[o].kind /\ c(l).id = op[o].id
          /\ c(l).org = op[o].org /\ c(l).team = op[o].team /\ c(l).user = op[o].user
      BY OpFacts
    <2> HIDE DEF c
    <2>3. Placed(c(l))
      BY <1>1, <2>1, <2>2 DEF Placed, Ids
    <2>4. CallTeam(c(l)) /\ Another(c(l))
      BY <1>1, <2>1, <2>2 DEF Placed, CallTeam, TeamFits, Another
    <2>5. Checked(c(l))
      BY <1>1, <1>3, <2>1, <2>2 DEF Placed, Checked, Live, IsLive
    <2>6. Goto(o, l) /\ l \in PCs \ {"end", "audit", "checkOrg"} /\ Creating(op[o])
      BY <1>1, <1>3, <2>1 DEF l, PCs, Creating
    <2> QED BY <1>1, <1>3, <2>3, <2>4, <2>5, <2>6, GoesOn DEF c
  <1> QED BY <1>2, <1>3 DEF CheckOrg, Check

(* The team is looked up, with its organisation. *)
LEMMA CheckTeamStep ==
    ASSUME TenantsIInv, NEW o \in Ops, CheckTeam(o)
    PROVE  TenantsIInv'
  <1> DEFINE c(l) == [op[o] EXCEPT !.pc = l]
  <1>1. op[o].pc = "checkTeam" /\ Table(o) /\ Placed(op[o]) /\ op[o] \in Calls
    BY OpFacts DEF CheckTeam, At, Check
  <1>2. CASE Goto(o, "end") /\ (Fault \/ UNCHANGED faults)
    BY <1>1, <1>2, EndsReading
  <1>3. CASE Goto(o, AfterTeam(o)) /\ UNCHANGED faults /\ InSameOrg(o, op[o].team)
    <2> DEFINE l == AfterTeam(o)
    <2>1. l \in {"checkUser", "insert"} /\ (l = "checkUser" => op[o].user # None)
      BY DEF AfterTeam
    <2> HIDE DEF l
    <2>2. /\ c(l).pc = l /\ c(l).kind = op[o].kind /\ c(l).id = op[o].id
          /\ c(l).org = op[o].org /\ c(l).team = op[o].team /\ c(l).user = op[o].user
      BY OpFacts
    <2> HIDE DEF c
    <2>3. IsLive(op[o].team) /\ TeamFits(op[o].team, op[o].org)
      BY <1>3 DEF InSameOrg, Live, IsLive, TeamFits
    <2>4. Placed(c(l))
      BY <1>1, <2>1, <2>2 DEF Placed, Ids
    <2>5. CallTeam(c(l)) /\ Another(c(l))
      BY <1>1, <2>1, <2>2, <2>3 DEF Placed, CallTeam, Another
    <2>6. ~overlapped /\ faults' = 0 => Checked(c(l))
      <3>1. ~overlapped /\ faults' = 0 => Checked(op[o])
        BY <1>3, OpFacts
      <3> QED BY <1>1, <2>1, <2>2, <2>3, <3>1 DEF Placed, Checked
    <2>7. Goto(o, l) /\ l \in PCs \ {"end", "audit", "checkOrg"} /\ Creating(op[o])
      BY <1>1, <1>3, <2>1 DEF l, PCs, Creating
    <2> QED BY <1>1, <1>3, <2>4, <2>5, <2>6, <2>7, GoesOn DEF c
  <1> QED BY <1>2, <1>3 DEF CheckTeam, Check

(* The user is looked up. *)
LEMMA CheckUserStep ==
    ASSUME TenantsIInv, NEW o \in Ops, CheckUser(o)
    PROVE  TenantsIInv'
  <1> DEFINE c == [op[o] EXCEPT !.pc = "insert"]
  <1>1. /\ op[o].pc = "checkUser" /\ Table(o) /\ Placed(op[o]) /\ op[o] \in Calls /\ CallTeam(op[o])
    BY OpFacts DEF CheckUser, At, Check
  <1>2. CASE Goto(o, "end") /\ (Fault \/ UNCHANGED faults)
    BY <1>1, <1>2, EndsReading
  <1>3. CASE Goto(o, "insert") /\ UNCHANGED faults
    <2>1. /\ c.pc = "insert" /\ c.kind = op[o].kind /\ c.id = op[o].id
          /\ c.org = op[o].org /\ c.team = op[o].team /\ c.user = op[o].user
      BY OpFacts
    <2> HIDE DEF c
    <2>2. Placed(c) /\ CallTeam(c) /\ Another(c)
      BY <1>1, <2>1 DEF Placed, Ids, CallTeam, Another
    <2>3. ~overlapped /\ faults' = 0 => Checked(c)
      <3>1. ~overlapped /\ faults' = 0 => Checked(op[o])
        BY <1>3, OpFacts
      <3> QED BY <1>1, <2>1, <3>1 DEF Placed, Checked
    <2>4. "insert" \in PCs \ {"end", "audit", "checkOrg"} /\ Creating(op[o])
      BY <1>1 DEF PCs, Creating
    <2> QED BY <1>1, <1>3, <2>2, <2>3, <2>4, GoesOn DEF c
  <1> QED BY <1>2, <1>3 DEF CheckUser, Check

(* Two live organisations: one of them is not the one to delete. *)
LEMMA TwoOrgs ==
    ASSUME ~IsLastOrg, NEW i
    PROVE  \E g \in Orgs : row[g].st = "live" /\ g # i
  <1>1. CASE Live(Orgs) \subseteq {i}
    <2>1. IsFiniteSet({i}) /\ Cardinality({i}) = 1
      BY FS_Singleton
    <2>2. Cardinality(Live(Orgs)) <= Cardinality({i})
      BY <1>1, <2>1, FS_Subset
    <2> QED BY <2>1, <2>2 DEF IsLastOrg
  <1>2. CASE ~(Live(Orgs) \subseteq {i})
    BY <1>2 DEF Live
  <1> QED BY <1>1, <1>2

(* The organisations are counted. *)
LEMMA CountOrgsStep ==
    ASSUME TenantsIInv, NEW o \in Ops, CountOrgs(o)
    PROVE  TenantsIInv'
  <1> DEFINE c == [op[o] EXCEPT !.pc = "countTeams"]
  <1>1. /\ op[o].pc = "countOrgs" /\ Table(o) /\ Placed(op[o]) /\ op[o] \in Calls
    BY OpFacts DEF CountOrgs, At
  <1>2. CASE Goto(o, "end") /\ (Fault \/ UNCHANGED faults)
    BY <1>1, <1>2, EndsReading
  <1>3. CASE Goto(o, "countTeams") /\ UNCHANGED faults /\ ~IsLastOrg
    <2>1. /\ c.pc = "countTeams" /\ c.kind = op[o].kind /\ c.id = op[o].id
          /\ c.org = op[o].org /\ c.team = op[o].team /\ c.user = op[o].user
      BY OpFacts
    <2> HIDE DEF c
    <2>2. Placed(c) /\ CallTeam(c) /\ Checked(c)
      BY <1>1, <2>1 DEF Placed, CallTeam, Checked
    <2>3. Another(c)
      BY <1>3, TwoOrgs DEF Another
    <2>4. "countTeams" \in PCs \ {"end", "audit", "checkOrg"}
      BY DEF PCs
    <2> QED BY <1>1, <1>3, <2>2, <2>3, <2>4, GoesOn DEF c
  <1> QED BY <1>2, <1>3 DEF CountOrgs

(* What refers to the row is counted: teams of an organisation. *)
LEMMA CountTeamsStep ==
    ASSUME TenantsIInv, NEW o \in Ops, CountTeams(o)
    PROVE  TenantsIInv'
  <1> DEFINE c == [op[o] EXCEPT !.pc = "countUsers"]
             none == \A t \in Teams : IsLive(t) => row[t].org # op[o].id
  <1>1. /\ op[o].pc = "countTeams" /\ Table(o) /\ Placed(op[o]) /\ op[o] \in Calls
        /\ ~racing => Another(op[o])
    BY OpFacts DEF CountTeams, At, Count
  <1>2. \/ Goto(o, "end") /\ UNCHANGED faults
        \/ Goto(o, "countUsers") /\ (Fault \/ (UNCHANGED faults /\ none))
    BY DEF CountTeams, Count, Live, IsLive
  <1>3. CASE Goto(o, "end") /\ UNCHANGED faults
    BY <1>1, <1>3, EndsReading
  <1>4. CASE Goto(o, "countUsers") /\ (Fault \/ (UNCHANGED faults /\ none))
    <2>1. /\ c.pc = "countUsers" /\ c.kind = op[o].kind /\ c.id = op[o].id
          /\ c.org = op[o].org /\ c.team = op[o].team /\ c.user = op[o].user
      BY OpFacts
    <2> HIDE DEF c
    <2>2. Placed(c) /\ CallTeam(c) /\ (~racing => Another(c))
      BY <1>1, <2>1 DEF Placed, CallTeam, Another
    <2>3. faults' = 0 => none
      BY <1>4, FaultLeaves
    <2>4. faults' = 0 => Checked(c)
      BY <1>1, <2>1, <2>3 DEF Placed, Checked
    <2>5. "countUsers" \in PCs \ {"end", "audit", "checkOrg"}
      BY DEF PCs
    <2> QED BY <1>1, <1>4, <2>2, <2>4, <2>5, GoesOn DEF c
  <1> QED BY <1>2, <1>3, <1>4

(* Users of an organisation or of a team. *)
LEMMA CountUsersStep ==
    ASSUME TenantsIInv, NEW o \in Ops, CountUsers(o)
    PROVE  TenantsIInv'
  <1> DEFINE c(l) == [op[o] EXCEPT !.pc = l]
             noOrg  == \A u \in Users : IsLive(u) => row[u].org # op[o].id
             noTeam == \A u \in Users : IsLive(u) => row[u].team # op[o].id
  <1>1. /\ op[o].pc = "countUsers" /\ Placed(op[o]) /\ op[o] \in Calls
        /\ ~racing => Another(op[o])
    BY OpFacts DEF CountUsers, At
  <1>2. /\ Table(o)
        /\ \/ Goto(o, "end") /\ UNCHANGED faults
           \/ op[o].kind = "deleteOrg" /\ Goto(o, "delete") /\ (Fault \/ (UNCHANGED faults /\ noOrg))
           \/ op[o].kind # "deleteOrg" /\ Goto(o, "countKeys") /\ (Fault \/ (UNCHANGED faults /\ noTeam))
    BY DEF CountUsers, Count, Live, IsLive
  <1>3. CASE Goto(o, "end") /\ UNCHANGED faults
    BY <1>1, <1>2, <1>3, EndsReading
  <1>4. \A l : /\ c(l).pc = l /\ c(l).kind = op[o].kind /\ c(l).id = op[o].id
               /\ c(l).org = op[o].org /\ c(l).team = op[o].team /\ c(l).user = op[o].user
    BY OpFacts
  <1>5. ~overlapped /\ faults' = 0 /\ UNCHANGED faults => Checked(op[o])
    BY OpFacts
  <1>6. CASE op[o].kind = "deleteOrg" /\ Goto(o, "delete") /\ (Fault \/ (UNCHANGED faults /\ noOrg))
    <2> HIDE DEF c
    <2>1. Placed(c("delete")) /\ CallTeam(c("delete")) /\ (~racing => Another(c("delete")))
      BY <1>1, <1>4, <1>6 DEF Placed, CallTeam, Another
    <2>2. faults' = 0 => noOrg /\ UNCHANGED faults
      BY <1>6, FaultLeaves
    <2>3. ~overlapped /\ faults' = 0 => Checked(c("delete"))
      BY <1>1, <1>4, <1>5, <1>6, <2>2 DEF Placed, Checked
    <2>4. "delete" \in PCs \ {"end", "audit", "checkOrg"}
      BY DEF PCs
    <2> QED BY <1>1, <1>2, <1>6, <2>1, <2>3, <2>4, GoesOn DEF c
  <1>7. CASE op[o].kind # "deleteOrg" /\ Goto(o, "countKeys") /\ (Fault \/ (UNCHANGED faults /\ noTeam))
    <2> HIDE DEF c
    <2>1. Placed(c("countKeys")) /\ CallTeam(c("countKeys")) /\ (~racing => Another(c("countKeys")))
      BY <1>1, <1>4, <1>7 DEF Placed, CallTeam, Another
    <2>2. faults' = 0 => noTeam
      BY <1>7, FaultLeaves
    <2>3. faults' = 0 => Checked(c("countKeys"))
      BY <1>1, <1>4, <1>7, <2>2 DEF Placed, Checked
    <2>4. "countKeys" \in PCs \ {"end", "audit", "checkOrg"}
      BY DEF PCs
    <2> QED BY <1>1, <1>2, <1>7, <2>1, <2>3, <2>4, GoesOn DEF c
  <1> QED BY <1>2, <1>3, <1>6, <1>7

(* Keys of a team. *)
LEMMA CountKeysStep ==
    ASSUME TenantsIInv, NEW o \in Ops, CountKeys(o)
    PROVE  TenantsIInv'
  <1> DEFINE c == [op[o] EXCEPT !.pc = "delete"]
             none == \A k \in Keys : IsLive(k) => row[k].team # op[o].id
  <1>1. /\ op[o].pc = "countKeys" /\ Table(o) /\ Placed(op[o]) /\ op[o] \in Calls
    BY OpFacts DEF CountKeys, At, Count
  <1>2. \/ Goto(o, "end") /\ UNCHANGED faults
        \/ Goto(o, "delete") /\ (Fault \/ (UNCHANGED faults /\ none))
    BY DEF CountKeys, KeysOfTeam, Count, Live, IsLive
  <1>3. CASE Goto(o, "end") /\ UNCHANGED faults
    BY <1>1, <1>3, EndsReading
  <1>4. CASE Goto(o, "delete") /\ (Fault \/ (UNCHANGED faults /\ none))
    <2>1. /\ c.pc = "delete" /\ c.kind = op[o].kind /\ c.id = op[o].id
          /\ c.org = op[o].org /\ c.team = op[o].team /\ c.user = op[o].user
      BY OpFacts
    <2> HIDE DEF c
    <2>2. Placed(c) /\ CallTeam(c) /\ Another(c)
      BY <1>1, <2>1 DEF Placed, CallTeam, Another
    <2>3. faults' = 0 => none /\ UNCHANGED faults
      BY <1>4, FaultLeaves
    <2>4. ~overlapped /\ faults' = 0 => Checked(c)
      <3>1. ~overlapped /\ faults' = 0 => Checked(op[o])
        BY <2>3, OpFacts
      <3> QED BY <1>1, <2>1, <2>3, <3>1 DEF Placed, Checked
    <2>5. "delete" \in PCs \ {"end", "audit", "checkOrg"}
      BY DEF PCs
    <2> QED BY <1>1, <1>4, <2>2, <2>4, <2>5, GoesOn DEF c
  <1> QED BY <1>2, <1>3, <1>4

(* A rotation reads the row it will copy. *)
LEMMA ReadKeyStep ==
    ASSUME TenantsIInv, NEW o \in Ops, ReadKey(o)
    PROVE  TenantsIInv'
  <1> DEFINE k == op[o].id
             c == [op[o] EXCEPT !.pc = "deactivate", !.org = row[k].org,
                                !.team = row[k].team, !.user = row[k].user]
  <1>1. op[o].pc = "read" /\ Table(o) /\ Placed(op[o]) /\ op[o] \in Calls
    BY OpFacts DEF ReadKey, At
  <1>2. op \in [Ops -> Calls] /\ row \in [Ids -> Rows] /\ k \in Keys /\ k \in Ids /\ op[o].kind = "rotate"
    BY <1>1 DEF TenantsIInv, Shape, Placed, Ids
  <1>3. \/ Goto(o, "end") /\ (Fault \/ UNCHANGED faults)
        \/ IsLive(k) /\ op' = [op EXCEPT ![o] = c] /\ UNCHANGED faults
    <2>1. CASE Fault /\ Goto(o, "end")
      BY <2>1
    <2>2. CASE k \in Live(Keys) /\ UNCHANGED faults
      <3>1. op' = [op EXCEPT ![o].pc = "deactivate", ![o].org = row[k].org,
                             ![o].team = row[k].team, ![o].user = row[k].user]
            \/ (Fault /\ Goto(o, "end"))
        BY <2>2 DEF ReadKey
      <3> QED BY <1>2, <2>2, <3>1 DEF Live, IsLive
    <2>3. CASE k \notin Live(Keys) /\ UNCHANGED faults
      BY <2>3 DEF ReadKey, Goto
    <2> QED BY <2>1, <2>2, <2>3 DEF ReadKey
  <1>4. CASE Goto(o, "end") /\ (Fault \/ UNCHANGED faults)
    BY <1>1, <1>4, EndsReading
  <1>5. CASE IsLive(k) /\ op' = [op EXCEPT ![o] = c] /\ UNCHANGED faults
    <2>1. row[k] \in Rows
      BY <1>2
    <2>2. /\ c \in Calls /\ c.pc = "deactivate" /\ c.kind = "rotate" /\ c.id = k
          /\ c.org = row[k].org /\ c.team = row[k].team /\ c.user = row[k].user
      BY <1>1, <1>2, <2>1 DEF Calls, Rows, PCs
    <2> HIDE DEF c
    <2>3. Placed(c) /\ Another(c) /\ Unborn(c) /\ ~Creating(c)
      BY <1>2, <2>2 DEF Placed, Another, Unborn, Creating
    <2>4. CallTeam(c)
      <3>1. RowTeam(k)
        BY <1>2 DEF TenantsIInv, TeamInv
      <3> QED BY <1>5, <2>2, <3>1 DEF CallTeam, RowTeam, IsLive
    <2>5. ~overlapped /\ faults' = 0 => Checked(c)
      <3>1. ~overlapped /\ faults' = 0 => References(row)
        BY <1>5 DEF TenantsIInv, SeqInv
      <3>2. References(row) => row[k].team = None \/ IsLive(row[k].team)
        BY <1>2, <1>5 DEF References, IsLive
      <3> QED BY <2>2, <3>1, <3>2 DEF Checked
    <2>6. UNCHANGED <<row, audit, done, overlapped, racing>>
      BY <1>1 DEF Table
    <2>7. Control(o) /\ op'[o] = c
      BY <1>1, <1>2, <1>5, <2>2, <2>3, <2>6, Moves
    <2> QED BY <1>1, <2>2, <2>3, <2>4, <2>5, <2>6, <2>7, Reads
  <1> QED BY <1>3, <1>4, <1>5

-----------------------------------------------------------------------------
(* Steps that write. *)

(* Entries of the audit log, and how many of them are due. *)
LEMMA DueFacts ==
    ASSUME TenantsIInv, NEW e \in Entries
    PROVE  /\ IsFiniteSet(Due(e)) /\ Cardinality(Due(e)) \in Nat
           /\ audit[e] \in Nat /\ done[e] \in Nat /\ Logged(e)
  <1>1. Due(e) \subseteq Ops
    BY DEF Due
  <1>2. IsFiniteSet(Due(e))
    BY <1>1, FS_Subset, TenantsAssumption
  <1> QED BY <1>2, FS_CardinalityType DEF TenantsIInv, AuditInv, Shape

(* What has been done is due to be logged. *)
LEMMA AuditDoes ==
    ASSUME TenantsIInv, NEW o \in Ops, Control(o), UNCHANGED <<audit, faults>>,
           op[o].pc # "audit", op'[o].pc = "audit",
           NEW e \in Entries, Entry(op'[o]) = e, done' = [done EXCEPT ![e] = @ + 1]
    PROVE  AuditInv' /\ done' \in [Entries -> Nat]
  <1>1. \A p \in Ops : p # o => op'[p] = op[p]
    BY DEF Control, StepOf
  <1>2. done \in [Entries -> Nat]
    BY DEF TenantsIInv, Shape
  <1>3. Due(e)' = Due(e) \cup {o} /\ o \notin Due(e)
    BY <1>1 DEF Due
  <1>4. \A d \in Entries : d # e => Due(d)' = Due(d)
    BY <1>1 DEF Due
  <1>5. Cardinality(Due(e)') = Cardinality(Due(e)) + 1
    BY <1>3, DueFacts, FS_AddElement
  <1>6. done'[e] = done[e] + 1 /\ \A d \in Entries : d # e => done'[d] = done[d]
    BY <1>2
  <1>7. ASSUME NEW d \in Entries PROVE Logged(d)'
    <2>1. /\ Cardinality(Due(d)) \in Nat /\ audit[d] \in Nat /\ done[d] \in Nat /\ Logged(d)
      BY DueFacts
    <2>2. CASE d = e
      BY <1>5, <1>6, <2>1, <2>2 DEF Logged
    <2>3. CASE d # e
      BY <1>4, <1>6, <2>1, <2>3 DEF Logged
    <2> QED BY <2>2, <2>3
  <1> QED BY <1>2, <1>7 DEF AuditInv

(* The log is written, or the statement fails: then an entry is missing. *)
LEMMA LogStep ==
    ASSUME TenantsIInv, NEW o \in Ops, Log(o)
    PROVE  TenantsIInv'
  <1>1. op[o].pc = "audit" /\ Entry(op[o]) \in Entries
    <2>1. op[o].pc = "audit"
      BY DEF Log, At
    <2>2. op[o].id \in Ids \ Keys
      BY <2>1, OpFacts DEF Placed
    <2> QED BY <2>1, <2>2 DEF Entries, Entry
  <1>2. PICK e \in Entries : e = Entry(op[o])
    BY <1>1
  <1>3. /\ op[o].pc = "audit" /\ Goto(o, "end") /\ UNCHANGED <<row, done, overlapped, racing>>
        /\ \/ audit' = [audit EXCEPT ![e] = @ + 1] /\ UNCHANGED faults
           \/ Fault /\ UNCHANGED audit
    BY <1>2 DEF Log, At, Entry
  <1>4. Control(o) /\ op'[o] = Ended
    BY <1>3, Ends
  <1>5. Unborn(Ended) /\ CallTeam(Ended) /\ Another(Ended) /\ Checked(Ended) /\ Ended.pc = "end"
    BY EndedCall DEF Unborn, Creating, CallTeam, Another, Checked
  <1>6. CallInv' /\ TeamInv' /\ OrgInv' /\ SeqInv'
    BY <1>3, <1>4, <1>5, ReadsRows
  <1>7. \A p \in Ops : p # o => op'[p] = op[p]
    BY <1>4 DEF Control, StepOf
  <1>8. Due(e)' = Due(e) \ {o} /\ o \in Due(e)
    BY <1>3, <1>4, <1>5, <1>2, <1>7 DEF Due
  <1>9. ASSUME NEW d \in Entries, d # e PROVE Due(d)' = Due(d)
    <2>1. o \notin Due(d)
      BY <1>2, <1>9 DEF Due
    <2>2. o \notin Due(d)'
      BY <1>4, <1>5 DEF Due
    <2>3. \A p \in Ops : p # o => (p \in Due(d)' <=> p \in Due(d))
      BY <1>7 DEF Due
    <2>4. Due(d) \subseteq Ops /\ Due(d)' \subseteq Ops
      BY DEF Due
    <2> QED BY <2>1, <2>2, <2>3, <2>4
  <1>10. audit \in [Entries -> Nat]
    BY DEF TenantsIInv, Shape
  <1>11. Cardinality(Due(e)') = Cardinality(Due(e)) - 1 /\ Cardinality(Due(e)') \in Nat
    <2>1. IsFiniteSet(Due(e))
      BY <1>2, DueFacts
    <2>2. IsFiniteSet(Due(e) \ {o}) /\ Cardinality(Due(e) \ {o}) = Cardinality(Due(e)) - 1
      BY <1>8, <2>1, FS_RemoveElement
    <2> QED BY <1>8, <2>2, FS_CardinalityType
  <1>12. ASSUME NEW d \in Entries PROVE Logged(d)'
    <2>1. /\ Cardinality(Due(d)) \in Nat /\ audit[d] \in Nat /\ done[d] \in Nat /\ Logged(d)
      BY DueFacts
    <2>2. Fault => faults' # 0
      BY FaultLeaves
    <2>3. CASE d = e
      <3>1. (audit'[d] = audit[d] + 1 /\ UNCHANGED faults) \/ (audit'[d] = audit[d] /\ faults' # 0)
        BY <1>3, <1>10, <2>2, <2>3
      <3>2. Cardinality(Due(d)') = Cardinality(Due(d)) - 1 /\ done'[d] = done[d]
        BY <1>3, <1>11, <2>3
      <3>3. /\ audit[d] + Cardinality(Due(d)) <= done[d]
            /\ faults = 0 => audit[d] + Cardinality(Due(d)) = done[d]
        BY <2>1 DEF Logged
      <3>4. /\ audit'[d] + Cardinality(Due(d)') <= done'[d]
            /\ faults' = 0 => audit'[d] + Cardinality(Due(d)') = done'[d]
        BY <2>1, <3>1, <3>2, <3>3
      <3> QED BY <3>4 DEF Logged
    <2>4. CASE d # e
      <3>1. audit'[d] = audit[d] /\ (faults' = 0 => faults = 0)
        BY <1>3, <1>10, <2>2, <2>4
      <3> QED BY <1>3, <1>9, <2>1, <2>4, <3>1 DEF Logged
    <2> QED BY <2>3, <2>4
  <1>13. audit' \in [Entries -> Nat]
    BY <1>3, <1>10
  <1>14. Shape'
    BY <1>3, <1>4, <1>13 DEF TenantsIInv, Shape, Control, StepOf
  <1> QED BY <1>6, <1>12, <1>14 DEF TenantsIInv, AuditInv

(* Without overlap a call finds no other one under way. *)
LEMMA Alone ==
    ASSUME TenantsIInv, NEW o \in Ops, op[o].pc \notin {"idle", "end"}, ~overlapped,
           NEW p \in Ops, p # o
    PROVE  op[p].pc \in {"idle", "end"} /\ op[p].kind = "none"
  <1>1. OneCall /\ Placed(op[p])
    BY OpFacts DEF TenantsIInv, SeqInv
  <1>2. o \in Busy
    BY DEF Busy
  <1>3. p \notin Busy
    BY <1>1, <1>2 DEF OneCall
  <1> QED BY <1>1, <1>3 DEF Busy, Placed

(* A row is made.  Nobody refers to it yet, and what it refers to has been   *)
(* checked; the team it names was of its organisation and cannot change.     *)
LEMMA Inserts ==
    ASSUME TenantsIInv, NEW o \in Ops, NEW i \in Ids, op[o].id = i, op[o].pc = "insert",
           Control(o), op'[o].pc \in {"audit", "end"}, row[i].st # "live",
           row' = [row EXCEPT ![i] = [st |-> "live", org |-> op[o].org,
                                      team |-> op[o].team, user |-> op[o].user]],
           UNCHANGED <<overlapped, racing, faults>>
    PROVE  row' \in [Ids -> Rows] /\ CallInv' /\ TeamInv' /\ OrgInv' /\ SeqInv'
  <1>1. Shape /\ CallInv /\ TeamInv /\ OrgInv /\ SeqInv
    BY DEF TenantsIInv
  <1>2. /\ op[o] \in Calls /\ Placed(op[o]) /\ Unborn(op[o]) /\ CallTeam(op[o])
        /\ ~overlapped /\ faults = 0 => Checked(op[o])
    BY OpFacts
  <1>3. /\ OneMaker' /\ \A p \in Ops : Placed(op'[p])
        /\ ~racing' => OneDeleteOrg'
        /\ ~overlapped' => OneCall'
    BY ControlStep
  <1>4. op' \in [Ops -> Calls] /\ \A p \in Ops : p # o => op'[p] = op[p]
    BY DEF Control, StepOf
  <1>5. /\ row' \in [Ids -> Rows] /\ \A j \in Ids : j # i => row'[j] = row[j]
        /\ row'[i].st = "live" /\ row'[i].org = op[o].org /\ row'[i].team = op[o].team
    <2>1. [st |-> "live", org |-> op[o].org, team |-> op[o].team, user |-> op[o].user] \in Rows
      BY <1>2 DEF Calls, Rows
    <2>2. row \in [Ids -> Rows]
      BY <1>1 DEF Shape
    <2> QED BY <2>1, <2>2
  <1>6. i \notin Users => row[i].st = "none"
    BY <1>2 DEF Unborn, Creating
  <1>7. CallInv'
    <2>1. ASSUME NEW p \in Ops, Creating(op'[p]), op'[p].id \notin Users PROVE row'[op'[p].id].st = "none"
      <3>1. p # o /\ op'[p] = op[p]
        BY <1>4, <2>1 DEF Creating
      <3>2. op[p].id # i
        BY <1>1, <2>1, <3>1 DEF CallInv, OneMaker, Creating
      <3>3. row[op[p].id].st = "none" /\ op[p].id \in Ids
        BY <1>1, <2>1, <3>1 DEF CallInv, Unborn, Placed, Creating, Ids
      <3> QED BY <1>5, <3>1, <3>2, <3>3
    <2> QED BY <1>3, <2>1 DEF CallInv, Unborn
  <1>8. ASSUME NEW t \in Teams, NEW g, row[t].st # "none", row[t].org = g
        PROVE  row'[t].st # "none" /\ row'[t].org = g
    <2>1. t \in Ids /\ t \notin Users
      BY TenantsAssumption DEF Ids
    <2> QED BY <1>5, <1>6, <1>8, <2>1
  <1>9. TeamInv'
    <2>1. ASSUME NEW j \in Users \cup Keys PROVE RowTeam(j)'
      <3>1. RowTeam(j) /\ row[j] \in Rows /\ j \in Ids
        BY <1>1 DEF TeamInv, Shape, Ids
      <3>2. CASE j = i
        <4>1. op[o].team \in Teams \cup {None}
          BY <1>2 DEF Calls
        <4>2. TeamFits(op[o].team, op[o].org)
          BY <1>2 DEF CallTeam
        <4> QED BY <1>5, <1>8, <3>2, <4>1, <4>2 DEF RowTeam, TeamFits
      <3>3. CASE j # i
        <4>1. row[j].team \in Teams \cup {None} /\ row'[j] = row[j]
          BY <1>5, <3>1, <3>3 DEF Rows
        <4> QED BY <1>8, <3>1, <4>1 DEF RowTeam, TeamFits
      <3> QED BY <3>2, <3>3
    <2>2. ASSUME NEW p \in Ops PROVE CallTeam(op[p])'
      <3>1. CASE p = o
        BY <3>1 DEF CallTeam
      <3>2. CASE p # o
        <4>1. op'[p] = op[p] /\ CallTeam(op[p]) /\ op[p].team \in Teams \cup {None}
          BY <1>1, <1>4, <3>2 DEF TeamInv, Shape, Calls
        <4> QED BY <1>8, <4>1 DEF CallTeam, TeamFits
      <3> QED BY <3>1, <3>2
    <2> QED BY <2>1, <2>2 DEF TeamInv
  <1>10. \A g \in Orgs : row[g].st = "live" => row'[g].st = "live"
    BY <1>5 DEF Ids
  <1>11. OrgInv'
    <2>1. ASSUME ~racing, NEW p \in Ops PROVE Another(op[p])'
      <3>1. CASE p = o
        BY <3>1 DEF Another
      <3>2. CASE p # o
        <4>1. Another(op[p]) /\ op'[p] = op[p]
          BY <1>1, <1>4, <2>1, <3>2 DEF OrgInv
        <4> QED BY <1>10, <4>1 DEF Another
      <3> QED BY <3>1, <3>2
    <2>2. ~racing => \E g \in Orgs : row'[g].st = "live"
      BY <1>1, <1>10 DEF OrgInv
    <2> QED BY <1>3, <2>1, <2>2 DEF OrgInv
  <1>12. SeqInv'
    <2>1. ASSUME ~overlapped, NEW p \in Ops PROVE Checked(op[p])'
      <3>1. op'[p].pc \in {"idle", "end", "audit"}
        BY <1>4, <2>1, Alone
      <3> QED BY <3>1 DEF Checked
    <2>2. ASSUME ~overlapped, faults = 0 PROVE References(row')
      <3>1. References(row) /\ Checked(op[o])
        BY <1>1, <1>2, <2>2 DEF SeqInv
      <3>2. i \in Teams \cup Users => op[o].org \in Orgs /\ row[op[o].org].st = "live"
        BY <3>1 DEF Checked, IsLive
      <3>3. op[o].team = None \/ (op[o].team \in Teams /\ row[op[o].team].st = "live")
        BY <1>2, <3>1 DEF Checked, IsLive, Calls
      <3>4. \A j \in Ids : row[j].st = "live" => row'[j].st = "live"
        BY <1>5
      <3>5. \A j \in Ids : row'[j].st = "live" => j = i \/ (row'[j] = row[j] /\ row[j].st = "live")
        BY <1>5
      <3>6. \A t \in Teams : row'[t].st = "live" => row'[t].org \in Orgs /\ row'[row'[t].org].st = "live"
        BY <1>5, <3>1, <3>2, <3>4, <3>5 DEF References, Ids
      <3>7. \A u \in Users : row'[u].st = "live" => row'[u].org \in Orgs /\ row'[row'[u].org].st = "live"
        BY <1>5, <3>1, <3>2, <3>4, <3>5 DEF References, Ids
      <3>8. \A u \in Users \cup Keys : row'[u].st = "live" =>
               row'[u].team = None \/ (row'[u].team \in Teams /\ row'[row'[u].team].st = "live")
        BY <1>5, <3>1, <3>3, <3>4, <3>5 DEF References, Ids
      <3> QED BY <3>6, <3>7, <3>8 DEF References
    <2> QED BY <1>3, <2>1, <2>2 DEF SeqInv
  <1> QED BY <1>5, <1>7, <1>9, <1>11, <1>12

(* INSERT: the row is made and its creation is due to be logged, or the call *)
(* ends without it.                                                          *)
LEMMA InsertStep ==
    ASSUME TenantsIInv, NEW o \in Ops, Insert(o)
    PROVE  TenantsIInv'
  <1>1. op[o].pc = "insert" /\ Placed(op[o]) /\ op[o] \in Calls /\ UNCHANGED <<audit, overlapped, racing>>
    BY OpFacts DEF Insert, At
  <1>2. CASE Goto(o, "end") /\ (Fault \/ UNCHANGED faults) /\ UNCHANGED <<row, done>>
    BY <1>1, <1>2, EndsReading DEF Table
  <1>3. CASE /\ row[op[o].id].st # "live" /\ UNCHANGED faults
             /\ row' = [row EXCEPT ![op[o].id] = [st |-> "live", org |-> op[o].org,
                                                  team |-> op[o].team, user |-> op[o].user]]
             /\ Goto(o, IF op[o].id \in Keys THEN "end" ELSE "audit")
             /\ Does(o, "create")
    <2>1. PICK i \in Ids : i = op[o].id
      BY <1>1 DEF Placed, Ids
    <2>2. CASE i \in Keys
      <3>1. Control(o) /\ op'[o] = Ended
        BY <1>1, <1>3, <2>1, <2>2, Ends
      <3>2. op'[o].pc = "end" /\ UNCHANGED done
        BY <1>3, <2>1, <2>2, <3>1, EndedCall DEF Does
      <3>3. row' \in [Ids -> Rows] /\ CallInv' /\ TeamInv' /\ OrgInv' /\ SeqInv'
        BY <1>1, <1>3, <2>1, <3>1, <3>2, Inserts
      <3>4. AuditInv'
        BY <1>1, <3>1, <3>2, AuditSame
      <3>5. Shape'
        BY <1>1, <3>1, <3>2, <3>3 DEF TenantsIInv, Shape, Control, StepOf
      <3> QED BY <3>3, <3>4, <3>5 DEF TenantsIInv
    <2>3. CASE i \notin Keys
      <3> DEFINE c == [op[o] EXCEPT !.pc = "audit"]
      <3>1. /\ c.pc = "audit" /\ c.kind = op[o].kind /\ c.id = op[o].id
            /\ c.org = op[o].org /\ c.team = op[o].team /\ c.user = op[o].user
        BY OpFacts
      <3> HIDE DEF c
      <3>2. Placed(c) /\ c.kind = "create" /\ "audit" \in PCs \ {"end"} /\ Goto(o, "audit")
        BY <1>1, <1>3, <2>1, <2>3, <3>1 DEF Placed, Kinds, PCs
      <3>3. Control(o) /\ op'[o] = c
        BY <1>1, <1>3, <3>2, Proceeds DEF c
      <3>4. row' \in [Ids -> Rows] /\ CallInv' /\ TeamInv' /\ OrgInv' /\ SeqInv'
        BY <1>1, <1>3, <2>1, <3>1, <3>3, Inserts
      <3>5. PICK e \in Entries : e = <<"create", i>>
        BY <2>3 DEF Entries
      <3>6. Entry(op'[o]) = e /\ done' = [done EXCEPT ![e] = @ + 1]
        BY <1>3, <2>1, <2>3, <3>1, <3>2, <3>3, <3>5 DEF Entry, Does
      <3>7. AuditInv' /\ done' \in [Entries -> Nat]
        BY <1>1, <1>3, <3>1, <3>3, <3>6, AuditDoes
      <3>8. Shape'
        BY <1>1, <3>3, <3>4, <3>7 DEF TenantsIInv, Shape, Control, StepOf
      <3> QED BY <3>4, <3>7, <3>8 DEF TenantsIInv
    <2> QED BY <2>2, <2>3
  <1> QED BY <1>2, <1>3 DEF Insert

(* A row that is not live stays as it is. *)
LEMMA RowStays ==
    ASSUME TenantsIInv, NEW i \in Ids, row[i].st # "live",
           row' = [row EXCEPT ![i].st = IF @ = "live" THEN "gone" ELSE @]
    PROVE  row' = row
  <1>1. row \in [Ids -> Rows] /\ row[i] \in Rows
    BY DEF TenantsIInv, Shape
  <1>2. row' = [row EXCEPT ![i] = [row[i] EXCEPT !.st = row[i].st]]
    OBVIOUS
  <1>3. [row[i] EXCEPT !.st = row[i].st] = row[i]
    BY <1>1 DEF Rows
  <1> QED BY <1>1, <1>2, <1>3

(* A live row is removed.  It had been made, so that no call makes it again; *)
(* what belonged to a team still did, and when nothing refers to it nothing  *)
(* is left dangling.  Another organisation is left when it was one.          *)
LEMMA Removes ==
    ASSUME TenantsIInv, NEW o \in Ops, NEW i \in Ids, Control(o), op[o].pc \in {"delete", "deactivate"},
           row[i].st = "live", row' = [row EXCEPT ![i].st = IF @ = "live" THEN "gone" ELSE @],
           UNCHANGED <<overlapped, racing>>,
           op'[o].pc \in {"audit", "end", "insert"}, Unborn(op'[o]), CallTeam(op'[o]),
           op'[o].team \in Teams \cup {None},
           i \in Orgs => op[o].kind = "deleteOrg" /\ op[o].pc = "delete" /\ op[o].id = i,
           op'[o].pc = "insert" => op'[o].id \in Keys,
           ~overlapped /\ faults' = 0 =>
              /\ op'[o].pc = "insert" /\ op'[o].team # None => IsLive(op'[o].team) /\ op'[o].team # i
              /\ \A t \in Teams : IsLive(t) => row[t].org # i
              /\ \A u \in Users : IsLive(u) => row[u].org # i /\ row[u].team # i
              /\ \A k \in Keys : IsLive(k) => row[k].team # i
    PROVE  row' \in [Ids -> Rows] /\ CallInv' /\ TeamInv' /\ OrgInv' /\ SeqInv'
  <1>1. Shape /\ CallInv /\ TeamInv /\ OrgInv /\ SeqInv
    BY DEF TenantsIInv
  <1>2. /\ OneMaker' /\ \A p \in Ops : Placed(op'[p])
        /\ ~racing' => OneDeleteOrg'
        /\ ~overlapped' => OneCall'
    BY ControlStep
  <1>3. op' \in [Ops -> Calls] /\ \A p \in Ops : p # o => op'[p] = op[p]
    BY DEF Control, StepOf
  <1>4. /\ row' \in [Ids -> Rows] /\ \A j \in Ids : j # i => row'[j] = row[j]
        /\ row'[i].st = "gone" /\ row'[i].org = row[i].org /\ row'[i].team = row[i].team
    <2>1. row \in [Ids -> Rows] /\ row[i] \in Rows
      BY <1>1 DEF Shape
    <2>2. row' = [row EXCEPT ![i] = [row[i] EXCEPT !.st = "gone"]]
      OBVIOUS
    <2>3. [row[i] EXCEPT !.st = "gone"] \in Rows
      BY <2>1 DEF Rows
    <2> QED BY <2>1, <2>2, <2>3 DEF Rows
  <1>5. \A j \in Ids : /\ row'[j].st = "none" <=> row[j].st = "none"
                       /\ row'[j].org = row[j].org /\ row'[j].team = row[j].team
                       /\ row'[j].st = "live" <=> row[j].st = "live" /\ j # i
    BY <1>4
  <1>6. Orgs \subseteq Ids /\ Teams \subseteq Ids /\ Users \subseteq Ids /\ Keys \subseteq Ids
    BY DEF Ids
  <1>7. CallInv'
    <2>1. ASSUME NEW p \in Ops, Creating(op'[p]), op'[p].id \notin Users PROVE row'[op'[p].id].st = "none"
      <3>1. Unborn(op'[p]) /\ op'[p].id \in Ids
        BY <1>1, <1>2, <1>3, <2>1 DEF CallInv, Placed, Creating, Ids
      <3> QED BY <1>5, <2>1, <3>1 DEF Unborn
    <2> QED BY <1>2, <2>1 DEF CallInv, Unborn
  <1>8. TeamInv'
    <2>1. ASSUME NEW j \in Users \cup Keys PROVE RowTeam(j)'
      <3>1. RowTeam(j) /\ j \in Ids /\ row[j].team \in Teams \cup {None}
        BY <1>1, <1>6 DEF TeamInv, Shape, Rows
      <3> QED BY <1>5, <1>6, <3>1 DEF RowTeam, TeamFits
    <2>2. ASSUME NEW p \in Ops PROVE CallTeam(op[p])'
      <3>1. CallTeam(op'[p]) /\ op'[p].team \in Teams \cup {None}
        BY <1>1, <1>3 DEF TeamInv, Shape, Calls
      <3> QED BY <1>5, <1>6, <3>1 DEF CallTeam, TeamFits
    <2> QED BY <2>1, <2>2 DEF TeamInv
  <1>9. OrgInv'
    <2>1. ASSUME ~racing, NEW p \in Ops PROVE Another(op[p])'
      <3>1. CASE p = o
        BY <3>1 DEF Another
      <3>2. CASE p # o
        <4>1. op'[p] = op[p] /\ Another(op[p]) /\ OneDeleteOrg
          BY <1>1, <1>3, <2>1, <3>2 DEF OrgInv
        <4>2. CASE i \in Orgs
          BY <3>2, <4>1, <4>2 DEF Another, OneDeleteOrg
        <4>3. CASE i \notin Orgs
          BY <1>5, <1>6, <4>1, <4>3 DEF Another
        <4> QED BY <4>2, <4>3
      <3> QED BY <3>1, <3>2
    <2>2. ASSUME ~racing PROVE \E g \in Orgs : row'[g].st = "live"
      <3>1. CASE i \in Orgs
        BY <1>1, <1>5, <1>6, <2>2, <3>1 DEF OrgInv, Another
      <3>2. CASE i \notin Orgs
        BY <1>1, <1>5, <1>6, <2>2, <3>2 DEF OrgInv
      <3> QED BY <3>1, <3>2
    <2> QED BY <1>2, <2>1, <2>2 DEF OrgInv
  <1>10. SeqInv'
    <2>1. ASSUME ~overlapped, faults' = 0, NEW p \in Ops PROVE Checked(op[p])'
      <3>1. CASE p # o
        <4>1. op'[p].pc \in {"idle", "end"} /\ op'[p].kind = "none"
          BY <1>3, <2>1, <3>1, Alone
        <4> QED BY <4>1 DEF Checked
      <3>2. CASE p = o
        <4>1. op'[o].pc = "insert" => op'[o].id \notin Teams \cup Users
          BY TenantsAssumption
        <4>2. op'[o].pc = "insert" /\ op'[o].team # None => row'[op'[o].team].st = "live"
          BY <1>5, <1>6, <2>1 DEF IsLive
        <4> QED BY <3>2, <4>1, <4>2 DEF Checked, IsLive
      <3> QED BY <3>1, <3>2
    <2>2. ASSUME ~overlapped, faults' = 0 PROVE References(row')
      <3>1. References(row)
        BY <1>1, <2>2 DEF SeqInv, Control
      <3>2. /\ \A t \in Teams : row[t].st = "live" => row[t].org # i
            /\ \A u \in Users : row[u].st = "live" => row[u].org # i /\ row[u].team # i
            /\ \A k \in Keys : row[k].st = "live" => row[k].team # i
        BY <2>2 DEF IsLive
      <3>3. \A t \in Teams : row'[t].st = "live" => row'[t].org \in Orgs /\ row'[row'[t].org].st = "live"
        BY <1>5, <1>6, <3>1, <3>2 DEF References
      <3>4. \A u \in Users : row'[u].st = "live" => row'[u].org \in Orgs /\ row'[row'[u].org].st = "live"
        BY <1>5, <1>6, <3>1, <3>2 DEF References
      <3>5. \A u \in Users \cup Keys : row'[u].st = "live" =>
               row'[u].team = None \/ (row'[u].team \in Teams /\ row'[row'[u].team].st = "live")
        BY <1>5, <1>6, <3>1, <3>2 DEF References
      <3> QED BY <3>3, <3>4, <3>5 DEF References
    <2> QED BY <1>2, <2>1, <2>2 DEF SeqInv
  <1> QED BY <1>4, <1>7, <1>8, <1>9, <1>10

(* DELETE: the row is gone and its deletion due to be logged, or there was   *)
(* none and the call ends.                                                   *)
LEMMA DeleteStep ==
    ASSUME TenantsIInv, NEW o \in Ops, Delete(o)
    PROVE  TenantsIInv'
  <1>1. /\ op[o].pc = "delete" /\ Placed(op[o]) /\ op[o] \in Calls /\ UNCHANGED <<audit, overlapped, racing>>
        /\ ~overlapped /\ faults = 0 => Checked(op[o])
    BY OpFacts DEF Delete, At
  <1>2. PICK i \in Ids : i = op[o].id
    BY <1>1 DEF Placed, Ids
  <1>3. CASE Fault /\ Goto(o, "end") /\ UNCHANGED <<row, done>>
    BY <1>1, <1>3, EndsReading DEF Table
  <1>4. CASE /\ row' = [row EXCEPT ![op[o].id].st = IF @ = "live" THEN "gone" ELSE @]
             /\ Goto(o, AuditIfGone(o)) /\ UNCHANGED faults
             /\ IF row[op[o].id].st = "live" THEN Does(o, "delete") ELSE UNCHANGED done
    <2>1. CASE row[i].st # "live"
      <3>1. row' = row /\ done' = done /\ Goto(o, "end")
        BY <1>2, <1>4, <2>1, RowStays DEF AuditIfGone
      <3> QED BY <1>1, <1>4, <3>1, EndsReading DEF Table
    <2>2. CASE row[i].st = "live"
      <3> DEFINE c == [op[o] EXCEPT !.pc = "audit"]
      <3>1. /\ c.pc = "audit" /\ c.kind = op[o].kind /\ c.id = op[o].id
            /\ c.org = op[o].org /\ c.team = op[o].team /\ c.user = op[o].user
        BY OpFacts
      <3> HIDE DEF c
      <3>2. i \notin Keys
        BY <1>1, <1>2, TenantsAssumption DEF Placed
      <3>3. Placed(c) /\ c.kind # "create" /\ "audit" \in PCs \ {"end"} /\ Goto(o, "audit")
        BY <1>1, <1>2, <1>4, <2>2, <3>1, <3>2 DEF Placed, Kinds, PCs, AuditIfGone
      <3>4. Control(o) /\ op'[o] = c
        BY <1>1, <1>4, <3>3, Proceeds DEF c
      <3>5. ~overlapped /\ faults' = 0 =>
              /\ \A t \in Teams : IsLive(t) => row[t].org # i
              /\ \A u \in Users : IsLive(u) => row[u].org # i /\ row[u].team # i
              /\ \A k \in Keys : IsLive(k) => row[k].team # i
        <4>1. \A j \in Ids : /\ row[j].org \in Orgs \cup {None} /\ row[j].team \in Teams \cup {None}
          BY DEF TenantsIInv, Shape, Rows
        <4>2. Orgs \subseteq Ids /\ Teams \subseteq Ids /\ Users \subseteq Ids /\ Keys \subseteq Ids
          BY DEF Ids
        <4>3. CASE i \in Orgs
          <5>1. op[o].kind = "deleteOrg"
            BY <1>1, <1>2, <4>3, TenantsAssumption DEF Placed
          <5>2. \A j \in Ids : row[j].team # i
            BY <4>1, <4>3, TenantsAssumption
          <5> QED BY <1>1, <1>2, <1>4, <4>2, <5>1, <5>2 DEF Checked
        <4>4. CASE i \in Teams
          <5>1. op[o].kind = "deleteTeam"
            BY <1>1, <1>2, <4>4, TenantsAssumption DEF Placed
          <5>2. \A j \in Ids : row[j].org # i
            BY <4>1, <4>4, TenantsAssumption
          <5> QED BY <1>1, <1>2, <1>4, <4>2, <5>1, <5>2 DEF Checked
        <4>5. CASE i \in Users
          <5>1. \A j \in Ids : row[j].org # i /\ row[j].team # i
            BY <4>1, <4>5, TenantsAssumption
          <5> QED BY <4>2, <5>1
        <4> QED BY <3>2, <4>3, <4>4, <4>5 DEF Ids
      <3>6. i \in Orgs => op[o].kind = "deleteOrg"
        BY <1>1, <1>2, TenantsAssumption DEF Placed
      <3>7. Unborn(c) /\ CallTeam(c) /\ c.team \in Teams \cup {None}
        BY <1>1, <3>1 DEF Unborn, Creating, CallTeam, Calls
      <3>8. row' \in [Ids -> Rows] /\ CallInv' /\ TeamInv' /\ OrgInv' /\ SeqInv'
        BY <1>1, <1>2, <1>4, <2>2, <3>1, <3>4, <3>5, <3>6, <3>7, Removes
      <3>9. PICK e \in Entries : e = <<"delete", i>>
        BY <3>2 DEF Entries
      <3>10. Entry(op'[o]) = e /\ done' = [done EXCEPT ![e] = @ + 1]
        BY <1>2, <1>4, <2>2, <3>1, <3>2, <3>3, <3>4, <3>9 DEF Entry, Does
      <3>11. AuditInv' /\ done' \in [Entries -> Nat]
        BY <1>1, <1>4, <3>1, <3>4, <3>10, AuditDoes
      <3>12. Shape'
        BY <1>1, <3>4, <3>8, <3>11 DEF TenantsIInv, Shape, Control, StepOf
      <3> QED BY <3>8, <3>11, <3>12 DEF TenantsIInv
    <2> QED BY <2>1, <2>2
  <1> QED BY <1>3, <1>4 DEF Delete

(* A key is deactivated, whether the statement works or not; a rotation goes *)
(* on to insert its copy under an id nobody has.                             *)
LEMMA DeactivateStep ==
    ASSUME TenantsIInv, NEW o \in Ops, Deactivate(o)
    PROVE  TenantsIInv'
  <1>1. /\ op[o].pc = "deactivate" /\ Placed(op[o]) /\ op[o] \in Calls /\ CallTeam(op[o])
        /\ UNCHANGED <<audit, done, overlapped, racing>>
        /\ ~overlapped /\ faults = 0 => Checked(op[o])
    BY OpFacts DEF Deactivate, At
  <1>2. PICK i \in Ids : i = op[o].id /\ i \in Keys
    BY <1>1 DEF Placed, Ids
  <1>3. /\ Fault \/ UNCHANGED faults
        /\ \/ row' = row
           \/ row[i].st = "live" /\ row' = [row EXCEPT ![i].st = IF @ = "live" THEN "gone" ELSE @]
    BY <1>2, RowStays DEF Deactivate
  <1>4. /\ Control(o) /\ op'[o].pc \in {"end", "insert"}
        /\ Unborn(op'[o]) /\ CallTeam(op'[o]) /\ Another(op'[o])
        /\ op'[o].pc = "insert" => op'[o].id \in Keys /\ op'[o].team = op[o].team
        /\ op'[o].team \in Teams \cup {None}
    <2>1. CASE Goto(o, "end")
      <3>1. Control(o) /\ op'[o] = Ended
        BY <1>1, <1>3, <2>1, Ends
      <3> QED BY <3>1, EndedCall DEF Unborn, Creating, CallTeam, Another
    <2>2. ASSUME NEW k \in Keys, Fresh(k), op[o].kind = "rotate",
                 op' = [op EXCEPT ![o].pc = "insert", ![o].id = k]
          PROVE  /\ Control(o) /\ op'[o].pc = "insert"
                 /\ Unborn(op'[o]) /\ CallTeam(op'[o]) /\ Another(op'[o])
                 /\ op'[o].id \in Keys /\ op'[o].team = op[o].team
                 /\ op'[o].team \in Teams \cup {None}
      <3> DEFINE c == [op[o] EXCEPT !.pc = "insert", !.id = k]
      <3>1. op' = [op EXCEPT ![o] = c]
        BY <2>2
      <3>2. /\ c \in Calls /\ c.pc = "insert" /\ c.kind = "rotate" /\ c.id = k
            /\ c.org = op[o].org /\ c.team = op[o].team /\ c.user = op[o].user
        BY <1>1, <2>2 DEF Calls, PCs, Ids
      <3> HIDE DEF c
      <3>3. row[k].st = "none" /\ \A p \in Ops : op[p].id # k
        BY <2>2 DEF Fresh
      <3>4. Placed(c) /\ Unborn(c) /\ CallTeam(c) /\ Another(c) /\ c.team \in Teams \cup {None}
        BY <1>1, <3>2, <3>3 DEF Placed, Unborn, CallTeam, Another, Calls
      <3>5. Control(o) /\ op'[o] = c
        <4>1. op[o].pc \notin {"idle", "end"} /\ c.kind \in {op[o].kind, "none"}
          BY <1>1, <2>2, <3>2
        <4>2. \A p \in Ops : op[p].id # c.id
          BY <3>2, <3>3
        <4>3. (Fault \/ UNCHANGED faults) /\ UNCHANGED <<overlapped, racing>>
          BY <1>1, <1>3
        <4>4. c \in Calls /\ Placed(c)
          BY <3>2, <3>4
        <4> HIDE <1>1, <1>3, <2>2
        <4> QED BY <3>1, <4>1, <4>2, <4>3, <4>4, Moves
      <3> QED BY <3>2, <3>4, <3>5
    <2> QED BY <2>1, <2>2 DEF Deactivate, InsertsAgain
  <1>5. ~overlapped /\ faults' = 0 =>
           /\ op'[o].pc = "insert" /\ op'[o].team # None => IsLive(op'[o].team) /\ op'[o].team # i
           /\ \A t \in Teams : IsLive(t) => row[t].org # i
           /\ \A u \in Users : IsLive(u) => row[u].org # i /\ row[u].team # i
           /\ \A k \in Keys : IsLive(k) => row[k].team # i
    <2>1. \A j \in Ids : row[j].org \in Orgs \cup {None} /\ row[j].team \in Teams \cup {None}
      BY DEF TenantsIInv, Shape, Rows
    <2>2. \A j \in Ids : row[j].org # i /\ row[j].team # i
      BY <1>2, <2>1, TenantsAssumption
    <2>3. op'[o].team # i
      BY <1>2, <1>4, TenantsAssumption
    <2>4. faults' = 0 => faults = 0
      BY <1>4 DEF Control
    <2>5. ~overlapped /\ faults' = 0 /\ op'[o].pc = "insert" /\ op'[o].team # None => IsLive(op'[o].team)
      BY <1>1, <1>4, <2>4 DEF Checked
    <2> QED BY <2>2, <2>3, <2>5 DEF Ids
  <1>6. AuditInv'
    BY <1>1, <1>4, AuditSame
  <1>7. row' \in [Ids -> Rows] /\ CallInv' /\ TeamInv' /\ OrgInv' /\ SeqInv'
    <2>1. CASE row' = row
      <3>1. ~overlapped /\ faults' = 0 => Checked(op'[o])
        <4>1. op'[o].pc = "insert" => op'[o].id \notin Teams \cup Users
          BY <1>4, TenantsAssumption
        <4> QED BY <1>4, <1>5, <4>1 DEF Checked
      <3>2. row' \in [Ids -> Rows]
        BY <2>1 DEF TenantsIInv, Shape
      <3> QED BY <1>1, <1>4, <2>1, <3>1, <3>2, ReadsRows
    <2>2. CASE row[i].st = "live" /\ row' = [row EXCEPT ![i].st = IF @ = "live" THEN "gone" ELSE @]
      <3>1. i \notin Orgs
        BY <1>2, TenantsAssumption
      <3> QED BY <1>1, <1>4, <1>5, <2>2, <3>1, Removes
    <2> QED BY <1>3, <2>1, <2>2
  <1>8. Shape'
    BY <1>1, <1>4, <1>7 DEF TenantsIInv, Shape, Control, StepOf
  <1> QED BY <1>6, <1>7, <1>8 DEF TenantsIInv

-----------------------------------------------------------------------------
(* The theorems *)

(* Every step preserves the invariant. *)
LEMMA TenantsNext == TenantsIInv /\ [Next]_vars => TenantsIInv'
  <1> SUFFICES ASSUME TenantsIInv, [Next]_vars PROVE TenantsIInv'
    OBVIOUS
  <1>1. CASE UNCHANGED vars
    BY <1>1 DEF vars, TenantsIInv, Shape, CallInv, OneMaker, Unborn, TeamInv, RowTeam, CallTeam, TeamFits,
                OrgInv, OneDeleteOrg, Another, SeqInv, OneCall, Busy, Checked, IsLive, References,
                AuditInv, Logged, Due
  <1>2. ASSUME NEW o \in Ops, Step(o) PROVE TenantsIInv'
    BY <1>2, CheckOrgStep, CheckTeamStep, CheckUserStep, InsertStep, CountOrgsStep, CountTeamsStep,
       CountUsersStep, CountKeysStep, DeleteStep, LogStep, ReadKeyStep, DeactivateStep DEF Step
  <1> QED BY <1>1, <1>2, BeginStep DEF Next


(* The tables before fit, and nothing is under way. *)
LEMMA TenantsInit == Init => TenantsIInv
  <1> SUFFICES ASSUME Init PROVE TenantsIInv
    OBVIOUS
  <1>1. /\ audit = [e \in Entries |-> 0] /\ done = [e \in Entries |-> 0]
        /\ op = [o \in Ops |-> Idle]
        /\ overlapped = FALSE /\ racing = FALSE /\ faults = 0
    BY DEF Init
  <1>2. /\ Idle \in Calls /\ Placed(Idle)
        /\ Idle.pc = "idle" /\ Idle.kind = "none" /\ Idle.team = None
    BY DEF Idle, Calls, Kinds, PCs, Placed
  <1>3. PICK os \in SUBSET Orgs, ts \in SUBSET Teams, us \in SUBSET Users, ks \in SUBSET Keys :
           /\ Cardinality(os) \in 1..2 /\ Cardinality(ts) <= 1 /\ Cardinality(us \cup ks) <= 1
           /\ \E f \in [ts \cup us \cup ks -> os] :
                 row = [i \in Ids |->
                           CASE i \in os -> [NoRow EXCEPT !.st = "live"]
                             [] i \in ts -> [NoRow EXCEPT !.st = "live", !.org = f[i]]
                             [] i \in us \cup ks -> [NoRow EXCEPT !.st = "live", !.org = f[i]]
                             [] OTHER -> NoRow]
    BY Zenon DEF Init
  <1>4. PICK f \in [ts \cup us \cup ks -> os] :
           row = [i \in Ids |->
                     CASE i \in os -> [NoRow EXCEPT !.st = "live"]
                       [] i \in ts -> [NoRow EXCEPT !.st = "live", !.org = f[i]]
                       [] i \in us \cup ks -> [NoRow EXCEPT !.st = "live", !.org = f[i]]
                       [] OTHER -> NoRow]
    BY <1>3, Zenon
  <1>5. os # {}
    <2>1. Cardinality(os) \in 1..2
      BY <1>3, Zenon
    <2>2. Cardinality(os) # 0
      BY <2>1
    <2> QED BY <2>2, FS_EmptySet
  <1>6. ASSUME NEW i \in Ids
        PROVE  /\ row[i] \in Rows /\ row[i].team = None /\ row[i].st \in {"live", "none"}
               /\ i \in Orgs => (row[i].st = "live" <=> i \in os)
               /\ i \notin Orgs /\ row[i].st = "live" => row[i].org \in os
    <2>b. i \in os => i \in Orgs
      BY <1>3
    <2>c. i \in Orgs => i \notin ts \cup us \cup ks
      BY <1>3, TenantsAssumption
    <2>1. CASE i \in os
      <3>1. row[i] = [NoRow EXCEPT !.st = "live"]
        BY <1>4, <2>1, <2>b, <2>c
      <3> QED BY <2>1, <2>b, <3>1 DEF NoRow, Rows
    <2>2. CASE i \in ts \cup us \cup ks
      <3>1. i \notin os
        BY <2>2, <2>b, <2>c
      <3>2. row[i] = [NoRow EXCEPT !.st = "live", !.org = f[i]]
        BY <1>4, <2>2, <3>1
      <3>3. f[i] \in os /\ f[i] \in Orgs
        BY <1>3, <1>4, <2>2
      <3> QED BY <2>2, <2>c, <3>2, <3>3 DEF NoRow, Rows
    <2>3. CASE i \notin os \cup ts \cup us \cup ks
      <3>1. row[i] = NoRow
        BY <1>4, <2>3
      <3> QED BY <2>3, <3>1 DEF NoRow, Rows
    <2> QED BY <2>1, <2>2, <2>3
  <1>7. row \in [Ids -> Rows]
    BY <1>4, <1>6
  <1>8. Shape
    <2>1. op \in [Ops -> Calls] /\ audit \in [Entries -> Nat] /\ done \in [Entries -> Nat]
      BY <1>1, <1>2
    <2>2. faults \in 0..MaxFaults
      BY <1>1, TenantsAssumption
    <2> QED BY <1>1, <1>7, <2>1, <2>2 DEF Shape
  <1>9. \A o \in Ops : op[o] = Idle
    BY <1>1
  <1>10. CallInv
    BY <1>2, <1>9 DEF CallInv, OneMaker, Unborn, Creating
  <1>11. TeamInv
    BY <1>2, <1>6, <1>9 DEF TeamInv, RowTeam, CallTeam, TeamFits, Ids
  <1>12. OrgInv
    <2>1. PICK g \in os : g \in Orgs
      BY <1>5, <1>3
    <2>2. row[g].st = "live"
      BY <1>6, <2>1 DEF Ids
    <2> QED BY <1>2, <1>9, <2>1, <2>2 DEF OrgInv, OneDeleteOrg, Another
  <1>13. SeqInv
    <2>1. OneCall
      BY <1>2, <1>9 DEF OneCall, Busy
    <2>2. \A o \in Ops : Checked(op[o])
      BY <1>2, <1>9 DEF Checked
    <2>3. \A i \in Teams \cup Users \cup Keys :
             row[i].team = None /\ (row[i].st = "live" => row[i].org \in Orgs /\ row[row[i].org].st = "live")
      <3>1. \A i \in Teams \cup Users \cup Keys : i \in Ids /\ i \notin Orgs
        BY TenantsAssumption DEF Ids
      <3>2. \A g \in os : g \in Orgs /\ g \in Ids
        BY <1>3 DEF Ids
      <3> QED BY <1>6, <3>1, <3>2
    <2>4. References(row)
      BY <2>3 DEF References
    <2> QED BY <2>1, <2>2, <2>4 DEF SeqInv
  <1>14. AuditInv
    <2>1. ASSUME NEW e \in Entries PROVE Logged(e)
      <3>1. Due(e) = {}
        BY <1>2, <1>9 DEF Due
      <3>2. Cardinality(Due(e)) = 0
        BY <3>1, FS_EmptySet
      <3> QED BY <1>1, <3>2 DEF Logged
    <2> QED BY <2>1 DEF AuditInv
  <1> QED BY <1>8, <1>10, <1>11, <1>12, <1>13, <1>14 DEF TenantsIInv

(* TenantsIInv holds in every state. *)
LEMMA TenantsInductive == Spec => []TenantsIInv
  BY TenantsInit, TenantsNext, PTL DEF Spec

(* For any number of rows, calls and failing statements: the handlers of     *)
(* orgs.go, teams.go, users.go and keys.go keep every reference when calls   *)
(* follow one another, and a user or key in its team's organisation even     *)
(* when calls overlap and statements fail, without a foreign key.            *)
THEOREM ReferencesAreKept == Spec => []TenantsInv
  <1>1. TenantsIInv => TenantsInv
    <2> SUFFICES ASSUME TenantsIInv PROVE TenantsInv
      OBVIOUS
    <2>1. TypeOK
      <3>1. \A o \in Ops : Placed(op[o])
        BY DEF TenantsIInv, CallInv
      <3>2. \A o \in Ops : /\ At(o, "insert") => op[o].kind \in {"create", "rotate"}
                           /\ At(o, "countKeys") => op[o].id \in Teams
                           /\ At(o, "deactivate") => op[o].id \in Keys
        BY <3>1 DEF Placed, At
      <3> QED BY <3>2 DEF TypeOK, TenantsIInv, Shape, Rows
    <2>2. ReferencesHold
      BY DEF ReferencesHold, TenantsIInv, SeqInv
    <2>3. SameOrg
      <3>1. \A i \in Users \cup Keys : RowTeam(i)
        BY DEF TenantsIInv, TeamInv
      <3>2. \A t \in Live(Teams) : t # None
        BY TenantsAssumption DEF Live
      <3> QED BY <3>1, <3>2 DEF SameOrg, Live, RowTeam, TeamFits
    <2> QED BY <2>1, <2>2, <2>3 DEF TenantsInv
  <1> QED BY <1>1, TenantsInductive, PTL

(* For any number of organisations and calls: an organisation is left as     *)
(* long as no two calls of DeleteOrg are under way at once (orgs.go:97).     *)
THEOREM AnOrgRemains == Spec => []OrgRemains
  <1>1. TenantsIInv => OrgRemains
    BY DEF TenantsIInv, OrgInv, OrgRemains, Live
  <1> QED BY <1>1, TenantsInductive, PTL

(* For any number of calls and failing statements: audit.Log tells nothing   *)
(* that was not done, and leaves out nothing when no statement failed and no *)
(* call is under way.                                                        *)
THEOREM AuditTellsTheTruth == Spec => []AuditIsTrue
  <1>1. TenantsIInv => AuditIsTrue
    <2> SUFFICES ASSUME TenantsIInv PROVE AuditIsTrue
      OBVIOUS
    <2>1. audit \in [Entries -> Nat] /\ done \in [Entries -> Nat] /\ \A e \in Entries : Logged(e)
      BY DEF TenantsIInv, Shape, AuditInv
    <2>2. \A e \in Entries : Cardinality(Due(e)) \in Nat
      <3>1. \A e \in Entries : IsFiniteSet(Due(e))
        <4> TAKE e \in Entries
        <4>1. Due(e) \subseteq Ops
          BY DEF Due
        <4> QED BY <4>1, FS_Subset, TenantsAssumption
      <3> QED BY <3>1, FS_CardinalityType
    <2>3. \A e \in Entries : audit[e] <= done[e]
      BY <2>1, <2>2 DEF Logged
    <2>4. ASSUME faults = 0, Busy = {} PROVE audit = done
      <3>1. \A e \in Entries : Due(e) = {}
        BY <2>4 DEF Due, Busy
      <3>2. \A e \in Entries : Cardinality(Due(e)) = 0
        BY <3>1, FS_EmptySet
      <3>3. \A e \in Entries : audit[e] = done[e]
        BY <2>1, <2>4, <3>2 DEF Logged
      <3> QED BY <2>1, <3>3
    <2> QED BY <2>3, <2>4 DEF AuditIsTrue
  <1> QED BY <1>1, TenantsInductive, PTL
==============================================================================
