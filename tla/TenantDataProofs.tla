-------------------------- MODULE TenantDataProofs --------------------------
(***************************************************************************)
(* For any number of requests, employees, tables and tenants: the types,   *)
(* who meets the constraints of the database, that deletions are of what   *)
(* was known to go, and that nothing outlives its tenant.                  *)
(*                                                                         *)
(* The inductive invariant says of each handler what it may rely on of     *)
(* what it has read, unless others have changed it since, in particular    *)
(* that a purge has dealt with every row of the tables before its next     *)
(* statement.                                                              *)
(***************************************************************************)
EXTENDS TenantData, TLAPS

EmployeeOps == {"edit", "dismiss", "restore", "expunge"}

(* The kinds of request that reach each statement, and the row they have.  *)
Fits(t) ==
    /\ t.op = "record" => t.row \in Records
    /\ t.op \in EmployeeOps \cup {"hire"} => \E e \in Employees : t.row = Employee(e)
    /\ t.op = "settings" => t.row = Settings
    /\ t.op = "catalog" => t.row = Catalog(t.id) /\ t.id \in Ids
    /\ t.pc \in {"idle", "failed"} => t.op = "visit"
    /\ t.pc \in {"user", "member"} => t.op \in StaffOps /\ t.user \in Users
    /\ t.pc = "find" => t.op \in EmployeeOps \cup {"record", "settings"}
    /\ t.pc = "insert" => t.op \in {"hire", "record", "settings", "catalog"}
    /\ t.pc = "update" => t.op \in {"edit", "dismiss", "restore"}
    /\ t.pc \in {"usage", "clear", "delete"} => t.op = "expunge"
    /\ t.pc \in {"report", "purge", "drop"} => t.op = "remove"
    /\ t.pc = "switch" => t.op = "switch"
    /\ t.pc = "clear" => t.n \in 1 .. 5
    /\ t.pc = "purge" => t.n \in 1 .. 9
    /\ t.pc = "drop" => t.n = 10
    /\ t.pc \notin InTransaction => t.gone = {} /\ t.n = 1
    /\ t.pc \in {"clear", "delete"} => \A r \in t.gone : r[1] \in Kept
    /\ t.gone \cap Catalogs \subseteq {Catalog(t.id)}

(* What was there when the handler read it is there, or has been missed.   *)
ReliesOn(t, m, ten, rs, del, hi) ==
    /\ t.pc \notin {"idle", "failed"} => ten = t.id \/ Tenant \in m
    /\ t.pc \in {"usage", "clear", "delete"} => t.row[2] \in del \/ t.row \in m
    /\ t.pc = "update" => t.row \in rs \/ t.row \in m
    /\ t.pc = "insert" /\ t.op = "record" =>
         Employee(t.row[2]) \in rs \/ Employee(t.row[2]) \in m
    /\ t.pc = "insert" /\ t.op = "settings" =>
         Settings \notin rs \/ Settings \in m \/ Tenant \in m
    /\ t.pc \in {"user", "member", "find", "insert"} /\ t.op \in {"record", "hire"} => t.row \notin rs
    /\ t.pc \in {"user", "member", "find", "insert"} /\ t.op = "hire" => t.row[2] \in hi

(* The rows that a deletion has dealt with, or that are new to it.         *)
Clears(t, m, rs) ==
    /\ t.pc = "clear" =>
         \A r \in rs : r[1] \in Kept /\ r[2] = t.row[2] =>
           \A i \in 1 .. 5 : i < t.n /\ r[1] = ClearOrder[i] => r \in t.gone \cup m
    /\ t.pc = "delete" =>
         \A r \in rs : r[1] \in Kept \cap Owned /\ r[2] = t.row[2] => r \in t.gone \cup m

Purges(t, m, ten, rs) ==
    t.pc \in {"purge", "drop"} /\ ten = t.id =>
      /\ \A r \in rs : (r \in Catalogs => r = Catalog(t.id)) =>
           \A i \in 1 .. 9 : i < t.n /\ r[1] = PurgeOrder[i] => r \in t.gone \cup m
      /\ ~t.force => \A r \in rs : r = Settings \/ r \in m
                                   \/ (r \in Catalogs /\ r # Catalog(t.id))

HandlerInv(t, m, ten, cre, rs, del, hi) ==
    /\ Fits(t)
    /\ t.pc \notin {"idle", "failed"} => t.id \in 1 .. cre
    /\ ReliesOn(t, m, ten, rs, del, hi)
    /\ Clears(t, m, rs)
    /\ Purges(t, m, ten, rs)

(* What explains an error of the database.                                 *)
Excused(t, m, us) ==
    t.pc = "failed" =>
      \/ m # {}
      \/ t.user \in Users /\ \E v \in us \ {t.user} : AddressOf[v] = AddressOf[t.user]

Apart(s, t) ==
    s.op \in {"record", "hire"} /\ t.op \in {"record", "hire"} => s.row # t.row

DataInv ==
    /\ TypeOK
    /\ tenant <= created /\ created <= MaxTenants
    /\ \A e \in Employees : Employee(e) \in rows => e \in hired
    /\ \A h \in Handlers :
         HandlerInv(task[h], missed[h], tenant, created, rows, deleted, hired)
    /\ \A h \in Handlers : Excused(task[h], missed[h], users)
    /\ \A h, k \in Handlers : h # k => Apart(task[h], task[k])

-----------------------------------------------------------------------------
(* Facts about the constants.                                               *)

LEMMA IdleIsTask == Idle \in Task
  BY DEF Idle, Task, Labels, NoTenant, StaffOps

LEMMA ThrownIsTask ==
  ASSUME NEW t \in Task
  PROVE  Thrown(t) \in Task
  BY IdleIsTask DEF Thrown, Task, Labels

(* The tables that refer to employees are purged before them, and every    *)
(* table is purged.                                                         *)
LEMMA PurgeFacts ==
  /\ Len(PurgeOrder) = 9
  /\ \A i \in 1 .. 9 : PurgeOrder[i] = "employee" => i = 6
  /\ \A table \in Owned : \E i \in 1 .. 5 : PurgeOrder[i] = table
  /\ PurgeOrder[4] = "notification" /\ PurgeOrder[6] = "employee"
  /\ PurgeOrder[7] = "membership" /\ PurgeOrder[8] = "tenantSettings"
  /\ PurgeOrder[9] = "companyOrderCatalogOverride"
  BY DEF PurgeOrder, Owned

LEMMA ClearFacts ==
  /\ Len(ClearOrder) = 5
  /\ \A table \in Owned : \E i \in 1 .. 5 : ClearOrder[i] = table
  BY DEF ClearOrder, Owned

(* What tells rows apart.                                                   *)
LEMMA RowFacts ==
  /\ \A e : Employee(e)[1] = "employee" /\ Employee(e)[2] = e
  /\ \A d, e : Employee(d) = Employee(e) => d = e
  /\ \A e \in Employees : Employee(e) \in Rows
  /\ \A r \in Records : r[1] \in Kept /\ r[2] \in Employees /\ r \in Rows
  /\ \A e : Employee(e) \notin Catalogs /\ Employee(e) \notin Records
  /\ \A r \in Catalogs : r[1] = "companyOrderCatalogOverride" /\ r \notin Records
  /\ "employee" \notin Kept /\ "companyOrderCatalogOverride" \notin Kept
  /\ "membership" \notin Kept /\ "tenantSettings" \notin Kept
  /\ \A u \in Users : Membership(u) \in Rows
  /\ \A u : Membership(u) \notin Catalogs /\ Membership(u) \notin Records
  /\ Settings \in Rows /\ Settings \notin Catalogs /\ Settings \notin Records
  /\ Tenant \notin Rows
  BY DataAssumption DEF Employee, Records, Rows, Catalogs, Catalog, Membership, Settings, Tenant,
     Owned

(* Every row but a catalogue's is of a table that is purged.                *)
LEMMA RowsArePurged ==
  ASSUME NEW r \in Rows
  PROVE  \E i \in 1 .. 9 : r[1] = PurgeOrder[i]
<1>1. CASE r \in Records
  <2>1. r[1] \in Owned \cup {"notification"}
    BY <1>1, RowFacts, DataAssumption
  <2>2. CASE r[1] \in Owned
    <3>1. PICK i \in 1 .. 5 : PurgeOrder[i] = r[1]
      BY <2>2, PurgeFacts
    <3> QED
      BY <3>1
  <2> QED
    BY <2>1, <2>2, PurgeFacts
<1>2. CASE \E e \in Employees : r = Employee(e)
  BY <1>2, PurgeFacts DEF Employee
<1>3. CASE r = Settings \/ \E u \in Users : r = Membership(u)
  BY <1>3, PurgeFacts DEF Membership, Settings
<1>4. CASE r \in Catalogs
  BY <1>4, PurgeFacts DEF Catalogs, Catalog
<1>5. CASE r \in {"notification"} \X {Nobody} \X Copies
  BY <1>5, PurgeFacts
<1> QED
  BY <1>1, <1>2, <1>3, <1>4, <1>5 DEF Rows

-----------------------------------------------------------------------------
(* A handler's part of the invariant.                                       *)

LEMMA IdleInv ==
  ASSUME NEW m, NEW ten, NEW cre, NEW rs, NEW del, NEW hi
  PROVE  HandlerInv(Idle, m, ten, cre, rs, del, hi)
  BY DEF HandlerInv, Fits, ReliesOn, Clears, Purges, Idle, EmployeeOps, InTransaction

LEMMA ThrownInv ==
  ASSUME NEW t, NEW m, NEW ten, NEW cre, NEW rs, NEW del, NEW hi
  PROVE  HandlerInv(Thrown(t), m, ten, cre, rs, del, hi)
  BY DEF HandlerInv, Fits, ReliesOn, Clears, Purges, Thrown, Idle, EmployeeOps, InTransaction

(* What a change of the tables, from the first to the second of each pair,  *)
(* owes to a handler: what it has missed goes from m to m2.                 *)
Told(t, m, m2, ten, ten2, cre, cre2, rs, rs2, del, del2, hi, hi2, D) ==
    /\ t.pc \notin {"idle", "failed"} => m2 = m \cup ReadOf(t.pc, D)
    /\ t.pc = "failed" => m2 = m
    /\ ten \in Nat /\ ten2 \in Nat /\ cre \in Nat /\ cre2 \in Nat
    /\ rs2 \ rs \subseteq D /\ rs \ rs2 \subseteq D
    /\ \A e \in del \ del2 : Employee(e) \in D
    /\ hi \subseteq hi2 /\ cre <= cre2
    /\ ten2 = ten \/ (Tenant \in D /\ (ten2 = NoTenant \/ ten2 > cre))
    /\ t.op \in {"record", "hire"} => t.row \notin rs2 \ rs

(* What others change is either of no account to a handler or missed.      *)
LEMMA OthersKeep ==
  ASSUME NEW t, NEW m, NEW m2, NEW ten, NEW ten2, NEW cre, NEW cre2, NEW rs, NEW rs2,
         NEW del, NEW del2, NEW hi, NEW hi2, NEW D,
         HandlerInv(t, m, ten, cre, rs, del, hi),
         Told(t, m, m2, ten, ten2, cre, cre2, rs, rs2, del, del2, hi, hi2, D)
  PROVE  HandlerInv(t, m2, ten2, cre2, rs2, del2, hi2)
<1> USE DEF Told
<1>1. CASE t.pc = "idle"
  BY <1>1 DEF HandlerInv, Fits, ReliesOn, Clears, Purges
<1>2. CASE t.pc = "failed"
  BY <1>2 DEF HandlerInv, Fits, ReliesOn, Clears, Purges
<1>3. CASE t.pc \notin {"idle", "failed"}
  <2>0. /\ m \subseteq m2 /\ Tenant \in D => Tenant \in m2
        /\ t.pc \notin {"user", "member", "find", "report", "switch"} => m2 = m \cup D
    BY <1>3 DEF ReadOf
  <2>1. Fits(t) /\ t.id \in 1 .. cre2
    BY <1>3 DEF HandlerInv
  <2>2. ReliesOn(t, m2, ten2, rs2, del2, hi2)
    <3>1. ten2 = t.id \/ Tenant \in m2
      BY <1>3, <2>0 DEF HandlerInv, ReliesOn
    <3>2. t.pc \in {"usage", "clear", "delete"} => t.row[2] \in del2 \/ t.row \in m2
      BY <2>0, RowFacts DEF HandlerInv, ReliesOn, Fits, EmployeeOps
    <3>3. t.pc = "update" => t.row \in rs2 \/ t.row \in m2
      BY <2>0 DEF HandlerInv, ReliesOn
    <3>4. t.pc = "insert" /\ t.op = "record" =>
            Employee(t.row[2]) \in rs2 \/ Employee(t.row[2]) \in m2
      BY <2>0 DEF HandlerInv, ReliesOn
    <3>5. t.pc = "insert" /\ t.op = "settings" =>
            Settings \notin rs2 \/ Settings \in m2 \/ Tenant \in m2
      BY <2>0 DEF HandlerInv, ReliesOn
    <3>6. t.pc \in {"user", "member", "find", "insert"} /\ t.op \in {"record", "hire"} => t.row \notin rs2
      BY DEF HandlerInv, ReliesOn
    <3>7. t.pc \in {"user", "member", "find", "insert"} /\ t.op = "hire" => t.row[2] \in hi2
      BY DEF HandlerInv, ReliesOn
    <3> QED
      BY <1>3, <3>1, <3>2, <3>3, <3>4, <3>5, <3>6, <3>7 DEF ReliesOn
  <2>3. Clears(t, m2, rs2)
    BY <2>0 DEF HandlerInv, Clears
  <2>4. Purges(t, m2, ten2, rs2)
    <3>1. SUFFICES ASSUME t.pc \in {"purge", "drop"}, ten2 = t.id
                   PROVE  Purges(t, m2, ten2, rs2)
      BY DEF Purges
    <3>2. ten = t.id
      BY <1>3, <3>1 DEF HandlerInv, NoTenant
    <3> QED
      BY <2>0, <3>1, <3>2 DEF HandlerInv, Purges
  <2> QED
    BY <1>3, <2>1, <2>2, <2>3, <2>4 DEF HandlerInv
<1> QED
  BY <1>1, <1>2, <1>3

-----------------------------------------------------------------------------
(* A step of one handler.                                                   *)

(* What a step that leaves its handler with t and m owes to the users.      *)
Admits(t, m) ==
    /\ users \subseteq users' /\ users' \subseteq Users /\ enabled' \in BOOLEAN
    /\ Excused(t, m, users')

(* What a step owes: the handler's own part, and what others rely on.       *)
LEMMA StepKeeps ==
  ASSUME DataInv, NEW h \in Handlers, NEW t2 \in Task, NEW D,
         task' = [task EXCEPT ![h] = t2], Admits(t2, missed'[h]),
         missed' \in [Handlers -> SUBSET (Rows \cup {Tenant})],
         \A k \in Others(h) : Serving(k) => missed'[k] = missed[k] \cup ReadOf(task[k].pc, D),
         \A k \in Others(h) : task[k].pc = "failed" => missed'[k] = missed[k],
         tenant' \in Nat, created' \in Nat, tenant' <= created', created <= created',
         created' <= MaxTenants,
         tenant' = tenant \/ (Tenant \in D /\ (tenant' = NoTenant \/ tenant' > created)),
         rows' \subseteq Rows, rows' \ rows \subseteq D, rows \ rows' \subseteq D,
         deleted' \subseteq {e \in Employees : Employee(e) \in rows'},
         \A e \in deleted \ deleted' : Employee(e) \in D,
         hired' \subseteq Employees, hired \subseteq hired',
         \A e \in Employees : Employee(e) \in rows' => e \in hired',
         HandlerInv(t2, missed'[h], tenant', created', rows', deleted', hired'),
         \A k \in Others(h) : Apart(t2, task[k]),
         \A k \in Others(h) :
           task[k].op \in {"record", "hire"} => task[k].row \notin rows' \ rows
  PROVE  DataInv'
<1> USE DEF Others
<1>1. task \in [Handlers -> Task] /\ rows \subseteq Rows /\ tenant \in Nat /\ created \in Nat
  BY DEF DataInv, TypeOK
<1>2. task' \in [Handlers -> Task] /\ task'[h] = t2
  BY <1>1
<1>3. \A k \in Others(h) : task'[k] = task[k]
  BY <1>1
<1>4. ASSUME NEW k \in Handlers
      PROVE  HandlerInv(task'[k], missed'[k], tenant', created', rows', deleted', hired')
  <2>1. CASE k = h
    BY <1>2, <2>1
  <2>2. CASE k # h
    <3>1. HandlerInv(task[k], missed[k], tenant, created, rows, deleted, hired)
      BY DEF DataInv
    <3>2. /\ task[k].pc \notin {"idle", "failed"} => missed'[k] = missed[k] \cup ReadOf(task[k].pc, D)
          /\ task[k].pc = "failed" => missed'[k] = missed[k]
          /\ task[k].op \in {"record", "hire"} => task[k].row \notin rows' \ rows
      BY <2>2 DEF Serving
    <3>3. Told(task[k], missed[k], missed'[k], tenant, tenant', created, created',
               rows, rows', deleted, deleted', hired, hired', D)
      BY <1>1, <3>2 DEF Told
    <3>4. HandlerInv(task[k], missed'[k], tenant', created', rows', deleted', hired')
      BY ONLY <3>1, <3>3, OthersKeep
    <3> QED
      BY <1>3, <2>2, <3>4
  <2> QED
    BY <2>1, <2>2
<1>5. TypeOK'
  <2>1. \A k \in Handlers : task'[k].gone # {} => task'[k].pc \in InTransaction
    BY <1>4 DEF HandlerInv, Fits
  <2> QED
    BY <1>2, <2>1 DEF TypeOK, Admits
<1>6. \A i, k \in Handlers : i # k => Apart(task'[i], task'[k])
  <2> SUFFICES ASSUME NEW i \in Handlers, NEW k \in Handlers, i # k
               PROVE  Apart(task'[i], task'[k])
    OBVIOUS
  <2>1. CASE i = h
    BY <1>2, <1>3, <2>1
  <2>2. CASE k = h
    BY <1>2, <1>3, <2>2 DEF Apart
  <2>3. CASE i # h /\ k # h
    BY <1>3, <2>3 DEF DataInv
  <2> QED
    BY <2>1, <2>2, <2>3
<1>7. ASSUME NEW k \in Handlers
      PROVE  Excused(task'[k], missed'[k], users')
  <2>1. CASE k = h
    BY <1>2, <2>1 DEF Admits
  <2>2. CASE k # h
    BY <1>3, <2>2 DEF DataInv, Excused, Admits
  <2> QED
    BY <2>1, <2>2
<1> QED
  BY <1>4, <1>5, <1>6, <1>7 DEF DataInv

(* How a step leaves the history.                                           *)
LEMMA ChangesMissed ==
  ASSUME DataInv, NEW h \in Handlers, NEW t2 \in Task, NEW D \in SUBSET (Rows \cup {Tenant}),
         task' = [task EXCEPT ![h] = t2], Changes(h, D)
  PROVE  /\ missed' \in [Handlers -> SUBSET (Rows \cup {Tenant})]
         /\ \A k \in Others(h) : Serving(k) => missed'[k] = missed[k] \cup ReadOf(task[k].pc, D)
         /\ \A k \in Others(h) : task[k].pc = "failed" => missed'[k] = missed[k]
         /\ t2.pc # "idle" => missed'[h] = missed[h]
<1>1. /\ task \in [Handlers -> Task]
      /\ missed \in [Handlers -> SUBSET (Rows \cup {Tenant})]
  BY DEF DataInv, TypeOK
<1>2. task'[h] = t2 /\ \A k \in Others(h) : task'[k] = task[k]
  BY <1>1 DEF Others
<1>3. \A k \in Handlers :
        missed'[k] = IF task'[k].pc = "idle" THEN {}
                     ELSE IF k # h /\ Serving(k) THEN missed[k] \cup ReadOf(task[k].pc, D)
                     ELSE missed[k]
  BY DEF Changes
<1>4. missed' \in [Handlers -> SUBSET (Rows \cup {Tenant})]
  <2>1. \A pc : ReadOf(pc, D) \subseteq D
    BY DEF ReadOf
  <2> QED
    BY <1>1, <2>1 DEF Changes
<1> QED
  BY <1>1, <1>2, <1>3, <1>4 DEF Others, Serving

(* A step that changes at most whether the tenant is active, or adds a      *)
(* user.                                                                    *)
LEMMA UsersKeep ==
  ASSUME DataInv, NEW h \in Handlers, NEW t2 \in Task,
         task' = [task EXCEPT ![h] = t2], ChangesNothing(h), Admits(t2, missed'[h]),
         UNCHANGED <<tenant, created, rows, deleted, hired>>,
         HandlerInv(t2, missed'[h], tenant, created, rows, deleted, hired),
         \A k \in Others(h) : Apart(t2, task[k])
  PROVE  DataInv'
<1>1. /\ missed' \in [Handlers -> SUBSET (Rows \cup {Tenant})]
      /\ \A k \in Others(h) : Serving(k) => missed'[k] = missed[k] \cup ReadOf(task[k].pc, {})
      /\ \A k \in Others(h) : task[k].pc = "failed" => missed'[k] = missed[k]
  <2>1. Changes(h, {})
    BY DEF ChangesNothing
  <2> QED
    BY <2>1, ChangesMissed, ZenonT(60)
<1>2. /\ tenant \in Nat /\ created \in Nat /\ tenant <= created /\ created <= MaxTenants
      /\ rows \subseteq Rows /\ hired \subseteq Employees
      /\ deleted \subseteq {e \in Employees : Employee(e) \in rows}
      /\ \A e \in Employees : Employee(e) \in rows => e \in hired
  BY DEF DataInv, TypeOK
<1>3. /\ HandlerInv(t2, missed'[h], tenant', created', rows', deleted', hired')
      /\ tenant' \in Nat /\ created' \in Nat /\ tenant' <= created' /\ created <= created'
      /\ created' <= MaxTenants
      /\ tenant' = tenant
      /\ rows' \subseteq Rows /\ rows' \ rows \subseteq {} /\ rows \ rows' \subseteq {}
      /\ deleted' \subseteq {e \in Employees : Employee(e) \in rows'}
      /\ \A e \in deleted \ deleted' : Employee(e) \in {}
      /\ hired' \subseteq Employees /\ hired \subseteq hired'
      /\ \A e \in Employees : Employee(e) \in rows' => e \in hired'
      /\ \A k \in Others(h) :
           task[k].op \in {"record", "hire"} => task[k].row \notin rows' \ rows
  BY <1>2
<1> QED
  BY <1>1, <1>3, StepKeeps, ZenonT(60)

(* A step that changes no table.                                            *)
LEMMA QuietKeeps ==
  ASSUME DataInv, NEW h \in Handlers, NEW t2 \in Task,
         task' = [task EXCEPT ![h] = t2],
         ChangesNothing(h), UNCHANGED tables, Excused(t2, missed'[h], users),
         HandlerInv(t2, missed'[h], tenant, created, rows, deleted, hired),
         \A k \in Others(h) : Apart(t2, task[k])
  PROVE  DataInv'
<1>1. UNCHANGED <<tenant, enabled, users, created, rows, deleted, hired>>
  BY DEF tables
<1>2. Admits(t2, missed'[h])
  BY <1>1 DEF Admits, DataInv, TypeOK
<1> QED
  BY <1>1, <1>2, UsersKeep

LEMMA IdleExcused ==
  ASSUME NEW m, NEW us
  PROVE  Excused(Idle, m, us)
  BY DEF Excused, Idle

LEMMA ThingsApart ==
  ASSUME NEW s, NEW t, s.op \notin {"record", "hire"}
  PROVE  Apart(s, t)
  BY DEF Apart

(* A step that ends a request without changing a table.                     *)
LEMMA QuietAnswer ==
  ASSUME DataInv, NEW h \in Handlers, Answer(h), ChangesNothing(h), UNCHANGED tables
  PROVE  DataInv'
<1>1. HandlerInv(Idle, missed'[h], tenant, created, rows, deleted, hired)
  BY IdleInv
<1>2. \A k \in Others(h) : Apart(Idle, task[k])
  BY ThingsApart DEF Idle
<1> QED
  BY <1>1, <1>2, IdleIsTask, IdleExcused, QuietKeeps DEF Answer

(* A statement that the database refuses.                                   *)
LEMMA QuietThrow ==
  ASSUME DataInv, NEW h \in Handlers, Throw(h), ChangesNothing(h), UNCHANGED tables,
         missed[h] # {} \/ AddressTaken(task[h].user)
  PROVE  DataInv'
<1> DEFINE t2 == Thrown(task[h])
<1>1. task' = [task EXCEPT ![h] = t2] /\ t2 \in Task
  BY ThrownIsTask DEF Throw, DataInv, TypeOK
<1>2. t2.pc = "failed" /\ t2.op = "visit" /\ t2.user = task[h].user
  BY DEF Thrown, Idle
<1>3. HandlerInv(t2, missed'[h], tenant, created, rows, deleted, hired)
  BY ThrownInv
<1> HIDE DEF t2
<1>4. missed'[h] = missed[h]
  BY <1>1, <1>2, ChangesMissed DEF ChangesNothing
<1>5. Excused(t2, missed'[h], users)
  BY <1>2, <1>4 DEF Excused, AddressTaken
<1>6. \A k \in Others(h) : Apart(t2, task[k])
  BY <1>2, ThingsApart
<1> QED
  BY <1>1, <1>3, <1>5, <1>6, QuietKeeps

-----------------------------------------------------------------------------
(* The steps.                                                               *)

LEMMA IdleAdmits ==
  ASSUME DataInv, users' = users, enabled' \in BOOLEAN, NEW m
  PROVE  Admits(Idle, m)
  BY IdleExcused DEF Admits, DataInv, TypeOK

LEMMA Own ==
  ASSUME DataInv, NEW h \in Handlers
  PROVE  /\ task[h] \in Task
         /\ HandlerInv(task[h], missed[h], tenant, created, rows, deleted, hired)
         /\ Fits(task[h])
         /\ ReliesOn(task[h], missed[h], tenant, rows, deleted, hired)
         /\ Clears(task[h], missed[h], rows)
         /\ Purges(task[h], missed[h], tenant, rows)
         /\ tenant \in Nat /\ created \in Nat /\ tenant <= created /\ created <= MaxTenants
         /\ rows \subseteq Rows /\ hired \subseteq Employees
         /\ deleted \subseteq {e \in Employees : Employee(e) \in rows}
         /\ \A e \in Employees : Employee(e) \in rows => e \in hired
         /\ users \subseteq Users /\ enabled \in BOOLEAN
  BY DEF DataInv, TypeOK, HandlerInv

LEMMA GoesOn ==
  ASSUME DataInv, NEW h \in Handlers, NEW pc \in Labels, Goto(h, pc)
  PROVE  \E t2 \in Task :
           /\ task' = [task EXCEPT ![h] = t2]
           /\ t2.pc = pc /\ t2.op = task[h].op /\ t2.row = task[h].row /\ t2.id = task[h].id
           /\ t2.force = task[h].force /\ t2.n = task[h].n /\ t2.gone = task[h].gone
           /\ t2.user = task[h].user
<1>1. task[h] \in Task
  BY Own
<1>2. [task[h] EXCEPT !.pc = pc] \in Task
  BY <1>1 DEF Task
<1>3. task' = [task EXCEPT ![h] = [task[h] EXCEPT !.pc = pc]]
  BY DEF Goto
<1> QED
  BY <1>1, <1>2, <1>3 DEF Task

LEMMA FindKeeps ==
  ASSUME DataInv, NEW h \in Handlers, Find(h)
  PROVE  DataInv'
<1>1. CASE Answer(h)
  BY <1>1, QuietAnswer DEF Find
<1>2. CASE ~Answer(h)
  <2> DEFINE pc == CASE task[h].op \in {"settings", "record"} -> "insert"
                     [] task[h].op = "expunge" -> "usage"
                     [] OTHER -> "update"
  <2>1. /\ task[h].pc = "find" /\ ChangesNothing(h) /\ Goto(h, pc) /\ UNCHANGED tables
        /\ task[h].op = "settings" => tenant # task[h].id \/ Settings \notin rows
        /\ task[h].op # "settings" =>
             tenant = task[h].id /\ Found(task[h].op, task[h].row[2])
    BY <1>2 DEF Find, At
  <2>2. pc \in Labels
    BY DEF Labels
  <2>3. PICK t2 \in Task :
           /\ task' = [task EXCEPT ![h] = t2]
           /\ t2.pc = pc /\ t2.op = task[h].op /\ t2.row = task[h].row /\ t2.id = task[h].id
           /\ t2.force = task[h].force /\ t2.n = task[h].n /\ t2.gone = task[h].gone
    BY <2>1, <2>2, GoesOn
  <2>4. missed'[h] = missed[h]
    <3>1. t2.pc # "idle"
      BY <2>3
    <3> QED
      BY <2>1, <2>3, <3>1, ChangesMissed DEF ChangesNothing
  <2>5. /\ Fits(task[h]) /\ ReliesOn(task[h], missed[h], tenant, rows, deleted, hired)
        /\ HandlerInv(task[h], missed[h], tenant, created, rows, deleted, hired)
        /\ deleted \subseteq {e \in Employees : Employee(e) \in rows}
    BY Own
  <2>6. task[h].op \in EmployeeOps \cup {"record", "settings"}
    BY <2>1, <2>5 DEF Fits
  <2>7. /\ task[h].op \in {"settings", "record"} => pc = "insert"
        /\ task[h].op = "expunge" => pc = "usage"
        /\ task[h].op \in {"edit", "dismiss", "restore"} => pc = "update"
    OBVIOUS
  <2> HIDE DEF pc
  <2>8. Fits(t2)
    BY <2>1, <2>3, <2>5, <2>6, <2>7 DEF Fits, EmployeeOps, InTransaction
  <2>9. ReliesOn(t2, missed'[h], tenant, rows, deleted, hired)
    <3>1. tenant = t2.id \/ Tenant \in missed'[h]
      BY <2>1, <2>3, <2>4, <2>5 DEF ReliesOn
    <3>2. t2.pc = "usage" => t2.row[2] \in deleted
      BY <2>1, <2>3, <2>6, <2>7 DEF Found, EmployeeOps
    <3>3. t2.pc = "update" => t2.row \in rows
      <4>1. SUFFICES ASSUME t2.pc = "update" PROVE t2.row \in rows
        OBVIOUS
      <4>2. t2.op \in {"edit", "dismiss", "restore"}
        BY <2>3, <2>6, <2>7, <4>1 DEF EmployeeOps
      <4>3. PICK e \in Employees : t2.row = Employee(e)
        BY <2>3, <2>5, <4>2 DEF Fits, EmployeeOps
      <4>4. Found(t2.op, e)
        BY <2>1, <2>3, <4>2, <4>3, RowFacts
      <4> QED
        BY <2>5, <4>2, <4>3, <4>4 DEF Found, Active
    <3>4. t2.pc = "insert" /\ t2.op = "record" => Employee(t2.row[2]) \in rows
      BY <2>1, <2>3 DEF Found, Active
    <3>5. t2.pc = "insert" /\ t2.op = "settings" =>
            Settings \notin rows \/ Tenant \in missed'[h]
      BY <2>1, <2>3, <3>1
    <3>6. t2.op = "record" => t2.row \notin rows
      BY <2>1, <2>3, <2>5 DEF ReliesOn
    <3>7. t2.op # "hire"
      BY <2>3, <2>6 DEF EmployeeOps
    <3>8. t2.pc \in {"insert", "usage", "update"}
      BY <2>3, <2>6, <2>7 DEF EmployeeOps
    <3> QED
      BY <3>1, <3>2, <3>3, <3>4, <3>5, <3>6, <3>7, <3>8 DEF ReliesOn
  <2>10. HandlerInv(t2, missed'[h], tenant, created, rows, deleted, hired)
    <3>1. t2.pc \in {"insert", "usage", "update"}
      BY <2>3, <2>6, <2>7 DEF EmployeeOps
    <3>2. t2.id \in 1 .. created
      BY <2>1, <2>3, <2>5 DEF HandlerInv
    <3> QED
      BY <2>8, <2>9, <3>1, <3>2 DEF HandlerInv, Clears, Purges
  <2>11. \A k \in Others(h) : Apart(t2, task[k])
    BY <2>3 DEF DataInv, Apart, Others
  <2>12. Excused(t2, missed'[h], users)
    BY <2>3, <2>6, <2>7 DEF Excused, EmployeeOps
  <2> QED
    BY <2>1, <2>3, <2>10, <2>11, <2>12, QuietKeeps
<1> QED
  BY <1>1, <1>2

LEMMA UsageKeeps ==
  ASSUME DataInv, NEW h \in Handlers, Usage(h)
  PROVE  DataInv'
<1> DEFINE pc == IF RowsAbout(task[h].row[2]) = {} THEN "delete" ELSE "clear"
<1>1. task[h].pc = "usage" /\ Goto(h, pc) /\ ChangesNothing(h) /\ UNCHANGED tables
  BY DEF Usage, At
<1>2. pc \in Labels /\ pc \in {"delete", "clear"}
  BY DEF Labels
<1>3. pc = "delete" => RowsAbout(task[h].row[2]) = {}
  OBVIOUS
<1> HIDE DEF pc
<1>4. PICK t2 \in Task :
         /\ task' = [task EXCEPT ![h] = t2]
         /\ t2.pc = pc /\ t2.op = task[h].op /\ t2.row = task[h].row /\ t2.id = task[h].id
         /\ t2.force = task[h].force /\ t2.n = task[h].n /\ t2.gone = task[h].gone
  BY <1>1, <1>2, GoesOn
<1>5. missed'[h] = missed[h]
  BY <1>1, <1>2, <1>4, ChangesMissed DEF ChangesNothing
<1>6. /\ Fits(task[h]) /\ ReliesOn(task[h], missed[h], tenant, rows, deleted, hired)
      /\ HandlerInv(task[h], missed[h], tenant, created, rows, deleted, hired)
  BY Own
<1>7. Fits(t2)
  BY <1>1, <1>2, <1>4, <1>6 DEF Fits, InTransaction
<1>8. ReliesOn(t2, missed'[h], tenant, rows, deleted, hired)
  BY <1>1, <1>2, <1>4, <1>5, <1>6 DEF ReliesOn
<1>9. Clears(t2, missed'[h], rows)
  <2>1. t2.n = 1
    BY <1>1, <1>4, <1>6 DEF Fits, InTransaction
  <2>2. t2.pc = "delete" => ~ \E r \in rows : r[1] \in Kept /\ r[2] = t2.row[2]
    BY <1>3, <1>4 DEF RowsAbout
  <2> QED
    BY <2>1, <2>2 DEF Clears
<1>10. HandlerInv(t2, missed'[h], tenant, created, rows, deleted, hired)
  BY <1>1, <1>2, <1>4, <1>6, <1>7, <1>8, <1>9 DEF HandlerInv, Purges
<1>11. \A k \in Others(h) : Apart(t2, task[k])
  BY <1>4 DEF DataInv, Apart, Others
<1>12. Excused(t2, missed'[h], users)
  BY <1>2, <1>4 DEF Excused
<1> QED
  BY <1>1, <1>4, <1>10, <1>11, <1>12, QuietKeeps

(* A statement of a transaction that deletes the rows rs.                   *)
Advances(h, rs, pc) ==
  task' = [task EXCEPT ![h].gone = @ \cup rs, ![h].n = @ + 1, ![h].pc = pc]

LEMMA Deletes ==
  ASSUME DataInv, NEW h \in Handlers, NEW rs \in SUBSET rows, NEW pc \in Labels,
         Advances(h, rs, pc)
  PROVE  \E t2 \in Task :
           /\ task' = [task EXCEPT ![h] = t2]
           /\ t2.pc = pc /\ t2.op = task[h].op /\ t2.row = task[h].row /\ t2.id = task[h].id
           /\ t2.force = task[h].force /\ t2.n = task[h].n + 1
           /\ t2.gone = task[h].gone \cup rs
<1> DEFINE t2 == [task[h] EXCEPT !.gone = @ \cup rs, !.n = @ + 1, !.pc = pc]
<1>1. task[h] \in Task /\ rs \subseteq Rows /\ task \in [Handlers -> Task]
  BY Own DEF DataInv, TypeOK
<1>2. t2 \in Task
  <2>1. task[h].gone \cup rs \in SUBSET Rows /\ task[h].n + 1 \in Nat
    BY <1>1 DEF Task
  <2> QED
    BY <1>1, <2>1 DEF Task
<1>3. task' = [task EXCEPT ![h] = t2]
  <2>1. task' = [task EXCEPT ![h].gone = @ \cup rs, ![h].n = @ + 1, ![h].pc = pc]
    BY DEF Advances
  <2>2. task'[h] = t2 /\ task' \in [Handlers -> Task] /\ \A k \in Handlers \ {h} : task'[k] = task[k]
    BY <1>1, <1>2, <2>1
  <2> QED
    BY <1>1, <2>2
<1>4. /\ t2.pc = pc /\ t2.op = task[h].op /\ t2.row = task[h].row /\ t2.id = task[h].id
      /\ t2.force = task[h].force /\ t2.n = task[h].n + 1
      /\ t2.gone = task[h].gone \cup rs
  BY <1>1 DEF Task
<1> QED
  BY <1>2, <1>3, <1>4

LEMMA ClearKeeps ==
  ASSUME DataInv, NEW h \in Handlers, Clear(h)
  PROVE  DataInv'
<1> DEFINE n == task[h].n
           matched == {r \in RowsAbout(task[h].row[2]) : r[1] = ClearOrder[n]}
           pc == IF n = 5 THEN "delete" ELSE "clear"
<1>1. /\ task[h].pc = "clear" /\ ChangesNothing(h) /\ UNCHANGED tables
      /\ Advances(h, matched, pc)
  <2>1. task[h].pc = "clear" /\ task \in [Handlers -> Task] /\ Len(ClearOrder) = 5
    BY ClearFacts DEF Clear, At, DataInv, TypeOK
  <2>2. task' = [task EXCEPT ![h].gone = @ \cup matched, ![h].n = @ + 1,
                             ![h].pc = IF n = 5 THEN "delete" ELSE @]
    BY <2>1 DEF Clear
  <2>3. Advances(h, matched, pc)
    <3> HIDE DEF matched
    <3> QED
      BY <2>1, <2>2 DEF Task, Advances
  <2> QED
    BY <2>1, <2>3 DEF Clear
<1>2. pc \in Labels /\ pc \in {"delete", "clear"} /\ (pc = "delete" <=> n = 5)
  BY DEF Labels
<1>3. /\ matched \in SUBSET rows
      /\ \A r \in matched : r[1] \in Kept
      /\ \A r \in rows : r[1] \in Kept /\ r[2] = task[h].row[2] /\ r[1] = ClearOrder[n]
           => r \in matched
  BY DEF RowsAbout
<1> HIDE DEF pc, matched
<1>4. PICK t2 \in Task :
         /\ task' = [task EXCEPT ![h] = t2]
         /\ t2.pc = pc /\ t2.op = task[h].op /\ t2.row = task[h].row /\ t2.id = task[h].id
         /\ t2.force = task[h].force /\ t2.n = n + 1
         /\ t2.gone = task[h].gone \cup matched
  BY <1>1, <1>2, <1>3, Deletes
<1>5. missed'[h] = missed[h]
  BY <1>1, <1>2, <1>4, ChangesMissed DEF ChangesNothing
<1>6. /\ Fits(task[h]) /\ ReliesOn(task[h], missed[h], tenant, rows, deleted, hired)
      /\ Clears(task[h], missed[h], rows)
      /\ HandlerInv(task[h], missed[h], tenant, created, rows, deleted, hired)
  BY Own
<1>7. n \in 1 .. 5
  BY <1>1, <1>6 DEF Fits
<1>8. matched \cap Catalogs = {}
  BY <1>3, RowFacts
<1>9. Fits(t2)
  BY <1>1, <1>2, <1>3, <1>4, <1>6, <1>7, <1>8 DEF Fits, InTransaction
<1>10. ReliesOn(t2, missed'[h], tenant, rows, deleted, hired)
  BY <1>1, <1>2, <1>4, <1>5, <1>6 DEF ReliesOn
<1>11. \A r \in rows : r[1] \in Kept /\ r[2] = t2.row[2] =>
         \A i \in 1 .. 5 : i < n + 1 /\ r[1] = ClearOrder[i] => r \in t2.gone \cup missed'[h]
  BY <1>1, <1>3, <1>4, <1>5, <1>6, <1>7 DEF Clears
<1>12. Clears(t2, missed'[h], rows)
  <2>1. CASE t2.pc = "clear"
    BY <1>4, <1>11, <2>1 DEF Clears
  <2>2. CASE t2.pc = "delete"
    BY <1>2, <1>4, <1>11, <2>2, ClearFacts DEF Clears
  <2> QED
    BY <1>2, <1>4, <2>1, <2>2
<1>13. HandlerInv(t2, missed'[h], tenant, created, rows, deleted, hired)
  BY <1>1, <1>2, <1>4, <1>6, <1>9, <1>10, <1>12 DEF HandlerInv, Purges
<1>14. \A k \in Others(h) : Apart(t2, task[k])
  BY <1>4 DEF DataInv, Apart, Others
<1>15. Excused(t2, missed'[h], users)
  BY <1>2, <1>4 DEF Excused
<1> QED
  BY <1>1, <1>4, <1>13, <1>14, <1>15, QuietKeeps

LEMMA RemoveKeeps ==
  ASSUME DataInv, NEW h \in Handlers, Remove(h)
  PROVE  DataInv'
<1>1. PICK id \in 1 .. created, force \in BOOLEAN :
        IF id # tenant
        THEN UNCHANGED <<task, missed>>
        ELSE /\ force => Counted(id) # {}
             /\ task' = [task EXCEPT ![h] = [Idle EXCEPT !.op = "remove", !.id = id,
                                                         !.force = force, !.pc = "report"]]
             /\ ChangesNothing(h)
  BY DEF Remove
<1>2. UNCHANGED tables
  BY DEF Remove
<1>3. CASE id # tenant
  BY <1>1, <1>2, <1>3 DEF DataInv, TypeOK, tables
<1>4. CASE id = tenant
  <2> DEFINE t2 == [Idle EXCEPT !.op = "remove", !.id = id, !.force = force, !.pc = "report"]
  <2>0. Idle \in Task /\ id \in Nat /\ Idle.gone = {} /\ Idle.n = 1
    BY Own, IdleIsTask DEF Idle
  <2>1. /\ t2.op = "remove" /\ t2.id = id /\ t2.pc = "report" /\ t2.gone = {} /\ t2.n = 1
        /\ t2 \in Task
    BY <2>0 DEF Task, Labels
  <2>2. task' = [task EXCEPT ![h] = t2] /\ ChangesNothing(h)
    BY <1>1, <1>4
  <2> HIDE DEF t2
  <2>3. HandlerInv(t2, missed'[h], tenant, created, rows, deleted, hired)
    BY <1>4, <2>1 DEF HandlerInv, Fits, ReliesOn, Clears, Purges, EmployeeOps, InTransaction
  <2>4. \A k \in Others(h) : Apart(t2, task[k])
    BY <2>1 DEF Apart
  <2>5. Excused(t2, missed'[h], users)
    BY <2>1 DEF Excused
  <2> QED
    BY <1>2, <2>1, <2>2, <2>3, <2>4, <2>5, QuietKeeps
<1> QED
  BY <1>3, <1>4

LEMMA ReportKeeps ==
  ASSUME DataInv, NEW h \in Handlers, Report(h)
  PROVE  DataInv'
<1>1. CASE Answer(h)
  BY <1>1, QuietAnswer DEF Report
<1>2. CASE ~Answer(h)
  <2>1. /\ task[h].pc = "report" /\ ChangesNothing(h) /\ Goto(h, "purge") /\ UNCHANGED tables
        /\ ~task[h].force => Counted(task[h].id) = {}
    BY <1>2, Own DEF Report, At, Task
  <2>2. PICK t2 \in Task :
           /\ task' = [task EXCEPT ![h] = t2]
           /\ t2.pc = "purge" /\ t2.op = task[h].op /\ t2.row = task[h].row
           /\ t2.id = task[h].id /\ t2.force = task[h].force /\ t2.n = task[h].n
           /\ t2.gone = task[h].gone
    BY <2>1, GoesOn DEF Labels
  <2>3. missed'[h] = missed[h]
    BY <2>1, <2>2, ChangesMissed DEF ChangesNothing
  <2>4. /\ Fits(task[h]) /\ ReliesOn(task[h], missed[h], tenant, rows, deleted, hired)
        /\ HandlerInv(task[h], missed[h], tenant, created, rows, deleted, hired)
    BY Own
  <2>5. Fits(t2)
    BY <2>1, <2>2, <2>4 DEF Fits, InTransaction
  <2>6. ReliesOn(t2, missed'[h], tenant, rows, deleted, hired)
    BY <2>1, <2>2, <2>3, <2>4 DEF ReliesOn
  <2>7. Purges(t2, missed'[h], tenant, rows)
    <3>1. t2.n = 1
      BY <2>1, <2>2, <2>4 DEF Fits, InTransaction
    <3>2. ~t2.force /\ tenant = t2.id => \A r \in rows : r = Settings
                                              \/ (r \in Catalogs /\ r # Catalog(t2.id))
      BY <2>1, <2>2 DEF Counted
    <3> QED
      BY <3>1, <3>2 DEF Purges
  <2>8. HandlerInv(t2, missed'[h], tenant, created, rows, deleted, hired)
    BY <2>1, <2>2, <2>4, <2>5, <2>6, <2>7 DEF HandlerInv, Clears
  <2>9. \A k \in Others(h) : Apart(t2, task[k])
    BY <2>2 DEF DataInv, Apart, Others
  <2>10. Excused(t2, missed'[h], users)
    BY <2>2 DEF Excused
  <2> QED
    BY <2>1, <2>2, <2>8, <2>9, <2>10, QuietKeeps
<1> QED
  BY <1>1, <1>2

LEMMA PurgeKeeps ==
  ASSUME DataInv, NEW h \in Handlers, Purge(h)
  PROVE  DataInv'
<1> DEFINE n == task[h].n
           matched == Matched(task[h].id, PurgeOrder[n])
           pc == IF n = 9 THEN "drop" ELSE "purge"
<1>1. task[h].pc = "purge" /\ ChangesNothing(h) /\ UNCHANGED tables
  BY DEF Purge, At
<1>2. /\ Fits(task[h]) /\ ReliesOn(task[h], missed[h], tenant, rows, deleted, hired)
      /\ Purges(task[h], missed[h], tenant, rows)
      /\ HandlerInv(task[h], missed[h], tenant, created, rows, deleted, hired)
  BY Own
<1>3. n \in 1 .. 9
  BY <1>1, <1>2 DEF Fits
<1>4. /\ matched \in SUBSET rows
      /\ \A r \in matched : r[1] = PurgeOrder[n]
      /\ \A r \in matched : r \in Catalogs => r = Catalog(task[h].id)
      /\ \A r \in matched : r \notin Catalogs => tenant = task[h].id
      /\ tenant = task[h].id =>
           \A r \in rows : (r \in Catalogs => r = Catalog(task[h].id)) /\ r[1] = PurgeOrder[n]
             => r \in matched
  BY DEF Matched
<1>5. CASE Throw(h)
  <2>1. CASE Restricting(rows \ task[h].gone, matched) = {}
    <3>1. task' = [task EXCEPT ![h].gone = @ \cup matched, ![h].n = @ + 1,
                               ![h].pc = IF n = Len(PurgeOrder) THEN "drop" ELSE @]
      BY <2>1 DEF Purge
    <3>2. task \in [Handlers -> Task]
      BY DEF DataInv, TypeOK
    <3>3. task'[h].pc # "failed"
      <4> HIDE DEF matched
      <4> QED
        BY <1>1, <3>1, <3>2 DEF Task
    <3> QED
      BY <1>5, <3>2, <3>3 DEF Throw, Thrown, Idle
  <2>2. CASE Restricting(rows \ task[h].gone, matched) # {}
    <3>1. PICK r \in rows \ task[h].gone : r[1] \in Owned /\ r[1] \in Kept
                                           /\ Employee(r[2]) \in matched
      BY <2>2 DEF Restricting
    <3>2. r \notin Catalogs /\ Employee(r[2]) \notin Catalogs
      BY <3>1, RowFacts
    <3>3. n = 6 /\ tenant = task[h].id
      BY <1>3, <1>4, <3>1, <3>2, RowFacts, PurgeFacts
    <3>4. PICK i \in 1 .. 5 : PurgeOrder[i] = r[1]
      BY <3>1, PurgeFacts
    <3>5. r \in missed[h]
      BY <1>1, <1>2, <3>1, <3>2, <3>3, <3>4 DEF Purges
    <3> QED
      BY <1>1, <1>5, <3>5, QuietThrow
  <2> QED
    BY <2>1, <2>2
<1>6. CASE ~Throw(h)
  <2>1. Advances(h, matched, pc)
    <3>1. task \in [Handlers -> Task]
      BY DEF DataInv, TypeOK
    <3>2. task' = [task EXCEPT ![h].gone = @ \cup matched, ![h].n = @ + 1,
                               ![h].pc = IF n = 9 THEN "drop" ELSE @]
      BY <1>6, PurgeFacts DEF Purge
    <3> HIDE DEF matched
    <3> QED
      BY <1>1, <3>1, <3>2 DEF Task, Advances
  <2>2. pc \in Labels /\ pc \in {"purge", "drop"} /\ (pc = "drop" <=> n = 9)
    BY DEF Labels
  <2> HIDE DEF pc, matched
  <2>3. PICK t2 \in Task :
           /\ task' = [task EXCEPT ![h] = t2]
           /\ t2.pc = pc /\ t2.op = task[h].op /\ t2.row = task[h].row /\ t2.id = task[h].id
           /\ t2.force = task[h].force /\ t2.n = n + 1
           /\ t2.gone = task[h].gone \cup matched
    BY SMTT(30), <1>4, <2>1, <2>2, Deletes
  <2>4. missed'[h] = missed[h]
    BY <1>1, <2>2, <2>3, ChangesMissed DEF ChangesNothing
  <2>5. Fits(t2)
    BY <1>1, <1>2, <1>3, <1>4, <2>2, <2>3 DEF Fits, InTransaction
  <2>6. ReliesOn(t2, missed'[h], tenant, rows, deleted, hired)
    BY <1>1, <1>2, <2>2, <2>3, <2>4 DEF ReliesOn
  <2>7. Purges(t2, missed'[h], tenant, rows)
    <3>1. SUFFICES ASSUME tenant = t2.id
                   PROVE  Purges(t2, missed'[h], tenant, rows)
      BY DEF Purges
    <3>2. ASSUME NEW r \in rows, r \in Catalogs => r = Catalog(t2.id),
                 NEW i \in 1 .. 9, i < n + 1, r[1] = PurgeOrder[i]
          PROVE  r \in t2.gone \cup missed'[h]
      <4>1. CASE i = n
        BY <1>4, <2>3, <3>1, <3>2, <4>1
      <4>2. CASE i < n
        BY <1>1, <1>2, <2>3, <2>4, <3>1, <3>2, <4>2 DEF Purges
      <4> QED
        BY <1>3, <3>2, <4>1, <4>2
    <3> QED
      BY <1>1, <1>2, <2>3, <2>4, <3>1, <3>2 DEF Purges
  <2>8. HandlerInv(t2, missed'[h], tenant, created, rows, deleted, hired)
    BY <1>1, <1>2, <2>2, <2>3, <2>5, <2>6, <2>7 DEF HandlerInv, Clears
  <2>9. \A k \in Others(h) : Apart(t2, task[k])
    BY <2>3 DEF DataInv, Apart, Others
  <2>10. Excused(t2, missed'[h], users)
    BY <2>2, <2>3 DEF Excused
  <2> QED
    BY <1>1, <2>3, <2>8, <2>9, <2>10, QuietKeeps
<1> QED
  BY <1>5, <1>6

LEMMA DropKeeps ==
  ASSUME DataInv, NEW h \in Handlers, Drop(h)
  PROVE  DataInv'
<1>1. task[h].pc = "drop" /\ UNCHANGED <<users, created, hired>>
  BY DEF Drop, At
<1>2. /\ Fits(task[h]) /\ ReliesOn(task[h], missed[h], tenant, rows, deleted, hired)
      /\ Purges(task[h], missed[h], tenant, rows)
      /\ rows \subseteq Rows /\ deleted \subseteq {e \in Employees : Employee(e) \in rows}
  BY Own
<1>3. CASE tenant # task[h].id \/ ~(rows \ task[h].gone \subseteq Catalogs)
  <2>1. Throw(h) /\ ChangesNothing(h) /\ UNCHANGED <<tenant, enabled, rows, deleted>>
    BY <1>3 DEF Drop
  <2>2. missed[h] # {}
    <3>1. CASE tenant # task[h].id
      BY <1>1, <1>2, <3>1 DEF ReliesOn
    <3>2. CASE tenant = task[h].id
      <4>1. PICK r \in rows \ task[h].gone : r \notin Catalogs
        BY <1>3, <3>2
      <4>2. PICK i \in 1 .. 9 : r[1] = PurgeOrder[i]
        BY <1>2, <4>1, RowsArePurged
      <4>3. task[h].n = 10
        BY <1>1, <1>2 DEF Fits
      <4>4. r \in task[h].gone \cup missed[h]
        BY <1>1, <1>2, <3>2, <4>1, <4>2, <4>3 DEF Purges
      <4> QED
        BY <4>1, <4>4
    <3> QED
      BY <3>1, <3>2
  <2> QED
    BY <1>1, <2>1, <2>2, QuietThrow DEF tables
<1>4. CASE ~(tenant # task[h].id \/ ~(rows \ task[h].gone \subseteq Catalogs))
  <2> DEFINE D == task[h].gone \cup {Tenant}
  <2>1. /\ tenant' = NoTenant /\ rows' = rows \ task[h].gone /\ deleted' = {}
        /\ task' = [task EXCEPT ![h] = Idle] /\ Changes(h, D)
        /\ rows' \subseteq Catalogs
    BY <1>4 DEF Drop, Answer
  <2>2. D \in SUBSET (Rows \cup {Tenant}) /\ Tenant \in D /\ task[h].gone \subseteq D
    BY Own DEF Task
  <2> HIDE DEF D
  <2>3. /\ missed' \in [Handlers -> SUBSET (Rows \cup {Tenant})]
        /\ \A k \in Others(h) : Serving(k) => missed'[k] = missed[k] \cup ReadOf(task[k].pc, D)
        /\ \A k \in Others(h) : task[k].pc = "failed" => missed'[k] = missed[k]
    BY <2>1, <2>2, IdleIsTask, ChangesMissed, ZenonT(60)
  <2>4. /\ tenant' \in Nat /\ created' \in Nat /\ tenant' <= created' /\ created <= created'
        /\ created' <= MaxTenants
        /\ tenant' = tenant \/ (Tenant \in D /\ (tenant' = NoTenant \/ tenant' > created))
    BY <1>1, <2>1, <2>2, Own DEF NoTenant
  <2>5. /\ rows' \subseteq Rows /\ rows' \ rows \subseteq D /\ rows \ rows' \subseteq D
        /\ deleted' \subseteq {e \in Employees : Employee(e) \in rows'}
        /\ hired' \subseteq Employees /\ hired \subseteq hired'
        /\ \A e \in Employees : Employee(e) \in rows' => e \in hired'
    BY <1>1, <1>2, <2>1, <2>2, Own
  <2>6. \A e \in deleted \ deleted' : Employee(e) \in D
    BY <1>2, <2>1, <2>2, RowFacts
  <2>7. HandlerInv(Idle, missed'[h], tenant', created', rows', deleted', hired')
    BY IdleInv
  <2>8. \A k \in Others(h) : Apart(Idle, task[k])
    BY ThingsApart DEF Idle
  <2>9. \A k \in Others(h) :
          task[k].op \in {"record", "hire"} => task[k].row \notin rows' \ rows
    BY <2>1
  <2>10. Admits(Idle, missed'[h])
    <3>1. enabled' \in BOOLEAN
      BY <1>4 DEF Drop
    <3> QED
      BY <1>1, <3>1, IdleAdmits
  <2> QED
    BY ONLY DataInv, <2>1, <2>3, <2>4, <2>5, <2>6, <2>7, <2>8, <2>9, <2>10, IdleIsTask,
       StepKeeps, ZenonT(60)
<1> QED
  BY <1>3, <1>4

LEMMA MemberKeeps ==
  ASSUME DataInv, NEW h \in Handlers, Member(h)
  PROVE  DataInv'
<1>1. task[h].pc = "member" /\ UNCHANGED <<tenant, enabled, users, created, deleted, hired>>
  BY DEF Member, At
<1>2. /\ Fits(task[h]) /\ ReliesOn(task[h], missed[h], tenant, rows, deleted, hired)
      /\ HandlerInv(task[h], missed[h], tenant, created, rows, deleted, hired)
  BY Own
<1> DEFINE own == Membership(task[h].user)
<1>10. own \in Rows /\ own \notin Records /\ own \notin Catalogs /\ own[1] = "membership"
  BY <1>1, <1>2, RowFacts DEF Fits, Membership
<1>3. CASE tenant # task[h].id
  <2>1. Throw(h) /\ ChangesNothing(h) /\ UNCHANGED rows
    BY <1>3 DEF Member
  <2>2. missed[h] # {}
    BY <1>1, <1>2, <1>3 DEF ReliesOn
  <2> QED
    BY <1>1, <2>1, <2>2, QuietThrow DEF tables
<1>4. CASE tenant = task[h].id
  <2> DEFINE D == {own} \ rows
  <2>1. rows' = rows \cup {own} /\ Changes(h, D)
    BY <1>4 DEF Member
  <2>2. PICK t2 \in Task :
          /\ task' = [task EXCEPT ![h] = t2]
          /\ HandlerInv(t2, missed'[h], tenant', created', rows', deleted', hired')
          /\ \A k \in Others(h) : Apart(t2, task[k])
          /\ t2.pc # "failed"
    <3>1. CASE task[h].op = "visit"
      <4>1. Answer(h)
        BY <1>4, <3>1 DEF Member
      <4>2. \A k \in Others(h) : Apart(Idle, task[k])
        BY ThingsApart DEF Idle
      <4> QED
        BY <4>1, <4>2, IdleInv, IdleIsTask DEF Answer, Idle
    <3>2. CASE task[h].op # "visit"
      <4> DEFINE pc == IF task[h].op \in {"hire", "catalog"} THEN "insert" ELSE "find"
      <4>1. Goto(h, pc) /\ pc \in Labels
        BY <1>4, <3>2 DEF Member, Labels
      <4>2. PICK t2 \in Task :
               /\ task' = [task EXCEPT ![h] = t2]
               /\ t2.pc = pc /\ t2.op = task[h].op /\ t2.row = task[h].row
               /\ t2.id = task[h].id /\ t2.force = task[h].force /\ t2.n = task[h].n
               /\ t2.gone = task[h].gone
        BY <4>1, GoesOn
      <4>3. missed'[h] = missed[h]
        <5>1. D \in SUBSET (Rows \cup {Tenant}) /\ t2.pc # "idle"
          BY <1>10, <4>2
        <5> QED
          BY <2>1, <4>2, <5>1, ChangesMissed, ZenonT(60)
      <4>4. Fits(t2)
        BY <1>1, <1>2, <3>2, <4>2 DEF Fits, StaffOps, EmployeeOps, InTransaction
      <4>5. t2.op \in {"record", "hire"} => t2.row \notin rows'
        <5>1. t2.op \in {"record", "hire"} => t2.row \notin rows
          BY <1>1, <1>2, <4>2 DEF ReliesOn
        <5>2. t2.op \in {"record", "hire"} => t2.row \in Records \/ t2.row[1] = "employee"
          BY <4>4, RowFacts DEF Fits
        <5> QED
          BY <1>10, <2>1, <5>1, <5>2
      <4>6. ReliesOn(t2, missed'[h], tenant', rows', deleted', hired')
        <5>1. t2.pc \in {"find", "insert"} /\ (t2.pc = "insert" => t2.op \in {"hire", "catalog"})
          BY <4>2
        <5>2. t2.op = "hire" => t2.row[2] \in hired'
          BY <1>1, <1>2, <4>2 DEF ReliesOn
        <5> QED
          BY <1>1, <1>4, <4>2, <4>5, <5>1, <5>2 DEF ReliesOn
      <4>7. HandlerInv(t2, missed'[h], tenant', created', rows', deleted', hired')
        <5>1. t2.pc \in {"find", "insert"} /\ t2.id \in 1 .. created'
          BY <1>1, <1>2, <4>2 DEF HandlerInv
        <5> QED
          BY <4>4, <4>6, <5>1 DEF HandlerInv, Clears, Purges
      <4>8. \A k \in Others(h) : Apart(t2, task[k])
        BY <4>2 DEF DataInv, Apart, Others
      <4> QED
        BY <4>2, <4>7, <4>8
    <3> QED
      BY <3>1, <3>2
  <2>3. D \in SUBSET (Rows \cup {Tenant})
    BY <1>10
  <2>4. /\ missed' \in [Handlers -> SUBSET (Rows \cup {Tenant})]
        /\ \A k \in Others(h) : Serving(k) => missed'[k] = missed[k] \cup ReadOf(task[k].pc, D)
        /\ \A k \in Others(h) : task[k].pc = "failed" => missed'[k] = missed[k]
    BY <2>1, <2>2, <2>3, ChangesMissed, ZenonT(60)
  <2>5. rows' \ rows \subseteq D /\ rows \ rows' \subseteq D
    BY <2>1
  <2>6. \A k \in Others(h) :
          task[k].op \in {"record", "hire"} => task[k].row \notin rows' \ rows
    <3>1. ASSUME NEW k \in Handlers, task[k].op \in {"record", "hire"}
          PROVE  task[k].row # own
      <4>1. task[k].row \in Records \/ task[k].row[1] = "employee"
        BY <3>1, Own, RowFacts DEF Fits
      <4> QED
        BY <1>10, <4>1
    <3> QED
      BY <2>1, <3>1 DEF Others
  <2>7. \A e : Employee(e) # own
    BY DEF Employee, Membership
  <2>9. Admits(t2, missed'[h])
    BY <1>1, <2>2, Own DEF Admits, Excused
  <2> HIDE DEF own, D
  <2>8. /\ tenant' \in Nat /\ created' \in Nat /\ tenant' <= created' /\ created <= created'
        /\ created' <= MaxTenants /\ tenant' = tenant
        /\ rows' \subseteq Rows
        /\ deleted' \subseteq {e \in Employees : Employee(e) \in rows'}
        /\ \A e \in deleted \ deleted' : Employee(e) \in D
        /\ hired' \subseteq Employees /\ hired \subseteq hired'
        /\ \A e \in Employees : Employee(e) \in rows' => e \in hired'
    BY <1>1, <1>10, <2>1, <2>7, Own
  <2> QED
    BY ONLY DataInv, <2>2, <2>4, <2>5, <2>6, <2>8, <2>9, StepKeeps, ZenonT(60)
<1> QED
  BY <1>3, <1>4

LEMMA InsertKeeps ==
  ASSUME DataInv, NEW h \in Handlers, Insert(h)
  PROVE  DataInv'
<1> DEFINE t == task[h]
           r == t.row
           refused == r \notin Catalogs
                        /\ (r \in rows \/ tenant # t.id \/ ~(Parents(r) \subseteq rows))
<1>1. t.pc = "insert" /\ UNCHANGED <<tenant, enabled, users, created, deleted, hired>>
  BY DEF Insert, At
<1>2. /\ Fits(t) /\ ReliesOn(t, missed[h], tenant, rows, deleted, hired)
  BY Own
<1>3. /\ t.op \in {"hire", "record", "settings", "catalog"}
      /\ t.op = "hire" => \E e \in Employees : r = Employee(e)
      /\ t.op = "record" => r \in Records
      /\ t.op = "settings" => r = Settings
      /\ t.op = "catalog" => r \in Catalogs
  BY <1>1, <1>2 DEF Fits, Catalogs
<1>4. CASE refused
  <2>1. Throw(h) /\ ChangesNothing(h) /\ UNCHANGED rows
    BY <1>4 DEF Insert
  <2>2. missed[h] # {}
    <3>1. CASE tenant # t.id
      BY <1>1, <1>2, <3>1 DEF ReliesOn
    <3>2. CASE r \in rows
      BY <1>1, <1>2, <1>3, <1>4, <3>2 DEF ReliesOn
    <3>3. CASE ~(Parents(r) \subseteq rows)
      <4>1. r[1] \in Kept /\ Employee(r[2]) \notin rows
        BY <3>3 DEF Parents
      <4>2. t.op = "record"
        <5>1. Settings[1] \notin Kept
          BY RowFacts DEF Settings
        <5> QED
          BY <1>3, <1>4, <4>1, <5>1, RowFacts
      <4> QED
        BY <1>1, <1>2, <4>1, <4>2 DEF ReliesOn
    <3> QED
      BY <1>4, <3>1, <3>2, <3>3
  <2> QED
    BY <1>1, <2>1, <2>2, QuietThrow DEF tables
<1>5. CASE ~refused
  <2>1. rows' = rows \cup {r} /\ Changes(h, {r}) /\ task' = [task EXCEPT ![h] = Idle]
    BY <1>5 DEF Insert, Answer
  <2>2. r \in Rows
    BY <1>3, RowFacts DEF Rows
  <2>3. /\ missed' \in [Handlers -> SUBSET (Rows \cup {Tenant})]
        /\ \A k \in Others(h) : Serving(k) => missed'[k] = missed[k] \cup ReadOf(task[k].pc, {r})
        /\ \A k \in Others(h) : task[k].pc = "failed" => missed'[k] = missed[k]
    BY <2>1, <2>2, IdleIsTask, ChangesMissed, ZenonT(60)
  <2>4. \A k \in Others(h) :
          task[k].op \in {"record", "hire"} => task[k].row \notin rows' \ rows
    <3>1. ASSUME NEW k \in Others(h), task[k].op \in {"record", "hire"}
          PROVE  task[k].row # r
      <4>1. k \in Handlers /\ k # h
        BY DEF Others
      <4>2. task[k].row \in Records \/ task[k].row[1] = "employee"
        BY <3>1, <4>1, Own, RowFacts DEF Fits
      <4>3. CASE t.op \in {"record", "hire"}
        BY <3>1, <4>1, <4>3 DEF DataInv, Apart
      <4>4. CASE t.op = "settings"
        BY <1>3, <4>2, <4>4, RowFacts DEF Settings
      <4>5. CASE t.op = "catalog"
        BY <1>3, <4>2, <4>5, RowFacts
      <4> QED
        BY <1>3, <4>3, <4>4, <4>5
    <3> QED
      BY <2>1, <3>1
  <2>5. \A e \in Employees : Employee(e) = r => e \in hired
    <3>1. SUFFICES ASSUME NEW e \in Employees, Employee(e) = r
                   PROVE  e \in hired
      OBVIOUS
    <3>2. t.op = "hire"
      BY <1>3, <3>1, RowFacts DEF Employee, Settings
    <3> QED
      BY <1>1, <1>2, <3>1, <3>2, RowFacts DEF ReliesOn
  <2>6. /\ tenant' \in Nat /\ created' \in Nat /\ tenant' <= created' /\ created <= created'
        /\ created' <= MaxTenants /\ tenant' = tenant
        /\ rows' \subseteq Rows /\ rows' \ rows \subseteq {r} /\ rows \ rows' \subseteq {r}
        /\ deleted' \subseteq {e \in Employees : Employee(e) \in rows'}
        /\ \A e \in deleted \ deleted' : Employee(e) \in {r}
        /\ hired' \subseteq Employees /\ hired \subseteq hired'
        /\ \A e \in Employees : Employee(e) \in rows' => e \in hired'
    <3> HIDE DEF r
    <3> QED
      BY <1>1, <2>1, <2>2, <2>5, Own
  <2>7. HandlerInv(Idle, missed'[h], tenant', created', rows', deleted', hired')
    BY IdleInv
  <2>8. \A k \in Others(h) : Apart(Idle, task[k])
    BY ThingsApart DEF Idle
  <2>9. Admits(Idle, missed'[h])
    BY <1>1, Own, IdleAdmits
  <2> HIDE DEF r
  <2> QED
    BY ONLY DataInv, <2>1, <2>3, <2>4, <2>6, <2>7, <2>8, <2>9, IdleIsTask, StepKeeps,
       ZenonT(60)
<1> QED
  BY <1>4, <1>5

LEMMA UpdateKeeps ==
  ASSUME DataInv, NEW h \in Handlers, Update(h)
  PROVE  DataInv'
<1> DEFINE e == task[h].row[2]
<1>1. task[h].pc = "update" /\ UNCHANGED <<tenant, enabled, users, created, rows, hired>>
  BY DEF Update, At
<1>2. /\ Fits(task[h]) /\ ReliesOn(task[h], missed[h], tenant, rows, deleted, hired)
  BY Own
<1>3. e \in Employees /\ task[h].row = Employee(e)
  BY <1>1, <1>2, RowFacts DEF Fits, EmployeeOps
<1>4. CASE Employee(e) \notin rows
  <2>1. Throw(h) /\ ChangesNothing(h) /\ UNCHANGED deleted
    BY <1>4 DEF Update
  <2>2. missed[h] # {}
    BY <1>1, <1>2, <1>3, <1>4 DEF ReliesOn
  <2> QED
    BY <1>1, <2>1, <2>2, QuietThrow DEF tables
<1>5. CASE Employee(e) \in rows
  <2> DEFINE D == {Employee(e)}
  <2>1. /\ task' = [task EXCEPT ![h] = Idle] /\ Changes(h, D)
        /\ deleted' \subseteq deleted \cup {e} /\ deleted \ {e} \subseteq deleted'
    BY <1>5 DEF Update, Answer
  <2>2. D \in SUBSET (Rows \cup {Tenant})
    BY <1>3, RowFacts
  <2> HIDE DEF e
  <2>3. /\ missed' \in [Handlers -> SUBSET (Rows \cup {Tenant})]
        /\ \A k \in Others(h) : Serving(k) => missed'[k] = missed[k] \cup ReadOf(task[k].pc, D)
        /\ \A k \in Others(h) : task[k].pc = "failed" => missed'[k] = missed[k]
    BY <2>1, <2>2, IdleIsTask, ChangesMissed, ZenonT(60)
  <2>4. \A x \in deleted \ deleted' : Employee(x) \in D
    BY <2>1
  <2> HIDE DEF D
  <2>5. /\ tenant' \in Nat /\ created' \in Nat /\ tenant' <= created' /\ created <= created'
        /\ created' <= MaxTenants /\ tenant' = tenant
        /\ rows' \subseteq Rows /\ rows' \ rows \subseteq D /\ rows \ rows' \subseteq D
        /\ deleted' \subseteq {x \in Employees : Employee(x) \in rows'}
        /\ hired' \subseteq Employees /\ hired \subseteq hired'
        /\ \A x \in Employees : Employee(x) \in rows' => x \in hired'
        /\ \A k \in Others(h) :
             task[k].op \in {"record", "hire"} => task[k].row \notin rows' \ rows
    BY <1>1, <1>3, <1>5, <2>1, Own
  <2>6. HandlerInv(Idle, missed'[h], tenant', created', rows', deleted', hired')
    BY IdleInv
  <2>7. \A k \in Others(h) : Apart(Idle, task[k])
    BY ThingsApart DEF Idle
  <2>8. Admits(Idle, missed'[h])
    BY <1>1, Own, IdleAdmits
  <2> QED
    BY ONLY DataInv, <2>1, <2>3, <2>4, <2>5, <2>6, <2>7, <2>8, IdleIsTask, StepKeeps,
       ZenonT(60)
<1> QED
  BY <1>4, <1>5

(* What the deletion of an employee leaves, when the database accepts it.   *)
LEMMA Unlinking ==
  ASSUME DataInv, NEW h \in Handlers, task[h].pc = "delete",
         NEW e \in Employees, task[h].row = Employee(e),
         NEW rs, rs = Unlinked((rows \ task[h].gone) \ {Employee(e)}, e)
  PROVE  /\ rs \subseteq Rows
         /\ \A x \in Employees : Employee(x) \in rows /\ x # e => Employee(x) \in rs
         /\ \A x \in Employees : Employee(x) \in rs => Employee(x) \in rows /\ x # e
         /\ \A r \in rs \ rows : r[2] = Nobody /\ r[1] = "notification"
         /\ \A r \in Catalogs : r \in rs <=> r \in rows
<1>1. rows \subseteq Rows /\ Fits(task[h])
  BY Own
<1>2. /\ \A r \in task[h].gone : r[1] \in Kept
      /\ \A r \in task[h].gone : r \notin Catalogs
      /\ \A x : Employee(x) \notin task[h].gone
  BY <1>1, RowFacts DEF Fits
<1>3. ASSUME NEW r \in rows, r[1] = "notification", r[2] = e
      PROVE  <<"notification", Nobody, r[3]>> \in Rows
  <2>1. r[3] \in Copies
    <3>1. r \in Records \/ r \in {"notification"} \X {Nobody} \X Copies
      BY <1>1, <1>3 DEF Rows, Employee, Membership, Settings, Catalogs, Catalog
    <3> QED
      BY <3>1 DEF Records
  <2> QED
    BY <2>1 DEF Rows
<1>4. ASSUME NEW r \in rs
      PROVE  /\ r \in Rows
             /\ r \notin rows => r[2] = Nobody /\ r[1] = "notification"
             /\ r # Employee(e)
  <2>1. PICK s \in (rows \ task[h].gone) \ {Employee(e)} :
               r = IF s[1] = "notification" /\ s[2] = e THEN <<s[1], Nobody, s[3]>> ELSE s
    BY DEF Unlinked
  <2>2. CASE s[1] = "notification" /\ s[2] = e
    BY <1>3, <2>1, <2>2 DEF Employee
  <2>3. CASE ~(s[1] = "notification" /\ s[2] = e)
    BY <1>1, <2>1, <2>3
  <2> QED
    BY <2>2, <2>3
<1>5. ASSUME NEW r \in rows, r \notin task[h].gone, r # Employee(e), r[1] # "notification"
      PROVE  r \in rs
  BY <1>5 DEF Unlinked
<1>6. \A x \in Employees : Employee(x) \in rows /\ x # e => Employee(x) \in rs
  BY <1>2, <1>5, RowFacts
<1>7. \A x \in Employees : Employee(x) \in rs => Employee(x) \in rows /\ x # e
  BY <1>4, RowFacts
<1>8. \A r \in Catalogs : r \in rs <=> r \in rows
  BY <1>2, <1>4, <1>5, RowFacts
<1> QED
  BY <1>4, <1>6, <1>7, <1>8

LEMMA DeleteKeeps ==
  ASSUME DataInv, NEW h \in Handlers, Delete(h)
  PROVE  DataInv'
<1> DEFINE e == task[h].row[2]
           refused == \/ Employee(e) \notin rows
                      \/ \E r \in rows \ task[h].gone : r[1] \in Kept \cap Owned /\ r[2] = e
<1>1. task[h].pc = "delete" /\ UNCHANGED <<tenant, enabled, users, created, hired>>
  BY DEF Delete, At
<1>2. /\ Fits(task[h]) /\ ReliesOn(task[h], missed[h], tenant, rows, deleted, hired)
      /\ Clears(task[h], missed[h], rows)
  BY Own
<1>3. e \in Employees /\ task[h].row = Employee(e)
  BY <1>1, <1>2, RowFacts DEF Fits, EmployeeOps
<1>4. CASE refused
  <2>1. Throw(h) /\ ChangesNothing(h) /\ UNCHANGED <<rows, deleted>>
    BY <1>4 DEF Delete
  <2>2. missed[h] # {}
    <3>1. CASE Employee(e) \notin rows
      BY <1>1, <1>2, <1>3, <3>1, Own DEF ReliesOn
    <3>2. CASE Employee(e) \in rows
      BY <1>1, <1>2, <1>4, <3>2 DEF Clears
    <3> QED
      BY <3>1, <3>2
  <2> QED
    BY <1>1, <2>1, <2>2, QuietThrow DEF tables
<1>5. CASE ~refused
  <2> DEFINE D == (rows \ rows') \cup (rows' \ rows)
  <2>1. /\ rows' = Unlinked((rows \ task[h].gone) \ {Employee(e)}, e)
        /\ deleted' = deleted \ {e}
        /\ task' = [task EXCEPT ![h] = Idle] /\ Changes(h, D) /\ Employee(e) \in rows
    BY <1>5 DEF Delete, Answer
  <2> HIDE DEF e
  <2>2. /\ rows' \subseteq Rows
        /\ \A x \in Employees : Employee(x) \in rows /\ x # e => Employee(x) \in rows'
        /\ \A x \in Employees : Employee(x) \in rows' => Employee(x) \in rows /\ x # e
        /\ \A r \in rows' \ rows : r[2] = Nobody /\ r[1] = "notification"
    BY <1>1, <1>3, <2>1, Unlinking
  <2>3. D \in SUBSET (Rows \cup {Tenant})
    BY <2>2, Own
  <2>4. rows' \ rows \subseteq D /\ rows \ rows' \subseteq D /\ Employee(e) \in D
    BY <1>3, <2>1, <2>2
  <2> HIDE DEF D
  <2>5. /\ missed' \in [Handlers -> SUBSET (Rows \cup {Tenant})]
        /\ \A k \in Others(h) : Serving(k) => missed'[k] = missed[k] \cup ReadOf(task[k].pc, D)
        /\ \A k \in Others(h) : task[k].pc = "failed" => missed'[k] = missed[k]
    BY <2>1, <2>3, IdleIsTask, ChangesMissed, ZenonT(60)
  <2>6. \A k \in Others(h) :
          task[k].op \in {"record", "hire"} => task[k].row \notin rows' \ rows
    <3>1. ASSUME NEW k \in Handlers, task[k].op \in {"record", "hire"}
          PROVE  task[k].row[2] # Nobody
      BY <3>1, Own, RowFacts, DataAssumption DEF Fits
    <3> QED
      BY <2>2, <3>1 DEF Others
  <2>7. /\ tenant' \in Nat /\ created' \in Nat /\ tenant' <= created' /\ created <= created'
        /\ created' <= MaxTenants /\ tenant' = tenant
        /\ hired' \subseteq Employees /\ hired \subseteq hired'
    BY <1>1, Own
  <2>8. deleted' \subseteq {x \in Employees : Employee(x) \in rows'}
    <3>1. deleted \subseteq {x \in Employees : Employee(x) \in rows}
      BY Own
    <3> QED
      BY <2>1, <2>2, <3>1
  <2>9. \A x \in deleted \ deleted' : Employee(x) \in D
    BY <2>1, <2>4
  <2>10. \A x \in Employees : Employee(x) \in rows' => x \in hired'
    <3>1. \A x \in Employees : Employee(x) \in rows => x \in hired
      BY Own
    <3> QED
      BY <1>1, <2>2, <3>1
  <2>11. HandlerInv(Idle, missed'[h], tenant', created', rows', deleted', hired')
    BY IdleInv
  <2>12. \A k \in Others(h) : Apart(Idle, task[k])
    BY ThingsApart DEF Idle
  <2>13. Admits(Idle, missed'[h])
    BY <1>1, Own, IdleAdmits
  <2> QED
    BY ONLY DataInv, <2>1, <2>2, <2>4, <2>5, <2>6, <2>7, <2>8, <2>9,
       <2>10, <2>11, <2>12, <2>13, IdleIsTask, StepKeeps, ZenonT(60)
<1> QED
  BY <1>4, <1>5

LEMMA LetInKeeps ==
  ASSUME DataInv, NEW h \in Handlers, NEW op \in StaffOps, NEW row \in Rows \cup {Tenant},
         LetIn(h, op, row), hired \subseteq hired', hired' \subseteq Employees,
         op = "hire" => \E e \in Employees \ hired : row = Employee(e) /\ e \in hired',
         op \in EmployeeOps => \E e \in Employees : row = Employee(e),
         op = "record" => row \in Records \ rows /\ \A k \in Others(h) : task[k].row # row,
         op = "settings" => row = Settings,
         op = "catalog" => row = Catalog(tenant')
  PROVE  DataInv'
<1>0. PICK u \in Users :
         task' = [task EXCEPT ![h] = [Idle EXCEPT !.op = op, !.user = u, !.row = row,
                                                  !.id = tenant', !.pc = "user"]]
  BY DEF LetIn
<1> DEFINE t2 == [Idle EXCEPT !.op = op, !.user = u, !.row = row, !.id = tenant', !.pc = "user"]
           D == IF tenant = NoTenant THEN {Tenant} ELSE {}
<1>1. /\ task[h].pc = "idle" /\ UNCHANGED <<enabled, users, rows, deleted>>
      /\ task' = [task EXCEPT ![h] = t2] /\ Changes(h, D)
  BY <1>0 DEF LetIn, At
<1>2. /\ tenant' \in Nat /\ created' \in Nat /\ tenant' <= created' /\ created <= created'
      /\ created' <= MaxTenants /\ tenant' \in 1 .. created' /\ tenant' \in Ids
      /\ tenant' = tenant \/ (Tenant \in D /\ tenant' > created)
  <2>1. tenant \in Nat /\ created \in Nat /\ tenant <= created /\ created <= MaxTenants
    BY Own
  <2>2. CASE tenant # NoTenant
    BY <2>1, <2>2, DataAssumption DEF LetIn, NoTenant, Ids
  <2>3. CASE tenant = NoTenant
    BY <2>1, <2>3, DataAssumption DEF LetIn, NoTenant, Ids
  <2> QED
    BY <2>2, <2>3
<1>3. /\ t2 \in Task /\ t2.op = op /\ t2.row = row /\ t2.id = tenant' /\ t2.pc = "user" /\ t2.user = u
      /\ t2.n = 1 /\ t2.gone = {}
  <2>1. Idle \in Task /\ Idle.n = 1 /\ Idle.gone = {}
    BY IdleIsTask DEF Idle
  <2> QED
    BY <1>2, <2>1 DEF Task, Labels
<1>4. D \in SUBSET (Rows \cup {Tenant})
  OBVIOUS
<1> HIDE DEF t2, D
<1>5. /\ missed' \in [Handlers -> SUBSET (Rows \cup {Tenant})]
      /\ \A k \in Others(h) : Serving(k) => missed'[k] = missed[k] \cup ReadOf(task[k].pc, D)
      /\ \A k \in Others(h) : task[k].pc = "failed" => missed'[k] = missed[k]
  <2>1. task' = [task EXCEPT ![h] = t2] /\ Changes(h, D) /\ t2 \in Task
    BY <1>1, <1>3
  <2> QED
    BY ONLY DataInv, <2>1, <1>4, ChangesMissed, ZenonT(60)
<1>6. Fits(t2)
  <2>1. /\ op = "record" => row \in Records
        /\ op \in EmployeeOps \cup {"hire"} => \E e \in Employees : row = Employee(e)
        /\ op = "settings" => row = Settings
        /\ op = "catalog" => row = Catalog(tenant') /\ tenant' \in Ids
    BY <1>2
  <2> QED
    BY <1>3, <2>1 DEF Fits, InTransaction
<1>7. op \in {"record", "hire"} => row \notin rows'
  BY <1>1, Own
<1>8. ReliesOn(t2, missed'[h], tenant', rows', deleted', hired')
  <2>1. op = "hire" => row[2] \in hired'
    BY RowFacts
  <2> QED
    BY <1>3, <1>7, <2>1 DEF ReliesOn
<1>9. HandlerInv(t2, missed'[h], tenant', created', rows', deleted', hired')
  BY <1>2, <1>3, <1>6, <1>8 DEF HandlerInv, Clears, Purges
<1>10. ASSUME NEW k \in Others(h)
       PROVE  Apart(t2, task[k])
  <2>1. SUFFICES ASSUME op \in {"record", "hire"}, task[k].op \in {"record", "hire"}
                 PROVE  row # task[k].row
    BY <1>3 DEF Apart
  <2>2. /\ k \in Handlers /\ Fits(task[k])
        /\ ReliesOn(task[k], missed[k], tenant, rows, deleted, hired) /\ task[k] \in Task
    BY Own DEF Others
  <2>3. CASE op = "record"
    BY <2>3
  <2>4. CASE op = "hire"
    <3>1. PICK e \in Employees \ hired : row = Employee(e)
      BY <2>4
    <3>2. CASE task[k].op = "record"
      BY <2>2, <3>1, <3>2, RowFacts DEF Fits
    <3>3. CASE task[k].op = "hire"
      <4>1. task[k].pc \in {"user", "member", "insert"}
        <5>1. task[k].pc \in Labels
          BY <2>2 DEF Task
        <5>2. task[k].pc \notin {"idle", "failed"}
          BY <2>2, <3>3 DEF Fits
        <5> QED
          BY <2>2, <3>3, <5>1, <5>2 DEF Fits, EmployeeOps, Labels
      <4>2. task[k].row[2] \in hired
        BY <2>2, <3>3, <4>1 DEF ReliesOn
      <4> QED
        BY <3>1, <4>2, RowFacts
    <3> QED
      BY <2>1, <3>2, <3>3
  <2> QED
    BY <2>1, <2>3, <2>4
<1>11. /\ rows' \subseteq Rows /\ rows' \ rows \subseteq D /\ rows \ rows' \subseteq D
       /\ deleted' \subseteq {x \in Employees : Employee(x) \in rows'}
       /\ \A x \in deleted \ deleted' : Employee(x) \in D
       /\ \A x \in Employees : Employee(x) \in rows' => x \in hired'
       /\ \A k \in Others(h) :
            task[k].op \in {"record", "hire"} => task[k].row \notin rows' \ rows
  BY <1>1, Own
<1>12. \A k \in Others(h) : Apart(t2, task[k])
  BY <1>10
<1>13. Admits(t2, missed'[h])
  BY <1>1, <1>3, Own DEF Admits, Excused
<1> QED
  BY ONLY DataInv, <1>1, <1>2, <1>3, <1>5, <1>9, <1>11, <1>12, <1>13, hired \subseteq hired',
     hired' \subseteq Employees, StepKeeps, ZenonT(60)

LEMMA ArriveKeeps ==
  ASSUME DataInv, NEW h \in Handlers, Arrive(h)
  PROVE  DataInv'
<1>1. hired \subseteq Employees
  BY Own
<1>2. CASE LetIn(h, "visit", Tenant) /\ UNCHANGED hired
  BY <1>1, <1>2, LetInKeeps DEF StaffOps, EmployeeOps
<1>3. ASSUME NEW e \in Employees \ hired, LetIn(h, "hire", Employee(e)), hired' = hired \cup {e}
      PROVE  DataInv'
  <2>1. Employee(e) \in Rows \cup {Tenant}
    BY RowFacts
  <2> QED
    BY <1>1, <1>3, <2>1, LetInKeeps DEF StaffOps, EmployeeOps
<1>4. ASSUME NEW op \in EmployeeOps, NEW e \in hired, LetIn(h, op, Employee(e)), UNCHANGED hired
      PROVE  DataInv'
  <2>1. Employee(e) \in Rows \cup {Tenant} /\ e \in Employees
    BY <1>1, RowFacts
  <2>2. op \in StaffOps /\ op \notin {"hire", "record", "settings", "catalog"}
    BY DEF EmployeeOps, StaffOps
  <2> QED
    BY <1>1, <1>4, <2>1, <2>2, LetInKeeps
<1>5. ASSUME NEW r \in Records \ rows, \A k \in Others(h) : task[k].row # r,
             LetIn(h, "record", r), UNCHANGED hired
      PROVE  DataInv'
  <2>1. r \in Rows \cup {Tenant}
    BY RowFacts
  <2> QED
    BY <1>1, <1>5, <2>1, LetInKeeps DEF StaffOps, EmployeeOps
<1>6. CASE LetIn(h, "settings", Settings) /\ UNCHANGED hired
  <2>1. Settings \in Rows \cup {Tenant}
    BY RowFacts
  <2> QED
    BY <1>1, <1>6, <2>1, LetInKeeps DEF StaffOps, EmployeeOps
<1>7. CASE LetIn(h, "catalog", Catalog(tenant')) /\ UNCHANGED hired
  <2>1. tenant' \in Ids
    BY <1>7, Own, DataAssumption DEF LetIn, NoTenant, Ids
  <2>2. Catalog(tenant') \in Rows \cup {Tenant}
    BY <2>1 DEF Rows, Catalogs
  <2> QED
    BY <1>1, <1>7, <2>2, LetInKeeps DEF StaffOps, EmployeeOps
<1> QED
  BY <1>2, <1>3, <1>4, <1>5, <1>6, <1>7 DEF Arrive, EmployeeOps

LEMMA SwitchKeeps ==
  ASSUME DataInv, NEW h \in Handlers, Switch(h)
  PROVE  DataInv'
<1>1. PICK id \in 1 .. created :
        IF id # tenant
        THEN UNCHANGED <<task, missed>>
        ELSE /\ task' = [task EXCEPT ![h] = [Idle EXCEPT !.op = "switch", !.id = id,
                                                         !.pc = "switch"]]
             /\ ChangesNothing(h)
  BY DEF Switch
<1>2. UNCHANGED tables
  BY DEF Switch
<1>3. CASE id # tenant
  BY <1>1, <1>2, <1>3 DEF DataInv, TypeOK, tables
<1>4. CASE id = tenant
  <2> DEFINE t2 == [Idle EXCEPT !.op = "switch", !.id = id, !.pc = "switch"]
  <2>0. Idle \in Task /\ id \in Nat /\ Idle.gone = {} /\ Idle.n = 1
    BY Own, IdleIsTask DEF Idle
  <2>1. /\ t2.op = "switch" /\ t2.id = id /\ t2.pc = "switch" /\ t2.gone = {} /\ t2.n = 1
        /\ t2 \in Task
    BY <2>0 DEF Task, Labels
  <2>2. task' = [task EXCEPT ![h] = t2] /\ ChangesNothing(h)
    BY <1>1, <1>4
  <2> HIDE DEF t2
  <2>3. HandlerInv(t2, missed'[h], tenant, created, rows, deleted, hired)
    BY <1>4, <2>1 DEF HandlerInv, Fits, ReliesOn, Clears, Purges, EmployeeOps, InTransaction
  <2>4. \A k \in Others(h) : Apart(t2, task[k])
    BY <2>1 DEF Apart
  <2>5. Excused(t2, missed'[h], users)
    BY <2>1 DEF Excused
  <2> QED
    BY <1>2, <2>1, <2>2, <2>3, <2>4, <2>5, QuietKeeps
<1> QED
  BY <1>3, <1>4

LEMMA SetActiveKeeps ==
  ASSUME DataInv, NEW h \in Handlers, SetActive(h)
  PROVE  DataInv'
<1>1. /\ task[h].pc = "switch" /\ ChangesNothing(h)
      /\ UNCHANGED <<tenant, users, created, rows, deleted, hired>>
  BY DEF SetActive, At
<1>2. CASE tenant # task[h].id
  <2>1. missed[h] # {}
    BY <1>1, <1>2, Own DEF ReliesOn
  <2> QED
    BY <1>1, <1>2, <2>1, QuietThrow DEF SetActive, tables
<1>3. CASE tenant = task[h].id
  <2>1. task' = [task EXCEPT ![h] = Idle] /\ enabled' \in BOOLEAN
    BY <1>3 DEF SetActive, Answer
  <2>2. HandlerInv(Idle, missed'[h], tenant, created, rows, deleted, hired)
    BY IdleInv
  <2>3. \A k \in Others(h) : Apart(Idle, task[k])
    BY ThingsApart DEF Idle
  <2>4. Admits(Idle, missed'[h])
    BY <1>1, <2>1, IdleAdmits
  <2> QED
    BY <1>1, <2>1, <2>2, <2>3, <2>4, IdleIsTask, UsersKeep
<1> QED
  BY <1>2, <1>3

LEMMA UserKeeps ==
  ASSUME DataInv, NEW h \in Handlers, User(h)
  PROVE  DataInv'
<1>1. /\ task[h].pc = "user" /\ ChangesNothing(h)
      /\ UNCHANGED <<tenant, enabled, created, rows, deleted, hired>>
  BY DEF User, At
<1>2. CASE AddressTaken(task[h].user)
  BY <1>1, <1>2, QuietThrow DEF User, tables
<1>3. CASE ~AddressTaken(task[h].user)
  <2>1. users' = users \cup {task[h].user} /\ Goto(h, "member")
    BY <1>3 DEF User
  <2>2. PICK t2 \in Task :
           /\ task' = [task EXCEPT ![h] = t2]
           /\ t2.pc = "member" /\ t2.op = task[h].op /\ t2.row = task[h].row
           /\ t2.id = task[h].id /\ t2.force = task[h].force /\ t2.n = task[h].n
           /\ t2.gone = task[h].gone /\ t2.user = task[h].user
    BY <2>1, GoesOn DEF Labels
  <2>3. missed'[h] = missed[h]
    BY <1>1, <2>2, ChangesMissed DEF ChangesNothing
  <2>4. /\ Fits(task[h]) /\ ReliesOn(task[h], missed[h], tenant, rows, deleted, hired)
        /\ HandlerInv(task[h], missed[h], tenant, created, rows, deleted, hired)
    BY Own
  <2>5. Fits(t2)
    BY <1>1, <2>2, <2>4 DEF Fits, InTransaction
  <2>6. ReliesOn(t2, missed'[h], tenant, rows, deleted, hired)
    BY <1>1, <2>2, <2>3, <2>4 DEF ReliesOn
  <2>7. HandlerInv(t2, missed'[h], tenant, created, rows, deleted, hired)
    BY <1>1, <2>2, <2>4, <2>5, <2>6 DEF HandlerInv, Clears, Purges
  <2>8. \A k \in Others(h) : Apart(t2, task[k])
    BY <2>2 DEF DataInv, Apart, Others
  <2>9. Admits(t2, missed'[h])
    <3>1. users \subseteq users' /\ users' \subseteq Users /\ enabled' \in BOOLEAN
      BY <1>1, <2>1, <2>4, Own DEF Fits
    <3> QED
      BY <2>2, <3>1 DEF Admits, Excused
  <2> QED
    BY <1>1, <2>2, <2>7, <2>8, <2>9, UsersKeep
<1> QED
  BY <1>2, <1>3

LEMMA AbortKeeps ==
  ASSUME DataInv, NEW h \in Handlers, Abort(h) \/ Respond(h)
  PROVE  DataInv'
  BY QuietAnswer DEF Abort, Respond

-----------------------------------------------------------------------------
(* The invariant, and what follows from it.                                 *)

LEMMA InitKeeps ==
  ASSUME Init
  PROVE  DataInv
<1>1. /\ tenant = 1 /\ created = 1 /\ rows = {Settings} /\ deleted = {} /\ hired = {}
      /\ task = [h \in Handlers |-> Idle] /\ missed = [h \in Handlers |-> {}]
      /\ enabled = TRUE /\ users \subseteq Users
  BY DEF Init
<1>2. \A h \in Handlers :
        HandlerInv(task[h], missed[h], tenant, created, rows, deleted, hired)
  BY <1>1, IdleInv
<1>3. \A h, k \in Handlers : Apart(task[h], task[k])
  BY <1>1 DEF Apart, Idle
<1>4. \A e \in Employees : Employee(e) \notin rows
  BY <1>1 DEF Employee, Settings
<1>5. TypeOK
  <2>1. task \in [Handlers -> Task] /\ missed \in [Handlers -> SUBSET (Rows \cup {Tenant})]
    BY <1>1, IdleIsTask
  <2>2. \A h \in Handlers : task[h].gone = {}
    BY <1>1 DEF Idle
  <2> QED
    BY <1>1, <2>1, <2>2, RowFacts DEF TypeOK
<1>6. \A h \in Handlers : Excused(task[h], missed[h], users)
  BY <1>1, IdleExcused
<1> QED
  BY <1>1, <1>2, <1>3, <1>4, <1>5, <1>6, DataAssumption DEF DataInv

LEMMA StepInv ==
  ASSUME DataInv, [Next]_vars
  PROVE  DataInv'
<1>1. ASSUME NEW h \in Handlers, Step(h)
      PROVE  DataInv'
  BY <1>1, ArriveKeeps, UserKeeps, SwitchKeeps, SetActiveKeeps, MemberKeeps, FindKeeps, InsertKeeps, UpdateKeeps, UsageKeeps,
     ClearKeeps, DeleteKeeps, RemoveKeeps, ReportKeeps, PurgeKeeps, DropKeeps, AbortKeeps DEF Step
<1>2. CASE UNCHANGED vars
  BY <1>2 DEF vars, DataInv, TypeOK
<1>3. CASE Next
  BY <1>1, <1>3 DEF Next
<1> QED
  BY <1>2, <1>3

(* The inductive invariant, for the proofs of this module.                  *)
THEOREM DataInvTheorem == Spec => []DataInv
<1>1. Init => DataInv
  BY InitKeeps
<1>2. DataInv /\ [Next]_vars => DataInv'
  BY StepInv
<1> QED
  BY <1>1, <1>2, PTL DEF Spec

(* The types; and that only an open transaction holds deleted rows.         *)
THEOREM TypesTheorem == Spec => []TypeOK
<1>1. DataInv => TypeOK
  BY DEF DataInv
<1> QED
  BY <1>1, DataInvTheorem, PTL

(* Only a request that others have overtaken, or of a user whose e-mail     *)
(* address is somebody else's, meets an error of the database, for any      *)
(* numbers of requests, users, employees and tables that refer to           *)
(* employees.                                                               *)
THEOREM RacesTheorem == Spec => []OnlyRacesFail
<1>1. DataInv => OnlyRacesFail
  BY DEF DataInv, OnlyRacesFail, Excused, AddressTaken
<1> QED
  BY <1>1, DataInvTheorem, PTL

-----------------------------------------------------------------------------
(* Which steps take rows away.                                              *)

LEMMA RowsLost ==
  ASSUME DataInv, NEW h \in Handlers, Step(h), ~Delete(h), ~Drop(h)
  PROVE  /\ rows \subseteq rows'
         /\ tenant' = tenant \/ (tenant = NoTenant /\ tenant' # NoTenant)
         /\ \A r \in Catalogs : r \in rows' \ rows =>
              task[h].op = "catalog" /\ task[h].row = r /\ Insert(h)
<1>1. CASE Member(h)
  <2>1. rows \subseteq rows' /\ rows' \subseteq rows \cup {Membership(task[h].user)}
        /\ tenant' = tenant
    BY <1>1 DEF Member
  <2> QED
    BY <2>1, RowFacts
<1>2. CASE Insert(h)
  <2>1. /\ rows \subseteq rows' /\ rows' \subseteq rows \cup {task[h].row} /\ tenant' = tenant
    BY <1>2 DEF Insert
  <2>2. task[h].row \in Catalogs => task[h].op = "catalog"
    <3>1. Fits(task[h]) /\ task[h].pc = "insert"
      BY <1>2, Own DEF Insert, At
    <3> QED
      BY <3>1, RowFacts DEF Fits
  <2> QED
    BY <1>2, <2>1, <2>2
<1>3. CASE Arrive(h)
  <2>1. PICK op, row : LetIn(h, op, row)
    BY <1>3 DEF Arrive
  <2> QED
    BY <2>1, Own DEF LetIn, NoTenant
<1>4. CASE \/ Find(h) \/ Usage(h) \/ Clear(h) \/ Remove(h) \/ Report(h) \/ Purge(h)
           \/ Abort(h) \/ Respond(h)
  BY ZenonT(60), <1>4 DEF Find, Usage, Clear, Remove, Report, Purge, Abort, Respond, tables
<1>5. CASE Update(h)
  BY <1>5 DEF Update
<1>6. CASE User(h) \/ Switch(h) \/ SetActive(h)
  BY <1>6 DEF User, Switch, SetActive, tables
<1> QED
  BY <1>1, <1>2, <1>3, <1>4, <1>5, <1>6 DEF Step

LEMMA DropLoses ==
  ASSUME DataInv, NEW g \in Handlers, Drop(g), tenant' # tenant
  PROVE  /\ tenant = task[g].id /\ tenant' = NoTenant /\ rows' = rows \ task[g].gone
         /\ task[g].pc = "drop"
  BY DEF Drop, At

LEMMA DropKept ==
  ASSUME DataInv, NEW g \in Handlers, Drop(g), tenant' = tenant
  PROVE  rows' = rows
<1>1. task[g].pc = "drop" /\ HandlerInv(task[g], missed[g], tenant, created, rows, deleted, hired)
  BY Own DEF Drop, At
<1>2. task[g].id \in 1 .. created
  BY <1>1 DEF HandlerInv
<1>3. task[g].id # NoTenant
  BY <1>2, Own DEF NoTenant
<1> QED
  BY <1>3 DEF Drop

LEMMA DeleteLoses ==
  ASSUME DataInv, NEW g \in Handlers, Delete(g)
  PROVE  /\ tenant' = tenant /\ task[g].pc = "delete"
         /\ \A r \in Catalogs : r \in rows' <=> r \in rows
         /\ \A e \in Employees : Employee(e) \in rows /\ Employee(e) \notin rows'
                                   => task[g].row = Employee(e)
<1>1. task[g].pc = "delete" /\ tenant' = tenant /\ Fits(task[g])
  BY Own DEF Delete, At
<1>2. PICK x \in Employees : task[g].row = Employee(x)
  BY <1>1 DEF Fits, EmployeeOps
<1>3. task[g].row[2] = x
  BY <1>2, RowFacts
<1>4. CASE rows' = Unlinked((rows \ task[g].gone) \ {Employee(x)}, x)
  BY <1>1, <1>2, <1>4, Unlinking
<1>5. CASE rows' = rows
  BY <1>1, <1>5
<1> QED
  BY <1>3, <1>4, <1>5 DEF Delete

-----------------------------------------------------------------------------
(* An employee who is taken away while active was restored after the        *)
(* deletion had found him; a tenant deleted without force loses only what   *)
(* was entered after its report.                                            *)
THEOREM KnowinglyTheorem == Spec => DeletedKnowingly
<1> DEFINE Employed ==
             \A e \in Employees :
               (Active(e) /\ Employee(e) \notin rows' /\ tenant' = tenant)
               => \E h \in Handlers : At(h, "delete") /\ task[h].row = Employee(e)
                                     /\ Employee(e) \in missed[h]
           Reported ==
             \A h \in Handlers :
               DropsUnforced(h) => (rows \ rows') \subseteq missed[h] \cup {Settings}
<1>1. ASSUME DataInv, NEW g \in Handlers, Step(g)
      PROVE  Employed
  <2>1. SUFFICES ASSUME NEW e \in Employees, Active(e), Employee(e) \notin rows', tenant' = tenant
                 PROVE  \E h \in Handlers : At(h, "delete") /\ task[h].row = Employee(e)
                                           /\ Employee(e) \in missed[h]
    OBVIOUS
  <2>2. Employee(e) \in rows /\ e \notin deleted
    BY <2>1 DEF Active
  <2>3. Delete(g)
    BY <1>1, <2>1, <2>2, RowsLost, DropKept
  <2>4. task[g].row = Employee(e) /\ task[g].pc = "delete"
    BY <1>1, <2>1, <2>2, <2>3, DeleteLoses
  <2>5. Employee(e) \in missed[g]
    <3>1. ReliesOn(task[g], missed[g], tenant, rows, deleted, hired)
      BY <1>1, Own
    <3> QED
      BY <2>2, <2>4, <3>1, RowFacts DEF ReliesOn
  <2> QED
    BY <2>4, <2>5 DEF At
<1>2. ASSUME DataInv, NEW g \in Handlers, Step(g)
      PROVE  Reported
  <2>1. SUFFICES ASSUME NEW h \in Handlers, DropsUnforced(h)
                 PROVE  (rows \ rows') \subseteq missed[h] \cup {Settings}
    OBVIOUS
  <2>2. /\ task[h].pc = "drop" /\ ~task[h].force /\ tenant = task[h].id /\ tenant' = NoTenant
        /\ Purges(task[h], missed[h], tenant, rows)
        /\ HandlerInv(task[h], missed[h], tenant, created, rows, deleted, hired)
    BY <1>2, <2>1, Own DEF DropsUnforced
  <2>3. tenant # NoTenant
    BY <1>2, <2>2, Own DEF HandlerInv, NoTenant
  <2>4. Drop(g)
    BY <1>2, <2>2, <2>3, RowsLost, DeleteLoses
  <2>5. tenant = task[g].id /\ rows' = rows \ task[g].gone
    BY <1>2, <2>2, <2>3, <2>4, DropLoses
  <2>6. task[g].gone \cap Catalogs \subseteq {Catalog(tenant)}
    BY <1>2, <2>5, Own DEF Fits
  <2> QED
    BY <2>2, <2>5, <2>6 DEF Purges
<1>3. ASSUME UNCHANGED vars, DataInv
      PROVE  Employed /\ Reported
  <2>1. rows' = rows /\ tenant' = tenant
    BY <1>3 DEF vars
  <2> QED
    BY <2>1 DEF Active
<1>4. DataInv /\ [Next]_vars => [Employed /\ Reported]_vars
  <2>1. DataInv /\ Next => Employed /\ Reported
    BY <1>1, <1>2 DEF Next
  <2> QED
    BY <2>1
<1> QED
  BY <1>4, DataInvTheorem, PTL DEF Spec, DeletedKnowingly

(* Of a tenant that was deleted only a catalogue is left, whose saving      *)
(* overlapped the deletion.                                                 *)
THEOREM OutlivesTheorem == Spec => NothingOutlivesItsTenant
<1> DEFINE Overlapped ==
             \A r \in Orphans' \ Orphans :
               \E h \in Handlers :
                 \/ task[h].pc = "drop" /\ r \in missed[h]
                 \/ task[h].op = "catalog" /\ task[h].row = r /\ Tenant \in missed[h]
<1>1. ASSUME DataInv, NEW g \in Handlers, Step(g), NEW r, r \in Orphans' \ Orphans
      PROVE  \E h \in Handlers :
               \/ task[h].pc = "drop" /\ r \in missed[h]
               \/ task[h].op = "catalog" /\ task[h].row = r /\ Tenant \in missed[h]
  <2>1. PICK id \in Ids : id # tenant' /\ r = Catalog(id) /\ r \in rows'
    BY <1>1 DEF Orphans
  <2>2. r \in Catalogs
    BY <2>1 DEF Catalogs
  <2>3. r \notin rows \/ id = tenant
    BY <1>1, <2>1 DEF Orphans
  <2>4. CASE Drop(g)
    <3>1. CASE tenant' = tenant
      BY <1>1, <2>1, <2>3, <2>4, <3>1, DropKept
    <3>2. CASE tenant' # tenant
      <4>1. /\ tenant = task[g].id /\ rows' = rows \ task[g].gone /\ task[g].pc = "drop"
        BY <1>1, <2>4, <3>2, DropLoses
      <4>2. r \in rows /\ r \notin task[g].gone /\ r = Catalog(task[g].id)
        BY <2>1, <2>3, <4>1
      <4>3. task[g].n = 10 /\ Purges(task[g], missed[g], tenant, rows)
        BY <1>1, <4>1, Own DEF Fits
      <4>4. r[1] = PurgeOrder[9]
        BY <2>2, RowFacts, PurgeFacts
      <4>5. r \in missed[g]
        BY <4>1, <4>2, <4>3, <4>4 DEF Purges
      <4> QED
        BY <4>1, <4>5
    <3> QED
      BY <3>1, <3>2
  <2>5. CASE Delete(g)
    BY <1>1, <2>1, <2>2, <2>3, <2>5, DeleteLoses
  <2>6. CASE ~Delete(g) /\ ~Drop(g)
    <3>1. /\ rows \subseteq rows'
          /\ tenant' = tenant \/ (tenant = NoTenant /\ tenant' # NoTenant)
          /\ r \in rows' \ rows => task[g].op = "catalog" /\ task[g].row = r /\ Insert(g)
      BY <1>1, <2>2, <2>6, RowsLost
    <3>2. id # NoTenant
      BY DataAssumption DEF Ids, NoTenant
    <3>3. r \notin rows
      BY <2>1, <2>3, <3>1, <3>2
    <3>4. task[g].op = "catalog" /\ task[g].row = r /\ Insert(g)
      BY <2>1, <3>1, <3>3
    <3>5. task[g].pc = "insert" /\ tenant' = tenant
      BY <3>4 DEF Insert, At
    <3>6. Fits(task[g]) /\ ReliesOn(task[g], missed[g], tenant, rows, deleted, hired)
      BY <1>1, Own
    <3>7. task[g].id = id
      BY <2>1, <3>4, <3>6 DEF Fits, Catalog
    <3>8. Tenant \in missed[g]
      BY <2>1, <3>5, <3>6, <3>7 DEF ReliesOn
    <3> QED
      BY <3>4, <3>8
  <2> QED
    BY <2>4, <2>5, <2>6
<1>2. DataInv /\ Next => Overlapped
  BY <1>1 DEF Next
<1>3. DataInv /\ [Next]_vars => [Overlapped]_vars
  BY <1>2
<1> QED
  BY <1>3, DataInvTheorem, PTL DEF Spec, NothingOutlivesItsTenant
=============================================================================
