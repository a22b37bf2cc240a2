----------------------------- MODULE TenantData -----------------------------
(***************************************************************************)
(* What deletes data: the deletion of a tenant by an owner                 *)
(* (tenant-accounts.service.ts), the deletion, restoration and permanent   *)
(* deletion of an employee (employees.service.ts), and the requests they   *)
(* run into, each of which starts by upserting its tenant, its user and    *)
(* its membership (tenancy.service.ts); and the switch by which an owner   *)
(* disables the tenant.                                                    *)
(*                                                                         *)
(* Every awaited statement is a step.  Transactions run at PostgreSQL's    *)
(* READ COMMITTED: a statement sees what is committed, and waits for rows  *)
(* that another transaction has deleted; what a transaction deletes (gone) *)
(* is taken away when it commits.  Foreign keys are the schema's: one that *)
(* must be set restricts the deletion of the row it refers to, one that    *)
(* may be null (a notification's employee) is set to null.  The table of   *)
(* catalogues, which the orders service creates itself, has none.          *)
(*                                                                         *)
(* There is one authOrgId; whoever deletes or disables its tenant is an    *)
(* owner of another, whose own way in is not modelled.  A user's token     *)
(* always shows the same e-mail address.                                   *)
(***************************************************************************)
EXTENDS Integers, Sequences

CONSTANTS
    Handlers,       \* requests that can be in flight at the same time
    Employees,      \* ids of employees
    Nobody,         \* the employee of a row that is not about one
    Users,          \* those who send requests
    AddressOf,      \* the e-mail address of a user; who has none gets a common one
    Kept,           \* tables with rows about an employee, of those below
    Copies,         \* bound: rows of such a table for one employee
    MaxTenants      \* bound: tenants created for the authOrgId

(* The relations of model Employee in schema.prisma that must be set, and   *)
(* the one that may be null.                                                *)
Owned == {"employeeSchedule", "employeeTip", "scheduleOverrideRequest", "employeePunch"}

ASSUME DataAssumption ==
    /\ Nobody \notin Employees \cup Users
    /\ Kept \subseteq Owned \cup {"notification"}
    /\ MaxTenants \in Nat \ {0}

VARIABLES
    tenant,     \* id of the tenant of the authOrgId, or NoTenant
    enabled,    \* isActive of that tenant, or what a new one has
    users,      \* users with a row; nothing deletes it
    created,    \* tenants created so far
    rows,       \* rows of all tables
    deleted,    \* employees whose deletedAt is set
    hired,      \* ids of employees given out so far
    task,       \* the handlers
    missed      \* history: rows others have changed since a handler read

vars == <<tenant, enabled, users, created, rows, deleted, hired, task, missed>>

NoTenant == 0
Ids == 1 .. MaxTenants

(* A row is told apart by its table, its employee or user, and a number;   *)
(* rows but the catalogues' are those of the tenant, whose id they refer   *)
(* to.                                                                     *)
Employee(e) == <<"employee", e, 1>>
Membership(u) == <<"membership", u, 1>>
Settings == <<"tenantSettings", Nobody, 1>>
Tenant == <<"tenant", Nobody, 1>>
Catalog(id) == <<"companyOrderCatalogOverride", Nobody, id>>

Records == Kept \X Employees \X Copies
Catalogs == {Catalog(id) : id \in Ids}
Rows == Records \cup {Employee(e) : e \in Employees} \cup {Membership(u) : u \in Users}
          \cup {Settings} \cup Catalogs
          \cup ({"notification"} \X {Nobody} \X Copies)

(* What a request does once it is let in; a visit reads.                   *)
StaffOps == {"visit", "hire", "edit", "dismiss", "restore", "expunge", "record",
             "settings", "catalog"}
Labels == {"idle", "failed", "user", "member", "find", "insert", "update", "usage", "clear",
           "delete", "report", "purge", "drop", "switch"}
InTransaction == {"clear", "delete", "purge", "drop"}

(* row is the row the request is about, n the next statement of a          *)
(* transaction, gone the rows it has deleted.                              *)
Task == [op : StaffOps \cup {"remove", "switch"}, user : Users \cup {Nobody},
         row : Rows \cup {Tenant}, id : Nat, force : BOOLEAN,
         pc : Labels, n : Nat, gone : SUBSET Rows]

Idle == [op |-> "visit", user |-> Nobody, row |-> Tenant, id |-> NoTenant, force |-> FALSE,
         pc |-> "idle", n |-> 1, gone |-> {}]

(* Only a transaction holds rows, and only a row has a deletedAt.          *)
TypeOK ==
    /\ tenant \in Nat /\ created \in Nat /\ enabled \in BOOLEAN /\ users \subseteq Users
    /\ rows \subseteq Rows
    /\ deleted \subseteq {e \in Employees : Employee(e) \in rows}
    /\ hired \subseteq Employees
    /\ task \in [Handlers -> Task]
    /\ missed \in [Handlers -> SUBSET (Rows \cup {Tenant})]
    /\ \A h \in Handlers : task[h].gone # {} => task[h].pc \in InTransaction

(* Somebody else has the user's e-mail address.                             *)
AddressTaken(u) == u \in Users /\ \E v \in users \ {u} : AddressOf[v] = AddressOf[u]

(* createTenantAccount, for an owner without e-mail address.  Users of      *)
(* other tenants have rows already.                                         *)
Init ==
    /\ tenant = 1 /\ created = 1 /\ enabled = TRUE
    /\ users \in SUBSET Users /\ \A u \in users : ~AddressTaken(u)
    /\ rows = {Settings} /\ deleted = {} /\ hired = {}
    /\ task = [h \in Handlers |-> Idle]
    /\ missed = [h \in Handlers |-> {}]

-----------------------------------------------------------------------------
(* Steps.                                                                   *)

Others(h) == Handlers \ {h}
At(h, pc) == task[h].pc = pc
Serving(k) == task[k].pc \notin {"idle", "failed"}

(* What a handler about to execute pc has read of the rows rs: of the       *)
(* tenant only, until it has found what the request is about.               *)
ReadOf(pc, rs) ==
    IF pc \in {"user", "member", "find", "report", "switch"} THEN rs \cap {Tenant} ELSE rs

(* The rows the handler changes are missed by whoever has read them.        *)
Changes(h, rs) ==
    missed' = [k \in Handlers |->
                 IF task'[k].pc = "idle" THEN {}
                 ELSE IF k # h /\ Serving(k) THEN missed[k] \cup ReadOf(task[k].pc, rs)
                 ELSE missed[k]]
ChangesNothing(h) == Changes(h, {})

Goto(h, pc) == task' = [task EXCEPT ![h].pc = pc]
Answer(h) == task' = [task EXCEPT ![h] = Idle]

(* Mutant: without a transaction, what was deleted stays deleted.           *)
ThrownHolding(t) == [Idle EXCEPT !.pc = "failed", !.user = t.user, !.gone = t.gone]

(* An error of the database rolls the transaction back.                    *)
Thrown(t) == [Idle EXCEPT !.pc = "failed", !.user = t.user]
Throw(h) == task' = [task EXCEPT ![h] = Thrown(@)]

tables == <<tenant, enabled, users, created, rows, deleted, hired>>

(* Nobody else has deleted one of these rows and not yet committed.        *)
Free(h, rs) == \A k \in Others(h) : rs \cap task[k].gone = {}

(* requireTenantAndUser: the upsert of the tenant, which creates it again  *)
(* when it is gone, under a slug with a random part that is taken to be    *)
(* free.  Nobody is let in by one that is disabled.                        *)
LetIn(h, op, row) ==
    /\ At(h, "idle")
    /\ IF tenant # NoTenant
       THEN enabled /\ UNCHANGED <<tenant, created>>
       ELSE /\ created < MaxTenants
            /\ tenant' = created + 1
            /\ created' = created + 1
    /\ \E u \in Users :
         task' = [task EXCEPT ![h] = [Idle EXCEPT !.op = op, !.user = u, !.row = row,
                                                  !.id = tenant', !.pc = "user"]]
    /\ Changes(h, IF tenant = NoTenant THEN {Tenant} ELSE {})
    /\ UNCHANGED <<enabled, users, rows, deleted>>

Arrive(h) ==
    \/ /\ LetIn(h, "visit", Tenant)
       /\ UNCHANGED hired
    \/ \E e \in Employees \ hired :
         /\ LetIn(h, "hire", Employee(e))
         /\ hired' = hired \cup {e}
    \/ \E op \in {"edit", "dismiss", "restore", "expunge"}, e \in hired :
         /\ LetIn(h, op, Employee(e))
         /\ UNCHANGED hired
    \/ \E r \in Records \ rows :
         /\ r[2] \in hired /\ \A k \in Others(h) : task[k].row # r
         /\ LetIn(h, "record", r)
         /\ UNCHANGED hired
    \/ /\ LetIn(h, "settings", Settings)
       /\ UNCHANGED hired
    \/ /\ LetIn(h, "catalog", Catalog(tenant'))
       /\ UNCHANGED hired

(* The upsert of the user, whose e-mail address is unique.                 *)
User(h) ==
    /\ At(h, "user")
    /\ IF AddressTaken(task[h].user)
       THEN Throw(h) /\ UNCHANGED users
       ELSE users' = users \cup {task[h].user} /\ Goto(h, "member")
    /\ ChangesNothing(h)
    /\ UNCHANGED <<tenant, enabled, created, rows, deleted, hired>>

(* The upsert of the membership refers to the tenant.                      *)
Member(h) ==
    LET own == Membership(task[h].user)
    IN  /\ At(h, "member") /\ Free(h, {own})
        /\ IF tenant # task[h].id
           THEN Throw(h) /\ ChangesNothing(h) /\ UNCHANGED rows
           ELSE /\ rows' = rows \cup {own}
                /\ CASE task[h].op = "visit" -> Answer(h)
                     [] task[h].op \in {"hire", "catalog"} -> Goto(h, "insert")
                     [] OTHER -> Goto(h, "find")
                /\ Changes(h, {own} \ rows)
        /\ UNCHANGED <<tenant, enabled, users, created, deleted, hired>>

-----------------------------------------------------------------------------
(* Requests about one employee or one row.                                  *)

Active(e) == Employee(e) \in rows /\ e \notin deleted
(* Mutant: whether the employee is deleted already is not asked.            *)
FoundAnyhow(op, e) ==
    IF op = "restore" THEN e \in deleted
    ELSE IF op = "expunge" THEN Employee(e) \in rows
    ELSE Active(e)

(* The employee whom the request may be about: an active one, or a deleted *)
(* one if it asks for one.                                                 *)
Found(op, e) == IF op \in {"restore", "expunge"} THEN e \in deleted ELSE Active(e)

(* findFirst; the settings are created only if there are none.             *)
Find(h) ==
    /\ At(h, "find")
    /\ IF IF task[h].op = "settings" THEN tenant = task[h].id /\ Settings \in rows
                                     ELSE tenant # task[h].id \/ ~Found(task[h].op, task[h].row[2])
       THEN Answer(h)
       ELSE Goto(h, CASE task[h].op \in {"settings", "record"} -> "insert"
                      [] task[h].op = "expunge" -> "usage"
                      [] OTHER -> "update")
    /\ ChangesNothing(h) /\ UNCHANGED tables

(* What a row refers to.                                                   *)
Parents(r) == IF r[1] \in Kept THEN {Employee(r[2])} ELSE {}

(* The insertion of a row; a unique index and foreign keys may refuse it.  *)
(* The statement that saves a catalogue upserts, and refers to nothing.    *)
Insert(h) ==
    LET r == task[h].row
        refused == r \notin Catalogs
                     /\ (r \in rows \/ tenant # task[h].id \/ ~(Parents(r) \subseteq rows))
    IN  /\ At(h, "insert") /\ Free(h, {r} \cup Parents(r))
        /\ IF refused
           THEN Throw(h) /\ ChangesNothing(h) /\ UNCHANGED rows
           ELSE /\ rows' = rows \cup {r}
                /\ Answer(h)
                /\ Changes(h, {r})
        /\ UNCHANGED <<tenant, enabled, users, created, deleted, hired>>

(* The update by id of an employee, which finds the row or throws.  An     *)
(* edit writes columns that are not modelled.                              *)
Update(h) ==
    LET e == task[h].row[2]
    IN  /\ At(h, "update") /\ Free(h, {Employee(e)})
        /\ IF Employee(e) \notin rows
           THEN Throw(h) /\ ChangesNothing(h) /\ UNCHANGED deleted
           ELSE /\ deleted' = CASE task[h].op = "dismiss" -> deleted \cup {e}
                                [] task[h].op = "restore" -> deleted \ {e}
                                [] OTHER -> deleted
                /\ Answer(h)
                /\ Changes(h, {Employee(e)})
        /\ UNCHANGED <<tenant, enabled, users, created, rows, hired>>

-----------------------------------------------------------------------------
(* deleteEmployeePermanently.                                               *)

RowsAbout(e) == {r \in rows : r[1] \in Kept /\ r[2] = e}

(* The count of related rows decides whether a transaction is needed.       *)
Usage(h) ==
    /\ At(h, "usage")
    /\ Goto(h, IF RowsAbout(task[h].row[2]) = {} THEN "delete" ELSE "clear")
    /\ ChangesNothing(h) /\ UNCHANGED tables

ClearOrder ==
    <<"notification", "employeeSchedule", "employeeTip", "scheduleOverrideRequest",
      "employeePunch">>

(* The next deleteMany of the transaction.                                  *)
Clear(h) ==
    LET t == task[h]
        matched == {r \in RowsAbout(t.row[2]) : r[1] = ClearOrder[t.n]}
    IN  /\ At(h, "clear") /\ Free(h, matched)
        /\ task' = [task EXCEPT ![h].gone = @ \cup matched, ![h].n = @ + 1,
                                ![h].pc = IF t.n = Len(ClearOrder) THEN "delete" ELSE @]
        /\ ChangesNothing(h) /\ UNCHANGED tables

(* A notification outlives its employee.                                    *)
Unlinked(rs, e) ==
    {IF r[1] = "notification" /\ r[2] = e THEN <<r[1], Nobody, r[3]>> ELSE r : r \in rs}

(* The deletion of the row, in the transaction or alone, and its commit.    *)
Delete(h) ==
    LET e == task[h].row[2]
        left == rows \ task[h].gone
        refused == Employee(e) \notin rows
                     \/ \E r \in left : r[1] \in Kept \cap Owned /\ r[2] = e
    IN  /\ At(h, "delete") /\ Free(h, {Employee(e)} \cup RowsAbout(e))
        /\ IF refused
           THEN Throw(h) /\ ChangesNothing(h) /\ UNCHANGED <<rows, deleted>>
           ELSE /\ rows' = Unlinked(left \ {Employee(e)}, e)
                /\ deleted' = deleted \ {e}
                /\ Answer(h)
                /\ Changes(h, (rows \ rows') \cup (rows' \ rows))
        /\ UNCHANGED <<tenant, enabled, users, created, hired>>

-----------------------------------------------------------------------------
(* deleteTenantAccount.                                                     *)

(* countTenantData counts every table but the settings.                     *)
Counted(id) == {r \in rows \ (Catalogs \cup {Settings}) : tenant = id} \cup ({Catalog(id)} \cap rows)

(* resolveOwnerManagedTenant; the page may list a tenant that is gone.  It *)
(* asks by force when a report has shown data, and data, once there, stays *)
(* until the tenant goes.                                                  *)
Remove(h) ==
    /\ At(h, "idle")
    /\ \E id \in 1 .. created, force \in BOOLEAN :
         IF id # tenant
         THEN UNCHANGED <<task, missed>>
         ELSE /\ force => Counted(id) # {}
              /\ task' = [task EXCEPT ![h] = [Idle EXCEPT !.op = "remove", !.id = id,
                                                          !.force = force, !.pc = "report"]]
              /\ ChangesNothing(h)
    /\ UNCHANGED tables

(* buildTenantDeletionReport, and what comes of it.                        *)
Report(h) ==
    /\ At(h, "report")
    /\ IF Counted(task[h].id) # {} /\ ~task[h].force
       THEN Answer(h)
       ELSE Goto(h, "purge")
    /\ ChangesNothing(h) /\ UNCHANGED tables

(* Mutant: employees go before the rows that refer to them.                 *)
PurgeEmployeesFirst ==
    <<"employee", "employeeTip", "scheduleOverrideRequest", "employeeSchedule", "notification",
      "employeePunch", "membership", "tenantSettings", "companyOrderCatalogOverride">>

(* Mutant: only what foreign keys would keep is deleted.                    *)
PurgeReferring ==
    <<"employeeTip", "scheduleOverrideRequest", "employeeSchedule", "notification",
      "employeePunch", "employee", "membership", "tenantSettings">>

(* purgeTenantData, of the tables that are modelled.                        *)
PurgeOrder ==
    <<"employeeTip", "scheduleOverrideRequest", "employeeSchedule", "notification",
      "employeePunch", "employee", "membership", "tenantSettings",
      "companyOrderCatalogOverride">>

Matched(id, table) ==
    {r \in rows : r[1] = table /\ IF r \in Catalogs THEN r = Catalog(id) ELSE tenant = id}

(* What refers to an employee that is deleted, and must.                    *)
Restricting(rs, es) == {r \in rs : r[1] \in Kept \cap Owned /\ Employee(r[2]) \in es}

(* The next deleteMany of the transaction.                                  *)
Purge(h) ==
    LET t == task[h]
        matched == Matched(t.id, PurgeOrder[t.n])
    IN  /\ At(h, "purge") /\ Free(h, matched \cup Restricting(rows, matched))
        /\ IF Restricting(rows \ t.gone, matched) # {}
           THEN Throw(h)
           ELSE task' = [task EXCEPT ![h].gone = @ \cup matched, ![h].n = @ + 1,
                                     ![h].pc = IF t.n = Len(PurgeOrder) THEN "drop" ELSE @]
        /\ ChangesNothing(h) /\ UNCHANGED tables

(* The deletion of the tenant's row and the commit.  Every row but a        *)
(* catalogue's restricts it.                                                *)
Drop(h) ==
    LET left == rows \ task[h].gone
    IN  /\ At(h, "drop") /\ Free(h, rows \ Catalogs)
        /\ IF tenant # task[h].id \/ ~(left \subseteq Catalogs)
           THEN Throw(h) /\ ChangesNothing(h) /\ UNCHANGED <<tenant, enabled, rows, deleted>>
           ELSE /\ tenant' = NoTenant /\ enabled' = TRUE
                /\ rows' = left
                /\ deleted' = {}
                /\ Answer(h)
                /\ Changes(h, task[h].gone \cup {Tenant})
        /\ UNCHANGED <<users, created, hired>>

-----------------------------------------------------------------------------
(* updateTenantAccount, of whether the tenant is active.                    *)

(* It looks the tenant up.                                                  *)
Switch(h) ==
    /\ At(h, "idle")
    /\ \E id \in 1 .. created :
         IF id # tenant
         THEN UNCHANGED <<task, missed>>
         ELSE /\ task' = [task EXCEPT ![h] = [Idle EXCEPT !.op = "switch", !.id = id,
                                                          !.pc = "switch"]]
              /\ ChangesNothing(h)
    /\ UNCHANGED tables

(* The update finds the row or throws.                                      *)
SetActive(h) ==
    /\ At(h, "switch")
    /\ IF tenant # task[h].id
       THEN Throw(h) /\ UNCHANGED enabled
       ELSE enabled' \in BOOLEAN /\ Answer(h)
    /\ ChangesNothing(h)
    /\ UNCHANGED <<tenant, users, created, rows, deleted, hired>>

-----------------------------------------------------------------------------
(* A request ends between two statements, its transaction rolled back: the *)
(* transaction has outlived its five seconds, is chosen to break a         *)
(* deadlock, or the process dies.                                          *)
Abort(h) ==
    /\ Serving(h)
    /\ Answer(h)
    /\ ChangesNothing(h) /\ UNCHANGED tables

(* The error is answered.                                                   *)
Respond(h) ==
    /\ At(h, "failed")
    /\ Answer(h)
    /\ ChangesNothing(h) /\ UNCHANGED tables

Step(h) ==
    \/ Arrive(h) \/ User(h) \/ Member(h) \/ Find(h) \/ Insert(h) \/ Update(h)
    \/ Usage(h) \/ Clear(h) \/ Delete(h)
    \/ Remove(h) \/ Report(h) \/ Purge(h) \/ Drop(h)
    \/ Switch(h) \/ SetActive(h)
    \/ Abort(h) \/ Respond(h)

Next == \E h \in Handlers : Step(h)

Spec == Init /\ [][Next]_vars

-----------------------------------------------------------------------------
(* Properties.                                                              *)

(* Foreign keys and unique indexes are not the answer to a request by       *)
(* itself: both deletions clear what restricts them, in an order that the   *)
(* schema accepts, and a check before an insertion tells.  A request that   *)
(* meets an error is one whose rows others have changed since it read them, *)
(* or of a user whose e-mail address is that of somebody else: nothing      *)
(* looks that up before the user is upserted.                               *)
OnlyRacesFail ==
    \A h \in Handlers :
      task[h].pc = "failed" => missed[h] # {} \/ AddressTaken(task[h].user)

(* The handler commits a deletion of the tenant for which nothing was said. *)
DropsUnforced(h) ==
    task[h].pc = "drop" /\ ~task[h].force /\ tenant = task[h].id /\ tenant' = NoTenant

(* Deletions are of what was known to go.  An employee who is taken away    *)
(* while active was restored after the deletion had found him deleted; a    *)
(* tenant that is deleted without force loses only what was entered after   *)
(* its report.                                                              *)
DeletedKnowingly ==
    [][/\ \A e \in Employees :
            (Active(e) /\ Employee(e) \notin rows' /\ tenant' = tenant)
            => \E h \in Handlers : At(h, "delete") /\ task[h].row = Employee(e)
                                  /\ Employee(e) \in missed[h]
       /\ \A h \in Handlers :
            DropsUnforced(h) => (rows \ rows') \subseteq missed[h] \cup {Settings}
      ]_vars

(* A catalogue without its tenant.                                          *)
Orphans == {Catalog(id) : id \in Ids \ {tenant}} \cap rows

(* No data is left of a tenant, but a catalogue whose saving overlapped the *)
(* deletion: saved after its report and not purged, or by a request that    *)
(* had been let in before.                                                  *)
NothingOutlivesItsTenant ==
    [][\A r \in Orphans' \ Orphans :
         \E h \in Handlers :
           \/ task[h].pc = "drop" /\ r \in missed[h]
           \/ task[h].op = "catalog" /\ task[h].row = r /\ Tenant \in missed[h]]_vars
=============================================================================
