---------------------------- MODULE CompanyOrders ----------------------------
(***************************************************************************)
(* Supplier orders: createOrder of company-orders.service.ts, which folds  *)
(* every submission of a week into one order of that week and supplier.    *)
(*                                                                         *)
(* The merge runs in an interactive transaction at PostgreSQL's default    *)
(* level, READ COMMITTED: each statement sees what is committed when it    *)
(* starts, a statement that meets a row another transaction has changed    *)
(* waits for it, and what a transaction writes is seen after its commit.   *)
(* So a transaction is the part of task[h] below "seen": orders read and   *)
(* the rows it has deleted, rewritten and inserted, which Commit applies.  *)
(*                                                                         *)
(* Quantities are counted in their smallest unit (toFixed(2) keeps two     *)
(* decimals, so hundredths).  The orders are those of one week, one        *)
(* location and one tenant: no statement touches two of them.              *)
(***************************************************************************)
EXTENDS Integers, FiniteSets, FiniteSetsExt

CONSTANTS
    Names,          \* display names of those who submit orders
    Handlers,       \* requests that can be in flight at the same time
    Suppliers,
    Products,       \* catalogItemKey of every article
    SupplierOf,     \* the supplier of each product
    MaxContributors, \* MAX_CONTRIBUTORS
    Catalogs,       \* bound: the catalogues an administrator may save
    MaxPosts        \* bound: submissions

ASSUME OrderConstants ==
    /\ SupplierOf \in [Products -> Suppliers]
    /\ Catalogs \subseteq SUBSET Products /\ {} \notin Catalogs
    /\ Names # {} /\ MaxContributors \in Nat \ {0} /\ MaxPosts \in Nat

VARIABLES
    catalog,    \* products of CompanyOrderCatalogOverride, or the default
    orders,     \* CompanyOrder rows
    items,      \* CompanyOrderItem rows
    created,    \* orders created so far; also their createdAt
    posted,     \* submissions received so far
    task        \* the handlers

orderVars == <<catalog, orders, items, created, posted, task>>

Quantities == [Products -> Nat]
Nothing == [p \in Products |-> 0]

(* A row is told apart by its order, the submission that wrote it and its  *)
(* product; an order by its creation.                                      *)
OrderRow == [id : Nat, supplier : Suppliers, by : SUBSET Names]
ItemRow == [order : Nat, post : Nat, product : Products, quantity : Nat \ {0}]

InTransaction ==
    {"read", "readItems", "create", "fold", "aim", "cut", "rewrite", "commit"}
Labels == {"idle", "done", "failed"} \cup InTransaction

NoOrder == 0

(* who .. qty are the request; seen, merged and by what the transaction     *)
(* has read; gone, aimed, cut, upd its writes.  stale is a history flag:   *)
(* another submission to the slot was committed since this one read it.    *)
Task == [pc : Labels, who : Names, post : Nat, supplier : Suppliers,
         qty : Quantities, seen : SUBSET OrderRow,
         merged : Quantities, by : SUBSET Names, gone : SUBSET Nat,
         aimed : SUBSET ItemRow, cut : SUBSET ItemRow, upd : Nat, stale : BOOLEAN]

Idle == [pc |-> "idle", who |-> CHOOSE n \in Names : TRUE, post |-> 0,
         supplier |-> CHOOSE s \in Suppliers : TRUE, qty |-> Nothing,
         seen |-> {}, merged |-> Nothing, by |-> {}, gone |-> {},
         aimed |-> {}, cut |-> {}, upd |-> NoOrder, stale |-> FALSE]

OrdersTypeOK ==
    /\ catalog \in Catalogs
    /\ orders \subseteq OrderRow
    /\ items \subseteq ItemRow
    /\ created \in Nat /\ posted \in Nat
    /\ task \in [Handlers -> Task]

OrdersInit ==
    /\ catalog \in Catalogs
    /\ orders = {} /\ items = {}
    /\ created = 0 /\ posted = 0
    /\ task = [h \in Handlers |-> Idle]

----------------------------------------------------------------------------
(* What the tables say.                                                    *)

OrdersOf(s) == {o \in orders : o.supplier = s}

RowsOf(ids) == {r \in items : r.order \in ids}

Ids(os) == {o.id : o \in os}

Sum(rows) == [p \in Products |->
                MapThenSumSet(LAMBDA r : r.quantity, {r \in rows : r.product = p})]

(* accumulateOrderItem: quantities of the same article are added.           *)
Plus(q, r) == [p \in Products |-> q[p] + r[p]]

(* What the week's orders with a supplier add up to, and who contributed.   *)
Ordered(s) == Sum(RowsOf(Ids(OrdersOf(s))))
NamesOf(os) == UNION {o.by : o \in os}
Contributors(s) == NamesOf(OrdersOf(s))

(* The rows a transaction has locked by writing them.                       *)
LockedOrders(h) == task[h].gone \cup {task[h].upd}
LockedItems(h) == task[h].cut

Others(h) == Handlers \ {h}
FreeOrder(h, id) == \A g \in Others(h) : id \notin LockedOrders(g)
FreeItems(h, rows) == \A g \in Others(h) : rows \cap LockedItems(g) = {}

Primary(h) == Min(Ids(task[h].seen))
NoDuplicates(h) == {}

Duplicates(h) == Ids(task[h].seen) \ {Primary(h)}

----------------------------------------------------------------------------
(* The handler.                                                             *)

(* The answer is on its way; the transaction's locks are gone.              *)
Answered(label) == [Idle EXCEPT !.pc = label]

At(h, label) == task[h].pc = label

(* The items of the submission are held against the catalogue.              *)
InCatalog(s, q) ==
    /\ \E p \in catalog : SupplierOf[p] = s
    /\ \A p \in Products : q[p] > 0 => p \in catalog /\ SupplierOf[p] = s
    /\ q # Nothing

(* A request arrives and is checked: the catalogue is the only state it     *)
(* reads before its transaction begins.                                     *)
Receive(h, n, s, q) ==
    /\ At(h, "idle") /\ posted < MaxPosts
    /\ posted' = posted + 1
    /\ task' = [task EXCEPT ![h] =
         IF InCatalog(s, q)
         THEN [Idle EXCEPT !.pc = "read", !.who = n, !.post = posted + 1,
                           !.supplier = s, !.qty = q]
         ELSE [Idle EXCEPT !.pc = "failed"]]
    /\ UNCHANGED <<catalog, orders, items, created>>

(* What the order will hold: what was read, and the submission.             *)
MergedWithoutSubmission(h) == Sum(RowsOf(Ids(task[h].seen)))

Merged(h) == Plus(Sum(RowsOf(Ids(task[h].seen))), task[h].qty)

(* The list of contributors takes the orders from the oldest on, then the   *)
(* submitter, and normalizeContributors keeps the first MaxContributors     *)
(* names of it.  In what order an order lists its own is left open.         *)
ListedBefore(os, m, n) ==
    \E o \in os : m \in o.by /\ \A x \in os : n \in x.by => o.id < x.id

Listed(os, n) ==
    LET all == NamesOf(os) \cup {n} IN
    {names \in SUBSET all :
       /\ Cardinality(names) = Min({Cardinality(all), MaxContributors})
       /\ \A x \in names, y \in all \ names : ~ListedBefore(os, y, x)}

(* The orders of the week, and by a second statement their items.           *)
ReadOrders(h) ==
    /\ At(h, "read")
    /\ task' = [task EXCEPT
         ![h].seen = OrdersOf(task[h].supplier),
         ![h].pc = "readItems"]
    /\ UNCHANGED <<catalog, orders, items, created, posted>>

ReadItems(h) ==
    /\ At(h, "readItems")
    /\ LET seen == task[h].seen IN
       \E names \in Listed(seen, task[h].who) : task' = [task EXCEPT
         ![h].merged = Merged(h),
         ![h].by = names,
         ![h].pc = IF seen = {} THEN "create"
                   ELSE IF Cardinality(seen) > 1 THEN "fold" ELSE "aim"]
    /\ UNCHANGED <<catalog, orders, items, created, posted>>

(* No order yet: a new one.                                                 *)
CreateOrder(h) ==
    /\ At(h, "create")
    /\ created' = created + 1
    /\ task' = [task EXCEPT ![h].upd = created + 1, ![h].pc = "commit"]
    /\ UNCHANGED <<catalog, orders, items, posted>>

(* The orders after the first are deleted, with their items.                *)
FoldDuplicates(h) ==
    /\ At(h, "fold")
    /\ \A id \in Duplicates(h) : FreeOrder(h, id)
    /\ FreeItems(h, RowsOf(Duplicates(h)))
    /\ task' = [task EXCEPT ![h].gone = Duplicates(h) \cap Ids(orders),
                            ![h].pc = "aim"]
    /\ UNCHANGED <<catalog, orders, items, created, posted>>

(* The items of the first order are deleted: those the statement saw when   *)
(* it started, once nobody else holds them, as far as they still exist.     *)
AimAtItems(h) ==
    /\ At(h, "aim")
    /\ task' = [task EXCEPT ![h].aimed = RowsOf({Primary(h)}), ![h].pc = "cut"]
    /\ UNCHANGED <<catalog, orders, items, created, posted>>

CutItems(h) ==
    /\ At(h, "cut")
    /\ FreeItems(h, task[h].aimed)
    /\ \A g \in Others(h) : Primary(h) \notin task[g].gone
    /\ task' = [task EXCEPT ![h].cut = task[h].aimed \cap items,
                            ![h].aimed = {}, ![h].pc = "rewrite"]
    /\ UNCHANGED <<catalog, orders, items, created, posted>>

WasThere(h) == Primary(h) \in Ids(task[h].seen)

StillThere(h) == Primary(h) \in Ids(orders)

(* The first order is rewritten with the merged items; if somebody deleted  *)
(* it, update throws and the transaction is rolled back.                    *)
Rewrite(h) ==
    /\ At(h, "rewrite")
    /\ FreeOrder(h, Primary(h))
    /\ IF StillThere(h)
       THEN task' = [task EXCEPT ![h].upd = Primary(h), ![h].pc = "commit"]
       ELSE task' = [task EXCEPT ![h] = Answered("failed")]
    /\ UNCHANGED <<catalog, orders, items, created, posted>>

WrittenWithZeros(h) ==
    {[order |-> task[h].upd, post |-> task[h].post, product |-> p,
      quantity |-> task[h].merged[p]] : p \in Products}

Written(h) ==
    {[order |-> task[h].upd, post |-> task[h].post, product |-> p,
      quantity |-> task[h].merged[p]] : p \in {x \in Products : task[h].merged[x] > 0}}

(* The rows that stay; those of deleted orders go with them (onDelete).     *)
Left(h) == {r \in items \ task[h].cut : r.order \notin task[h].gone}

SameSlot(g, h) == task[g].supplier = task[h].supplier

Commit(h) ==
    /\ At(h, "commit")
    /\ orders' = {o \in orders : o.id \notin task[h].gone \cup {task[h].upd}}
                 \cup {[id |-> task[h].upd, supplier |-> task[h].supplier,
                        by |-> task[h].by]}
    /\ items' = Left(h) \cup Written(h)
    /\ task' = [g \in Handlers |->
         IF g = h THEN Answered("done")
         ELSE IF task[g].pc \in InTransaction \ {"read"} /\ SameSlot(g, h)
              THEN [task[g] EXCEPT !.stale = TRUE]
              ELSE task[g]]
    /\ UNCHANGED <<catalog, created, posted>>

(* The database aborts the transaction: the victim of a deadlock, the five  *)
(* seconds Prisma grants it, or the end of the process.                     *)
Rollback(h) ==
    /\ task[h].pc \in InTransaction
    /\ task' = [task EXCEPT ![h] = Answered("failed")]
    /\ UNCHANGED <<catalog, orders, items, created, posted>>

(* An administrator saves another catalogue.                                *)
UpdateCatalog(c) ==
    /\ c # catalog
    /\ catalog' = c
    /\ UNCHANGED <<orders, items, created, posted, task>>

OrderStep(h) ==
    \/ ReadOrders(h) \/ ReadItems(h) \/ CreateOrder(h)
    \/ FoldDuplicates(h) \/ AimAtItems(h) \/ CutItems(h) \/ Rewrite(h) \/ Commit(h)

----------------------------------------------------------------------------
(* Properties of the merge, under every interleaving.                       *)

(* A merge never brings back an order that another one has folded away: if  *)
(* it rewrites an order, that order is there until it commits.              *)
NobodyRevivesAnOrder ==
    \A h \in Handlers : At(h, "commit") /\ task[h].seen # {} =>
      /\ task[h].upd \in Ids(orders)
      /\ \A g \in Others(h) : task[h].upd \notin task[g].gone

(* Two transactions never hold the same row.                                *)
LocksAreExclusive ==
    \A g, h \in Handlers : g # h =>
      /\ LockedItems(g) \cap LockedItems(h) = {}
      /\ (LockedOrders(g) \cap LockedOrders(h)) \ {NoOrder} = {}

(* A submission adds exactly its quantities to the week and leaves one      *)
(* order of it, which names the submitter and everybody named before, or as *)
(* many of them as MAX_CONTRIBUTORS allows, unless another submission to    *)
(* the same week and supplier was committed after this one had read the     *)
(* orders: this is the only way in which a merge may lose or double         *)
(* quantities.                                                              *)
Commits(h, s) ==
    /\ At(h, "commit") /\ task'[h].pc = "done"
    /\ task[h].supplier = s

MergeConserves ==
    [][\A h \in Handlers, s \in Suppliers :
         Commits(h, s) /\ ~task[h].stale =>
           /\ Ordered(s)' = Plus(Ordered(s), task[h].qty)
           /\ LET all == Contributors(s) \cup {task[h].who} IN
              /\ Contributors(s)' \subseteq all
              /\ Cardinality(Contributors(s)') = Min({Cardinality(all), MaxContributors})
           /\ Cardinality(OrdersOf(s)') = 1]_orderVars

(* Even then the submission itself is in the order it was answered for.     *)
OwnQuantitiesCount ==
    [][\A h \in Handlers, s \in Suppliers :
         Commits(h, s) =>
           \A p \in Products : Ordered(s)'[p] >= task[h].qty[p]]_orderVars
=============================================================================
