------------------------- MODULE CompanyOrdersProofs -------------------------
(***************************************************************************)
(* For any number of clients, handlers, suppliers and products.            *)
(*                                                                         *)
(* The locks (OrderInv): transactions never hold the same row, and none    *)
(* rewrites an order another one has folded away.  The devices             *)
(* (DeviceInv): what is said to be saved was ordered, once, and twice only *)
(* after an error.  The quantities (MergeInv): what a transaction has read *)
(* is still so unless it is stale, so a merge that is not adds exactly the *)
(* submission.                                                             *)
(*                                                                         *)
(* OrderInv needs no types: Shape says of the fields the locks do not      *)
(* depend on only that they are there.                                     *)
(***************************************************************************)
EXTENDS OrderClients, Sums

Shape(Any) ==
    [pc : Labels, who : Any, post : Any, supplier : Any, qty : Any, seen : Any,
     merged : Any, by : Any, gone : SUBSET Nat, aimed : Any, cut : Any,
     upd : Nat, stale : BOOLEAN]

(* What a transaction holds was created before, and only a transaction that *)
(* is about to commit holds the order it writes.                            *)
HeldIsCreated ==
    /\ created \in Nat
    /\ Ids(orders) \subseteq 1 .. created
    /\ \A h \in Handlers :
         /\ task[h].gone \subseteq 1 .. created
         /\ task[h].upd \in 0 .. created
         /\ At(h, "create") => task[h].seen = {}
         /\ At(h, "commit") => task[h].upd # NoOrder

(* What the schema sees to: the items of an order are deleted with it.      *)
NoOrphanItems == \A r \in items : r.order \in Ids(orders)

OrderInv ==
    /\ \E Any : task \in [Handlers -> Shape(Any)]
    /\ HeldIsCreated
    /\ LocksAreExclusive
    /\ NobodyRevivesAnOrder
    /\ NoOrphanItems

LEMMA InitOrderInv == Init => OrderInv
<1> SUFFICES ASSUME Init PROVE OrderInv
  OBVIOUS
<1>1. \E Any : task \in [Handlers -> Shape(Any)]
  <2> DEFINE Any == {Idle.who, Idle.post, Idle.supplier, Idle.qty, Idle.seen,
                     Idle.merged, Idle.by, Idle.aimed, Idle.cut}
  <2>1. task \in [Handlers -> Shape(Any)]
    BY DEF Init, OrdersInit, Shape, Idle, Labels, NoOrder
  <2> QED BY <2>1
<1>2. HeldIsCreated /\ LocksAreExclusive /\ NobodyRevivesAnOrder /\ NoOrphanItems
  BY DEF Init, OrdersInit, HeldIsCreated, LocksAreExclusive, NobodyRevivesAnOrder,
         NoOrphanItems, Idle, Ids, At, LockedItems, LockedOrders, NoOrder, Others
<1> QED BY <1>1, <1>2 DEF OrderInv

-----------------------------------------------------------------------------
(* A step of a handler that does not commit: it may take locks nobody holds *)
(* and give up its own.                                                     *)
LEMMA HolderStep ==
  ASSUME OrderInv, NEW h \in Handlers, \E Any : task' \in [Handlers -> Shape(Any)],
         orders' = orders, items' = items,
         created' \in {created, created + 1},
         \A g \in Others(h) : task'[g] = task[g],
         task'[h].gone \subseteq 1 .. created,
         task'[h].upd \in 0 .. created',
         \A g \in Others(h) :
           /\ task'[h].gone \cap LockedOrders(g) = {}
           /\ task'[h].upd # NoOrder => task'[h].upd \notin LockedOrders(g)
           /\ task'[h].cut \cap LockedItems(g) = {},
         task'[h].pc = "create" => task'[h].seen = {},
         task'[h].pc = "commit" => task'[h].upd # NoOrder,
         task'[h].pc = "commit" /\ task'[h].seen # {} => task'[h].upd \in Ids(orders)
  PROVE  OrderInv'
<1>1. \A g \in Handlers : g # h => task'[g] = task[g]
  BY DEF Others
<1>2. created \in Nat /\ created' \in Nat /\ created <= created'
  BY DEF OrderInv, HeldIsCreated
<1>3. HeldIsCreated'
  <2>1. Ids(orders)' \subseteq 1 .. created'
    BY SMTT(30), <1>2 DEF OrderInv, HeldIsCreated, Ids
  <2>2. ASSUME NEW g \in Handlers
        PROVE  /\ task'[g].gone \subseteq 1 .. created'
               /\ task'[g].upd \in 0 .. created'
               /\ At(g, "create")' => task'[g].seen = {}
               /\ At(g, "commit")' => task'[g].upd # NoOrder
    <3>1. CASE g = h
      BY <3>1, <1>2 DEF At
    <3>2. CASE g # h
      <4>1. /\ task[g].gone \subseteq 1 .. created
            /\ task[g].upd \in 0 .. created
            /\ At(g, "create") => task[g].seen = {}
            /\ At(g, "commit") => task[g].upd # NoOrder
        BY DEF OrderInv, HeldIsCreated
      <4> QED BY <3>2, <4>1, <1>1, <1>2 DEF At
    <3> QED BY <3>1, <3>2
  <2> QED BY <2>1, <2>2, <1>2 DEF HeldIsCreated
<1>4. LocksAreExclusive'
  <2> SUFFICES ASSUME NEW f \in Handlers, NEW g \in Handlers, f # g
               PROVE  /\ task'[f].cut \cap task'[g].cut = {}
                      /\ ((task'[f].gone \cup {task'[f].upd})
                          \cap (task'[g].gone \cup {task'[g].upd})) \ {NoOrder} = {}
    BY DEF LocksAreExclusive, LockedItems, LockedOrders
  <2>1. /\ task[f].cut \cap task[g].cut = {}
        /\ ((task[f].gone \cup {task[f].upd})
             \cap (task[g].gone \cup {task[g].upd})) \ {NoOrder} = {}
    BY DEF OrderInv, LocksAreExclusive, LockedItems, LockedOrders
  <2>2. CASE f # h /\ g # h
    BY <2>1, <2>2, <1>1
  <2>3. CASE f = h
    <3>1. g \in Others(h) /\ task'[g] = task[g]
      BY <2>3 DEF Others
    <3> QED BY <2>3, <3>1 DEF LockedItems, LockedOrders
  <2>4. CASE g = h
    <3>1. f \in Others(h) /\ task'[f] = task[f]
      BY <2>4 DEF Others
    <3> QED BY <2>4, <3>1 DEF LockedItems, LockedOrders
  <2> QED BY <2>2, <2>3, <2>4
<1>5. NobodyRevivesAnOrder'
  <2> SUFFICES ASSUME NEW f \in Handlers, task'[f].pc = "commit", task'[f].seen # {}
               PROVE  /\ task'[f].upd \in Ids(orders)
                      /\ \A g \in Handlers \ {f} : task'[f].upd \notin task'[g].gone
    BY DEF NobodyRevivesAnOrder, At, Ids, Others
  <2>1. CASE f = h
    <3>1. task'[h].upd \in Ids(orders) /\ task'[h].upd # NoOrder
      BY <2>1
    <3>2. \A g \in Handlers \ {h} : task'[h].upd \notin task[g].gone
      BY <3>1 DEF Others, LockedOrders
    <3> QED BY <2>1, <3>1, <3>2, <1>1
  <2>2. CASE f # h
    <3>1. /\ task[f].upd \in Ids(orders)
          /\ \A g \in Handlers \ {f} : task[f].upd \notin task[g].gone
      BY <2>2, <1>1 DEF OrderInv, NobodyRevivesAnOrder, At, Others
    <3>2. task[f].upd \notin task'[h].gone
      <4>1. f \in Others(h)
        BY <2>2 DEF Others
      <4> QED BY <4>1 DEF LockedOrders
    <3> QED BY <2>2, <3>1, <3>2, <1>1
  <2> QED BY <2>1, <2>2
<1>6. NoOrphanItems'
  BY DEF OrderInv, NoOrphanItems, Ids
<1> QED BY <1>3, <1>4, <1>5, <1>6 DEF OrderInv

-----------------------------------------------------------------------------
(* The steps of a handler.                                                  *)
(* A task with a field written and the step it goes on to.                  *)
WithSeen(t, h, v, l) == [t EXCEPT ![h].seen = v, ![h].pc = l]
WithMerged(t, h, v, w, l) == [t EXCEPT ![h].merged = v, ![h].by = w, ![h].pc = l]
WithAimed(t, h, v, l) == [t EXCEPT ![h].aimed = v, ![h].pc = l]
WithCut(t, h, v, l) == [t EXCEPT ![h].cut = v, ![h].aimed = {}, ![h].pc = l]
WithUpd(t, h, v, l) == [t EXCEPT ![h].upd = v, ![h].pc = l]
WithGone(t, h, v, l) == [t EXCEPT ![h].gone = v, ![h].pc = l]

(* Writing one field of a task keeps its shape.                             *)
LEMMA SeenTyped ==
  ASSUME NEW t, NEW Any, t \in [Handlers -> Shape(Any)], NEW h \in Handlers,
         NEW l \in Labels, NEW v
  PROVE  \E X : WithSeen(t, h, v, l) \in [Handlers -> Shape(X)]
<1> DEFINE M == Any \cup {v}
           r == [t[h] EXCEPT !.seen = v, !.pc = l]
<1>1. t \in [Handlers -> Shape(M)] /\ v \in M
  BY DEF Shape
<1> HIDE DEF M
<1>2. r \in Shape(M)
  BY ZenonT(60), <1>1 DEF Shape
<1>3. WithSeen(t, h, v, l) = [t EXCEPT ![h] = r]
  BY DEF WithSeen
<1> HIDE DEF r
<1>4. [t EXCEPT ![h] = r] \in [Handlers -> Shape(M)]
  BY <1>1, <1>2
<1> QED BY <1>3, <1>4

LEMMA MergedTyped ==
  ASSUME NEW t, NEW Any, t \in [Handlers -> Shape(Any)], NEW h \in Handlers,
         NEW l \in Labels, NEW v, NEW w
  PROVE  \E X : WithMerged(t, h, v, w, l) \in [Handlers -> Shape(X)]
<1> DEFINE M == Any \cup {v, w}
           r == [t[h] EXCEPT !.merged = v, !.by = w, !.pc = l]
<1>1. t \in [Handlers -> Shape(M)] /\ v \in M /\ w \in M
  BY DEF Shape
<1> HIDE DEF M
<1>2. r \in Shape(M)
  BY ZenonT(60), <1>1 DEF Shape
<1>3. WithMerged(t, h, v, w, l) = [t EXCEPT ![h] = r]
  BY DEF WithMerged
<1> HIDE DEF r
<1>4. [t EXCEPT ![h] = r] \in [Handlers -> Shape(M)]
  BY <1>1, <1>2
<1> QED BY <1>3, <1>4

LEMMA AimedTyped ==
  ASSUME NEW t, NEW Any, t \in [Handlers -> Shape(Any)], NEW h \in Handlers,
         NEW l \in Labels, NEW v
  PROVE  \E X : WithAimed(t, h, v, l) \in [Handlers -> Shape(X)]
<1> DEFINE M == Any \cup {v}
           r == [t[h] EXCEPT !.aimed = v, !.pc = l]
<1>1. t \in [Handlers -> Shape(M)] /\ v \in M
  BY DEF Shape
<1> HIDE DEF M
<1>2. r \in Shape(M)
  BY ZenonT(60), <1>1 DEF Shape
<1>3. WithAimed(t, h, v, l) = [t EXCEPT ![h] = r]
  BY DEF WithAimed
<1> HIDE DEF r
<1>4. [t EXCEPT ![h] = r] \in [Handlers -> Shape(M)]
  BY <1>1, <1>2
<1> QED BY <1>3, <1>4

LEMMA CutTyped ==
  ASSUME NEW t, NEW Any, t \in [Handlers -> Shape(Any)], NEW h \in Handlers,
         NEW l \in Labels, NEW v
  PROVE  \E X : WithCut(t, h, v, l) \in [Handlers -> Shape(X)]
<1> DEFINE M == Any \cup {v, {}}
           r == [t[h] EXCEPT !.cut = v, !.aimed = {}, !.pc = l]
<1>1. t \in [Handlers -> Shape(M)] /\ v \in M /\ {} \in M
  BY DEF Shape
<1> HIDE DEF M
<1>2. r \in Shape(M)
  BY ZenonT(60), <1>1 DEF Shape
<1>3. WithCut(t, h, v, l) = [t EXCEPT ![h] = r]
  BY DEF WithCut
<1> HIDE DEF r
<1>4. [t EXCEPT ![h] = r] \in [Handlers -> Shape(M)]
  BY <1>1, <1>2
<1> QED BY <1>3, <1>4

LEMMA UpdTyped ==
  ASSUME NEW t, NEW Any, t \in [Handlers -> Shape(Any)], NEW h \in Handlers,
         NEW l \in Labels, NEW v \in Nat
  PROVE  \E X : WithUpd(t, h, v, l) \in [Handlers -> Shape(X)]
<1> DEFINE M == Any
           r == [t[h] EXCEPT !.upd = v, !.pc = l]
<1>1. t \in [Handlers -> Shape(M)]
  OBVIOUS
<1>2. r \in Shape(M)
  BY <1>1 DEF Shape
<1>3. WithUpd(t, h, v, l) = [t EXCEPT ![h] = r]
  BY DEF WithUpd
<1> HIDE DEF r
<1>4. [t EXCEPT ![h] = r] \in [Handlers -> Shape(M)]
  BY <1>1, <1>2
<1> QED BY <1>3, <1>4

LEMMA GoneTyped ==
  ASSUME NEW t, NEW Any, t \in [Handlers -> Shape(Any)], NEW h \in Handlers,
         NEW l \in Labels, NEW v \in SUBSET Nat
  PROVE  \E X : WithGone(t, h, v, l) \in [Handlers -> Shape(X)]
<1> DEFINE M == Any
           r == [t[h] EXCEPT !.gone = v, !.pc = l]
<1>1. t \in [Handlers -> Shape(M)]
  OBVIOUS
<1>2. r \in Shape(M)
  BY <1>1 DEF Shape
<1>3. WithGone(t, h, v, l) = [t EXCEPT ![h] = r]
  BY DEF WithGone
<1> HIDE DEF r
<1>4. [t EXCEPT ![h] = r] \in [Handlers -> Shape(M)]
  BY <1>1, <1>2
<1> QED BY <1>3, <1>4

(* A task that starts or has been answered holds nothing.                   *)
HoldsNothing(r) ==
    /\ r.gone = {} /\ r.upd = NoOrder /\ r.cut = {} /\ r.seen = {}
    /\ r.pc \notin {"commit"}
    /\ \E X : r \in Shape(X)

LEMMA FreshTyped ==
  ASSUME NEW t, NEW Any, t \in [Handlers -> Shape(Any)], NEW h \in Handlers,
         NEW More, NEW r \in Shape(More)
  PROVE  \E X : [t EXCEPT ![h] = r] \in [Handlers -> Shape(X)]
<1>1. t \in [Handlers -> Shape(Any \cup More)] /\ r \in Shape(Any \cup More)
  BY DEF Shape
<1>2. [t EXCEPT ![h] = r] \in [Handlers -> Shape(Any \cup More)]
  BY <1>1
<1> QED BY <1>2

LEMMA FreshStep ==
  ASSUME OrderInv, NEW h \in Handlers, NEW r, HoldsNothing(r),
         task' = [task EXCEPT ![h] = r],
         orders' = orders, items' = items, created' = created
  PROVE  OrderInv'
<1> PICK Any : task \in [Handlers -> Shape(Any)]
  BY DEF OrderInv
<1>1. \E X : task' \in [Handlers -> Shape(X)]
  BY FreshTyped DEF HoldsNothing
<1>2. task'[h] = r /\ \A g \in Others(h) : task'[g] = task[g]
  BY DEF Others
<1>3. created \in Nat
  BY DEF OrderInv, HeldIsCreated
<1> QED BY <1>1, <1>2, <1>3, HolderStep DEF HoldsNothing, NoOrder

LEMMA AnsweredHoldsNothing == \A l \in {"done", "failed"} : HoldsNothing(Answered(l))
<1> TAKE l \in {"done", "failed"}
<1> DEFINE r == Answered(l)
           Any == {r.who, r.post, r.supplier, r.qty, r.seen, r.merged, r.by,
                   r.aimed, r.cut}
<1>1. r \in Shape(Any)
  BY DEF Answered, Idle, Shape, Labels, NoOrder
<1>2. /\ r.gone = {} /\ r.upd = NoOrder /\ r.cut = {} /\ r.seen = {} /\ r.pc = l
  BY DEF Answered, Idle
<1> HIDE DEF r, Any
<1> QED BY <1>1, <1>2 DEF HoldsNothing, r

LEMMA HandlerStep ==
  ASSUME OrderInv, NEW h \in Handlers, OrderStep(h) \/ Rollback(h), ~Commit(h)
  PROVE  OrderInv'
<1> PICK Any : task \in [Handlers -> Shape(Any)]
  BY DEF OrderInv
<1>0. /\ task[h].gone \subseteq 1 .. created /\ task[h].upd \in 0 .. created
      /\ created \in Nat /\ Ids(orders) \subseteq 1 .. created
      /\ \A g \in Others(h) :
           /\ task[h].gone \cap LockedOrders(g) = {}
           /\ task[h].upd # NoOrder => task[h].upd \notin LockedOrders(g)
           /\ task[h].cut \cap LockedItems(g) = {}
  <2>1. \A g \in Others(h) :
          /\ (task[h].gone \cap LockedOrders(g)) \ {NoOrder} = {}
          /\ task[h].upd # NoOrder => task[h].upd \notin LockedOrders(g)
          /\ task[h].cut \cap LockedItems(g) = {}
    BY DEF OrderInv, LocksAreExclusive, LockedItems, LockedOrders, Others
  <2> QED BY <2>1 DEF OrderInv, HeldIsCreated, NoOrder
<1>1. CASE ReadOrders(h)
  <2>2. \E X : task' \in [Handlers -> Shape(X)]
    <3>1. PICK v : task' = WithSeen(task, h, v, "readItems")
      BY <1>1 DEF ReadOrders, WithSeen
    <3>2. "readItems" \in Labels
      BY DEF Labels, InTransaction
    <3> QED BY <3>1, <3>2, SeenTyped
  <2>3. /\ \A g \in Others(h) : task'[g] = task[g]
        /\ task'[h].gone = task[h].gone /\ task'[h].upd = task[h].upd
        /\ task'[h].cut = task[h].cut /\ task'[h].pc = "readItems"
    BY <1>1 DEF ReadOrders, Shape, Others
  <2>4. orders' = orders /\ items' = items /\ created' = created
    BY <1>1 DEF ReadOrders
  <2> QED BY <1>0, <2>2, <2>3, <2>4, HolderStep
<1>2. CASE ReadItems(h)
  <2> DEFINE m == Merged(h)
             l == IF task[h].seen = {} THEN "create"
                  ELSE IF Cardinality(task[h].seen) > 1 THEN "fold" ELSE "aim"
  <2>2. PICK b : task' = [task EXCEPT ![h].merged = m, ![h].by = b, ![h].pc = l]
    BY <1>2 DEF ReadItems
  <2>3. l \in Labels /\ l # "commit" /\ (l = "create" => task[h].seen = {})
    BY DEF Labels, InTransaction
  <2> HIDE DEF l, m
  <2>4. \E X : task' \in [Handlers -> Shape(X)]
    <3>1. task' = WithMerged(task, h, m, b, l)
      BY <2>2 DEF WithMerged
    <3> QED BY <2>3, <3>1, MergedTyped
  <2>5. /\ \A g \in Others(h) : task'[g] = task[g]
        /\ task'[h].gone = task[h].gone /\ task'[h].upd = task[h].upd
        /\ task'[h].cut = task[h].cut /\ task'[h].pc = l
        /\ task'[h].seen = task[h].seen
    BY <2>2 DEF Shape, Others
  <2>6. orders' = orders /\ items' = items /\ created' = created
    BY <1>2 DEF ReadItems
  <2> QED BY <1>0, <2>3, <2>4, <2>5, <2>6, HolderStep
<1>3. CASE CreateOrder(h)
  <2>1. \E X : task' \in [Handlers -> Shape(X)]
    <3>1. created + 1 \in Nat /\ "commit" \in Labels
      BY <1>0 DEF Labels, InTransaction
    <3>2. task' = WithUpd(task, h, created + 1, "commit")
      BY <1>3 DEF CreateOrder, WithUpd
    <3> QED BY <3>1, <3>2, UpdTyped
  <2>2. /\ \A g \in Others(h) : task'[g] = task[g]
        /\ task'[h].gone = task[h].gone /\ task'[h].upd = created + 1
        /\ task'[h].cut = task[h].cut /\ task'[h].pc = "commit"
        /\ task'[h].seen = task[h].seen
    BY <1>3 DEF CreateOrder, Shape, Others
  <2>3. task[h].seen = {}
    BY <1>3 DEF OrderInv, HeldIsCreated, CreateOrder
  <2>4. \A g \in Others(h) : created + 1 \notin LockedOrders(g)
    <3> SUFFICES ASSUME NEW g \in Others(h) PROVE created + 1 \notin LockedOrders(g)
      OBVIOUS
    <3>1. task[g].gone \subseteq 1 .. created /\ task[g].upd \in 0 .. created
      BY DEF OrderInv, HeldIsCreated, Others
    <3> QED BY <1>0, <3>1 DEF LockedOrders
  <2>5. orders' = orders /\ items' = items /\ created' = created + 1
    BY <1>3 DEF CreateOrder
  <2>6. created + 1 \in 0 .. created' /\ created + 1 # NoOrder
    BY <1>0, <2>5 DEF NoOrder
  <2>7. \A g \in Others(h) : task'[h].upd \notin LockedOrders(g)
    BY <2>2, <2>4
  <2> QED BY <1>0, <2>1, <2>2, <2>3, <2>5, <2>6, <2>7, HolderStep
<1>4. CASE FoldDuplicates(h)
  <2> DEFINE d == Duplicates(h) \cap Ids(orders)
  <2>1. task' = [task EXCEPT ![h].gone = d, ![h].pc = "aim"]
    BY <1>4 DEF FoldDuplicates
  <2>2. d \subseteq 1 .. created /\ d \subseteq Nat
    BY <1>0
  <2>3. \A g \in Others(h) : d \cap LockedOrders(g) = {}
    BY <1>4 DEF FoldDuplicates, FreeOrder
  <2> HIDE DEF d
  <2>4. \E X : task' \in [Handlers -> Shape(X)]
    <3>1. task' = WithGone(task, h, d, "aim")
      BY <2>1 DEF WithGone
    <3>2. "aim" \in Labels
      BY DEF Labels, InTransaction
    <3> QED BY <2>2, <3>1, <3>2, GoneTyped
  <2>5. /\ \A g \in Others(h) : task'[g] = task[g]
        /\ task'[h].gone = d /\ task'[h].upd = task[h].upd
        /\ task'[h].cut = task[h].cut /\ task'[h].pc = "aim"
    BY <2>1 DEF Shape, Others
  <2>6. orders' = orders /\ items' = items /\ created' = created
    BY <1>4 DEF FoldDuplicates
  <2> QED BY <1>0, <2>2, <2>3, <2>4, <2>5, <2>6, HolderStep
<1>5. CASE AimAtItems(h)
  <2> DEFINE a == RowsOf({Primary(h)})
  <2>2. task' = [task EXCEPT ![h].aimed = a, ![h].pc = "cut"]
    BY <1>5 DEF AimAtItems
  <2> HIDE DEF a
  <2>3. \E X : task' \in [Handlers -> Shape(X)]
    <3>1. task' = WithAimed(task, h, a, "cut")
      BY <2>2 DEF WithAimed
    <3>2. "cut" \in Labels
      BY DEF Labels, InTransaction
    <3> QED BY <3>1, <3>2, AimedTyped
  <2>4. /\ \A g \in Others(h) : task'[g] = task[g]
        /\ task'[h].gone = task[h].gone /\ task'[h].upd = task[h].upd
        /\ task'[h].cut = task[h].cut /\ task'[h].pc = "cut"
    BY <2>2 DEF Shape, Others
  <2>5. orders' = orders /\ items' = items /\ created' = created
    BY <1>5 DEF AimAtItems
  <2> QED BY <1>0, <2>3, <2>4, <2>5, HolderStep
<1>6. CASE CutItems(h)
  <2> DEFINE c == task[h].aimed \cap items
  <2>2. task' = [task EXCEPT ![h].cut = c, ![h].aimed = {}, ![h].pc = "rewrite"]
    BY <1>6 DEF CutItems
  <2>3. \A g \in Others(h) : c \cap LockedItems(g) = {}
    BY <1>6 DEF CutItems, FreeItems
  <2> HIDE DEF c
  <2>4. \E X : task' \in [Handlers -> Shape(X)]
    <3>1. "rewrite" \in Labels
      BY DEF Labels, InTransaction
    <3>2. task' = WithCut(task, h, c, "rewrite")
      BY <2>2 DEF WithCut
    <3> QED BY <3>1, <3>2, CutTyped
  <2>5. /\ \A g \in Others(h) : task'[g] = task[g]
        /\ task'[h].gone = task[h].gone /\ task'[h].upd = task[h].upd
        /\ task'[h].cut = c /\ task'[h].pc = "rewrite"
    BY <2>2 DEF Shape, Others
  <2>6. orders' = orders /\ items' = items /\ created' = created
    BY <1>6 DEF CutItems
  <2> QED BY <1>0, <2>3, <2>4, <2>5, <2>6, HolderStep
<1>7. ASSUME task' = [task EXCEPT ![h] = Answered("failed")],
             orders' = orders, items' = items, created' = created
      PROVE  OrderInv'
  BY <1>7, FreshStep, AnsweredHoldsNothing
<1>8. CASE Rewrite(h)
  <2>1. CASE StillThere(h)
    <3> DEFINE p == Primary(h)
    <3>1. task' = [task EXCEPT ![h].upd = p, ![h].pc = "commit"]
      BY <1>8, <2>1 DEF Rewrite
    <3>2. p \in Ids(orders) /\ p \in 1 .. created /\ p \in Nat /\ p # NoOrder
      BY <1>0, <2>1 DEF StillThere, NoOrder
    <3>3. \A g \in Others(h) : p \notin LockedOrders(g)
      BY <1>8 DEF Rewrite, FreeOrder
    <3> HIDE DEF p
    <3>4. \E X : task' \in [Handlers -> Shape(X)]
      <4>1. task' = WithUpd(task, h, p, "commit")
        BY <3>1 DEF WithUpd
      <4>2. "commit" \in Labels
        BY DEF Labels, InTransaction
      <4> QED BY <3>2, <4>1, <4>2, UpdTyped
    <3>5. /\ \A g \in Others(h) : task'[g] = task[g]
          /\ task'[h].gone = task[h].gone /\ task'[h].upd = p
          /\ task'[h].cut = task[h].cut /\ task'[h].pc = "commit"
      BY <3>1 DEF Shape, Others
    <3>6. orders' = orders /\ items' = items /\ created' = created
      BY <1>8 DEF Rewrite
    <3> QED BY <1>0, <3>2, <3>3, <3>4, <3>5, <3>6, HolderStep
  <2>2. CASE ~StillThere(h)
    BY <1>7, <1>8, <2>2 DEF Rewrite
  <2> QED BY <2>1, <2>2
<1>9. CASE Rollback(h)
  BY <1>7, <1>9 DEF Rollback
<1> QED BY <1>1, <1>2, <1>3, <1>4, <1>5, <1>6, <1>8, <1>9 DEF OrderStep

LEMMA CommitStep ==
  ASSUME OrderInv, NEW h \in Handlers, Commit(h)
  PROVE  OrderInv'
<1> PICK Any : task \in [Handlers -> Shape(Any)]
  BY DEF OrderInv
<1> DEFINE marked(g) == task[g].pc \in InTransaction \ {"read"} /\ SameSlot(g, h)
           others == [g \in Handlers |-> IF marked(g)
                        THEN [task[g] EXCEPT !.stale = TRUE] ELSE task[g]]
           r == Answered("done")
<1>1. task' = [others EXCEPT ![h] = r]
  BY DEF Commit
<1>2. others \in [Handlers -> Shape(Any)]
  <2>1. \A g \in Handlers : [task[g] EXCEPT !.stale = TRUE] \in Shape(Any)
    BY DEF Shape
  <2> HIDE DEF marked
  <2> QED BY <2>1
<1>3. \A g \in Handlers : /\ others[g].pc = task[g].pc /\ others[g].seen = task[g].seen
                          /\ others[g].gone = task[g].gone /\ others[g].upd = task[g].upd
                          /\ others[g].cut = task[g].cut
  <2>1. \A g \in Handlers : task[g] \in Shape(Any)
    OBVIOUS
  <2> HIDE DEF marked
  <2> QED BY <2>1 DEF Shape
<1>4. HoldsNothing(r)
  BY AnsweredHoldsNothing
<1> HIDE DEF others, r
<1>5. \E X : task' \in [Handlers -> Shape(X)]
  BY <1>1, <1>2, <1>4, FreshTyped DEF HoldsNothing
<1>6. /\ task'[h].pc # "commit" /\ task'[h].gone = {} /\ task'[h].upd = NoOrder
      /\ task'[h].cut = {} /\ task'[h].seen = {}
      /\ \A g \in Handlers : g # h =>
           /\ task'[g].pc = task[g].pc /\ task'[g].seen = task[g].seen
           /\ task'[g].gone = task[g].gone /\ task'[g].upd = task[g].upd
           /\ task'[g].cut = task[g].cut
  BY <1>1, <1>2, <1>3, <1>4 DEF HoldsNothing
<1> DEFINE u == task[h].upd
           new == [id |-> u, supplier |-> task[h].supplier, by |-> task[h].by]
<1>7. /\ created' = created
      /\ orders' = {o \in orders : o.id \notin task[h].gone \cup {u}} \cup {new}
      /\ items' = Left(h) \cup Written(h)
  BY DEF Commit
<1>8. Ids(orders)' = (Ids(orders) \ task[h].gone) \cup {u}
  <2>1. new.id = u
    OBVIOUS
  <2> HIDE DEF new, u
  <2>2. Ids(orders)' = {o.id : o \in orders'}
    BY DEF Ids
  <2>3. {o.id : o \in orders'}
          = {o.id : o \in {x \in orders : x.id \notin task[h].gone \cup {u}}} \cup {u}
    BY <1>7, <2>1
  <2> QED BY <2>2, <2>3 DEF Ids
<1>9. u \in 1 .. created
  BY DEF OrderInv, HeldIsCreated, Commit, At, NoOrder
<1>10. HeldIsCreated'
  BY <1>6, <1>7, <1>8, <1>9 DEF OrderInv, HeldIsCreated, At, NoOrder
<1>11. LocksAreExclusive'
  <2> SUFFICES ASSUME NEW f \in Handlers, NEW g \in Handlers, f # g
               PROVE  /\ task'[f].cut \cap task'[g].cut = {}
                      /\ ((task'[f].gone \cup {task'[f].upd})
                          \cap (task'[g].gone \cup {task'[g].upd})) \ {NoOrder} = {}
    BY DEF LocksAreExclusive, LockedItems, LockedOrders
  <2>1. /\ task[f].cut \cap task[g].cut = {}
        /\ ((task[f].gone \cup {task[f].upd})
             \cap (task[g].gone \cup {task[g].upd})) \ {NoOrder} = {}
    BY DEF OrderInv, LocksAreExclusive, LockedItems, LockedOrders
  <2> QED BY <2>1, <1>6
<1>12. NobodyRevivesAnOrder'
  <2> SUFFICES ASSUME NEW f \in Handlers, task'[f].pc = "commit", task'[f].seen # {}
               PROVE  /\ task'[f].upd \in Ids(orders)'
                      /\ \A g \in Handlers \ {f} : task'[f].upd \notin task'[g].gone
    BY DEF NobodyRevivesAnOrder, At, Ids, Others
  <2>1. f # h
    BY <1>6
  <2>2. /\ task[f].upd \in Ids(orders)
        /\ \A g \in Handlers \ {f} : task[f].upd \notin task[g].gone
    BY <2>1, <1>6 DEF OrderInv, NobodyRevivesAnOrder, At, Others
  <2> QED BY <2>1, <2>2, <1>6, <1>8
<1>13. NoOrphanItems'
  <2> SUFFICES ASSUME NEW x \in items' PROVE x.order \in Ids(orders)'
    BY DEF NoOrphanItems, Ids
  <2>1. CASE x \in Left(h)
    BY <2>1, <1>8 DEF OrderInv, NoOrphanItems, Left
  <2>2. CASE x \in Written(h)
    BY <2>2, <1>8 DEF Written
  <2> QED BY <2>1, <2>2, <1>7
<1> QED BY <1>5, <1>10, <1>11, <1>12, <1>13 DEF OrderInv

LEMMA OrderStepInv == ASSUME OrderInv, [Next]_vars PROVE OrderInv'
<1> PICK Any : task \in [Handlers -> Shape(Any)]
  BY DEF OrderInv
<1>1. ASSUME UNCHANGED <<orders, items, created, task>> PROVE OrderInv'
  BY <1>1 DEF OrderInv, HeldIsCreated, LocksAreExclusive, NobodyRevivesAnOrder,
              NoOrphanItems, Ids, At, LockedItems, LockedOrders, Others
<1>2. ASSUME NEW h \in Handlers, NEW c \in Clients, Post(c, h) PROVE OrderInv'
  <2> PICK s \in device[c].todo, n \in SignedIn[posted + 1] :
        Receive(h, n, s, Only(device[c].cart, ProductsOf(s)))
    BY <1>2 DEF Post
  <2> DEFINE q == Only(device[c].cart, ProductsOf(s))
             r == IF InCatalog(s, q)
                  THEN [Idle EXCEPT !.pc = "read", !.who = n, !.post = posted + 1,
                                    !.supplier = s, !.qty = q]
                  ELSE [Idle EXCEPT !.pc = "failed"]
             M == {n, posted + 1, s, q, Idle.who, Idle.post, Idle.supplier, Idle.qty,
                   Idle.seen, Idle.merged, Idle.by, Idle.aimed, Idle.cut}
  <2>1. r \in Shape(M)
    BY ZenonT(60) DEF Idle, Shape, Labels, InTransaction, NoOrder
  <2>2. /\ r.gone = {} /\ r.upd = NoOrder /\ r.cut = {} /\ r.seen = {}
        /\ r.pc \in {"read", "failed"}
    BY DEF Idle
  <2>3. /\ task' = [task EXCEPT ![h] = r]
        /\ orders' = orders /\ items' = items /\ created' = created
    BY DEF Receive
  <2> HIDE DEF r, M
  <2> QED BY <2>1, <2>2, <2>3, FreshStep DEF HoldsNothing
<1>3. HoldsNothing(Idle)
  <2> DEFINE M == {Idle.who, Idle.post, Idle.supplier, Idle.qty, Idle.seen,
                   Idle.merged, Idle.by, Idle.aimed, Idle.cut}
  <2>1. Idle \in Shape(M)
    BY DEF Idle, Shape, Labels, NoOrder
  <2>2. /\ Idle.gone = {} /\ Idle.upd = NoOrder /\ Idle.cut = {} /\ Idle.seen = {}
        /\ Idle.pc = "idle"
    BY DEF Idle
  <2> HIDE DEF M
  <2> QED BY <2>1, <2>2 DEF HoldsNothing
<1>4. ASSUME NEW h \in Handlers,
             (\E c \in Clients : Answer(c, h)) \/ DropAnswer(h)
      PROVE  OrderInv'
  <2>1. /\ task' = [task EXCEPT ![h] = Idle]
        /\ orders' = orders /\ items' = items /\ created' = created
    BY <1>4 DEF Answer, DropAnswer
  <2> QED BY <1>3, <2>1, FreshStep
<1>5. ASSUME NEW h \in Handlers, Handle(h) \/ Abort(h) PROVE OrderInv'
  BY <1>5, HandlerStep, CommitStep DEF Handle, Abort
<1>6. ASSUME NEW c \in Clients, UserStep(c) \/ LoseAnswer(c) PROVE OrderInv'
  <2>1. UNCHANGED orderVars
    BY <1>6 DEF UserStep, LoadCatalog, LeaveOrders, Submit, SetDraftQuantity, LoseAnswer
  <2> QED BY <1>1, <2>1 DEF orderVars
<1>7. CASE Environment
  BY <1>1, <1>7 DEF Environment, UpdateCatalog
<1>8. CASE UNCHANGED vars
  BY <1>1, <1>8 DEF vars, orderVars
<1> QED BY <1>2, <1>4, <1>5, <1>6, <1>7, <1>8 DEF Next

-----------------------------------------------------------------------------
THEOREM OrderInvariant == Spec => []OrderInv
BY InitOrderInv, OrderStepInv, PTL DEF Spec

(* Transactions that merge at the same time never hold the same row.        *)
THEOREM LocksTheorem == Spec => []LocksAreExclusive
<1>1. OrderInv => LocksAreExclusive
  BY DEF OrderInv
<1> QED BY <1>1, OrderInvariant, PTL

(* No merge brings back an order that another one has folded away.          *)
THEOREM NobodyRevivesTheorem == Spec => []NobodyRevivesAnOrder
<1>1. OrderInv => NobodyRevivesAnOrder
  BY DEF OrderInv
<1> QED BY <1>1, OrderInvariant, PTL

-----------------------------------------------------------------------------
(* The devices.  A request is told apart by its number.                     *)

Busy(h) == task[h].pc \in InTransaction

(* Which request is for which supplier: those that are committed, as the    *)
(* device has kept them, and those under way.                               *)
Pairs(c) == device[c].kept
            \cup {<<task[h].supplier, task[h].post>> : h \in {g \in Handlers : Busy(g)}}

NumbersUsed ==
    /\ posted \in Nat
    /\ \A h \in Handlers : Busy(h) => /\ task[h].supplier \in Suppliers
                                      /\ task[h].post \in 1 .. posted
    /\ \A c \in Clients : /\ device[c].sent \subseteq 1 .. posted
                          /\ device[c].posts \subseteq 1 .. posted
                          /\ \A x \in device[c].kept : x[2] \in 1 .. posted

(* A submission asks each supplier once.                                    *)
OncePerSupplier(c) ==
    \A p, q \in Pairs(c) : p[2] \in device[c].sent /\ q[2] \in device[c].sent =>
      /\ p[1] = q[1] => p[2] = q[2]
      /\ p[1] \notin device[c].todo

(* A draft without an error has been posted by the present submission only. *)
DraftOfSubmission(c) ==
    /\ device[c].pc = "form" => device[c].sent = {}
    /\ ~device[c].troubled => device[c].posts \subseteq device[c].sent

IsKept(c, s) == \E x \in device[c].kept : x[1] = s /\ x[2] \in device[c].sent

UnderWay(c, s) ==
    LET h == device[c].handler IN
    \/ Busy(h) /\ task[h].supplier = s /\ task[h].post \in device[c].sent
    \/ At(h, "failed")

(* Every supplier of the submission is still to be asked, or it has been    *)
(* and the order is kept, under way or turned down.                         *)
Accounted(c) ==
    device[c].pc # "form" =>
      \A s \in SuppliersOf(device[c].cart) \ device[c].todo :
        IsKept(c, s) \/ (device[c].pc = "wait" /\ UnderWay(c, s))

(* A device that waits has a request in flight, and it alone reads the      *)
(* answer.                                                                  *)
WaitsForOne ==
    /\ \A c \in Clients : device[c].pc = "wait" =>
         device[c].handler \in Handlers /\ ~At(device[c].handler, "idle")
    /\ \A c, d \in Clients : device[c].pc = "wait" /\ device[d].pc = "wait"
                             /\ device[c].handler = device[d].handler => c = d

Orderly(c) == OncePerSupplier(c) /\ DraftOfSubmission(c) /\ Accounted(c)

DevicesTyped == device \in [Clients -> Device] /\ catalog \in Catalogs

DeviceInv ==
    /\ DevicesTyped
    /\ NumbersUsed
    /\ WaitsForOne
    /\ \A c \in Clients : Orderly(c)

LEMMA PairsOf ==
  \A c, p : p \in Pairs(c) <=>
    \/ p \in device[c].kept
    \/ \E h \in Handlers : Busy(h) /\ p = <<task[h].supplier, task[h].post>>
BY DEF Pairs

LEMMA PairsOfNext ==
  \A c, p : p \in Pairs(c)' <=>
    \/ p \in device'[c].kept
    \/ \E h \in Handlers : Busy(h)' /\ p = <<task'[h].supplier, task'[h].post>>
BY DEF Pairs

LEMMA SuppliersAreSuppliers ==
  ASSUME NEW q PROVE SuppliersOf(q) \subseteq Suppliers
BY OrderConstants DEF SuppliersOf

LEMMA OnlyTyped ==
  ASSUME NEW q \in Quantities, NEW ps PROVE Only(q, ps) \in Quantities
BY DEF Only, Quantities

LEMMA InitDeviceInv == Init => DeviceInv
<1> SUFFICES ASSUME Init PROVE DeviceInv
  OBVIOUS
<1>1. \A h \in Handlers : ~Busy(h)
  BY DEF Init, OrdersInit, Busy, InTransaction, Idle
<1>2. Fresh \in Device
  BY DEF Fresh, Device, Nothing, Quantities, NoHandler
<1>3. DevicesTyped
  BY <1>2 DEF Init, OrdersInit, DevicesTyped
<1>4. \A c \in Clients : device[c] = Fresh
  BY DEF Init
<1>5. NumbersUsed
  BY <1>1, <1>4 DEF Init, OrdersInit, NumbersUsed, Fresh
<1>6. WaitsForOne
  BY <1>4 DEF WaitsForOne, Fresh
<1>7. ASSUME NEW c \in Clients PROVE Orderly(c)
  BY <1>4 DEF Orderly, OncePerSupplier, DraftOfSubmission, Accounted, Fresh
<1> QED BY <1>3, <1>5, <1>6, <1>7 DEF DeviceInv

-----------------------------------------------------------------------------
(* Steps that leave the requests as they are.                               *)
SameRequests ==
    /\ posted' = posted
    /\ \A g \in Handlers :
         /\ Busy(g)' <=> Busy(g)
         /\ Busy(g) => /\ task'[g].supplier = task[g].supplier
                       /\ task'[g].post = task[g].post

SamePlace(c) ==
    device'[c].pc = "wait" => task'[device'[c].handler].pc = task[device'[c].handler].pc

(* The device stays in its submission, or forgets requests.                 *)
LEMMA DeviceMoves ==
  ASSUME DeviceInv, SameRequests, NEW c \in Clients, SamePlace(c),
         device'[c].kept \subseteq device[c].kept,
         device'[c].sent \subseteq device[c].sent,
         device'[c].sent = {} \/ device'[c].todo = device[c].todo,
         device'[c].pc = "form" => device'[c].sent = {},
         ~device'[c].troubled => device'[c].posts \subseteq device'[c].sent,
         \/ device'[c].pc = "form"
         \/ SuppliersOf(device'[c].cart) \subseteq device'[c].todo
         \/ /\ device'[c].pc \in {device[c].pc, "post"} /\ device[c].pc # "form"
            /\ device'[c].cart = device[c].cart /\ device'[c].kept = device[c].kept
            /\ device'[c].sent = device[c].sent /\ device'[c].todo = device[c].todo
            /\ device'[c].pc = "wait" => device'[c].handler = device[c].handler
            /\ device'[c].pc # device[c].pc => At(device[c].handler, "done")
  PROVE  Orderly(c)'
<1>1. Orderly(c) /\ WaitsForOne
  BY DEF DeviceInv
<1>2. OncePerSupplier(c)'
  <2>1. Pairs(c)' \subseteq Pairs(c)
    BY PairsOf, PairsOfNext DEF SameRequests
  <2> QED BY <1>1, <2>1 DEF OncePerSupplier, Orderly
<1>3. DraftOfSubmission(c)'
  BY DEF DraftOfSubmission
<1>4. Accounted(c)'
  <2>1. CASE device'[c].pc = "form"
    BY <2>1 DEF Accounted
  <2>2. CASE SuppliersOf(device'[c].cart) \subseteq device'[c].todo
    BY <2>2 DEF Accounted, SuppliersOf
  <2>3. CASE /\ device'[c].pc \in {device[c].pc, "post"} /\ device[c].pc # "form"
             /\ device'[c].cart = device[c].cart /\ device'[c].kept = device[c].kept
             /\ device'[c].sent = device[c].sent /\ device'[c].todo = device[c].todo
             /\ device'[c].pc = "wait" => device'[c].handler = device[c].handler
             /\ device'[c].pc # device[c].pc => At(device[c].handler, "done")
    <3> SUFFICES ASSUME NEW s \in SuppliersOf(device[c].cart) \ device[c].todo
                 PROVE  (IsKept(c, s) \/ (device[c].pc = "wait" /\ UnderWay(c, s)))'
      BY <2>3 DEF Accounted, SuppliersOf
    <3>1. IsKept(c, s) \/ (device[c].pc = "wait" /\ UnderWay(c, s))
      BY <1>1, <2>3 DEF Orderly, Accounted
    <3>2. CASE IsKept(c, s)
      BY <2>3, <3>2 DEF IsKept
    <3>3. CASE device[c].pc = "wait" /\ UnderWay(c, s)
      <4>1. device'[c].pc = device[c].pc
        BY <2>3, <3>3 DEF UnderWay, At, Busy, InTransaction
      <4>2. /\ device'[c].handler = device[c].handler /\ device[c].handler \in Handlers
            /\ task'[device[c].handler].pc = task[device[c].handler].pc
        BY <1>1, <2>3, <3>3, <4>1 DEF WaitsForOne, SamePlace
      <4>3. UnderWay(c, s)'
        BY <2>3, <3>3, <4>2 DEF UnderWay, SameRequests, Busy, At
      <4> QED BY <3>3, <4>1, <4>3
    <3> QED BY <3>1, <3>2, <3>3
  <2> QED BY <2>1, <2>2, <2>3
<1> QED BY <1>2, <1>3, <1>4 DEF Orderly

LEMMA DeviceRests ==
  ASSUME DeviceInv, SameRequests, NEW c \in Clients, device'[c] = device[c], SamePlace(c)
  PROVE  Orderly(c)'
<1>1. Orderly(c) /\ device[c] \in Device
  BY DEF DeviceInv, DevicesTyped
<1>2. CASE device[c].pc = "form"
  BY <1>1, <1>2, DeviceMoves DEF Orderly, DraftOfSubmission
<1>3. CASE device[c].pc # "form"
  BY <1>1, <1>3, DeviceMoves DEF Orderly, DraftOfSubmission
<1> QED BY <1>2, <1>3

(* A step of one device alone.                                              *)
LEMMA OneDevice ==
  ASSUME DeviceInv, SameRequests, NEW c \in Clients, NEW r \in Device,
         device' = [device EXCEPT ![c] = r], catalog' \in Catalogs,
         r.kept \subseteq device[c].kept,
         r.posts \subseteq device[c].posts,
         r.sent \subseteq device[c].sent,
         r.sent = {} \/ r.todo = device[c].todo,
         r.pc = "form" => r.sent = {},
         ~r.troubled => r.posts \subseteq r.sent,
         r.pc = "wait" => device[c].pc = "wait" /\ r.handler = device[c].handler,
         \/ r.pc = "form"
         \/ SuppliersOf(r.cart) \subseteq r.todo
         \/ /\ r.pc \in {device[c].pc, "post"} /\ device[c].pc # "form"
            /\ r.cart = device[c].cart /\ r.kept = device[c].kept
            /\ r.sent = device[c].sent /\ r.todo = device[c].todo
            /\ r.pc # device[c].pc => At(device[c].handler, "done"),
         \A d \in Clients : device'[d].pc = "wait" =>
           task'[device[d].handler].pc = task[device[d].handler].pc
  PROVE  DeviceInv'
<1>1. /\ device \in [Clients -> Device] /\ NumbersUsed /\ WaitsForOne
      /\ \A d \in Clients : Orderly(d)
  BY DEF DeviceInv, DevicesTyped
<1>2. device' \in [Clients -> Device] /\ device'[c] = r
      /\ \A d \in Clients : d # c => device'[d] = device[d]
  BY <1>1
<1>3. \A d \in Clients : device'[d].pc = "wait" =>
        device[d].pc = "wait" /\ device'[d].handler = device[d].handler
  BY <1>2
<1>4. NumbersUsed'
  <2>1. /\ posted' \in Nat
        /\ \A h \in Handlers : Busy(h)' =>
             task'[h].supplier \in Suppliers /\ task'[h].post \in 1 .. posted'
    BY <1>1 DEF NumbersUsed, SameRequests
  <2>2. ASSUME NEW d \in Clients
        PROVE  /\ device'[d].sent \subseteq 1 .. posted'
               /\ device'[d].posts \subseteq 1 .. posted'
               /\ \A x \in device'[d].kept : x[2] \in 1 .. posted'
    BY <1>1, <1>2 DEF NumbersUsed, SameRequests
  <2> QED BY <2>1, <2>2 DEF NumbersUsed
<1>5. WaitsForOne'
  BY <1>1, <1>3 DEF WaitsForOne, At
<1>6. ASSUME NEW d \in Clients PROVE Orderly(d)'
  <2>1. SamePlace(d)
    BY <1>3 DEF SamePlace
  <2>2. CASE d = c
    BY <1>2, <2>1, <2>2, DeviceMoves
  <2>3. CASE d # c
    BY <1>2, <2>1, <2>3, DeviceRests
  <2> QED BY <2>2, <2>3
<1> QED BY <1>2, <1>4, <1>5, <1>6 DEF DeviceInv, DevicesTyped

(* No device moves.                                                         *)
LEMMA NoDevice ==
  ASSUME DeviceInv, SameRequests, device' = device, catalog' \in Catalogs,
         \A d \in Clients : device[d].pc = "wait" =>
           task'[device[d].handler].pc = task[device[d].handler].pc
  PROVE  DeviceInv'
<1>1. NumbersUsed'
  BY DEF DeviceInv, NumbersUsed, SameRequests
<1>2. WaitsForOne'
  BY DEF DeviceInv, WaitsForOne, At
<1>3. ASSUME NEW d \in Clients PROVE Orderly(d)'
  BY DeviceRests DEF SamePlace
<1> QED BY <1>1, <1>2, <1>3 DEF DeviceInv, DevicesTyped

LEMMA TasksRest == ASSUME UNCHANGED <<task, posted>> PROVE SameRequests
BY DEF SameRequests, Busy

(* The forms a device can be left in by an answer.                          *)
LEMMA FormTyped ==
  ASSUME DeviceInv, NEW c \in Clients
  PROVE  Failed(c) \in Device /\ Saved(c) \in Device
<1>1. device[c] \in Device
  BY DEF DeviceInv, DevicesTyped
<1>2. Nothing \in Quantities
  BY DEF Nothing, Quantities
<1>3. InForm(c) \in Device
  <2>1. {x \in device[c].kept : x[2] \in device[c].posts} \subseteq device[c].kept
    OBVIOUS
  <2> DEFINE k == {x \in device[c].kept : x[2] \in device[c].posts}
  <2>2. k \in SUBSET (Suppliers \X Nat)
    BY <1>1 DEF Device
  <2> HIDE DEF k
  <2>3. [device[c] EXCEPT !.pc = "form", !.handler = NoHandler, !.todo = {},
                          !.cart = Nothing, !.sent = {}, !.kept = k] \in Device
    BY <1>1, <1>2, <2>2 DEF Device
  <2>4. InForm(c) = [device[c] EXCEPT !.pc = "form", !.handler = NoHandler, !.todo = {},
                                      !.cart = Nothing, !.sent = {}, !.kept = k]
    BY <1>1 DEF InForm, Device, k
  <2> QED BY <2>3, <2>4
<1> HIDE DEF InForm
<1>4. Failed(c) \in Device
  BY <1>3 DEF Failed, Device
<1>5. Saved(c) \in Device
  BY <1>2, <1>3 DEF Saved, Device
<1> QED BY <1>4, <1>5

LEMMA FormFields ==
  ASSUME DeviceInv, NEW c \in Clients
  PROVE  /\ Failed(c).pc = "form" /\ Failed(c).sent = {} /\ Failed(c).troubled
         /\ Failed(c).kept \subseteq device[c].kept /\ Failed(c).posts = device[c].posts
         /\ Saved(c).pc = "form" /\ Saved(c).sent = {} /\ Saved(c).posts = {}
         /\ Saved(c).kept = {} /\ ~Saved(c).troubled
<1>1. device[c] \in Device
  BY DEF DeviceInv, DevicesTyped
<1> DEFINE k == {x \in device[c].kept : x[2] \in device[c].posts}
<1>2. k \subseteq device[c].kept
  OBVIOUS
<1> HIDE DEF k
<1>3. InForm(c) = [device[c] EXCEPT !.pc = "form", !.handler = NoHandler, !.todo = {},
                                    !.cart = Nothing, !.sent = {}, !.kept = k]
  BY <1>1 DEF InForm, Device, k
<1> QED BY <1>1, <1>2, <1>3 DEF Failed, Saved, Device

-----------------------------------------------------------------------------
(* What the user does.                                                      *)
LEMMA UserStepInv ==
  ASSUME DeviceInv, NEW c \in Clients, UserStep(c)
  PROVE  DeviceInv'
<1>1. UNCHANGED orderVars
  BY DEF UserStep, LoadCatalog, LeaveOrders, Submit, SetDraftQuantity
<1>2. SameRequests /\ catalog' = catalog /\ task' = task
  BY <1>1, TasksRest DEF orderVars
<1>3. device[c] \in Device /\ catalog \in Catalogs /\ DraftOfSubmission(c)
      /\ device \in [Clients -> Device]
  BY DEF DeviceInv, DevicesTyped, Orderly
<1>4. CASE LoadCatalog(c)
  <2> DEFINE r == [device[c] EXCEPT !.catalog = catalog]
  <2>1. device' = [device EXCEPT ![c] = r]
    BY <1>3, <1>4 DEF LoadCatalog
  <2>2. catalog \in SUBSET Products
    BY <1>3, OrderConstants
  <2>3. r \in Device
    BY <1>3, <2>2 DEF Device
  <2>4. /\ r.pc = device[c].pc /\ r.cart = device[c].cart /\ r.todo = device[c].todo
        /\ r.handler = device[c].handler /\ r.sent = device[c].sent
        /\ r.posts = device[c].posts /\ r.kept = device[c].kept
        /\ r.troubled = device[c].troubled
    BY <1>3 DEF Device
  <2> HIDE DEF r
  <2> QED BY <1>2, <1>3, <2>1, <2>3, <2>4, OneDevice
         DEF DraftOfSubmission
<1>5. CASE LeaveOrders(c)
  <2> DEFINE r == [device[c] EXCEPT !.catalog = {}, !.draft = Nothing,
                                    !.posts = {}, !.troubled = FALSE]
  <2>1. device' = [device EXCEPT ![c] = r]
    BY <1>3, <1>5 DEF LeaveOrders
  <2>2. Nothing \in Quantities
    BY DEF Nothing, Quantities
  <2>3. r \in Device
    BY <1>3, <2>2 DEF Device
  <2>4. /\ r.pc = device[c].pc /\ r.cart = device[c].cart /\ r.todo = device[c].todo
        /\ r.handler = device[c].handler /\ r.sent = device[c].sent
        /\ r.posts = {} /\ r.kept = device[c].kept
    BY <1>3 DEF Device
  <2> HIDE DEF r
  <2> QED BY <1>2, <1>3, <2>1, <2>3, <2>4, OneDevice DEF DraftOfSubmission
<1>6. CASE Submit(c)
  <2> DEFINE k == Cart(c)
             t == SuppliersOf(k)
             r == [device[c] EXCEPT !.pc = "post", !.cart = k, !.todo = t]
  <2>1. device' = [device EXCEPT ![c] = r]
    BY <1>3, <1>6 DEF Submit, Payloads
  <2>2. k \in Quantities
    BY <1>3, OnlyTyped DEF Cart, Device
  <2>3. t \subseteq Suppliers
    BY SuppliersAreSuppliers
  <2>4. SuppliersOf(k) \subseteq t
    OBVIOUS
  <2> HIDE DEF k, t
  <2>5. r \in Device
    BY <1>3, <2>2, <2>3 DEF Device
  <2>6. /\ r.pc = "post" /\ r.cart = k /\ r.todo = t /\ r.sent = device[c].sent
        /\ r.posts = device[c].posts /\ r.kept = device[c].kept
        /\ r.troubled = device[c].troubled
    BY <1>3 DEF Device
  <2>7. device[c].sent = {}
    BY <1>3, <1>6 DEF Submit, DraftOfSubmission
  <2> HIDE DEF r
  <2> QED BY <1>2, <1>3, <2>1, <2>4, <2>5, <2>6, <2>7, OneDevice DEF DraftOfSubmission
<1>7. ASSUME NEW p \in Products, NEW n \in Quantity, SetDraftQuantity(c, p, n)
      PROVE  DeviceInv'
  <2> DEFINE q == [device[c].draft EXCEPT ![p] = n]
             r == [device[c] EXCEPT !.draft = q]
  <2>1. device' = [device EXCEPT ![c] = r]
    BY <1>3, <1>7 DEF SetDraftQuantity
  <2>2. q \in Quantities
    BY <1>3, DeviceConstants DEF Device, Quantities
  <2> HIDE DEF q
  <2>3. r \in Device
    BY <1>3, <2>2 DEF Device
  <2>4. /\ r.pc = device[c].pc /\ r.cart = device[c].cart /\ r.todo = device[c].todo
        /\ r.handler = device[c].handler /\ r.sent = device[c].sent
        /\ r.posts = device[c].posts /\ r.kept = device[c].kept
        /\ r.troubled = device[c].troubled
    BY <1>3 DEF Device
  <2> HIDE DEF r
  <2> QED BY <1>2, <1>3, <2>1, <2>3, <2>4, OneDevice DEF DraftOfSubmission
<1> QED BY <1>4, <1>5, <1>6, <1>7 DEF UserStep

(* What ends a submission, or lets it go on.                                *)
LEMMA LoseAnswerInv ==
  ASSUME DeviceInv, NEW c \in Clients, LoseAnswer(c)
  PROVE  DeviceInv'
<1>1. SameRequests /\ catalog' = catalog /\ task' = task
  BY TasksRest DEF LoseAnswer, orderVars
<1>2. device' = [device EXCEPT ![c] = Failed(c)]
  BY DEF LoseAnswer
<1>3. NumbersUsed /\ catalog \in Catalogs
  BY DEF DeviceInv, DevicesTyped
<1> QED BY <1>1, <1>2, <1>3, FormTyped, FormFields, OneDevice

(* A handler whose answer was read, or dropped, is idle again.              *)
LEMMA HandlerFreed ==
  ASSUME OrderInv, NEW h \in Handlers, At(h, "done") \/ At(h, "failed"),
         task' = [task EXCEPT ![h] = Idle], posted' = posted
  PROVE  /\ SameRequests
         /\ \A g \in Handlers : g # h => task'[g] = task[g]
<1> PICK Any : task \in [Handlers -> Shape(Any)]
  BY DEF OrderInv
<1>1. task'[h] = Idle /\ \A g \in Handlers : g # h => task'[g] = task[g]
  OBVIOUS
<1>2. ~Busy(h) /\ ~Busy(h)'
  BY <1>1 DEF At, Busy, InTransaction, Idle
<1> QED BY <1>1, <1>2 DEF SameRequests, Busy

LEMMA AnswerInv ==
  ASSUME OrderInv, DeviceInv, NEW c \in Clients, NEW h \in Handlers, Answer(c, h)
  PROVE  DeviceInv'
<1>1. /\ device[c].pc = "wait" /\ device[c].handler = h
      /\ At(h, "done") \/ At(h, "failed")
      /\ task' = [task EXCEPT ![h] = Idle] /\ posted' = posted /\ catalog' = catalog
  BY DEF Answer
<1>2. SameRequests /\ \A g \in Handlers : g # h => task'[g] = task[g]
  BY <1>1, HandlerFreed
<1>3. /\ device \in [Clients -> Device] /\ device[c] \in Device /\ catalog \in Catalogs
      /\ WaitsForOne /\ DraftOfSubmission(c)
  BY DEF DeviceInv, DevicesTyped, Orderly
<1>4. ASSUME NEW r \in Device, device' = [device EXCEPT ![c] = r], r.pc # "wait"
      PROVE  \A d \in Clients : device'[d].pc = "wait" =>
               task'[device[d].handler].pc = task[device[d].handler].pc
  <2> SUFFICES ASSUME NEW d \in Clients, device'[d].pc = "wait"
               PROVE  task'[device[d].handler].pc = task[device[d].handler].pc
    OBVIOUS
  <2>1. d # c /\ device[d].pc = "wait"
    BY <1>3, <1>4
  <2>2. device[d].handler \in Handlers /\ device[d].handler # h
    BY <1>1, <1>3, <2>1 DEF WaitsForOne
  <2> QED BY <1>2, <2>2
<1>5. CASE At(h, "done") /\ device' = [device EXCEPT ![c].pc = "post", ![c].handler = NoHandler]
  <2> DEFINE r == [device[c] EXCEPT !.pc = "post", !.handler = NoHandler]
  <2>1. device' = [device EXCEPT ![c] = r]
    BY <1>3, <1>5
  <2>2. r \in Device
    BY <1>3 DEF Device
  <2>3. /\ r.pc = "post" /\ r.cart = device[c].cart /\ r.todo = device[c].todo
        /\ r.sent = device[c].sent /\ r.posts = device[c].posts
        /\ r.kept = device[c].kept /\ r.troubled = device[c].troubled
    BY <1>3 DEF Device
  <2> HIDE DEF r
  <2>4. \A d \in Clients : device'[d].pc = "wait" =>
          task'[device[d].handler].pc = task[device[d].handler].pc
    BY <1>4, <2>1, <2>2, <2>3
  <2> QED BY ZenonT(60), <1>1, <1>2, <1>3, <1>5, <2>1, <2>2, <2>3, <2>4, OneDevice
         DEF DraftOfSubmission
<1>6. CASE device' = [device EXCEPT ![c] = Saved(c)]
  <2>1. \A d \in Clients : device'[d].pc = "wait" =>
          task'[device[d].handler].pc = task[device[d].handler].pc
    BY <1>4, <1>6, FormTyped, FormFields
  <2> QED BY <1>1, <1>2, <1>3, <1>6, <2>1, FormTyped, FormFields, OneDevice
<1>7. CASE device' = [device EXCEPT ![c] = Failed(c)]
  <2>1. \A d \in Clients : device'[d].pc = "wait" =>
          task'[device[d].handler].pc = task[device[d].handler].pc
    BY <1>4, <1>7, FormTyped, FormFields
  <2> QED BY <1>1, <1>2, <1>3, <1>7, <2>1, FormTyped, FormFields, OneDevice
<1> QED BY <1>5, <1>6, <1>7 DEF Answer

LEMMA DropAnswerInv ==
  ASSUME OrderInv, DeviceInv, NEW h \in Handlers, DropAnswer(h)
  PROVE  DeviceInv'
<1>1. /\ At(h, "done") \/ At(h, "failed")
      /\ \A c \in Clients : device[c].handler # h
      /\ task' = [task EXCEPT ![h] = Idle]
      /\ posted' = posted /\ catalog' = catalog /\ device' = device
  BY DEF DropAnswer
<1>2. SameRequests /\ \A g \in Handlers : g # h => task'[g] = task[g]
  BY <1>1, HandlerFreed
<1>3. catalog \in Catalogs /\ WaitsForOne
  BY DEF DeviceInv, DevicesTyped
<1> QED BY <1>1, <1>2, <1>3, NoDevice DEF WaitsForOne

LEMMA EnvironmentInv == ASSUME DeviceInv, Environment PROVE DeviceInv'
<1>1. SameRequests /\ device' = device /\ task' = task /\ catalog' \in Catalogs
  BY TasksRest DEF Environment, UpdateCatalog
<1> QED BY <1>1, NoDevice

(* The next request of a submission.                                        *)
LEMMA PostInv ==
  ASSUME OrderInv, DeviceInv, NEW c \in Clients, NEW h \in Handlers, Post(c, h)
  PROVE  DeviceInv'
<1> PICK Any : task \in [Handlers -> Shape(Any)]
  BY DEF OrderInv
<1>1. /\ device \in [Clients -> Device] /\ device[c] \in Device /\ catalog \in Catalogs
      /\ posted \in Nat /\ NumbersUsed /\ WaitsForOne
      /\ \A d \in Clients : Orderly(d)
  BY DEF DeviceInv, DevicesTyped, NumbersUsed
<1> DEFINE n == posted + 1
<1>2. PICK s \in device[c].todo, name \in SignedIn[posted + 1] :
        /\ Receive(h, name, s, Only(device[c].cart, ProductsOf(s)))
        /\ device' = [device EXCEPT
             ![c].pc = "wait", ![c].handler = h, ![c].todo = @ \ {s},
             ![c].sent = @ \cup {n}, ![c].posts = @ \cup {n}]
  BY DEF Post
<1>3. s \in Suppliers /\ device[c].pc = "post"
  BY <1>1 DEF Device, Post
<1> DEFINE r == [device[c] EXCEPT !.pc = "wait", !.handler = h, !.todo = @ \ {s},
                                  !.sent = @ \cup {n}, !.posts = @ \cup {n}]
<1>4. device' = [device EXCEPT ![c] = r]
  BY <1>1, <1>2
<1>5. r \in Device
  <2> DEFINE t == device[c].todo \ {s}
             u == device[c].sent \cup {n}
             v == device[c].posts \cup {n}
  <2>1. t \in SUBSET Suppliers /\ u \in SUBSET Nat /\ v \in SUBSET Nat
    BY <1>1 DEF Device
  <2> HIDE DEF t, u, v
  <2>2. [device[c] EXCEPT !.pc = "wait", !.handler = h, !.todo = t, !.sent = u,
                          !.posts = v] \in Device
    BY <1>1, <2>1 DEF Device
  <2> QED BY <2>2 DEF t, u, v
<1>6. /\ r.pc = "wait" /\ r.handler = h /\ r.todo = device[c].todo \ {s}
      /\ r.sent = device[c].sent \cup {n} /\ r.posts = device[c].posts \cup {n}
      /\ r.kept = device[c].kept /\ r.troubled = device[c].troubled
      /\ r.cart = device[c].cart
  BY <1>1 DEF Device
<1> HIDE DEF r
<1>7. device' \in [Clients -> Device] /\ device'[c] = r
      /\ \A d \in Clients : d # c => device'[d] = device[d]
  BY <1>1, <1>4, <1>5
<1>8. posted' = n /\ n \in Nat /\ n \notin 1 .. posted /\ 1 .. posted \subseteq 1 .. n
      /\ n \in 1 .. n /\ catalog' = catalog
  BY <1>1, <1>2 DEF Receive
<1>9. /\ At(h, "idle") /\ ~Busy(h)
      /\ \A g \in Handlers : g # h => task'[g] = task[g]
      /\ \/ task'[h].pc = "read" /\ task'[h].supplier = s /\ task'[h].post = n
         \/ task'[h].pc = "failed"
  <2> DEFINE q == Only(device[c].cart, ProductsOf(s))
             t == IF InCatalog(s, q)
                  THEN [Idle EXCEPT !.pc = "read", !.who = name, !.post = posted + 1,
                                    !.supplier = s, !.qty = q]
                  ELSE [Idle EXCEPT !.pc = "failed"]
  <2>1. task' = [task EXCEPT ![h] = t] /\ At(h, "idle")
    BY <1>2 DEF Receive
  <2>2. \/ t.pc = "read" /\ t.supplier = s /\ t.post = n
        \/ t.pc = "failed"
    BY DEF Idle
  <2> HIDE DEF t
  <2> QED BY <2>1, <2>2 DEF At, Busy, InTransaction
<1>10. \A g \in Handlers : Busy(g)' =>
         \/ Busy(g) /\ task'[g] = task[g]
         \/ g = h /\ task'[g].supplier = s /\ task'[g].post = n
  BY <1>9 DEF Busy, InTransaction
<1> HIDE DEF n
<1>11. NumbersUsed'
  <2>1. ASSUME NEW g \in Handlers, Busy(g)'
        PROVE  task'[g].supplier \in Suppliers /\ task'[g].post \in 1 .. posted'
    BY <1>1, <1>3, <1>8, <1>10, <2>1 DEF NumbersUsed
  <2>2. ASSUME NEW d \in Clients
        PROVE  /\ device'[d].sent \subseteq 1 .. posted'
               /\ device'[d].posts \subseteq 1 .. posted'
               /\ \A x \in device'[d].kept : x[2] \in 1 .. posted'
    BY <1>1, <1>6, <1>7, <1>8 DEF NumbersUsed
  <2> QED BY <1>8, <2>1, <2>2 DEF NumbersUsed
<1>12. \A d \in Clients : d # c /\ device[d].pc = "wait" =>
         device[d].handler \in Handlers /\ device[d].handler # h
  BY <1>1, <1>9 DEF WaitsForOne
<1>13. WaitsForOne'
  BY <1>1, <1>6, <1>7, <1>9, <1>12 DEF WaitsForOne, At
<1>14. ASSUME NEW d \in Clients, NEW p \in Pairs(d)'
       PROVE  p \in Pairs(d) \/ p = <<s, n>>
  <2>1. CASE p \in device'[d].kept
    BY <1>6, <1>7, <2>1, PairsOf
  <2>2. CASE \E g \in Handlers : Busy(g)' /\ p = <<task'[g].supplier, task'[g].post>>
    BY <1>10, <2>2, PairsOf
  <2> QED BY <1>14, <2>1, <2>2, PairsOfNext
<1>15. ASSUME NEW d \in Clients, NEW p \in Pairs(d) PROVE p[2] # n
  <2>1. p[2] \in 1 .. posted
    BY <1>1, <1>15, PairsOf DEF NumbersUsed
  <2> QED BY <1>8, <2>1
<1>16. ASSUME NEW d \in Clients, d # c PROVE Orderly(d)'
  <2>1. device'[d] = device[d] /\ Orderly(d) /\ n \notin device[d].sent
    BY <1>1, <1>7, <1>8, <1>16 DEF NumbersUsed
  <2>2. OncePerSupplier(d)'
    BY <1>14, <2>1 DEF Orderly, OncePerSupplier
  <2>3. DraftOfSubmission(d)'
    BY <2>1 DEF Orderly, DraftOfSubmission
  <2>4. Accounted(d)'
    <3> SUFFICES ASSUME device[d].pc # "form",
                        NEW x \in SuppliersOf(device[d].cart) \ device[d].todo
                 PROVE  (IsKept(d, x) \/ (device[d].pc = "wait" /\ UnderWay(d, x)))'
      BY <2>1 DEF Accounted, SuppliersOf
    <3>1. IsKept(d, x) \/ (device[d].pc = "wait" /\ UnderWay(d, x))
      BY <2>1 DEF Orderly, Accounted
    <3>2. IsKept(d, x) => IsKept(d, x)'
      BY <2>1 DEF IsKept
    <3>3. device[d].pc = "wait" /\ UnderWay(d, x) => UnderWay(d, x)'
      BY <1>9, <1>12, <1>16, <2>1 DEF UnderWay, Busy, At
    <3> QED BY <2>1, <3>1, <3>2, <3>3
  <2> QED BY <2>2, <2>3, <2>4 DEF Orderly
<1>17. OncePerSupplier(c)'
  <2> SUFFICES ASSUME NEW p \in Pairs(c)', NEW q \in Pairs(c)',
                      p[2] \in r.sent, q[2] \in r.sent
               PROVE  (p[1] = q[1] => p[2] = q[2]) /\ p[1] \notin r.todo
    BY <1>7 DEF OncePerSupplier
  <2>1. \A x \in Pairs(c), y \in Pairs(c) :
          x[2] \in device[c].sent /\ y[2] \in device[c].sent =>
            (x[1] = y[1] => x[2] = y[2]) /\ x[1] \notin device[c].todo
    BY <1>1 DEF Orderly, OncePerSupplier
  <2>2. \A x \in Pairs(c)' : x[2] \in r.sent =>
          \/ x = <<s, n>>
          \/ x \in Pairs(c) /\ x[2] \in device[c].sent
    BY <1>6, <1>14, <1>15
  <2> QED BY <1>6, <2>1, <2>2
<1>18. DraftOfSubmission(c)'
  BY <1>1, <1>6, <1>7 DEF Orderly, DraftOfSubmission
<1>19. Accounted(c)'
  <2> SUFFICES ASSUME NEW x \in SuppliersOf(r.cart) \ r.todo
               PROVE  (IsKept(c, x) \/ (device[c].pc = "wait" /\ UnderWay(c, x)))'
    BY <1>7 DEF Accounted, SuppliersOf
  <2>1. CASE x = s
    <3>1. UnderWay(c, x)'
      BY <1>6, <1>7, <1>9, <2>1 DEF UnderWay, Busy, At, InTransaction
    <3> QED BY <1>6, <1>7, <3>1
  <2>2. CASE x # s
    <3>1. IsKept(c, x)
      BY <1>1, <1>3, <1>6, <2>2 DEF Orderly, Accounted
    <3> QED BY <1>6, <1>7, <3>1 DEF IsKept
  <2> QED BY <2>1, <2>2
<1> QED BY <1>1, <1>7, <1>8, <1>11, <1>13, <1>16, <1>17, <1>18, <1>19
        DEF DeviceInv, DevicesTyped, Orderly

-----------------------------------------------------------------------------
(* A transaction goes on, commits or fails; the devices keep what was       *)
(* committed.                                                               *)
SameRequestOf(g) ==
    /\ task'[g].pc = task[g].pc
    /\ task'[g].supplier = task[g].supplier /\ task'[g].post = task[g].post

Goes(h) ==
    /\ Busy(h)
    /\ \A g \in Handlers : g # h => SameRequestOf(g)
    /\ \/ /\ task'[h].pc \in InTransaction
          /\ task'[h].supplier = task[h].supplier /\ task'[h].post = task[h].post
       \/ task'[h].pc \in {"done", "failed"}
    /\ UNCHANGED <<catalog, posted>>

LEMMA AnsweredPc == \A l : Answered(l).pc = l
BY DEF Answered, Idle

LEMMA StepsGo ==
  ASSUME OrderInv, NEW h \in Handlers, OrderStep(h) \/ Rollback(h)
  PROVE  Goes(h)
<1> PICK Any : task \in [Handlers -> Shape(Any)]
  BY DEF OrderInv
<1>1. CASE ReadOrders(h)
  BY <1>1 DEF ReadOrders, Goes, SameRequestOf, Busy, At, InTransaction, Shape
<1>2. CASE ReadItems(h)
  <2> DEFINE m == Merged(h)
             l == IF task[h].seen = {} THEN "create"
                  ELSE IF Cardinality(task[h].seen) > 1 THEN "fold" ELSE "aim"
  <2>1. PICK b : task' = [task EXCEPT ![h].merged = m, ![h].by = b, ![h].pc = l]
    BY <1>2 DEF ReadItems
  <2>2. l \in InTransaction
    BY DEF InTransaction
  <2> HIDE DEF m, l
  <2>3. Busy(h) /\ UNCHANGED <<catalog, posted>>
    BY <1>2 DEF ReadItems, At, Busy, InTransaction
  <2> QED BY <2>1, <2>2, <2>3 DEF Goes, SameRequestOf, Shape
<1>3. CASE CreateOrder(h)
  BY <1>3 DEF CreateOrder, Goes, SameRequestOf, Busy, At, InTransaction, Shape
<1>4. CASE FoldDuplicates(h)
  <2> DEFINE d == Duplicates(h) \cap Ids(orders)
  <2>1. /\ task' = [task EXCEPT ![h].gone = d, ![h].pc = "aim"]
        /\ At(h, "fold") /\ UNCHANGED <<catalog, posted>>
    BY <1>4 DEF FoldDuplicates
  <2> HIDE DEF d
  <2> QED BY <2>1 DEF Goes, SameRequestOf, Busy, At, InTransaction, Shape
<1>5. CASE AimAtItems(h)
  <2> DEFINE a == RowsOf({Primary(h)})
  <2>1. /\ task' = [task EXCEPT ![h].aimed = a, ![h].pc = "cut"]
        /\ At(h, "aim") /\ UNCHANGED <<catalog, posted>>
    BY <1>5 DEF AimAtItems
  <2> HIDE DEF a
  <2> QED BY <2>1 DEF Goes, SameRequestOf, Busy, At, InTransaction, Shape
<1>6. CASE CutItems(h)
  <2> DEFINE d == task[h].aimed \cap items
  <2>1. /\ task' = [task EXCEPT ![h].cut = d, ![h].aimed = {}, ![h].pc = "rewrite"]
        /\ At(h, "cut") /\ UNCHANGED <<catalog, posted>>
    BY <1>6 DEF CutItems
  <2> HIDE DEF d
  <2> QED BY <2>1 DEF Goes, SameRequestOf, Busy, At, InTransaction, Shape
<1>7. ASSUME task' = [task EXCEPT ![h] = Answered("failed")],
             Busy(h), UNCHANGED <<catalog, posted>>
      PROVE  Goes(h)
  BY <1>7, AnsweredPc DEF Goes, SameRequestOf
<1>8. CASE Rewrite(h)
  <2>1. Busy(h) /\ UNCHANGED <<catalog, posted>>
    BY <1>8 DEF Rewrite, At, Busy, InTransaction
  <2>2. CASE StillThere(h)
    <3> DEFINE u == Primary(h)
    <3>1. task' = [task EXCEPT ![h].upd = u, ![h].pc = "commit"]
      BY <1>8, <2>2 DEF Rewrite
    <3> HIDE DEF u
    <3> QED BY <2>1, <3>1 DEF Goes, SameRequestOf, InTransaction, Shape
  <2>3. CASE ~StillThere(h)
    BY <1>7, <1>8, <2>1, <2>3 DEF Rewrite
  <2> QED BY <2>2, <2>3
<1>9. CASE Commit(h)
  <2>1. Busy(h) /\ UNCHANGED <<catalog, posted>>
    BY <1>9 DEF Commit, At, Busy, InTransaction
  <2>2. \A g \in Handlers : task'[g] =
          IF g = h THEN Answered("done")
          ELSE IF task[g].pc \in InTransaction \ {"read"} /\ SameSlot(g, h)
               THEN [task[g] EXCEPT !.stale = TRUE]
               ELSE task[g]
    BY <1>9 DEF Commit
  <2>3. task'[h].pc = "done"
    BY <2>2, AnsweredPc
  <2>4. ASSUME NEW g \in Handlers, g # h PROVE SameRequestOf(g)
    <3>1. task'[g] = task[g] \/ task'[g] = [task[g] EXCEPT !.stale = TRUE]
      BY <2>2, <2>4
    <3>2. task[g] \in Shape(Any)
      OBVIOUS
    <3> QED BY <3>1, <3>2 DEF SameRequestOf, Shape
  <2> QED BY <2>1, <2>3, <2>4 DEF Goes
<1>10. CASE Rollback(h)
  <2>1. Busy(h) /\ UNCHANGED <<catalog, posted>>
    BY <1>10 DEF Rollback, Busy
  <2> QED BY <1>7, <1>10, <2>1 DEF Rollback
<1> QED BY <1>1, <1>2, <1>3, <1>4, <1>5, <1>6, <1>8, <1>9, <1>10 DEF OrderStep

Keeps(h, c) ==
    IF task'[h].pc = "done" /\ task[h].post \in device[c].posts \cup device[c].sent
    THEN [device[c] EXCEPT !.kept = @ \cup {<<task[h].supplier, task[h].post>>}]
    ELSE device[c]

LEMMA GoesInv ==
  ASSUME DeviceInv, NEW h \in Handlers, Goes(h),
         device' = [c \in Clients |-> Keeps(h, c)]
  PROVE  DeviceInv'
<1>1. /\ device \in [Clients -> Device] /\ catalog \in Catalogs
      /\ posted \in Nat /\ NumbersUsed /\ WaitsForOne
      /\ \A d \in Clients : Orderly(d)
  BY DEF DeviceInv, DevicesTyped, NumbersUsed
<1> DEFINE new == <<task[h].supplier, task[h].post>>
           keeps(d) == /\ task'[h].pc = "done"
                       /\ task[h].post \in device[d].posts \cup device[d].sent
<1>2. new \in Suppliers \X Nat /\ new[1] = task[h].supplier /\ new[2] = task[h].post
      /\ task[h].post \in 1 .. posted /\ posted' = posted
  BY <1>1 DEF Goes, NumbersUsed
<1>3. ASSUME NEW d \in Clients
      PROVE  /\ device'[d] \in Device
             /\ device'[d].pc = device[d].pc /\ device'[d].handler = device[d].handler
             /\ device'[d].cart = device[d].cart /\ device'[d].todo = device[d].todo
             /\ device'[d].sent = device[d].sent /\ device'[d].posts = device[d].posts
             /\ device'[d].troubled = device[d].troubled
             /\ keeps(d) => device'[d].kept = device[d].kept \cup {new}
             /\ ~keeps(d) => device'[d].kept = device[d].kept
  <2> DEFINE k == device[d].kept \cup {new}
             r == [device[d] EXCEPT !.kept = k]
  <2>1. device[d] \in Device /\ device'[d] = IF keeps(d) THEN r ELSE device[d]
    BY <1>1 DEF Keeps
  <2>2. k \in SUBSET (Suppliers \X Nat)
    BY <1>2, <2>1 DEF Device
  <2> HIDE DEF k, new, keeps
  <2>3. r \in Device
    BY <2>1, <2>2 DEF Device
  <2>4. /\ r.pc = device[d].pc /\ r.handler = device[d].handler
        /\ r.cart = device[d].cart /\ r.todo = device[d].todo
        /\ r.sent = device[d].sent /\ r.posts = device[d].posts
        /\ r.troubled = device[d].troubled /\ r.kept = k
    BY <2>1 DEF Device
  <2> HIDE DEF r
  <2> QED BY <2>1, <2>3, <2>4 DEF k
<1>4. \A d \in Clients : device'[d].kept \subseteq device[d].kept \cup {new}
  BY <1>3
<1>5. DevicesTyped'
  <2>1. device' = [d \in Clients |-> device'[d]]
    OBVIOUS
  <2> QED BY <1>1, <1>3, <2>1 DEF DevicesTyped, Goes
<1>6. \A g \in Handlers : Busy(g)' =>
        /\ Busy(g)
        /\ task'[g].supplier = task[g].supplier /\ task'[g].post = task[g].post
  BY DEF Goes, SameRequestOf, Busy, InTransaction
<1>7. NumbersUsed'
  <2>1. ASSUME NEW g \in Handlers, Busy(g)'
        PROVE  task'[g].supplier \in Suppliers /\ task'[g].post \in 1 .. posted'
    BY <1>1, <1>2, <1>6, <2>1 DEF NumbersUsed
  <2>2. ASSUME NEW d \in Clients
        PROVE  /\ device'[d].sent \subseteq 1 .. posted'
               /\ device'[d].posts \subseteq 1 .. posted'
               /\ \A x \in device'[d].kept : x[2] \in 1 .. posted'
    BY <1>1, <1>2, <1>3, <1>4 DEF NumbersUsed
  <2> QED BY <1>1, <1>2, <2>1, <2>2 DEF NumbersUsed
<1>8. WaitsForOne'
  <2>1. \A g \in Handlers : At(g, "idle")' => At(g, "idle")
    BY DEF At, Goes, SameRequestOf, InTransaction
  <2> QED BY <1>1, <1>3, <2>1 DEF WaitsForOne, At
<1>9. ASSUME NEW d \in Clients PROVE Orderly(d)'
  <2>1. Pairs(d)' \subseteq Pairs(d)
    <3>1. new \in Pairs(d)
      BY PairsOf DEF Goes
    <3> HIDE DEF new
    <3>2. ASSUME NEW p \in Pairs(d)' PROVE p \in Pairs(d)
      <4>1. CASE p \in device'[d].kept
        BY <1>4, <3>1, <4>1, PairsOf
      <4>2. CASE \E g \in Handlers : Busy(g)' /\ p = <<task'[g].supplier, task'[g].post>>
        BY <1>6, <4>2, PairsOf
      <4> QED BY <3>2, <4>1, <4>2, PairsOfNext
    <3> QED BY <3>2
  <2>2. OncePerSupplier(d)'
    BY <1>1, <1>3, <2>1 DEF Orderly, OncePerSupplier
  <2>3. DraftOfSubmission(d)'
    BY <1>1, <1>3 DEF Orderly, DraftOfSubmission
  <2>4. Accounted(d)'
    <3> SUFFICES ASSUME device[d].pc # "form",
                        NEW s \in SuppliersOf(device[d].cart) \ device[d].todo
                 PROVE  (IsKept(d, s) \/ (device[d].pc = "wait" /\ UnderWay(d, s)))'
      BY <1>3 DEF Accounted, SuppliersOf
    <3>1. IsKept(d, s) \/ (device[d].pc = "wait" /\ UnderWay(d, s))
      BY <1>1 DEF Orderly, Accounted
    <3>2. CASE IsKept(d, s)
      BY <1>3, <3>2 DEF IsKept
    <3>3. CASE device[d].pc = "wait" /\ UnderWay(d, s) /\ device[d].handler # h
      <4>1. device[d].handler \in Handlers /\ SameRequestOf(device[d].handler)
        BY <1>1, <3>3 DEF WaitsForOne, Goes
      <4>2. UnderWay(d, s)'
        BY <1>3, <3>3, <4>1 DEF UnderWay, SameRequestOf, Busy, At
      <4> QED BY <1>3, <3>3, <4>2
    <3>4. CASE device[d].pc = "wait" /\ UnderWay(d, s) /\ device[d].handler = h
      <4>1. task[h].supplier = s /\ task[h].post \in device[d].sent
        BY <3>4 DEF UnderWay, Goes, Busy, At, InTransaction
      <4>2. CASE task'[h].pc = "done"
        <5>1. new \in device'[d].kept
          BY <1>3, <4>1, <4>2
        <5>2. IsKept(d, s)'
          BY <1>2, <1>3, <4>1, <5>1 DEF IsKept
        <5> QED BY <5>2
      <4>3. CASE task'[h].pc # "done"
        <5>1. UnderWay(d, s)'
          BY <1>3, <3>4, <4>1, <4>3 DEF UnderWay, Goes, Busy, At
        <5> QED BY <1>3, <3>4, <5>1
      <4> QED BY <4>2, <4>3
    <3> QED BY <3>1, <3>2, <3>3, <3>4
  <2> QED BY <2>2, <2>3, <2>4 DEF Orderly
<1> QED BY <1>5, <1>7, <1>8, <1>9 DEF DeviceInv

LEMMA HandleInv ==
  ASSUME OrderInv, DeviceInv, NEW h \in Handlers, Handle(h) \/ Abort(h)
  PROVE  DeviceInv'
<1>1. CASE Handle(h)
  <2>1. OrderStep(h) /\ device' = [c \in Clients |-> Keeps(h, c)]
    BY <1>1 DEF Handle, Keeps
  <2> QED BY <2>1, StepsGo, GoesInv
<1>2. CASE Abort(h)
  <2>1. Rollback(h) /\ device' = device
    BY <1>2 DEF Abort
  <2>2. task'[h].pc # "done"
    <3> PICK Any : task \in [Handlers -> Shape(Any)]
      BY DEF OrderInv
    <3>1. task'[h] = Answered("failed")
      BY <2>1 DEF Rollback
    <3> QED BY <3>1, AnsweredPc
  <2>3. device' = [c \in Clients |-> Keeps(h, c)]
    <3>1. \A c \in Clients : Keeps(h, c) = device[c]
      BY <2>2 DEF Keeps
    <3>2. device = [c \in Clients |-> device[c]]
      BY DEF DeviceInv, DevicesTyped
    <3> QED BY <2>1, <3>1, <3>2
  <2> QED BY <2>1, <2>3, StepsGo, GoesInv
<1> QED BY <1>1, <1>2

LEMMA DeviceStepInv == ASSUME OrderInv, DeviceInv, [Next]_vars PROVE DeviceInv'
<1>1. CASE UNCHANGED vars
  <2>1. SameRequests /\ device' = device /\ task' = task /\ catalog' = catalog
    BY <1>1, TasksRest DEF vars, orderVars
  <2>2. catalog \in Catalogs
    BY DEF DeviceInv, DevicesTyped
  <2> QED BY <2>1, <2>2, NoDevice
<1>2. CASE Next
  BY <1>2, UserStepInv, LoseAnswerInv, PostInv, AnswerInv, HandleInv, DropAnswerInv,
     EnvironmentInv DEF Next
<1> QED BY <1>1, <1>2

THEOREM DeviceInvariant == Spec => []DeviceInv
BY InitDeviceInv, DeviceStepInv, OrderInvariant, PTL DEF Spec

-----------------------------------------------------------------------------
(* A set whose elements are all the same.                                   *)
LEMMA AtMostOne ==
  ASSUME NEW S, \A x, y \in S : x = y
  PROVE  Cardinality(S) <= 1 /\ (S # {} => Cardinality(S) = 1)
<1>1. CASE S = {}
  BY <1>1, FS_EmptySet
<1>2. CASE S # {}
  <2>1. PICK x \in S : S = {x}
    BY <1>2
  <2> QED BY <2>1, FS_Singleton
<1> QED BY <1>1, <1>2

(* Two requests of a submission to the same supplier are one.               *)
LEMMA SentOnce ==
  ASSUME DeviceInv, NEW c \in Clients, NEW s, NEW R, R \subseteq device[c].sent,
         NEW x \in {z \in device[c].kept : z[1] = s /\ z[2] \in R},
         NEW y \in {z \in device[c].kept : z[1] = s /\ z[2] \in R}
  PROVE  x = y
<1>1. device[c] \in Device /\ OncePerSupplier(c)
  BY DEF DeviceInv, DevicesTyped, Orderly
<1>2. x \in Suppliers \X Nat /\ y \in Suppliers \X Nat
  BY <1>1 DEF Device
<1>3. x[1] = y[1] /\ x[2] = y[2]
  BY <1>1, PairsOf DEF OncePerSupplier
<1> QED BY <1>2, <1>3

(* A draft for which no error was shown is never ordered twice.             *)
THEOREM DoubledTheorem == Spec => []DoubledOnlyAfterError
<1>1. DeviceInv => DoubledOnlyAfterError
  <2> SUFFICES ASSUME DeviceInv, NEW c \in Clients, NEW s \in Suppliers,
                      ~device[c].troubled
               PROVE  ~(TimesKept(c, device[c].posts, s) > 1)
    BY DEF DoubledOnlyAfterError
  <2> DEFINE S == {x \in device[c].kept : x[1] = s /\ x[2] \in device[c].posts}
  <2>1. device[c].posts \subseteq device[c].sent
    BY DEF DeviceInv, Orderly, DraftOfSubmission
  <2>2. \A x, y \in S : x = y
    BY <2>1, SentOnce
  <2> HIDE DEF S
  <2>3. Cardinality(S) <= 1 /\ (S # {} => Cardinality(S) = 1)
    BY <2>2, AtMostOne
  <2>4. Cardinality(S) = 0 \/ Cardinality(S) = 1
    <3>1. CASE S = {}
      BY <3>1, FS_EmptySet
    <3>2. CASE S # {}
      BY <2>3, <3>2
    <3> QED BY <3>1, <3>2
  <2> QED BY <2>4 DEF TimesKept, S
<1> QED BY <1>1, DeviceInvariant, PTL

(* When a device says that the order was saved, the request of every        *)
(* supplier in it has been committed, once.                                 *)
LEMMA SavedByAnswer ==
  ASSUME OrderInv, DeviceInv, [Next]_vars, NEW c \in Clients, device[c].pc = "wait",
         device'[c] = Saved(c)
  PROVE  device[c].todo = {} /\ At(device[c].handler, "done")
<1>1. device \in [Clients -> Device] /\ device[c] \in Device /\ WaitsForOne
  BY DEF DeviceInv, DevicesTyped
<1>2. device'[c].pc = "form" /\ ~device'[c].troubled
  BY FormFields
<1>3. ~UNCHANGED vars
  BY <1>2 DEF vars
<1>4. ASSUME NEW d \in Clients, UserStep(d) PROVE FALSE
  <2>1. device'[c].pc = device[c].pc \/ device[d].pc = "form"
    BY <1>1, <1>4 DEF UserStep, LoadCatalog, LeaveOrders, Submit, SetDraftQuantity, Device
  <2>2. device[d].pc = "form" => d # c
    OBVIOUS
  <2>3. d # c => device'[c] = device[c]
    BY <1>1, <1>4 DEF UserStep, LoadCatalog, LeaveOrders, Submit, SetDraftQuantity
  <2> QED BY <1>2, <2>1, <2>2, <2>3
<1>5. ASSUME NEW d \in Clients, LoseAnswer(d) PROVE FALSE
  <2>1. device' = [device EXCEPT ![d] = Failed(d)]
    BY <1>5 DEF LoseAnswer
  <2>2. CASE d = c
    BY <1>1, <1>2, <2>1, <2>2, FormFields
  <2>3. CASE d # c
    BY <1>1, <1>2, <2>1, <2>3
  <2> QED BY <2>2, <2>3
<1>6. ASSUME NEW d \in Clients, NEW h \in Handlers, Post(d, h) PROVE FALSE
  <2>1. device[d].pc = "post" /\ d # c
    BY <1>6 DEF Post
  <2>2. device'[c] = device[c]
    BY <1>1, <1>6, <2>1 DEF Post
  <2> QED BY <1>2, <2>2
<1>7. ASSUME NEW h \in Handlers, Handle(h) \/ Abort(h) \/ DropAnswer(h) PROVE FALSE
  <2>1. device'[c].pc = device[c].pc
    <3>1. CASE Handle(h)
      <4>1. device'[c] = Keeps(h, c)
        BY <3>1 DEF Handle, Keeps
      <4> QED BY <1>1, <4>1 DEF Keeps, Device
    <3>2. CASE Abort(h) \/ DropAnswer(h)
      BY <3>2 DEF Abort, DropAnswer
    <3> QED BY <1>7, <3>1, <3>2
  <2> QED BY <1>2, <2>1
<1>8. ~Environment
  BY <1>2 DEF Environment
<1>9. PICK d \in Clients, h \in Handlers : Answer(d, h)
  BY <1>3, <1>4, <1>5, <1>6, <1>7, <1>8 DEF Next
<1>10. d = c
  <2> SUFFICES ASSUME d # c PROVE FALSE
    OBVIOUS
  <2>1. device'[c] = device[c]
    BY <1>1, <1>9 DEF Answer
  <2> QED BY <1>2, <2>1
<1>11. CASE At(h, "failed") /\ device' = [device EXCEPT ![c] = Failed(c)]
  <2>1. device'[c].troubled
    BY <1>1, <1>11, FormFields
  <2> QED BY <1>2, <2>1
<1>12. CASE At(h, "done") /\ device' = [device EXCEPT ![c].pc = "post", ![c].handler = NoHandler]
  <2>1. device'[c].pc = "post"
    BY <1>1, <1>12 DEF Device
  <2> QED BY <1>2, <2>1
<1>13. CASE At(h, "done") /\ device[c].todo = {}
  BY <1>9, <1>10, <1>13 DEF Answer
<1> QED BY <1>9, <1>10, <1>11, <1>12, <1>13 DEF Answer

LEMMA SavedStep ==
  ASSUME OrderInv, DeviceInv, [Next]_vars, NEW c \in Clients, device[c].pc = "wait",
         device'[c] = Saved(c), NEW s \in SuppliersOf(device[c].cart)
  PROVE  TimesKept(c, device[c].sent, s) = 1
<1> DEFINE R == device[c].sent
           S == {x \in device[c].kept : x[1] = s /\ x[2] \in R}
<1>1. IsKept(c, s)
  <2>1. Accounted(c) /\ device[c].todo = {} /\ At(device[c].handler, "done")
    BY SavedByAnswer DEF DeviceInv, Orderly
  <2>2. ~UnderWay(c, s)
    BY <2>1 DEF UnderWay, Busy, At, InTransaction
  <2> QED BY <2>1, <2>2 DEF Accounted
<1>2. S # {}
  BY <1>1 DEF IsKept
<1>3. \A x, y \in S : x = y
  BY SentOnce
<1> HIDE DEF S
<1>4. Cardinality(S) = 1
  BY <1>2, <1>3, AtMostOne
<1> QED BY <1>4 DEF TimesKept, S

THEOREM SavedTheorem == Spec => SavedMeansCounted
<1> DEFINE Act ==
      \A c \in Clients :
         device[c].pc = "wait" /\ device'[c] = Saved(c) =>
           \A s \in SuppliersOf(device[c].cart) : TimesKept(c, device[c].sent, s) = 1
<1>1. OrderInv /\ DeviceInv /\ [Next]_vars => Act
  BY SavedStep
<1> HIDE DEF Act
<1>2. [][Act]_vars => SavedMeansCounted
  BY PTL DEF SavedMeansCounted, Act
<1>3. Spec => [][Act]_vars
  BY <1>1, OrderInvariant, DeviceInvariant, PTL DEF Spec
<1> QED BY <1>2, <1>3, PTL

-----------------------------------------------------------------------------
(* Total adds up the quantities of a set of rows.                           *)
Total(S) == MapThenSumSet(LAMBDA r : r.quantity, S)

QuantityOf(S) == [r \in S |-> r.quantity]

LEMMA TotalIsSum == ASSUME NEW S, IsFiniteSet(S), NEW w, \A r \in S : w[r] = r.quantity
                    PROVE  Total(S) = SumOf(w, S)
<1> DEFINE Term(f, s) == IF s = {} THEN 0 ELSE OneOf(s).quantity + f[s \ {OneOf(s)}]
           Gives(f) == f = [s \in SUBSET S |-> Term(f, s)]
           M == CHOOSE f : Gives(f)
<1>1. Total(S) = M[S]
  BY DEF Total, MapThenSumSet, MapThenFoldSet, OneOf
<1>2. ASSUME NEW f PROVE Gives(f) <=> Adds(f, w, S)
  <2> DEFINE Added(s) == IF s = {} THEN 0 ELSE w[OneOf(s)] + f[s \ {OneOf(s)}]
  <2>1. \A s \in SUBSET S : Added(s) = Term(f, s)
    <3> SUFFICES ASSUME NEW s \in SUBSET S PROVE Added(s) = Term(f, s)
      OBVIOUS
    <3>1. CASE s = {}
      BY <3>1
    <3>2. CASE s # {}
      <4>1. OneOf(s) \in S
        BY <3>2, OneOfIn
      <4> QED BY <4>1
    <3> QED BY <3>1, <3>2
  <2>2. Adds(f, w, S) <=> f = [s \in SUBSET S |-> Added(s)]
    BY DEF Adds
  <2> HIDE DEF Added, Term
  <2>3. [s \in SUBSET S |-> Added(s)] = [s \in SUBSET S |-> Term(f, s)]
    BY <2>1
  <2> QED BY <2>2, <2>3
<1>3. Adds(Adder(w, S), w, S)
  BY AdderAdds
<1> HIDE DEF Gives
<1>4. Gives(M)
  BY <1>2, <1>3
<1>5. Adds(M, w, S)
  BY <1>2, <1>4
<1>6. M[S] = Adder(w, S)[S]
  <2> HIDE DEF M
  <2>1. S \subseteq S
    OBVIOUS
  <2> QED BY <1>3, <1>5, <2>1, AddsOnce
<1> QED BY <1>1, <1>6, SumIsFold

LEMMA QuantityIs == ASSUME NEW S PROVE \A r \in S : QuantityOf(S)[r] = r.quantity
BY DEF QuantityOf

LEMMA TotalOfNone == Total({}) = 0
BY TotalIsSum, QuantityIs, SumOfNone, FS_EmptySet

LEMMA TotalIsNat ==
  ASSUME NEW S, IsFiniteSet(S), \A x \in S : x.quantity \in Nat
  PROVE  Total(S) \in Nat
<1>1. \A x \in S : QuantityOf(S)[x] \in Nat
  BY QuantityIs
<1>2. SumOf(QuantityOf(S), S) \in Nat
  BY <1>1, SumIsNat
<1> QED BY <1>2, TotalIsSum, QuantityIs

LEMMA TotalBounds ==
  ASSUME NEW S, IsFiniteSet(S), \A x \in S : x.quantity \in Nat, NEW x \in S
  PROVE  Total(S) >= x.quantity
<1>1. (\A y \in S : QuantityOf(S)[y] \in Nat) /\ QuantityOf(S)[x] = x.quantity
  BY QuantityIs
<1>2. SumOf(QuantityOf(S), S) >= x.quantity
  BY <1>1, SumBounds
<1> QED BY <1>2, TotalIsSum, QuantityIs

LEMMA TotalOfOne == ASSUME NEW x, x.quantity \in Nat PROVE Total({x}) = x.quantity
<1> DEFINE S == {x}
<1>1. IsFiniteSet(S)
  BY FS_Singleton
<1>2. QuantityOf(S)[x] = x.quantity /\ QuantityOf(S)[x] \in Int
  BY QuantityIs
<1>3. SumOf(QuantityOf(S), {x}) = x.quantity
  <2> HIDE DEF S
  <2> QED BY <1>2, SumOfOne
<1> QED BY <1>1, <1>3, TotalIsSum, QuantityIs

-----------------------------------------------------------------------------
(* The merge.  Of each article the items are finitely many, so the sums are *)
(* numbers; orders, too.                                                    *)
FiniteRows ==
    /\ IsFiniteSet(orders)
    /\ \A p \in Products : IsFiniteSet({r \in items : r.product = p})

InSlot(os, s) == {o \in os : o.supplier = s}
RowsIn(rows, ids) == {r \in rows : r.order \in ids}

First(t) == Min(Ids(t.seen))

(* An order belongs to one supplier as long as somebody knows its number:   *)
(* it is in the table, was read by a transaction or is about to be written. *)
Claims(t) ==
    {<<o.id, o.supplier>> : o \in t.seen}
    \cup (IF t.pc = "commit" THEN {<<t.upd, t.supplier>>} ELSE {})

Claimed ==
    {<<o.id, o.supplier>> : o \in orders} \cup UNION {Claims(task[h]) : h \in Handlers}

OneSupplier ==
    \A x, y \in Claimed : /\ x[1] \in 1 .. created
                          /\ x[1] = y[1] => x[2] = y[2]

(* A transaction writes to the orders of its supplier that it has read, or  *)
(* to a new one; and what it writes holds the submission.                   *)
Own(t) ==
    /\ \A o \in t.seen : o.supplier = t.supplier
    /\ t.gone \subseteq Ids(t.seen)
    /\ \A r \in t.aimed \cup t.cut : r.order \in Ids(t.seen)
    /\ t.pc \in {"read", "readItems", "fold"} => t.gone = {}
    /\ t.pc = "read" => t.seen = {}
    /\ t.pc \in {"fold", "aim", "cut", "rewrite"} => t.seen # {}
    /\ t.pc = "commit" => t.seen = {} \/ t.upd = First(t)
    /\ t.pc \in InTransaction \ {"read", "readItems"} =>
         \A p \in Products : t.merged[p] >= t.qty[p]

(* What a transaction has read is still so, unless it is stale.             *)
UpToDate(t, os, rows) ==
    t.pc \in InTransaction \ {"read"} /\ ~t.stale =>
      /\ t.seen = InSlot(os, t.supplier)
      /\ t.pc # "readItems" =>
           /\ t.merged = Plus(Sum(RowsIn(rows, Ids(t.seen))), t.qty)
           /\ t.by \in Listed(t.seen, t.who)
      /\ t.pc \in {"aim", "cut", "rewrite", "commit"} /\ t.seen # {} =>
           t.gone = Ids(t.seen) \ {First(t)}
      /\ t.pc = "cut" => t.aimed = RowsIn(rows, {First(t)})
      /\ t.pc \in {"rewrite", "commit"} /\ t.seen # {} =>
           t.cut = RowsIn(rows, {First(t)})

MergeInv ==
    /\ OrdersTypeOK
    /\ FiniteRows
    /\ OneSupplier
    /\ \A h \in Handlers : Own(task[h]) /\ UpToDate(task[h], orders, items)

-----------------------------------------------------------------------------
(* Sums of rows.                                                            *)
LEMMA SumAt ==
  ASSUME NEW rows, NEW p \in Products
  PROVE  Sum(rows)[p] = Total({r \in rows : r.product = p})
BY DEF Sum, Total

LEMMA SumTyped ==
  ASSUME NEW rows, rows \subseteq ItemRow,
         \A p \in Products : IsFiniteSet({r \in rows : r.product = p})
  PROVE  Sum(rows) \in Quantities
<1>1. ASSUME NEW p \in Products
      PROVE  MapThenSumSet(LAMBDA r : r.quantity, {r \in rows : r.product = p}) \in Nat
  <2> DEFINE S == {r \in rows : r.product = p}
  <2>1. \A r \in S : r.quantity \in Nat
    BY DEF ItemRow
  <2>2. IsFiniteSet(S)
    OBVIOUS
  <2> HIDE DEF S
  <2>3. Total(S) \in Nat
    BY <2>1, <2>2, TotalIsNat
  <2> QED BY <2>3 DEF Total, S
<1> QED BY <1>1 DEF Sum, Quantities

LEMMA PlusTyped ==
  ASSUME NEW q \in Quantities, NEW r \in Quantities
  PROVE  /\ Plus(q, r) \in Quantities
         /\ \A p \in Products : Plus(q, r)[p] = q[p] + r[p] /\ Plus(q, r)[p] >= r[p]
BY DEF Plus, Quantities

LEMMA RowsInFinite ==
  ASSUME FiniteRows, OrdersTypeOK, NEW ids
  PROVE  Sum(RowsIn(items, ids)) \in Quantities
<1> DEFINE rows == RowsIn(items, ids)
<1>1. rows \subseteq items /\ items \subseteq ItemRow
  BY DEF RowsIn, OrdersTypeOK
<1>2. ASSUME NEW p \in Products PROVE IsFiniteSet({r \in rows : r.product = p})
  <2>1. {r \in rows : r.product = p} \subseteq {r \in items : r.product = p}
    BY <1>1
  <2>2. IsFiniteSet({r \in items : r.product = p})
    BY DEF FiniteRows
  <2> QED BY <2>1, <2>2, FS_Subset
<1> HIDE DEF rows
<1>3. rows \subseteq ItemRow
  BY <1>1
<1>4. Sum(rows) \in Quantities
  BY <1>2, <1>3, SumTyped
<1> QED BY <1>4 DEF rows

(* The tables in the words of the model.                                    *)
LEMMA InWords ==
  /\ \A s : OrdersOf(s) = InSlot(orders, s)
  /\ \A ids : RowsOf(ids) = RowsIn(items, ids)
  /\ \A s : Ordered(s) = Sum(RowsIn(items, Ids(InSlot(orders, s))))
  /\ \A s : Contributors(s) = NamesOf(InSlot(orders, s))
  /\ \A h : Primary(h) = First(task[h]) /\ Duplicates(h) = Ids(task[h].seen) \ {First(task[h])}
BY DEF OrdersOf, RowsOf, Ordered, Contributors, InSlot, RowsIn, Primary, Duplicates, First

LEMMA FirstIn ==
  ASSUME NEW t \in Task, t.seen # {}
  PROVE  First(t) \in Ids(t.seen) /\ First(t) \in Nat
<1> DEFINE I == Ids(t.seen)
<1>1. I \subseteq Nat /\ I # {}
  BY DEF Ids, Task, OrderRow
<1> HIDE DEF I
<1>2. PICK k \in I : TRUE
  BY <1>1
<1> DEFINE T == {0 .. n : n \in {m \in I : m <= k}}
<1>3. PICK n \in I : n <= k /\ \A u \in T : u \subseteq 0 .. n => u = 0 .. n
  <2>1. IsFiniteSet(0 .. k)
    <3>1. 0 \in Int /\ k \in Int
      BY <1>1
    <3> QED BY <3>1, FS_Interval, Zenon
  <2>2. T \subseteq SUBSET (0 .. k)
    <3> SUFFICES ASSUME NEW m \in I, m <= k PROVE 0 .. m \subseteq 0 .. k
      OBVIOUS
    <3>1. m \in Nat /\ k \in Nat
      BY <1>1
    <3> QED BY <3>1
  <2>4. 0 .. k \in T
    BY <1>1, <1>2
  <2> DEFINE K == 0 .. k
  <2>5. IsFiniteSet(K) /\ T \subseteq SUBSET K /\ T # {}
    BY <2>1, <2>2, <2>4
  <2> HIDE DEF T, K
  <2>3. PICK t0 \in T : \A u \in T : u \subseteq t0 => u = t0
    BY <2>5, LeastSubset
  <2> QED BY <2>3 DEF T
<1>5. \A m \in I : n <= m
  <2> SUFFICES ASSUME NEW m \in I, m < n PROVE FALSE
    BY <1>1
  <2>1. m \in Nat /\ n \in Nat /\ k \in Nat
    BY <1>1
  <2>2. 0 .. m \in T
    BY <1>3, <2>1
  <2>3. 0 .. m \subseteq 0 .. n /\ n \in 0 .. n /\ n \notin 0 .. m
    BY <2>1
  <2> QED BY <1>3, <2>2, <2>3
<1>4. Min(I) \in I
  BY <1>5 DEF Min
<1> QED BY <1>1, <1>4 DEF First, I

LEMMA OnlyOne ==
  ASSUME NEW t \in Task, t.seen # {}, IsFiniteSet(t.seen), ~(Cardinality(t.seen) > 1)
  PROVE  Ids(t.seen) \ {First(t)} = {}
<1>1. Cardinality(t.seen) \in Nat /\ Cardinality(t.seen) # 0
  BY FS_CardinalityType, FS_EmptySet
<1>2. Cardinality(t.seen) = 1
  BY <1>1
<1>3. PICK x : t.seen = {x}
  BY <1>2, FS_Singleton
<1>4. Ids(t.seen) = {x.id}
  BY <1>3 DEF Ids
<1> QED BY <1>4, FirstIn

(* Of a request that nothing has been read for.                             *)
Blank(r) ==
    /\ r.seen = {} /\ r.gone = {} /\ r.aimed = {} /\ r.cut = {}
    /\ r.pc \in {"idle", "done", "failed", "read"}

LEMMA BlankIs ==
  ASSUME NEW r, Blank(r), NEW os, NEW rows
  PROVE  Claims(r) = {} /\ Own(r) /\ UpToDate(r, os, rows)
BY DEF Blank, Claims, Own, UpToDate, InTransaction, Ids

LEMMA IdleTyped ==
  ASSUME catalog \in Catalogs
  PROVE  /\ Idle \in Task /\ Blank(Idle)
         /\ \A l \in {"done", "failed"} : Answered(l) \in Task /\ Blank(Answered(l))
<1>1. (CHOOSE n \in Names : TRUE) \in Names
  BY OrderConstants
<1>2. (CHOOSE s \in Suppliers : TRUE) \in Suppliers
  <2>1. catalog \in Catalogs /\ catalog # {} /\ catalog \subseteq Products
    BY OrderConstants
  <2>2. PICK p \in catalog : TRUE
    BY <2>1
  <2>3. SupplierOf[p] \in Suppliers
    BY <2>1, <2>2, OrderConstants
  <2> QED BY <2>3
<1>3. Nothing \in Quantities
  BY DEF Nothing, Quantities
<1> DEFINE n0 == CHOOSE n \in Names : TRUE
           s0 == CHOOSE s \in Suppliers : TRUE
<1>4. Idle = [pc |-> "idle", who |-> n0, post |-> 0, supplier |-> s0, qty |-> Nothing,
              seen |-> {}, merged |-> Nothing, by |-> {}, gone |-> {},
              aimed |-> {}, cut |-> {}, upd |-> 0, stale |-> FALSE]
  BY DEF Idle, NoOrder
<1> HIDE DEF n0, s0
<1>5. n0 \in Names /\ s0 \in Suppliers
  BY <1>1, <1>2 DEF n0, s0
<1>6. Idle \in Task /\ Blank(Idle)
  BY <1>3, <1>4, <1>5 DEF Task, Labels, Blank
<1>7. ASSUME NEW l \in {"done", "failed"} PROVE Answered(l) \in Task /\ Blank(Answered(l))
  BY <1>6 DEF Answered, Task, Labels, Blank
<1> QED BY <1>6, <1>7

-----------------------------------------------------------------------------
(* The steps of the merge.                                                  *)
LEMMA MergeFacts ==
  ASSUME MergeInv
  PROVE  /\ orders \subseteq OrderRow /\ items \subseteq ItemRow
         /\ created \in Nat /\ posted \in Nat /\ catalog \in Catalogs
         /\ task \in [Handlers -> Task] /\ FiniteRows /\ OneSupplier
         /\ \A h \in Handlers : Own(task[h]) /\ UpToDate(task[h], orders, items)
BY DEF MergeInv, OrdersTypeOK

LEMMA OneTask ==
  ASSUME MergeInv, NEW h \in Handlers, NEW r \in Task,
         task' = [task EXCEPT ![h] = r], orders' = orders, items' = items,
         catalog' \in Catalogs, posted' \in Nat, created' \in {created, created + 1},
         \A x \in Claims(r) : x \in Claimed \/ (created' # created /\ x = <<created', r.supplier>>),
         Own(r), UpToDate(r, orders, items)
  PROVE  MergeInv'
<1>1. \A g \in Handlers : task'[g] = IF g = h THEN r ELSE task[g]
  BY MergeFacts
<1>2. OrdersTypeOK'
  BY MergeFacts DEF OrdersTypeOK
<1>3. FiniteRows'
  BY MergeFacts DEF FiniteRows
<1>4. OneSupplier'
  <2>1. \A x \in Claimed' : x \in Claimed \/ (created' # created /\ x = <<created', r.supplier>>)
    <3> TAKE x \in Claimed'
    <3>1. CASE x \in {<<o.id, o.supplier>> : o \in orders}
      BY <3>1 DEF Claimed
    <3>2. CASE \E g \in Handlers : x \in Claims(task'[g])
      BY <1>1, <3>2 DEF Claimed
    <3> QED BY <3>1, <3>2 DEF Claimed
  <2>2. \A x, y \in Claimed : x[1] \in 1 .. created /\ (x[1] = y[1] => x[2] = y[2])
    BY MergeFacts DEF OneSupplier
  <2>3. created \in Nat
    BY MergeFacts
  <2> SUFFICES ASSUME NEW x \in Claimed', NEW y \in Claimed'
               PROVE  x[1] \in 1 .. created' /\ (x[1] = y[1] => x[2] = y[2])
    BY DEF OneSupplier
  <2>4. CASE x \in Claimed /\ y \in Claimed
    BY <2>2, <2>3, <2>4
  <2>5. CASE x \in Claimed /\ y \notin Claimed
    <3>1. y[1] = created + 1 /\ created' = created + 1
      BY <2>1, <2>5
    <3> QED BY <2>2, <2>3, <2>5, <3>1
  <2>6. CASE x \notin Claimed /\ y \in Claimed
    <3>1. x[1] = created + 1 /\ created' = created + 1
      BY <2>1, <2>6
    <3> QED BY <2>2, <2>3, <2>6, <3>1
  <2>7. CASE x \notin Claimed /\ y \notin Claimed
    <3>1. x = y /\ x[1] = created + 1 /\ created' = created + 1
      BY <2>1, <2>7
    <3> QED BY <2>3, <3>1
  <2> QED BY <2>4, <2>5, <2>6, <2>7
<1>5. ASSUME NEW g \in Handlers PROVE Own(task'[g]) /\ UpToDate(task'[g], orders', items')
  BY <1>1, MergeFacts
<1> QED BY <1>2, <1>3, <1>4, <1>5 DEF MergeInv

LEMMA BlankTask ==
  ASSUME MergeInv, NEW h \in Handlers, NEW r \in Task, Blank(r),
         task' = [task EXCEPT ![h] = r], orders' = orders, items' = items,
         catalog' \in Catalogs, posted' \in Nat, created' = created
  PROVE  MergeInv'
<1>1. Claims(r) = {} /\ Own(r) /\ UpToDate(r, orders, items)
  BY BlankIs
<1> QED BY <1>1, OneTask

LEMMA MergeRests ==
  ASSUME MergeInv, UNCHANGED <<orders, items, created, task>>,
         catalog' \in Catalogs, posted' \in Nat
  PROVE  MergeInv'
BY DEF MergeInv, OrdersTypeOK, FiniteRows, OneSupplier, Claimed

LEMMA ReadOrdersMerge ==
  ASSUME MergeInv, NEW h \in Handlers, ReadOrders(h)
  PROVE  MergeInv'
<1> DEFINE v == InSlot(orders, task[h].supplier)
           r == [task[h] EXCEPT !.seen = v, !.pc = "readItems"]
<1>1. task[h] \in Task /\ task[h].pc = "read" /\ Own(task[h])
  BY MergeFacts DEF ReadOrders, At
<1>2. v \subseteq orders /\ v \subseteq OrderRow /\ \A o \in v : o.supplier = task[h].supplier
  BY MergeFacts DEF InSlot
<1>3. task' = [task EXCEPT ![h] = r]
  BY MergeFacts, InWords DEF ReadOrders
<1> HIDE DEF v
<1>4. r \in Task
  BY <1>1, <1>2 DEF Task, Labels, InTransaction
<1>5. /\ r.pc = "readItems" /\ r.seen = v /\ r.supplier = task[h].supplier
      /\ r.gone = task[h].gone /\ r.aimed = task[h].aimed /\ r.cut = task[h].cut
  BY <1>1 DEF Task
<1> HIDE DEF r
<1>6. task[h].gone = {} /\ task[h].aimed = {} /\ task[h].cut = {}
    BY <1>1 DEF Own, Ids
<1>7. Own(r)
  BY <1>2, <1>5, <1>6 DEF Own, InTransaction
<1>8. UpToDate(r, orders, items)
  BY <1>5 DEF UpToDate, v
<1>9. \A x \in Claims(r) : x \in Claimed
  BY <1>2, <1>5 DEF Claims, Claimed
<1>10. orders' = orders /\ items' = items /\ catalog' = catalog /\ posted' = posted
       /\ created' = created
  BY DEF ReadOrders
<1> QED BY <1>3, <1>4, <1>7, <1>8, <1>9, <1>10, MergeFacts, OneTask

LEMMA ReadItemsMerge ==
  ASSUME MergeInv, NEW h \in Handlers, ReadItems(h)
  PROVE  MergeInv'
<1> DEFINE t == task[h]
           m == Plus(Sum(RowsIn(items, Ids(t.seen))), t.qty)
           l == IF t.seen = {} THEN "create"
                ELSE IF Cardinality(t.seen) > 1 THEN "fold" ELSE "aim"
           r(b) == [t EXCEPT !.merged = m, !.by = b, !.pc = l]
<1>1. t \in Task /\ t.pc = "readItems" /\ Own(t) /\ UpToDate(t, orders, items)
  BY MergeFacts DEF ReadItems, At
<1>2. PICK b \in Listed(t.seen, t.who) : task' = [task EXCEPT ![h] = r(b)]
  <2>1. Merged(h) = m
    <3>1. RowsOf(Ids(t.seen)) = RowsIn(items, Ids(t.seen))
      BY InWords
    <3> QED BY <3>1 DEF Merged
  <2>2. PICK b \in Listed(t.seen, t.who) :
          task' = [task EXCEPT ![h].merged = m, ![h].by = b, ![h].pc = l]
    BY <2>1 DEF ReadItems
  <2> HIDE DEF m, l
  <2>3. task' = [task EXCEPT ![h] = r(b)]
    BY <2>2, MergeFacts
  <2> QED BY <2>3
<1>3. t.qty \in Quantities /\ t.who \in Names /\ t.seen \subseteq OrderRow
  BY <1>1 DEF Task
<1>4. m \in Quantities /\ \A p \in Products : m[p] >= t.qty[p]
  BY <1>3, MergeFacts, RowsInFinite, PlusTyped DEF MergeInv
<1>5. b \subseteq Names
  <2>1. b \subseteq NamesOf(t.seen) \cup {t.who}
    BY DEF Listed
  <2>2. NamesOf(t.seen) \subseteq Names
    BY <1>3 DEF NamesOf, OrderRow
  <2> QED BY <1>3, <2>1, <2>2
<1>6. /\ l \in {"create", "fold", "aim"} /\ l \in Labels
      /\ l # "create" => t.seen # {}
      /\ l = "aim" => ~(Cardinality(t.seen) > 1)
  BY DEF Labels, InTransaction
<1> HIDE DEF m, l
<1> DEFINE q == r(b)
<1>13. task' = [task EXCEPT ![h] = q]
  BY <1>2
<1>7. q \in Task
  BY <1>1, <1>4, <1>5, <1>6 DEF Task
<1>8. /\ q.pc = l /\ q.merged = m /\ q.by = b /\ q.seen = t.seen /\ q.supplier = t.supplier
      /\ q.gone = t.gone /\ q.aimed = t.aimed /\ q.cut = t.cut /\ q.qty = t.qty
      /\ q.who = t.who /\ q.stale = t.stale
  BY <1>1 DEF Task
<1> HIDE DEF q
<1>9. Own(q)
  <2>1. t.gone = {}
    BY <1>1 DEF Own
  <2> QED BY <1>1, <1>4, <1>6, <1>8, <2>1 DEF Own
<1>10. UpToDate(q, orders, items)
  <2> SUFFICES ASSUME ~t.stale PROVE UpToDate(q, orders, items)
    BY <1>8 DEF UpToDate
  <2>1. t.seen = InSlot(orders, t.supplier) /\ t.gone = {}
    BY <1>1 DEF UpToDate, Own, InTransaction
  <2>2. ASSUME l = "aim" PROVE Ids(q.seen) \ {First(q)} = {}
    <3>1. IsFiniteSet(t.seen)
      <4>1. t.seen \subseteq orders
        BY <2>1 DEF InSlot
      <4> QED BY <4>1, MergeFacts, FS_Subset DEF FiniteRows
    <3>2. Ids(t.seen) \ {First(t)} = {}
      BY <1>1, <1>6, <2>2, <3>1, OnlyOne
    <3> QED BY <1>8, <3>2 DEF First
  <2>3. q.merged = Plus(Sum(RowsIn(items, Ids(q.seen))), q.qty)
        /\ q.by \in Listed(q.seen, q.who)
    BY <1>2, <1>8 DEF m
  <2> QED BY <1>6, <1>8, <2>1, <2>2, <2>3 DEF UpToDate
<1>11. \A x \in Claims(q) : x \in Claimed
  <2>1. Claims(q) \subseteq Claims(t)
    BY <1>6, <1>8 DEF Claims
  <2> QED BY <2>1 DEF Claimed
<1>12. orders' = orders /\ items' = items /\ catalog' = catalog /\ posted' = posted
       /\ created' = created
  BY DEF ReadItems
<1> QED BY <1>7, <1>9, <1>10, <1>11, <1>12, <1>13, MergeFacts, OneTask

LEMMA CreateOrderMerge ==
  ASSUME MergeInv, NEW h \in Handlers, CreateOrder(h), task[h].seen = {}
  PROVE  MergeInv'
<1> DEFINE t == task[h]
           n == created + 1
           r == [t EXCEPT !.upd = n, !.pc = "commit"]
<1>1. t \in Task /\ t.pc = "create" /\ Own(t) /\ UpToDate(t, orders, items)
  BY MergeFacts DEF CreateOrder, At
<1>2. task' = [task EXCEPT ![h] = r]
  BY MergeFacts DEF CreateOrder
<1>3. n \in Nat /\ n # created
  BY MergeFacts
<1> HIDE DEF n
<1>4. r \in Task
  BY <1>1, <1>3 DEF Task, Labels, InTransaction
<1>5. /\ r.pc = "commit" /\ r.merged = t.merged /\ r.by = t.by /\ r.seen = {}
      /\ r.supplier = t.supplier /\ r.gone = t.gone /\ r.aimed = t.aimed /\ r.cut = t.cut
      /\ r.qty = t.qty /\ r.who = t.who /\ r.stale = t.stale /\ r.upd = n
  BY <1>1 DEF Task
<1> HIDE DEF r
<1>6. Own(r)
  BY <1>1, <1>5 DEF Own, InTransaction, Ids
<1>7. UpToDate(r, orders, items)
  BY <1>1, <1>5 DEF UpToDate, InTransaction
<1>8. orders' = orders /\ items' = items /\ catalog' = catalog /\ posted' = posted
      /\ created' = n
  BY DEF CreateOrder, n
<1>9. \A x \in Claims(r) : created' # created /\ x = <<created', r.supplier>>
  BY <1>3, <1>5, <1>8 DEF Claims
<1>10. created' \in {created, created + 1}
  BY <1>8 DEF n
<1> QED BY <1>2, <1>4, <1>6, <1>7, <1>8, <1>9, <1>10, MergeFacts, OneTask

LEMMA FoldMerge ==
  ASSUME MergeInv, NEW h \in Handlers, FoldDuplicates(h)
  PROVE  MergeInv'
<1> DEFINE t == task[h]
           d == (Ids(t.seen) \ {First(t)}) \cap Ids(orders)
           r == [t EXCEPT !.gone = d, !.pc = "aim"]
<1>1. t \in Task /\ t.pc = "fold" /\ Own(t) /\ UpToDate(t, orders, items)
  BY MergeFacts DEF FoldDuplicates, At
<1>2. task' = [task EXCEPT ![h] = r]
  BY MergeFacts, InWords DEF FoldDuplicates
<1>3. d \subseteq Ids(t.seen) /\ d \subseteq Nat
  BY <1>1 DEF Ids, Task, OrderRow
<1>4. ~t.stale => d = Ids(t.seen) \ {First(t)}
  <2> SUFFICES ASSUME ~t.stale PROVE Ids(t.seen) \subseteq Ids(orders)
    OBVIOUS
  <2>1. t.seen \subseteq orders
    BY <1>1 DEF UpToDate, InTransaction, InSlot
  <2> QED BY <2>1 DEF Ids
<1> HIDE DEF d
<1>5. r \in Task
  BY <1>1, <1>3 DEF Task, Labels, InTransaction
<1>6. /\ r.pc = "aim" /\ r.merged = t.merged /\ r.by = t.by /\ r.seen = t.seen
      /\ r.supplier = t.supplier /\ r.gone = d /\ r.aimed = t.aimed /\ r.cut = t.cut
      /\ r.qty = t.qty /\ r.who = t.who /\ r.stale = t.stale /\ First(r) = First(t)
  BY <1>1 DEF Task, First
<1> HIDE DEF r
<1>7. Own(r)
  BY <1>1, <1>3, <1>6 DEF Own, InTransaction
<1>8. UpToDate(r, orders, items)
  BY <1>1, <1>4, <1>6 DEF UpToDate, InTransaction
<1>9. \A x \in Claims(r) : x \in Claimed
  <2>1. Claims(r) \subseteq Claims(t)
    BY <1>6 DEF Claims
  <2> QED BY <2>1 DEF Claimed
<1>10. orders' = orders /\ items' = items /\ catalog' = catalog /\ posted' = posted
       /\ created' = created
  BY DEF FoldDuplicates
<1> QED BY <1>2, <1>5, <1>7, <1>8, <1>9, <1>10, MergeFacts, OneTask

LEMMA AimMerge ==
  ASSUME MergeInv, NEW h \in Handlers, AimAtItems(h)
  PROVE  MergeInv'
<1> DEFINE t == task[h]
           a == RowsIn(items, {First(t)})
           r == [t EXCEPT !.aimed = a, !.pc = "cut"]
<1>1. t \in Task /\ t.pc = "aim" /\ Own(t) /\ UpToDate(t, orders, items)
  BY MergeFacts DEF AimAtItems, At
<1>2. task' = [task EXCEPT ![h] = r]
  BY MergeFacts, InWords DEF AimAtItems
<1>3. a \subseteq ItemRow /\ \A x \in a : x.order = First(t)
  BY MergeFacts DEF RowsIn
<1>4. First(t) \in Ids(t.seen)
  BY <1>1, FirstIn DEF Own
<1> HIDE DEF a
<1>5. r \in Task
  BY <1>1, <1>3 DEF Task, Labels, InTransaction
<1>6. /\ r.pc = "cut" /\ r.merged = t.merged /\ r.by = t.by /\ r.seen = t.seen
      /\ r.supplier = t.supplier /\ r.gone = t.gone /\ r.aimed = a /\ r.cut = t.cut
      /\ r.qty = t.qty /\ r.who = t.who /\ r.stale = t.stale /\ First(r) = First(t)
  BY <1>1 DEF Task, First
<1> HIDE DEF r
<1>7. Own(r)
  BY <1>1, <1>3, <1>4, <1>6 DEF Own, InTransaction
<1>8. UpToDate(r, orders, items)
  <2>1. a = RowsIn(items, {First(r)})
    BY <1>6 DEF a
  <2> QED BY <1>1, <1>6, <2>1 DEF UpToDate, InTransaction
<1>9. \A x \in Claims(r) : x \in Claimed
  <2>1. Claims(r) \subseteq Claims(t)
    BY <1>6 DEF Claims
  <2> QED BY <2>1 DEF Claimed
<1>10. orders' = orders /\ items' = items /\ catalog' = catalog /\ posted' = posted
       /\ created' = created
  BY DEF AimAtItems
<1> QED BY <1>2, <1>5, <1>7, <1>8, <1>9, <1>10, MergeFacts, OneTask

LEMMA CutMerge ==
  ASSUME MergeInv, NEW h \in Handlers, CutItems(h)
  PROVE  MergeInv'
<1> DEFINE t == task[h]
           c == t.aimed \cap items
           r == [t EXCEPT !.cut = c, !.aimed = {}, !.pc = "rewrite"]
<1>1. t \in Task /\ t.pc = "cut" /\ Own(t) /\ UpToDate(t, orders, items)
  BY MergeFacts DEF CutItems, At
<1>2. task' = [task EXCEPT ![h] = r]
  BY MergeFacts DEF CutItems
<1>3. c \subseteq ItemRow /\ c \subseteq t.aimed
  BY MergeFacts
<1>4. ~t.stale => c = RowsIn(items, {First(t)})
  BY <1>1 DEF UpToDate, InTransaction, RowsIn
<1> HIDE DEF c
<1>5. r \in Task
  BY <1>1, <1>3 DEF Task, Labels, InTransaction
<1>6. /\ r.pc = "rewrite" /\ r.merged = t.merged /\ r.by = t.by /\ r.seen = t.seen
      /\ r.supplier = t.supplier /\ r.gone = t.gone /\ r.aimed = {} /\ r.cut = c
      /\ r.qty = t.qty /\ r.who = t.who /\ r.stale = t.stale /\ First(r) = First(t)
  BY <1>1 DEF Task, First
<1> HIDE DEF r
<1>7. Own(r)
  BY <1>1, <1>3, <1>6 DEF Own, InTransaction
<1>8. UpToDate(r, orders, items)
  BY <1>1, <1>4, <1>6 DEF UpToDate, InTransaction
<1>9. \A x \in Claims(r) : x \in Claimed
  <2>1. Claims(r) \subseteq Claims(t)
    BY <1>6 DEF Claims
  <2> QED BY <2>1 DEF Claimed
<1>10. orders' = orders /\ items' = items /\ catalog' = catalog /\ posted' = posted
       /\ created' = created
  BY DEF CutItems
<1> QED BY <1>2, <1>5, <1>7, <1>8, <1>9, <1>10, MergeFacts, OneTask

LEMMA RewriteMerge ==
  ASSUME MergeInv, NEW h \in Handlers, Rewrite(h), StillThere(h)
  PROVE  MergeInv'
<1> DEFINE t == task[h]
           f == First(t)
           r == [t EXCEPT !.upd = f, !.pc = "commit"]
<1>1. t \in Task /\ t.pc = "rewrite" /\ Own(t) /\ UpToDate(t, orders, items)
  BY MergeFacts DEF Rewrite, At
<1>2. task' = [task EXCEPT ![h] = r]
  BY MergeFacts, InWords DEF Rewrite
<1>3. f \in Ids(t.seen) /\ f \in Nat /\ t.seen # {}
  BY <1>1, FirstIn DEF Own
<1> HIDE DEF f
<1>5. r \in Task
  BY <1>1, <1>3 DEF Task, Labels, InTransaction
<1>6. /\ r.pc = "commit" /\ r.merged = t.merged /\ r.by = t.by /\ r.seen = t.seen
      /\ r.supplier = t.supplier /\ r.gone = t.gone /\ r.aimed = t.aimed /\ r.cut = t.cut
      /\ r.qty = t.qty /\ r.who = t.who /\ r.stale = t.stale /\ First(r) = First(t)
      /\ r.upd = f /\ First(r) = f
  BY <1>1 DEF Task, First, f
<1> HIDE DEF r
<1>7. Own(r)
  BY <1>1, <1>3, <1>6 DEF Own, InTransaction
<1>8. UpToDate(r, orders, items)
  BY <1>1, <1>6 DEF UpToDate, InTransaction
<1>9. \A x \in Claims(r) : x \in Claimed
  <2>1. PICK o \in t.seen : o.id = f
    BY <1>3 DEF Ids
  <2>2. o.supplier = t.supplier
    BY <1>1 DEF Own
  <2>3. Claims(r) \subseteq Claims(t)
    BY <1>6, <2>1, <2>2 DEF Claims
  <2> QED BY <2>3 DEF Claimed
<1>10. orders' = orders /\ items' = items /\ catalog' = catalog /\ posted' = posted
       /\ created' = created
  BY DEF Rewrite
<1> QED BY <1>2, <1>5, <1>7, <1>8, <1>9, <1>10, MergeFacts, OneTask

(* The commit.  An order another supplier's transaction writes is not ours. *)
LEMMA CommitOrders ==
  ASSUME MergeInv, NEW h \in Handlers, Commit(h)
  PROVE  /\ task[h] \in Task /\ task[h].pc = "commit" /\ Own(task[h])
         /\ UpToDate(task[h], orders, items)
         /\ \A i \in task[h].gone \cup {task[h].upd} : <<i, task[h].supplier>> \in Claimed
         /\ \A r \in task[h].cut : <<r.order, task[h].supplier>> \in Claimed
         /\ \A o \in task[h].seen : <<o.id, task[h].supplier>> \in Claimed
<1> DEFINE t == task[h]
<1>1. t \in Task /\ t.pc = "commit" /\ Own(t) /\ UpToDate(t, orders, items)
  BY MergeFacts DEF Commit, At
<1>2. Claims(t) \subseteq Claimed
  BY DEF Claimed
<1>3. <<t.upd, t.supplier>> \in Claimed
  BY <1>1, <1>2 DEF Claims
<1>4. \A i \in Ids(t.seen) : <<i, t.supplier>> \in Claimed
  <2> TAKE i \in Ids(t.seen)
  <2>1. PICK o \in t.seen : o.id = i
    BY DEF Ids
  <2>2. o.supplier = t.supplier /\ <<o.id, o.supplier>> \in Claims(t)
    BY <1>1 DEF Own, Claims
  <2> QED BY <1>2, <2>1, <2>2
<1>5. t.gone \subseteq Ids(t.seen) /\ \A r \in t.cut : r.order \in Ids(t.seen)
  BY <1>1 DEF Own
<1>6. \A o \in t.seen : o.id \in Ids(t.seen)
  BY DEF Ids
<1> QED BY <1>1, <1>3, <1>4, <1>5, <1>6

LEMMA WrittenTyped ==
  ASSUME MergeInv, NEW h \in Handlers, Commit(h)
  PROVE  /\ Written(h) \subseteq ItemRow
         /\ \A r \in Written(h) : r.order = task[h].upd
         /\ \A p \in Products :
              \/ {r \in Written(h) : r.product = p} = {} /\ task[h].merged[p] = 0
              \/ \E x : /\ {r \in Written(h) : r.product = p} = {x}
                        /\ x.quantity = task[h].merged[p]
<1> DEFINE t == task[h]
           row(p) == [order |-> t.upd, post |-> t.post, product |-> p,
                      quantity |-> t.merged[p]]
<1>1. t.upd \in Nat /\ t.post \in Nat /\ \A p \in Products : t.merged[p] \in Nat
  BY CommitOrders DEF Task, Quantities
<1>2. Written(h) = {row(p) : p \in {x \in Products : t.merged[x] > 0}}
  BY DEF Written
<1>3. \A p \in Products : /\ row(p).product = p /\ row(p).quantity = t.merged[p]
                          /\ row(p).order = t.upd
                          /\ t.merged[p] > 0 => row(p) \in ItemRow
  BY <1>1 DEF ItemRow
<1> HIDE DEF row
<1>4. ASSUME NEW p \in Products
      PROVE  \/ {r \in Written(h) : r.product = p} = {} /\ t.merged[p] = 0
             \/ \E x : /\ {r \in Written(h) : r.product = p} = {x}
                       /\ x.quantity = t.merged[p]
  <2>1. CASE t.merged[p] > 0
    <3>1. {r \in Written(h) : r.product = p} = {row(p)}
      BY <1>2, <1>3, <2>1
    <3> QED BY <1>3, <3>1
  <2>2. CASE ~(t.merged[p] > 0)
    <3>1. {r \in Written(h) : r.product = p} = {}
      BY <1>2, <1>3, <2>2
    <3>2. t.merged[p] = 0
      BY <1>1, <2>2
    <3> QED BY <3>1, <3>2
  <2> QED BY <2>1, <2>2
<1> QED BY <1>2, <1>3, <1>4

(* The rows of an order that is another supplier's stay.                    *)
LEMMA OthersRows ==
  ASSUME MergeInv, NEW h \in Handlers, Commit(h), NEW s, s # task[h].supplier
  PROVE  /\ InSlot(orders', s) = InSlot(orders, s)
         /\ \A ids : (\A i \in ids : <<i, s>> \in Claimed) =>
              RowsIn(items', ids) = RowsIn(items, ids)
<1> DEFINE t == task[h]
           new == [id |-> t.upd, supplier |-> t.supplier, by |-> t.by]
<1>1. \A i : <<i, s>> \in Claimed => i \notin t.gone \cup {t.upd}
  BY MergeFacts, CommitOrders DEF OneSupplier
<1>2. \A i : <<i, s>> \in Claimed => \A r \in t.cut : r.order # i
  BY MergeFacts, CommitOrders DEF OneSupplier
<1>3. orders' = {o \in orders : o.id \notin t.gone \cup {t.upd}} \cup {new}
  BY DEF Commit
<1>4. new.supplier # s
  OBVIOUS
<1> HIDE DEF new
<1>5. \A o \in orders : <<o.id, o.supplier>> \in Claimed
  BY DEF Claimed
<1>6. InSlot(orders', s) = InSlot(orders, s)
  BY <1>1, <1>3, <1>4, <1>5 DEF InSlot
<1>7. ASSUME NEW ids, \A i \in ids : <<i, s>> \in Claimed
      PROVE  RowsIn(items', ids) = RowsIn(items, ids)
  <2>1. \A r \in Written(h) : r.order = t.upd
    BY WrittenTyped
  <2>2. items' = {r \in items \ t.cut : r.order \notin t.gone} \cup Written(h)
    BY DEF Commit, Left
  <2>3. \A r : r.order \in ids => r \notin t.cut /\ r.order \notin t.gone /\ r.order # t.upd
    BY <1>1, <1>2, <1>7
  <2> QED BY <2>1, <2>2, <2>3 DEF RowsIn
<1> QED BY <1>6, <1>7

LEMMA CommitMerge ==
  ASSUME MergeInv, NEW h \in Handlers, Commit(h)
  PROVE  MergeInv'
<1> DEFINE t == task[h]
           new == [id |-> t.upd, supplier |-> t.supplier, by |-> t.by]
           old(g) == IF task[g].pc \in InTransaction \ {"read"} /\ SameSlot(g, h)
                     THEN [task[g] EXCEPT !.stale = TRUE] ELSE task[g]
<1>1. t \in Task
  BY CommitOrders
<1>2. /\ task' = [g \in Handlers |-> IF g = h THEN Answered("done") ELSE old(g)]
      /\ orders' = {o \in orders : o.id \notin t.gone \cup {t.upd}} \cup {new}
      /\ items' = {r \in items \ t.cut : r.order \notin t.gone} \cup Written(h)
      /\ catalog' = catalog /\ posted' = posted /\ created' = created
  BY DEF Commit, Left
<1>3. \A g \in Handlers : /\ old(g) \in Task /\ old(g).pc = task[g].pc
        /\ old(g).seen = task[g].seen /\ old(g).supplier = task[g].supplier
        /\ old(g).upd = task[g].upd
        /\ Claims(old(g)) = Claims(task[g]) /\ Own(old(g))
  <2> TAKE g \in Handlers
  <2>1. task[g] \in Task /\ Own(task[g])
    BY MergeFacts
  <2> DEFINE r == [task[g] EXCEPT !.stale = TRUE]
  <2>2. /\ r \in Task /\ r.pc = task[g].pc /\ r.seen = task[g].seen
        /\ r.supplier = task[g].supplier /\ r.upd = task[g].upd
        /\ r.gone = task[g].gone /\ r.aimed = task[g].aimed /\ r.cut = task[g].cut
        /\ r.merged = task[g].merged /\ r.qty = task[g].qty
    BY <2>1 DEF Task
  <2>3. old(g) = r \/ old(g) = task[g]
    OBVIOUS
  <2> HIDE DEF r, old
  <2>4. Claims(r) = Claims(task[g])
    BY <2>2 DEF Claims
  <2>5. Own(r)
    BY <2>1, <2>2 DEF Own, First
  <2> QED BY <2>1, <2>2, <2>3, <2>4, <2>5
<1>4. Answered("done") \in Task /\ Blank(Answered("done"))
  BY IdleTyped, MergeFacts
<1>5. task' \in [Handlers -> Task]
  <2> HIDE DEF old
  <2> QED BY <1>2, <1>3, <1>4
<1>6. \A g \in Handlers : task'[g] = IF g = h THEN Answered("done") ELSE old(g)
  BY <1>2
<1>7. new \in OrderRow /\ new.id = t.upd /\ new.supplier = t.supplier
  BY <1>1 DEF Task, OrderRow
<1>8. ASSUME NEW g \in Handlers, g # h
      PROVE  UpToDate(old(g), orders', items')
  <2> SUFFICES ASSUME task[g].pc \in InTransaction \ {"read"}, ~old(g).stale
               PROVE  UpToDate(old(g), orders', items')
    BY <1>3 DEF UpToDate
  <2> DEFINE u == task[g]
  <2>1. u \in Task /\ Own(u) /\ UpToDate(u, orders, items)
    BY MergeFacts
  <2>2. ~SameSlot(g, h) /\ old(g) = u
    <3>1. [u EXCEPT !.stale = TRUE].stale = TRUE
      BY <2>1 DEF Task
    <3> QED BY <3>1
  <2>3. u.supplier # t.supplier
    BY <2>2 DEF SameSlot
  <2>4. InSlot(orders', u.supplier) = InSlot(orders, u.supplier)
    BY <2>3, OthersRows
  <2>5. \A i \in Ids(u.seen) : <<i, u.supplier>> \in Claimed
    <3> TAKE i \in Ids(u.seen)
    <3>1. PICK o \in u.seen : o.id = i
      BY DEF Ids
    <3>2. <<o.id, o.supplier>> \in Claims(u) /\ o.supplier = u.supplier
      BY <2>1 DEF Claims, Own
    <3> QED BY <3>1, <3>2 DEF Claimed
  <2>6. RowsIn(items', Ids(u.seen)) = RowsIn(items, Ids(u.seen))
    BY <2>3, <2>5, OthersRows
  <2>7. u.seen # {} => RowsIn(items', {First(u)}) = RowsIn(items, {First(u)})
    <3> SUFFICES ASSUME u.seen # {} PROVE RowsIn(items', {First(u)}) = RowsIn(items, {First(u)})
      OBVIOUS
    <3>1. \A i \in {First(u)} : <<i, u.supplier>> \in Claimed
      BY <2>1, <2>5, FirstIn
    <3> QED BY <2>3, <3>1, OthersRows
  <2>8. u.pc = "cut" => u.seen # {}
    BY <2>1 DEF Own
  <2>9. UpToDate(u, orders', items')
    <3> HIDE DEF u
    <3> QED BY <2>1, <2>4, <2>6, <2>7, <2>8 DEF UpToDate
  <2> QED BY <2>2, <2>9
<1> HIDE DEF old, new
<1>9. OrdersTypeOK'
  <2>1. orders' \subseteq OrderRow
    BY <1>2, <1>7, MergeFacts
  <2>2. items' \subseteq ItemRow
    BY <1>2, WrittenTyped, MergeFacts
  <2> QED BY <1>2, <1>5, <2>1, <2>2, MergeFacts DEF OrdersTypeOK
<1>10. FiniteRows'
  <2>1. IsFiniteSet(orders')
    <3>1. IsFiniteSet({o \in orders : o.id \notin t.gone \cup {t.upd}})
      BY MergeFacts, FS_Subset DEF FiniteRows
    <3> QED BY <1>2, <3>1, FS_AddElement
  <2>2. ASSUME NEW p \in Products PROVE IsFiniteSet({r \in items' : r.product = p})
    <3> DEFINE kept == {r \in items \ t.cut : r.order \notin t.gone /\ r.product = p}
               wrote == {r \in Written(h) : r.product = p}
    <3>1. kept \subseteq {r \in items : r.product = p}
      OBVIOUS
    <3>2. IsFiniteSet({r \in items : r.product = p})
      BY MergeFacts DEF FiniteRows
    <3>3. IsFiniteSet(kept)
      BY <3>1, <3>2, FS_Subset
    <3>4. wrote = {} \/ \E x : wrote = {x}
      BY WrittenTyped
    <3>5. {r \in items' : r.product = p} = kept \cup wrote
      BY <1>2
    <3> HIDE DEF kept, wrote
    <3>6. CASE wrote = {}
      <4>1. kept \cup wrote = kept
        BY <3>6
      <4> QED BY <3>3, <3>5, <4>1
    <3>7. CASE \E x : wrote = {x}
      BY <3>3, <3>5, <3>7, FS_AddElement
    <3> QED BY <3>4, <3>6, <3>7
  <2> QED BY <2>1, <2>2 DEF FiniteRows
<1>11. OneSupplier'
  <2>1. Claimed' \subseteq Claimed
    <3> SUFFICES ASSUME NEW x \in Claimed' PROVE x \in Claimed
      OBVIOUS
    <3>1. CASE x \in {<<o.id, o.supplier>> : o \in orders'}
      <4>1. PICK o \in orders' : x = <<o.id, o.supplier>>
        BY <3>1
      <4>2. CASE o \in orders
        BY <4>1, <4>2 DEF Claimed
      <4>3. CASE o = new
        <5>1. <<t.upd, t.supplier>> \in Claimed
          BY CommitOrders
        <5> QED BY <1>7, <4>1, <4>3, <5>1
      <4> QED BY <1>2, <4>2, <4>3
    <3>2. CASE \E g \in Handlers : x \in Claims(task'[g])
      <4>1. PICK g \in Handlers : x \in Claims(task'[g])
        BY <3>2
      <4>2. CASE g = h
        BY <1>4, <1>6, <4>1, <4>2, BlankIs
      <4>3. CASE g # h
        BY <1>3, <1>6, <4>1, <4>3 DEF Claimed
      <4> QED BY <4>2, <4>3
    <3>3. \/ x \in {<<o.id, o.supplier>> : o \in orders'}
          \/ \E g \in Handlers : x \in Claims(task'[g])
      BY DEF Claimed
    <3> QED BY <3>1, <3>2, <3>3
  <2> QED BY <1>2, <2>1, MergeFacts DEF OneSupplier
<1>12. ASSUME NEW g \in Handlers PROVE Own(task'[g]) /\ UpToDate(task'[g], orders', items')
  BY <1>3, <1>4, <1>6, <1>8, BlankIs
<1> QED BY <1>9, <1>10, <1>11, <1>12 DEF MergeInv

LEMMA InitMergeInv == Init => MergeInv
<1> SUFFICES ASSUME Init PROVE MergeInv
  OBVIOUS
<1>1. OrdersTypeOK
  <2>1. catalog \in Catalogs /\ orders = {} /\ items = {} /\ created = 0 /\ posted = 0
        /\ task = [h \in Handlers |-> Idle]
    BY DEF Init, OrdersInit
  <2>2. Idle \in Task
    BY <2>1, IdleTyped
  <2> QED BY <2>1, <2>2 DEF OrdersTypeOK
<1>2. \A h \in Handlers : Blank(task[h])
  BY IdleTyped DEF Init, OrdersInit
<1>3. orders = {} /\ items = {}
  BY DEF Init, OrdersInit
<1>4. FiniteRows
  <2>1. \A p \in Products : {r \in items : r.product = p} = {}
    BY <1>3
  <2> QED BY <1>3, <2>1, FS_EmptySet DEF FiniteRows
<1>5. Claimed = {}
  BY <1>2, <1>3, BlankIs DEF Claimed
<1>6. \A h \in Handlers : Own(task[h]) /\ UpToDate(task[h], orders, items)
  BY <1>2, BlankIs
<1> QED BY <1>1, <1>4, <1>5, <1>6 DEF MergeInv, OneSupplier

LEMMA MergeStepInv == ASSUME MergeInv, OrderInv, DeviceInv, [Next]_vars PROVE MergeInv'
<1>1. ASSUME UNCHANGED orderVars PROVE MergeInv'
  BY <1>1, MergeRests, MergeFacts DEF orderVars
<1>2. ASSUME NEW h \in Handlers, NEW r \in Task, Blank(r),
             task' = [task EXCEPT ![h] = r],
             UNCHANGED <<catalog, orders, items, created, posted>>
      PROVE  MergeInv'
  BY <1>2, BlankTask, MergeFacts
<1>3. ASSUME NEW h \in Handlers, NEW c \in Clients, Post(c, h) PROVE MergeInv'
  <2>1. device[c] \in Device
    BY DEF DeviceInv, DevicesTyped
  <2>2. PICK s \in device[c].todo, name \in SignedIn[posted + 1] :
          Receive(h, name, s, Only(device[c].cart, ProductsOf(s)))
    BY <1>3 DEF Post
  <2> DEFINE q == Only(device[c].cart, ProductsOf(s))
             n == posted + 1
             r == IF InCatalog(s, q)
                  THEN [Idle EXCEPT !.pc = "read", !.who = name, !.post = n,
                                    !.supplier = s, !.qty = q]
                  ELSE [Idle EXCEPT !.pc = "failed"]
  <2>3. s \in Suppliers /\ q \in Quantities /\ n \in Nat
    BY <2>1, OnlyTyped, MergeFacts DEF Device
  <2>7. name \in Names
    <3>1. posted + 1 \in 1 .. MaxPosts
      BY <1>3, MergeFacts, OrderConstants DEF Post
    <3> QED BY <2>2, <3>1, DeviceConstants
  <2>4. task' = [task EXCEPT ![h] = r] /\ posted' = n
        /\ UNCHANGED <<catalog, orders, items, created>>
    BY <2>2 DEF Receive
  <2> HIDE DEF q, n
  <2>5. Idle \in Task /\ Blank(Idle)
    BY IdleTyped, MergeFacts
  <2>6. r \in Task /\ Blank(r)
    BY <2>3, <2>5, <2>7 DEF Task, Blank, Labels, InTransaction
  <2> HIDE DEF r
  <2> QED BY <2>3, <2>4, <2>6, BlankTask, MergeFacts
<1>4. ASSUME NEW h \in Handlers, (\E c \in Clients : Answer(c, h)) \/ DropAnswer(h)
      PROVE  MergeInv'
  <2>1. task' = [task EXCEPT ![h] = Idle]
        /\ UNCHANGED <<catalog, orders, items, created, posted>>
    BY <1>4 DEF Answer, DropAnswer
  <2> QED BY <1>2, <2>1, IdleTyped, MergeFacts
<1>5. ASSUME NEW h \in Handlers, task' = [task EXCEPT ![h] = Answered("failed")],
             UNCHANGED <<catalog, orders, items, created, posted>>
      PROVE  MergeInv'
  BY <1>2, <1>5, IdleTyped, MergeFacts
<1>6. ASSUME NEW h \in Handlers, OrderStep(h) PROVE MergeInv'
  <2>1. CASE CreateOrder(h)
    <3>1. task[h].seen = {}
      BY <2>1 DEF CreateOrder, OrderInv, HeldIsCreated
    <3> QED BY <2>1, <3>1, CreateOrderMerge
  <2>2. CASE Rewrite(h) /\ ~StillThere(h)
    BY <1>5, <2>2 DEF Rewrite
  <2> QED BY <1>6, <2>1, <2>2, ReadOrdersMerge, ReadItemsMerge, FoldMerge, AimMerge,
             CutMerge, RewriteMerge, CommitMerge DEF OrderStep
<1>7. ASSUME NEW h \in Handlers, Handle(h) \/ Abort(h) PROVE MergeInv'
  BY <1>5, <1>6, <1>7 DEF Handle, Abort, Rollback
<1>8. ASSUME NEW c \in Clients, UserStep(c) \/ LoseAnswer(c) PROVE MergeInv'
  <2>1. UNCHANGED orderVars
    BY <1>8 DEF UserStep, LoadCatalog, LeaveOrders, Submit, SetDraftQuantity, LoseAnswer
  <2> QED BY <1>1, <2>1
<1>9. CASE Environment
  <2>1. catalog' \in Catalogs /\ UNCHANGED <<orders, items, created, task, posted>>
    BY <1>9 DEF Environment, UpdateCatalog
  <2> QED BY <2>1, MergeRests, MergeFacts
<1>10. CASE UNCHANGED vars
  BY <1>1, <1>10 DEF vars
<1> QED BY <1>3, <1>4, <1>7, <1>8, <1>9, <1>10 DEF Next

(* Every row and every request is what it should be.                        *)
THEOREM MergeInvariant == Spec => []MergeInv
<1>1. OrderInv /\ DeviceInv /\ MergeInv /\ [Next]_vars => MergeInv'
  BY MergeStepInv
<1> QED BY <1>1, InitMergeInv, OrderInvariant, DeviceInvariant, PTL DEF Spec

-----------------------------------------------------------------------------
(* What the merge promises.                                                 *)
LEMMA OnlyCommitCommits ==
  ASSUME MergeInv, [Next]_vars, NEW h \in Handlers, At(h, "commit"), task'[h].pc = "done"
  PROVE  Commit(h)
<1> SUFFICES ASSUME ~Commit(h) PROVE FALSE
  OBVIOUS
<1>1. task \in [Handlers -> Task] /\ task[h].pc = "commit"
  BY MergeFacts DEF At
<1>2. task'[h].pc # task[h].pc
  BY <1>1
<1>3. ASSUME UNCHANGED task PROVE FALSE
  BY <1>2, <1>3
<1>4. ASSUME NEW g \in Handlers, NEW r, task' = [task EXCEPT ![g] = r], r.pc # "done"
      PROVE  FALSE
  BY <1>1, <1>4
<1>5. ASSUME NEW g \in Handlers, g # h, task'[h] = task[h] PROVE FALSE
  BY <1>2, <1>5
<1>6. ASSUME NEW g \in Handlers, NEW c \in Clients, Post(c, g) PROVE FALSE
  <2>1. PICK s, name : Receive(g, name, s, Only(device[c].cart, ProductsOf(s)))
    BY <1>6 DEF Post
  <2>2. At(g, "idle")
    BY <2>1 DEF Receive
  <2>3. g # h
    BY <1>1, <2>2 DEF At
  <2>4. task'[h] = task[h]
    BY <1>1, <2>1, <2>3 DEF Receive
  <2> QED BY <1>5, <2>3, <2>4
<1>7. Idle.pc = "idle" /\ Answered("failed").pc = "failed"
  BY AnsweredPc DEF Idle
<1>8. ASSUME NEW g \in Handlers, (\E c \in Clients : Answer(c, g)) \/ DropAnswer(g)
      PROVE  FALSE
  <2>1. task' = [task EXCEPT ![g] = Idle]
    BY <1>8 DEF Answer, DropAnswer
  <2> QED BY <1>4, <1>7, <2>1
<1>9. ASSUME NEW g \in Handlers, Abort(g) PROVE FALSE
  <2>1. task' = [task EXCEPT ![g] = Answered("failed")]
    BY <1>9 DEF Abort, Rollback
  <2> QED BY <1>4, <1>7, <2>1
<1>10. ASSUME NEW g \in Handlers, Handle(g) PROVE FALSE
  <2>1. CASE g = h
    BY <1>1, <1>10, <2>1 DEF Handle, OrderStep, ReadOrders, ReadItems, CreateOrder,
       FoldDuplicates, AimAtItems, CutItems, Rewrite, At
  <2>2. CASE g # h /\ ~Commit(g)
    <3>1. task'[h] = task[h]
      BY <1>1, <1>10, <2>2 DEF Handle, OrderStep, ReadOrders, ReadItems, CreateOrder,
         FoldDuplicates, AimAtItems, CutItems, Rewrite
    <3> QED BY SMTT(30), <1>5, <2>2, <3>1
  <2>3. CASE g # h /\ Commit(g)
    <3> DEFINE r == [task[h] EXCEPT !.stale = TRUE]
    <3>1. r.pc = task[h].pc
      BY <1>1 DEF Task
    <3>2. task'[h] = r \/ task'[h] = task[h]
      BY <2>3 DEF Commit
    <3> HIDE DEF r
    <3> QED BY <1>2, <3>1, <3>2
  <2> QED BY SMTT(30), <2>1, <2>2, <2>3
<1>11. ASSUME NEW c \in Clients, UserStep(c) \/ LoseAnswer(c) PROVE FALSE
  <2>1. UNCHANGED task
    BY <1>11 DEF UserStep, LoadCatalog, LeaveOrders, Submit, SetDraftQuantity, LoseAnswer,
                 orderVars
  <2> QED BY <1>3, <2>1
<1>12. CASE Environment
  BY <1>3, <1>12 DEF Environment, UpdateCatalog
<1>13. CASE UNCHANGED vars
  BY <1>3, <1>13 DEF vars, orderVars
<1> QED BY <1>6, <1>8, <1>9, <1>10, <1>11, <1>12, <1>13 DEF Next

(* What an order holds once it is committed.                                *)
LEMMA AfterCommit ==
  ASSUME MergeInv, OrderInv, NEW h \in Handlers, Commit(h), ~task[h].stale
  PROVE  /\ InSlot(orders', task[h].supplier)
              = {[id |-> task[h].upd, supplier |-> task[h].supplier, by |-> task[h].by]}
         /\ RowsIn(items', {task[h].upd}) = Written(h)
         /\ task[h].merged = Plus(Ordered(task[h].supplier), task[h].qty)
         /\ task[h].by \in Listed(OrdersOf(task[h].supplier), task[h].who)
<1> DEFINE t == task[h]
           s == t.supplier
           new == [id |-> t.upd, supplier |-> t.supplier, by |-> t.by]
<1>1. /\ t \in Task /\ t.pc = "commit" /\ Own(t) /\ UpToDate(t, orders, items)
      /\ \A i \in t.gone \cup {t.upd} : <<i, s>> \in Claimed
  BY CommitOrders
<1>2. /\ t.seen = InSlot(orders, s)
      /\ t.merged = Plus(Sum(RowsIn(items, Ids(t.seen))), t.qty)
      /\ t.by \in Listed(t.seen, t.who)
      /\ t.seen # {} => t.gone = Ids(t.seen) \ {First(t)} /\ t.cut = RowsIn(items, {First(t)})
                        /\ t.upd = First(t)
  BY <1>1 DEF UpToDate, Own, InTransaction
<1>3. new.supplier = s
  OBVIOUS
<1>4. /\ orders' = {o \in orders : o.id \notin t.gone \cup {t.upd}} \cup {new}
      /\ items' = {r \in items \ t.cut : r.order \notin t.gone} \cup Written(h)
  BY DEF Commit, Left
<1> HIDE DEF new
<1>5. \A o \in InSlot(orders, s) : o.id \in t.gone \cup {t.upd}
  <2> TAKE o \in InSlot(orders, s)
  <2>1. o.id \in Ids(t.seen) /\ t.seen # {}
    BY <1>2 DEF Ids
  <2> QED BY <1>2, <2>1
<1>6. InSlot(orders', s) = {new}
  BY <1>3, <1>4, <1>5 DEF InSlot
<1>7. RowsIn(items, {t.upd}) \subseteq t.cut
  <2>1. CASE t.seen # {}
    BY <1>2, <2>1
  <2>2. CASE t.seen = {}
    <3> SUFFICES ASSUME NEW r \in items, r.order = t.upd PROVE FALSE
      BY DEF RowsIn
    <3>1. PICK o \in orders : o.id = t.upd
      BY DEF OrderInv, NoOrphanItems, Ids
    <3>2. <<o.id, o.supplier>> \in Claimed
      BY DEF Claimed
    <3>3. <<t.upd, s>> \in Claimed /\ o.id = t.upd
      BY <1>1, <3>1
    <3>4. o.supplier = s
      BY <3>2, <3>3, MergeFacts DEF OneSupplier
    <3> QED BY <1>2, <2>2, <3>1, <3>4 DEF InSlot
  <2> QED BY <2>1, <2>2
<1>8. RowsIn(items', {t.upd}) = Written(h)
  <2>1. \A r \in Written(h) : r.order = t.upd
    BY WrittenTyped
  <2> QED BY <1>4, <1>7, <2>1 DEF RowsIn
<1>9. Ordered(s) = Sum(RowsIn(items, Ids(t.seen))) /\ OrdersOf(s) = t.seen
  BY <1>2, InWords
<1> QED BY <1>2, <1>6, <1>8, <1>9 DEF new

LEMMA ColumnsOfWritten ==
  ASSUME MergeInv, NEW h \in Handlers, Commit(h), NEW p \in Products
  PROVE  /\ task[h].merged \in Quantities /\ task[h].qty \in Quantities
         /\ Total({r \in Written(h) : r.product = p}) = task[h].merged[p]
<1>1. task[h].merged \in Quantities /\ task[h].qty \in Quantities
  BY CommitOrders DEF Task
<1>2. CASE {r \in Written(h) : r.product = p} = {} /\ task[h].merged[p] = 0
  BY <1>1, <1>2, TotalOfNone
<1>3. CASE \E x : /\ {r \in Written(h) : r.product = p} = {x}
                  /\ x.quantity = task[h].merged[p]
  <2>1. PICK x : {r \in Written(h) : r.product = p} = {x} /\ x.quantity = task[h].merged[p]
    BY <1>3
  <2>2. x.quantity \in Nat
    BY <1>1, <2>1 DEF Quantities
  <2>3. Total({x}) = x.quantity
    BY <2>2, TotalOfOne
  <2> QED BY <1>1, <2>1, <2>3
<1> QED BY <1>2, <1>3, WrittenTyped

LEMMA MergeCommits ==
  ASSUME MergeInv, OrderInv, NEW h \in Handlers, Commit(h), ~task[h].stale,
         NEW s, s = task[h].supplier
  PROVE  /\ Ordered(s)' = Plus(Ordered(s), task[h].qty)
         /\ Contributors(s)' \in Listed(OrdersOf(s), task[h].who)
         /\ Cardinality(OrdersOf(s)') = 1
<1> DEFINE t == task[h]
           new == [id |-> t.upd, supplier |-> t.supplier, by |-> t.by]
<1>1. /\ InSlot(orders', s) = {new}
      /\ RowsIn(items', {t.upd}) = Written(h)
      /\ t.merged = Plus(Ordered(s), t.qty)
      /\ t.by \in Listed(OrdersOf(s), t.who)
  BY AfterCommit
<1>2. new.id = t.upd /\ new.by = t.by
  OBVIOUS
<1>3. OrdersOf(s)' = InSlot(orders', s)
  BY DEF OrdersOf, InSlot
<1> HIDE DEF new
<1>4. Ids(OrdersOf(s)') = {t.upd}
  BY <1>1, <1>2, <1>3 DEF Ids
<1>5. Cardinality(OrdersOf(s)') = 1
  BY <1>1, <1>3, FS_Singleton
<1>6. Contributors(s)' = t.by
  <2>1. Contributors(s)' = NamesOf(OrdersOf(s)')
    BY DEF Contributors, NamesOf
  <2>2. NamesOf({new}) = new.by
    BY DEF NamesOf
  <2> QED BY <1>1, <1>2, <1>3, <2>1, <2>2
<1>7. Ordered(s)' = Sum(Written(h))
  <2>1. Ordered(s)' = Sum(RowsIn(items', Ids(OrdersOf(s)')))
    BY DEF Ordered, RowsOf, RowsIn
  <2> QED BY <1>1, <1>4, <2>1
<1>8. Sum(Written(h)) = t.merged
  <2>1. Written(h) \subseteq ItemRow
    BY WrittenTyped
  <2>2. \A p \in Products : Sum(Written(h))[p] = t.merged[p]
    BY ColumnsOfWritten, SumAt
  <2>3. t.merged \in [Products -> Nat]
    BY CommitOrders DEF Task, Quantities
  <2>4. Sum(Written(h)) = [p \in Products |-> Sum(Written(h))[p]]
    BY DEF Sum
  <2> QED BY <2>2, <2>3, <2>4
<1> QED BY <1>1, <1>5, <1>6, <1>7, <1>8

LEMMA OwnCommits ==
  ASSUME MergeInv, MergeInv', NEW h \in Handlers, Commit(h), NEW p \in Products,
         NEW s, s = task[h].supplier
  PROVE  Ordered(s)'[p] >= task[h].qty[p]
<1> DEFINE t == task[h]
           new == [id |-> t.upd, supplier |-> t.supplier, by |-> t.by]
           rows == RowsIn(items', Ids(InSlot(orders', s)))
           mine == {r \in rows : r.product = p}
<1>1. /\ orders' = {o \in orders : o.id \notin t.gone \cup {t.upd}} \cup {new}
      /\ items' = {r \in items \ t.cut : r.order \notin t.gone} \cup Written(h)
  BY DEF Commit, Left
<1>2. new.id = t.upd /\ new.supplier = s
  OBVIOUS
<1> HIDE DEF new
<1>3. t.upd \in Ids(InSlot(orders', s))
  BY <1>1, <1>2 DEF Ids, InSlot
<1>4. Ordered(s)' = Sum(rows)
  BY DEF Ordered, RowsOf, RowsIn, OrdersOf, InSlot
<1>5. items' \subseteq ItemRow /\ IsFiniteSet({r \in items' : r.product = p})
  BY DEF MergeInv, OrdersTypeOK, FiniteRows
<1>6. IsFiniteSet(mine) /\ \A r \in mine : r.quantity \in Nat
  <2>1. mine \subseteq {r \in items' : r.product = p}
    BY DEF RowsIn
  <2>2. \A r \in {x \in items' : x.product = p} : r.quantity \in Nat
    BY <1>5 DEF ItemRow
  <2> HIDE DEF mine
  <2> QED BY <1>5, <2>1, <2>2, FS_Subset
<1>7. {r \in Written(h) : r.product = p} \subseteq mine
  BY <1>1, <1>3, WrittenTyped DEF RowsIn
<1>8. t.merged \in Quantities /\ t.qty \in Quantities /\ t.merged[p] >= t.qty[p]
  BY CommitOrders DEF Task, Own, InTransaction
<1> HIDE DEF rows
<1>9. Sum(rows)[p] = Total(mine)
  BY SumAt
<1> HIDE DEF mine
<1>10. Total(mine) \in Nat
  BY <1>6, TotalIsNat
<1>11. Total(mine) >= t.merged[p]
  <2>1. CASE t.merged[p] = 0
    BY <1>10, <2>1
  <2>2. CASE t.merged[p] # 0
    <3>1. PICK x : /\ {r \in Written(h) : r.product = p} = {x}
                   /\ x.quantity = t.merged[p]
      BY <2>2, WrittenTyped
    <3>2. x \in mine
      BY <1>7, <3>1
    <3> QED BY <1>6, <3>1, <3>2, TotalBounds
  <2> QED BY <2>1, <2>2
<1>12. t.merged[p] \in Nat /\ t.qty[p] \in Nat
  BY <1>8 DEF Quantities
<1> QED BY <1>4, <1>8, <1>9, <1>10, <1>11, <1>12

EventsCounted == events \in 0 .. MaxEvents

(* Every state of the submissions, the orders and the devices has its type. *)
THEOREM OrderTypes == Spec => []TypeOK
<1>1. MergeInv /\ DeviceInv /\ EventsCounted => TypeOK
  BY DEF MergeInv, DeviceInv, DevicesTyped, EventsCounted, TypeOK
<1>2. Init => EventsCounted
  BY DeviceConstants DEF Init, EventsCounted
<1>3. EventsCounted /\ [Next]_vars => EventsCounted'
  <2> SUFFICES ASSUME EventsCounted, [Next]_vars PROVE EventsCounted'
    OBVIOUS
  <2>1. ASSUME UNCHANGED events PROVE EventsCounted'
    BY <2>1 DEF EventsCounted
  <2>2. CASE Event
    BY <2>2, DeviceConstants DEF Event, EventsCounted
  <2>3. UNCHANGED events \/ Event
    BY ZenonT(60) DEF Next, UserStep, LoadCatalog, LeaveOrders, Submit, SetDraftQuantity, UserEvent,
           LoseAnswer, Post, Answer, Handle, Abort, DropAnswer, Environment, vars
  <2> QED BY <2>1, <2>2, <2>3
<1> QED BY <1>1, <1>2, <1>3, MergeInvariant, DeviceInvariant, PTL DEF Spec

(* A merge that no other submission to the week and supplier has overtaken  *)
(* adds exactly its quantities, leaves one order, and names the submitter   *)
(* and those named before it as far as MAX_CONTRIBUTORS allows.             *)
THEOREM MergeTheorem == Spec => MergeConserves
<1> DEFINE Act == \A h \in Handlers, s \in Suppliers :
             Commits(h, s) /\ ~task[h].stale =>
               /\ Ordered(s)' = Plus(Ordered(s), task[h].qty)
               /\ LET all == Contributors(s) \cup {task[h].who} IN
                  /\ Contributors(s)' \subseteq all
                  /\ Cardinality(Contributors(s)') = Min({Cardinality(all), MaxContributors})
               /\ Cardinality(OrdersOf(s)') = 1
<1>1. MergeInv /\ OrderInv /\ [Next]_vars => Act
  <2> SUFFICES ASSUME MergeInv, OrderInv, [Next]_vars, NEW h \in Handlers, NEW s \in Suppliers,
                      Commits(h, s), ~task[h].stale
               PROVE  /\ Ordered(s)' = Plus(Ordered(s), task[h].qty)
                      /\ LET all == Contributors(s) \cup {task[h].who} IN
                         /\ Contributors(s)' \subseteq all
                         /\ Cardinality(Contributors(s)')
                              = Min({Cardinality(all), MaxContributors})
                      /\ Cardinality(OrdersOf(s)') = 1
    OBVIOUS
  <2>1. At(h, "commit") /\ task'[h].pc = "done" /\ s = task[h].supplier
    BY DEF Commits
  <2>2. Commit(h)
    BY <2>1, OnlyCommitCommits
  <2>3. /\ Ordered(s)' = Plus(Ordered(s), task[h].qty)
        /\ Contributors(s)' \in Listed(OrdersOf(s), task[h].who)
        /\ Cardinality(OrdersOf(s)') = 1
    BY <2>1, <2>2, MergeCommits
  <2> DEFINE after == Contributors(s)'
  <2> HIDE DEF after
  <2>4. /\ after \subseteq NamesOf(OrdersOf(s)) \cup {task[h].who}
        /\ Cardinality(after)
             = Min({Cardinality(NamesOf(OrdersOf(s)) \cup {task[h].who}), MaxContributors})
    BY <2>3 DEF Listed, after
  <2> QED BY <2>3, <2>4 DEF Contributors, after
<1> HIDE DEF Act
<1>2. [][Act]_vars => MergeConserves
  <2>1. [Act]_vars => [Act]_orderVars
    BY DEF vars
  <2>2. [][Act]_vars => [][Act]_orderVars
    BY <2>1, PTL
  <2> QED BY <2>2, PTL DEF MergeConserves, Act
<1> QED BY <1>1, <1>2, MergeInvariant, OrderInvariant, PTL DEF Spec

(* Even a merge that was overtaken leaves its own submission in the order.  *)
THEOREM OwnQuantitiesTheorem == Spec => OwnQuantitiesCount
<1> DEFINE Act == \A h \in Handlers, s \in Suppliers :
             Commits(h, s) => \A p \in Products : Ordered(s)'[p] >= task[h].qty[p]
<1>1. MergeInv /\ MergeInv' /\ [Next]_vars => Act
  <2> SUFFICES ASSUME MergeInv, MergeInv', [Next]_vars, NEW h \in Handlers,
                      NEW s \in Suppliers, Commits(h, s), NEW p \in Products
               PROVE  Ordered(s)'[p] >= task[h].qty[p]
    OBVIOUS
  <2>1. At(h, "commit") /\ task'[h].pc = "done" /\ s = task[h].supplier
    BY DEF Commits
  <2>2. Commit(h)
    BY <2>1, OnlyCommitCommits
  <2> QED BY <2>1, <2>2, OwnCommits
<1> HIDE DEF Act
<1>2. [][Act]_vars => OwnQuantitiesCount
  <2>1. [Act]_vars => [Act]_orderVars
    BY DEF vars
  <2>2. [][Act]_vars => [][Act]_orderVars
    BY <2>1, PTL
  <2> QED BY <2>2, PTL DEF OwnQuantitiesCount, Act
<1> QED BY <1>1, <1>2, MergeInvariant, PTL DEF Spec
=============================================================================
