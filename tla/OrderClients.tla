----------------------------- MODULE OrderClients -----------------------------
(***************************************************************************)
(* The devices that order: the kiosk (apps/mobile), the administrators'    *)
(* phones (apps/mobile-admin) and the administration page of the web       *)
(* application, over the handlers of CompanyOrders.                        *)
(*                                                                         *)
(* A device drafts quantities for all suppliers at once.  Submitting sends *)
(* the part of the draft that its loaded catalogue knows, one request per  *)
(* supplier, each after the answer to the one before.  If one fails, or    *)
(* its answer is lost, the device shows an error and keeps the whole       *)
(* draft; after the last answer it clears the whole draft.                 *)
(***************************************************************************)
EXTENDS CompanyOrders

CONSTANTS
    Clients,    \* the devices that submit orders
    Kiosks,     \* devices that order for the employee who is clocked in
    Quantity,   \* bound: what may be typed for an article
    SignedIn,   \* bound: in whose name each request may be posted
    MaxEvents   \* bound: connections that break, transactions that abort,
                \* catalogues that are saved, and what the user does while a
                \* submission is under way

ASSUME DeviceConstants == Kiosks \subseteq Clients /\ Quantity \subseteq Nat
                          /\ SignedIn \in [1 .. MaxPosts -> SUBSET Names]
                          /\ MaxEvents \in Nat

VARIABLES
    device,     \* the applications
    events      \* events of that kind so far

vars == <<orderVars, device, events>>

NoHandler == "none"

(* sent, posts, kept and troubled are history: the requests of this         *)
(* submission, those of the present draft, which of them were committed,    *)
(* and whether an error was shown for the draft.                            *)
Device == [pc : {"form", "post", "wait"}, catalog : SUBSET Products,
           draft : Quantities, cart : Quantities, todo : SUBSET Suppliers,
           handler : Handlers \cup {NoHandler}, sent : SUBSET Nat, posts : SUBSET Nat,
           kept : SUBSET (Suppliers \X Nat), troubled : BOOLEAN]

Fresh == [pc |-> "form", catalog |-> {}, draft |-> Nothing, cart |-> Nothing,
          todo |-> {}, handler |-> NoHandler, sent |-> {}, posts |-> {},
          kept |-> {}, troubled |-> FALSE]

TypeOK ==
    /\ OrdersTypeOK
    /\ device \in [Clients -> Device]
    /\ events \in 0 .. MaxEvents

Init ==
    /\ OrdersInit
    /\ device = [c \in Clients |-> Fresh]
    /\ events = 0

Only(q, ps) == [p \in Products |-> IF p \in ps THEN q[p] ELSE 0]

(* companyOrderCartItems: what the loaded catalogue knows of the draft.     *)
Cart(c) == Only(device[c].draft, device[c].catalog)

SuppliersOf(q) == {SupplierOf[p] : p \in {x \in Products : q[x] > 0}}

ProductsOf(s) == {p \in Products : SupplierOf[p] = s}

----------------------------------------------------------------------------
(* What the user does.                                                      *)

Event == events < MaxEvents /\ events' = events + 1

UserEvent(c) == IF device[c].pc = "form" THEN UNCHANGED events ELSE Event

LoadCatalog(c) ==
    /\ device[c].catalog # catalog
    /\ device' = [device EXCEPT ![c].catalog = catalog]
    /\ UserEvent(c) /\ UNCHANGED orderVars

(* Quantities can be typed while a submission is under way, too.            *)
SetDraftQuantity(c, p, n) ==
    /\ p \in device[c].catalog
    /\ n # device[c].draft[p]
    /\ device' = [device EXCEPT ![c].draft[p] = n]
    /\ UserEvent(c) /\ UNCHANGED orderVars

(* The employee clocks out, or another one clocks in: the kiosk forgets the *)
(* draft.  A submission under way goes on.                                  *)
LeaveOrders(c) ==
    /\ c \in Kiosks
    /\ device[c].catalog # {}
    /\ device' = [device EXCEPT ![c].catalog = {}, ![c].draft = Nothing,
                                ![c].posts = {}, ![c].troubled = FALSE]
    /\ UserEvent(c) /\ UNCHANGED orderVars

(* The requests a submission is split into.                                 *)
PayloadOfOneSupplier(c) == {CHOOSE s \in Suppliers : s \in SuppliersOf(Cart(c))}

Payloads(c) == SuppliersOf(Cart(c))

Submit(c) ==
    /\ device[c].pc = "form"
    /\ Cart(c) # Nothing
    /\ device' = [device EXCEPT ![c].pc = "post", ![c].cart = Cart(c),
                                ![c].todo = Payloads(c)]
    /\ UNCHANGED <<orderVars, events>>

----------------------------------------------------------------------------
(* The submission.                                                          *)

(* The next request, in the name of whoever is signed in by then.           *)
Post(c, h) ==
    /\ device[c].pc = "post" /\ posted < MaxPosts
    /\ \E s \in device[c].todo, n \in SignedIn[posted + 1] :
         /\ Receive(h, n, s, Only(device[c].cart, ProductsOf(s)))
         /\ device' = [device EXCEPT
              ![c].pc = "wait", ![c].handler = h, ![c].todo = @ \ {s},
              ![c].sent = @ \cup {posted + 1},
              ![c].posts = @ \cup {posted + 1}]
    /\ UNCHANGED events

InForm(c) == [device[c] EXCEPT !.pc = "form", !.handler = NoHandler,
                               !.todo = {}, !.cart = Nothing, !.sent = {},
                               !.kept = {x \in @ : x[2] \in device[c].posts}]

Failed(c) == [InForm(c) EXCEPT !.troubled = TRUE]

SavedKeepingDraft(c) == [InForm(c) EXCEPT !.troubled = FALSE]

Saved(c) == [InForm(c) EXCEPT !.draft = Nothing, !.posts = {}, !.kept = {},
                             !.troubled = FALSE]

(* The loop goes on with the next supplier, or is over.                     *)
Answer(c, h) ==
    /\ device[c].pc = "wait" /\ device[c].handler = h
    /\ \/ /\ At(h, "done") /\ device[c].todo # {}
          /\ device' = [device EXCEPT ![c].pc = "post", ![c].handler = NoHandler]
       \/ /\ At(h, "done") /\ device[c].todo = {}
          /\ device' = [device EXCEPT ![c] = Saved(c)]
       \/ /\ At(h, "failed")
          /\ device' = [device EXCEPT ![c] = Failed(c)]
    /\ task' = [task EXCEPT ![h] = Idle]
    /\ UNCHANGED <<catalog, orders, items, created, posted, events>>

(* The connection breaks, before the request is sent or after; the handler  *)
(* of a request that was received goes on, and nobody reads its answer.     *)
LoseAnswer(c) ==
    /\ device[c].pc \in {"post", "wait"}
    /\ device' = [device EXCEPT ![c] = Failed(c)]
    /\ Event /\ UNCHANGED orderVars

DropAnswer(h) ==
    /\ At(h, "done") \/ At(h, "failed")
    /\ \A c \in Clients : device[c].handler # h
    /\ task' = [task EXCEPT ![h] = Idle]
    /\ UNCHANGED <<catalog, orders, items, created, posted, device, events>>

Handle(h) ==
    /\ OrderStep(h)
    /\ device' = [c \in Clients |->
         IF task'[h].pc = "done" /\ task[h].post \in device[c].posts \cup device[c].sent
         THEN [device[c] EXCEPT !.kept = @ \cup {<<task[h].supplier, task[h].post>>}]
         ELSE device[c]]
    /\ UNCHANGED events

Abort(h) == Rollback(h) /\ Event /\ UNCHANGED device

Environment ==
    /\ \E c \in Catalogs : UpdateCatalog(c)
    /\ Event /\ UNCHANGED device

UserStep(c) ==
    \/ LoadCatalog(c) \/ LeaveOrders(c) \/ Submit(c)
    \/ \E p \in Products, n \in Quantity : SetDraftQuantity(c, p, n)

Next ==
    \/ \E c \in Clients :
         UserStep(c) \/ LoseAnswer(c) \/ \E h \in Handlers : Post(c, h) \/ Answer(c, h)
    \/ \E h \in Handlers : Handle(h) \/ Abort(h) \/ DropAnswer(h)
    \/ Environment

Spec == Init /\ [][Next]_vars

----------------------------------------------------------------------------
(* Properties.                                                              *)

(* How many of the requests to a supplier are in the orders.                *)
TimesKept(c, requests, s) ==
    Cardinality({x \in device[c].kept : x[1] = s /\ x[2] \in requests})

(* When a device says that the order was saved, each supplier's part of it  *)
(* has been committed, and once: none was rejected, lost, skipped or sent   *)
(* again among the requests the order was split into.                       *)
SavedMeansCounted ==
    [][\A c \in Clients :
         device[c].pc = "wait" /\ device'[c] = Saved(c) =>
           \A s \in SuppliersOf(device[c].cart) : TimesKept(c, device[c].sent, s) = 1]_vars

(* The part of a draft is ordered twice only after the device has shown an  *)
(* error for it: then the suppliers that had gone through are sent again.   *)
DoubledOnlyAfterError ==
    \A c \in Clients, s \in Suppliers : TimesKept(c, device[c].posts, s) > 1 => device[c].troubled
=============================================================================
