------------------------------- MODULE Orders -------------------------------
(***************************************************************************)
(* Orders and stock (apps/orders) under concurrent requests.               *)
(*                                                                         *)
(* A request is one HTTP call served by one gunicorn thread.  It reads the *)
(* committed state without a lock when it arrives (the view's lookup and   *)
(* the serializer's pre-flight validation), then runs one transaction:     *)
(* row locks are taken one at a time (SELECT ... FOR UPDATE, or the UPDATE *)
(* of a row), what the transaction wrote is kept aside in pending[r] until *)
(* it commits, and every row a transaction wrote stays locked until its    *)
(* end.  PostgreSQL runs at READ COMMITTED, one transaction per            *)
(* @transaction.atomic block.                                              *)
(*                                                                         *)
(* The CHECK constraint on ProductModel.quantity is left out on purpose:   *)
(* stock must stay non-negative because of the code's own checks.          *)
(***************************************************************************)
EXTENDS Integers, FiniteSets, OrderStatus

CONSTANTS
  Requests,      \* the requests that may be in flight at the same time
  Orders,        \* the ids the orders table may hand out
  Products,      \* the ids of the product models
  Users,
  Staff,         \* the users with is_staff
  OwnerOf,       \* OwnerOf[p]: admin_user of the store that sells p
  NameRank,      \* NameRank[p]: the place of p in ProductModel.Meta.ordering
  MaxQty,        \* bound: the largest quantity a client asks for
  InitialStock,  \* InitialStock[p]: ProductModel.quantity at the start
  Keys,          \* the Idempotency-Key values clients use
  None,          \* no lock holder, no buyer, no key
  Operations,    \* bound: the endpoints the clients of an instance call
  Baskets,       \* bound: the item lists clients send
  StatusPatches  \* bound: the status changes clients ask for

ItemMap == [Products -> 0..MaxQty]

\* No item at all: a PATCH without an "items" field (an empty list is refused).
NoItems == [p \in Products |-> 0]

\* No stock update left to run.
NoUpdates == [o \in Orders |-> NoItems]

AllOperations == {"create", "delete", "patch", "bulk"}

ASSUME OrdersAssumption ==
  /\ IsFiniteSet(Requests) /\ IsFiniteSet(Orders)
  /\ Staff \subseteq Users
  /\ OwnerOf \in [Products -> Users]
  /\ NameRank \in [Products -> Nat]
  /\ MaxQty \in Nat
  /\ InitialStock \in [Products -> Nat]
  /\ None \notin Requests \cup Users \cup Keys
  /\ Operations \subseteq AllOperations
  /\ Baskets \subseteq ItemMap \ {NoItems}
  /\ StatusPatches \subseteq StatusPatch

VARIABLES
  listed,   \* the rows of the product-model table
  stock,    \* ProductModel.quantity, committed
  exists,   \* the rows of the orders table
  status,   \* order_status, delivery_status and payment_status of an order
  items,    \* items[o][p]: quantity of the item of o for p, 0 without one
  buyer,    \* Order.user
  key,      \* Order.idempotency_key
  olock,    \* the transaction that holds the lock on an order row
  plock,    \* the transaction that holds the lock on a product row
  pc,       \* where a request stands
  call,     \* what a request asks for
  todo,     \* todo[r][o][p]: the units that the stock UPDATE for the item of o for p
            \* adds, from the quantity fetched; 0 when it has run or is not needed
  pending   \* pending[r][p]: what r added to quantity of p, uncommitted

book  == <<exists, status, items, buyer, key>>
locks == <<olock, plock>>
proc  == <<pc, call, todo, pending>>
vars  == <<listed, stock, book, locks, proc>>

Asks(op, ids, s, q, u, k) ==
  [op |-> op, orders |-> ids, status |-> s, items |-> q, user |-> u, key |-> k]

NoCall == Asks("none", {}, NoChange, NoItems, None, None)

Call == [op     : AllOperations \cup {"none"},
         orders : SUBSET Orders,
         status : StatusPatch,
         items  : ItemMap,
         user   : Users \cup {None},
         key    : Keys \cup {None}]

TypeOK ==
  /\ listed \subseteq Products
  /\ stock \in [Products -> Int]
  /\ exists \subseteq Orders
  /\ status \in [Orders -> Status]
  /\ items \in [Orders -> ItemMap]
  /\ buyer \in [Orders -> Users \cup {None}]
  /\ key \in [Orders -> Keys \cup {None}]
  /\ olock \in [Orders -> Requests \cup {None}]
  /\ plock \in [Products -> Requests \cup {None}]
  /\ pc \in [Requests -> {"idle", "order", "rows", "update"}]
  /\ call \in [Requests -> Call]
  /\ todo \in [Requests -> [Orders -> [Products -> Int]]]
  /\ pending \in [Requests -> [Products -> Int]]

Init ==
  /\ listed = Products
  /\ stock = InitialStock
  /\ exists = {}
  /\ status = [o \in Orders |-> NewStatus]
  /\ items = [o \in Orders |-> NoItems]
  /\ buyer = [o \in Orders |-> None]
  /\ key = [o \in Orders |-> None]
  /\ olock = [o \in Orders |-> None]
  /\ plock = [p \in Products |-> None]
  /\ pc = [r \in Requests |-> "idle"]
  /\ call = [r \in Requests |-> NoCall]
  /\ todo = [r \in Requests |-> NoUpdates]
  /\ pending = [r \in Requests |-> NoItems]

-----------------------------------------------------------------------------
(* The arrival of a request: what it reads without any lock.               *)

\* _store_owner_qs(): staff see every order, others those with an item of a
\* product their store still sells.
Sees(u, o) ==
  /\ o \in exists
  /\ \/ u \in Staff
     \/ \E p \in listed : items[o][p] > 0 /\ OwnerOf[p] = u

\* The serializer's item validation: every product exists and its unlocked
\* quantity covers the whole quantity asked for.
PassesPreflight(q) == \A p \in Products : q[p] > 0 => p \in listed /\ stock[p] >= q[p]

\* The order an earlier request of this user left under this key.
Existing(u, k) == {o \in exists : k # None /\ key[o] = k /\ buyer[o] = u}

\* Bound: no more creates in flight than ids left.
IdLeft == Cardinality({r \in Requests : call[r].op = "create"})
            < Cardinality(Orders \ exists)

Receive(r, c, at) ==
  /\ pc[r] = "idle"
  /\ c.op \in Operations
  /\ call' = [call EXCEPT ![r] = c]
  /\ pc' = [pc EXCEPT ![r] = at]

ReceiveCreate(r) ==
  \E u \in Users, k \in Keys \cup {None}, q \in Baskets :
    /\ Existing(u, k) = {}
    /\ PassesPreflight(q)
    /\ IdLeft
    /\ Receive(r, Asks("create", {}, NoChange, q, u, k), "rows")
    /\ UNCHANGED <<listed, stock, book, locks, todo, pending>>

ReceiveDelete(r) ==
  \E u \in Users, o \in exists :
    /\ Sees(u, o)
    /\ status[o].order \in Cancellable
    /\ Receive(r, Asks("delete", {o}, NoChange, NoItems, None, None), "order")
    /\ UNCHANGED <<listed, stock, book, locks, todo, pending>>

ReceivePatch(r) ==
  \E u \in Users, o \in exists, s \in StatusPatches, q \in Baskets \cup {NoItems} :
    /\ Sees(u, o)
    /\ Legal(status[o], s)
    /\ PassesPreflight(q)
    /\ Receive(r, Asks("patch", {o}, s, q, None, None), "order")
    /\ UNCHANGED <<listed, stock, book, locks, todo, pending>>

-----------------------------------------------------------------------------
(* Row locks and the end of a transaction.                                 *)

\* Faulty variant: the transaction is left open and keeps its order rows.
ReleaseProductsOnly(r) ==
  /\ pc' = [pc EXCEPT ![r] = "idle"]
  /\ call' = [call EXCEPT ![r] = NoCall]
  /\ todo' = [todo EXCEPT ![r] = NoUpdates]
  /\ pending' = [pending EXCEPT ![r] = NoItems]
  /\ plock' = [p \in Products |-> IF plock[p] = r THEN None ELSE plock[p]]
  /\ UNCHANGED olock

\* Everything the request held or had not yet committed goes.
Release(r) ==
  /\ pc' = [pc EXCEPT ![r] = "idle"]
  /\ call' = [call EXCEPT ![r] = NoCall]
  /\ todo' = [todo EXCEPT ![r] = NoUpdates]
  /\ pending' = [pending EXCEPT ![r] = NoItems]
  /\ olock' = [o \in Orders |-> IF olock[o] = r THEN None ELSE olock[o]]
  /\ plock' = [p \in Products |-> IF plock[p] = r THEN None ELSE plock[p]]

Rollback(r) == Release(r) /\ UNCHANGED <<listed, stock, book>>

\* Faulty variants: the rows are read without FOR UPDATE.
OrderRowRead(o) == TRUE
ProductRowRead(r, p) == TRUE

\* SELECT ... FOR UPDATE of an order row waits while another transaction has it.
OrderRowFree(o) == olock[o] = None

ProductRowFree(r, p) == plock[p] \in {None, r}

\* Faulty variant: product and order exchanged.
ItemRowsSwapped(ids) ==
  [p \in Products |-> [o \in Orders |-> IF o \in ids THEN items[o][p] ELSE 0]]

\* The items of the orders ids as they are fetched: what each gives back.
ItemRows(ids) == [o \in Orders |-> IF o \in ids THEN items[o] ELSE NoItems]

\* Faulty variant: a guard against CANCELED alone.
NotCanceled(o) == status[o].order # "CANCELED"

\* The row lock of cancel_order(), then its terminal-state guard: a closed
\* order is left alone, an open one has the stock of all its items to restore.
StillOpen(o) == status[o].order \notin Terminal

LockForCancel(r) ==
  \E o \in call[r].orders :
    /\ pc[r] = "order" /\ call[r].op = "delete"
    /\ OrderRowFree(o)
    /\ IF StillOpen(o)
       THEN /\ olock' = [olock EXCEPT ![o] = r]
            /\ todo' = [todo EXCEPT ![r] = ItemRows({o})]
            /\ pc' = [pc EXCEPT ![r] = "update"]
            /\ UNCHANGED <<listed, stock, book, plock, call, pending>>
       ELSE Rollback(r)

\* The bulk view takes every cancellable order it was given that nobody has
\* locked (skip_locked) and restores the items of all of them.  Only staff get
\* that far: PostgreSQL refuses FOR UPDATE on the DISTINCT query of the others.
SkipLocked(ids) ==
  {o \in ids : status[o].order \in Cancellable /\ OrderRowFree(o)}

ReceiveBulk(r) ==
  \E u \in Staff, ids \in SUBSET exists :
    LET taken == SkipLocked(ids)
    IN  /\ taken # {}
        /\ Receive(r, Asks("bulk", taken, NoChange, NoItems, None, None), "update")
        /\ olock' = [o \in Orders |-> IF o \in taken THEN r ELSE olock[o]]
        /\ todo' = [todo EXCEPT ![r] = ItemRows(taken)]
        /\ UNCHANGED <<listed, stock, book, plock, pending>>

\* Faulty variant: the pre-flight check of the unlocked row is trusted.
NoRecheck(o, s) == TRUE

\* _recheck_status_transitions_locked(), against the locked row.
RecheckPasses(o, s) == Legal(status[o], s)

\* update() once it has the order row: an illegal transition, or items for an
\* order that is closed already, ends in a rollback; a patch that closes the
\* order restores all its stock and ignores the items; other items go through
\* the lock, check and update passes.
LockForPatch(r) ==
  \E o \in call[r].orders :
    LET s == call[r].status
        q == call[r].items
        closes == Closes(status[o], s)
    IN  /\ pc[r] = "order" /\ call[r].op = "patch"
        /\ OrderRowFree(o)
        /\ IF ~RecheckPasses(o, s) \/ (q # NoItems /\ ~StillOpen(o))
           THEN Rollback(r)
           ELSE /\ olock' = [olock EXCEPT ![o] = r]
                /\ todo' = [todo EXCEPT ![r] = ItemRows(IF closes THEN {o} ELSE {})]
                /\ pc' = [pc EXCEPT ![r] = IF q = NoItems \/ closes
                                           THEN "update" ELSE "rows"]
                /\ UNCHANGED <<listed, stock, book, plock, call, pending>>

\* What the order the request works on holds of p already: nothing for a create.
OrderOf(r) == CHOOSE o \in call[r].orders : TRUE

Holds(r, p) == IF call[r].op = "patch" THEN items[OrderOf(r)][p] ELSE 0

\* The additional units the request wants of p.
Extra(r, p) == call[r].items[p] - Holds(r, p)

\* The products of the single locking query: new ones and increases.
Wanted(r) == {p \in Products : Extra(r, p) > 0}

\* Rows the query has still to lock; a deleted product has no row.
RowsLeft(r) == {p \in Wanted(r) \cap listed : plock[p] # r}

\* The query returns, and locks, the rows in the order of Meta.ordering.
NextRows(r) ==
  {p \in RowsLeft(r) : \A p2 \in RowsLeft(r) : NameRank[p] <= NameRank[p2]}

LockProduct(r) ==
  \E p \in NextRows(r) :
    /\ pc[r] = "rows"
    /\ ProductRowFree(r, p)
    /\ plock' = [plock EXCEPT ![p] = r]
    /\ UNCHANGED <<listed, stock, book, olock, proc>>

-----------------------------------------------------------------------------
(* The stock check, the stock updates and the commit.                      *)

\* Every wanted product still exists and its locked row covers the demand.
\* (In update() a vanished product is a KeyError: the same rollback.)
InStock(r) == \A p \in Wanted(r) : p \in listed /\ stock[p] >= Extra(r, p)

\* Faulty variant: the stock of removed items is forgotten.
KeptRows(r) ==
  [o \in Orders |-> [p \in Products |->
     IF o \in call[r].orders /\ call[r].items[p] # 0
     THEN items[o][p] - call[r].items[p] ELSE 0]]

\* The items whose quantity a PATCH changes, removed ones included, and by how much;
\* it holds the item rows whose quantities it compares with.
ChangedRows(r) ==
  [o \in Orders |-> [p \in Products |->
     IF o \in call[r].orders THEN items[o][p] - call[r].items[p] ELSE 0]]

CheckStock(r) ==
  /\ pc[r] = "rows"
  /\ RowsLeft(r) = {}
  /\ IF InStock(r)
     THEN /\ pc' = [pc EXCEPT ![r] = "update"]
          /\ IF call[r].op = "create"
             THEN /\ pending' = [pending EXCEPT ![r] =
                                   [p \in Products |-> -call[r].items[p]]]
                  /\ UNCHANGED todo
             ELSE /\ todo' = [todo EXCEPT ![r] = ChangedRows(r)]
                  /\ UNCHANGED pending
          /\ UNCHANGED <<listed, stock, book, locks, call>>
     ELSE Rollback(r)

\* A PATCH that replaces the items of an order it leaves open.
Revises(r, o) == /\ call[r].op = "patch"
                 /\ call[r].items # NoItems
                 /\ ~Closes(status[o], call[r].status)

\* UPDATE ... SET quantity = quantity + n WHERE pk = p, for one item and with the
\* quantity that was fetched: the row is locked from here on.  The row of a deleted
\* product is not there to update.
UpdateStock(r) ==
  \E o \in Orders, p \in Products :
    /\ pc[r] = "update"
    /\ todo[r][o][p] # 0
    /\ todo' = [todo EXCEPT ![r][o][p] = 0]
    /\ \/ /\ p \in listed
          /\ ProductRowFree(r, p)
          /\ plock' = [plock EXCEPT ![p] = r]
          /\ pending' = [pending EXCEPT ![r][p] = @ + todo[r][o][p]]
       \/ /\ p \notin listed
          /\ UNCHANGED <<plock, pending>>
    /\ UNCHANGED <<listed, stock, book, olock, pc, call>>

AllUpdated(r) == pc[r] = "update" /\ todo[r] = NoUpdates

StockWith(r) == [p \in Products |-> stock[p] + pending[r][p]]

\* Faulty variant: no constraint, the look-up on arrival alone.
NoUniqueKey(k) == FALSE

\* The UNIQUE constraint on idempotency_key.
KeyTaken(k) == k # None /\ \E o \in exists : key[o] = k

CommitCreate(r) ==
  \E o \in Orders \ exists :
    /\ AllUpdated(r) /\ call[r].op = "create"
    /\ ~KeyTaken(call[r].key)
    /\ exists' = exists \cup {o}
    /\ status' = [status EXCEPT ![o] = NewStatus]
    /\ items' = [items EXCEPT ![o] = call[r].items]
    /\ buyer' = [buyer EXCEPT ![o] = call[r].user]
    /\ key' = [key EXCEPT ![o] = call[r].key]
    /\ stock' = StockWith(r)
    /\ Release(r)
    /\ UNCHANGED listed

\* IntegrityError: the transaction is undone and the order that has the key is
\* looked up and returned, or a 409 when it is another user's.
DuplicateKey(r) ==
  /\ AllUpdated(r) /\ call[r].op = "create"
  /\ KeyTaken(call[r].key)
  /\ Rollback(r)

\* cancel_order() and the bulk view.
CommitCancel(r) ==
  /\ AllUpdated(r) /\ call[r].op \in {"delete", "bulk"}
  /\ status' = [o \in Orders |-> IF o \in call[r].orders
                                 THEN Merge(status[o], ToCanceled)
                                 ELSE status[o]]
  /\ stock' = StockWith(r)
  /\ Release(r)
  /\ UNCHANGED <<listed, exists, items, buyer, key>>

CommitPatch(r) ==
  \E o \in call[r].orders :
    /\ AllUpdated(r) /\ call[r].op = "patch"
    /\ status' = [status EXCEPT ![o] = Merge(@, call[r].status)]
    /\ items' = [items EXCEPT ![o] = IF Revises(r, o) THEN call[r].items ELSE @]
    /\ stock' = StockWith(r)
    /\ Release(r)
    /\ UNCHANGED <<listed, exists, buyer, key>>

-----------------------------------------------------------------------------
(* Failure, deadlock and the deletion of products.                         *)

\* The worker dies, the connection is lost or a statement fails: PostgreSQL
\* rolls the transaction back.
Fail(r) == pc[r] # "idle" /\ Rollback(r)

\* The rows a request tries to lock next, by their holders.
Holders(r) ==
  CASE pc[r] = "order"  -> {olock[o] : o \in call[r].orders}
    [] pc[r] = "rows"   -> {plock[p] : p \in NextRows(r)}
    [] pc[r] = "update" -> {IF p \in listed THEN plock[p] ELSE None :
                             p \in {x \in Products : \E o \in Orders : todo[r][o][x] # 0}}
    [] OTHER            -> {}

Waiting(r) == Holders(r) # {} /\ Holders(r) \cap {None, r} = {}

\* A cycle of waits: each of S waits for others of S alone.
WaitCycle(S) == S # {} /\ \A r \in S : Waiting(r) /\ Holders(r) \subseteq S

\* The deadlock detector cancels one transaction of a cycle.
DeadlockVictim(r) ==
  /\ \E S \in SUBSET Requests : r \in S /\ WaitCycle(S)
  /\ Rollback(r)

\* The item rows update() holds with select_for_update().
HoldsItemRow(r, p) ==
  /\ pc[r] \in {"rows", "update"}
  /\ \E o \in call[r].orders : Revises(r, o) /\ items[o][p] > 0

\* DELETE of a product model: its items survive with product NULL (SET_NULL) and
\* are no longer stock of anything.  It waits for the product row and for the
\* item rows others hold.
DeleteProduct(p) ==
  /\ p \in listed
  /\ plock[p] = None
  /\ \A r \in Requests : ~HoldsItemRow(r, p)
  /\ listed' = listed \ {p}
  /\ items' = [o \in Orders |-> [items[o] EXCEPT ![p] = 0]]
  /\ stock' = [stock EXCEPT ![p] = 0]
  /\ UNCHANGED <<exists, status, buyer, key, locks, proc>>

-----------------------------------------------------------------------------
Arrive(r) == ReceiveCreate(r) \/ ReceiveDelete(r) \/ ReceivePatch(r) \/ ReceiveBulk(r)

\* What a thread does by itself once it has its request.
Proceed(r) ==
  \/ LockForCancel(r) \/ LockForPatch(r) \/ LockProduct(r)
  \/ CheckStock(r) \/ UpdateStock(r)
  \/ CommitCreate(r) \/ DuplicateKey(r) \/ CommitCancel(r) \/ CommitPatch(r)

Next ==
  \/ \E r \in Requests : Arrive(r) \/ Proceed(r) \/ DeadlockVictim(r) \/ Fail(r)
  \/ \E p \in Products : DeleteProduct(p)

Spec == Init /\ [][Next]_vars

\* A thread goes on; a row's lock queue is first come, first served, so a request
\* is not passed over for ever; the detector breaks every cycle.
Fairness ==
  \A r \in Requests : SF_vars(Proceed(r)) /\ WF_vars(DeadlockVictim(r))

FairSpec == Spec /\ Fairness

-----------------------------------------------------------------------------
(* Properties.                                                             *)

\* Concurrent creates and patches never sell what is not there: the quantity of
\* a product stays non-negative without the database's CHECK constraint.
StockNonNegative == \A p \in Products : stock[p] >= 0

\* An order closed by any path (DELETE, bulk cancel, PATCH to CANCELED or
\* REJECTED) is never reopened nor closed another way, and its items never
\* change, except that a deleted product leaves them: its stock went back once.
TerminalIsFinal ==
  [][\A o \in exists : status[o].order \in Terminal =>
       /\ status'[o].order = status[o].order
       /\ \A p \in listed' : items'[o][p] = items[o][p]]_vars

\* Whatever requests overlap, each committed change of an order follows the
\* transition maps of the serializer, in all three fields.
StatusFollowsMap ==
  [][\A o \in exists : o \in exists' /\ Follows(status[o], status'[o])]_vars

\* Retries and concurrent duplicates of a create leave one order per key.
OneOrderPerKey ==
  \A a, b \in exists : key[a] # None /\ key[a] = key[b] => a = b

Book == INSTANCE OrderBook

\* Nothing leaks and nothing is returned twice: what a product has in stock and
\* what the open orders hold of it always add up to what there was.
StockConserved ==
  \A p \in listed : stock[p] + Book!Held(Book!Open, p) = InitialStock[p]

\* Seen from the committed tables, every step of every overlapping request is one
\* whole operation of the order book, or nothing.
ImplementsOrderBook == Book!BookSpec

\* Every request ends, whoever holds the rows it waits for.
RequestsEnd == \A r \in Requests : pc[r] # "idle" ~> pc[r] = "idle"

\* No set of requests waits only for one another.
NoWaitCycle == \A S \in SUBSET Requests : ~WaitCycle(S)
=============================================================================
