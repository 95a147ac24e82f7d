---------------------------- MODULE StaleSavers ----------------------------
(***************************************************************************)
(* The other writers of the rows that Orders guards with locks: the upload *)
(* of a payment photo (PATCH /orders/{id}/upload-check/), the edit of a    *)
(* product model by its owner, and the deletion of stores.                 *)
(*                                                                         *)
(* The first two are a ModelSerializer on an instance read without a lock  *)
(* and outside of any transaction; instance.save() then writes every       *)
(* column of the row, the ones the client did not name included, with the  *)
(* values that were read.  The body is abstracted to one that names no     *)
(* column of Orders.  A user has one store: the products with OwnerOf.     *)
(***************************************************************************)
EXTENDS Orders

CONSTANT Savers  \* bound: the calls of these endpoints, each served once

VARIABLES
  saver,   \* saver[w]: what a call has read and means to do
  closed,  \* the users whose store is deleted
  relisted \* history: the products that a save has inserted again

allVars == <<vars, saver, closed, relisted>>

Nothing == [row |-> "none"]
Served == [row |-> "served"]

SaverTypeOK ==
  /\ TypeOK
  /\ saver \in [Savers -> {Nothing, Served}
       \cup [row : {"order"}, id : Orders, status : Status]
       \cup [row : {"product"}, id : Products, quantity : Int]
       \cup [row : {"store"}, id : Users]]
  /\ closed \subseteq Users
  /\ relisted \subseteq Products

SaverInit ==
  Init /\ saver = [w \in Savers |-> Nothing] /\ closed = {} /\ relisted = {}

Serve(w) == saver' = [saver EXCEPT ![w] = Served]

-----------------------------------------------------------------------------
(* The unlocked reads and the saves.                                       *)

\* get(pk=pk, user=request.user): the buyer's order.
ReadOrder(w) ==
  \E o \in exists :
    /\ saver[w] = Nothing
    /\ buyer[o] # None
    /\ saver' = [saver EXCEPT ![w] = [row |-> "order", id |-> o, status |-> status[o]]]
    /\ UNCHANGED <<vars, closed, relisted>>

\* get_object() of the product-model view.
ReadProduct(w) ==
  \E p \in listed :
    /\ saver[w] = Nothing
    /\ saver' = [saver EXCEPT ![w] = [row |-> "product", id |-> p, quantity |-> stock[p]]]
    /\ UNCHANGED <<vars, closed, relisted>>

\* The UPDATE of save() waits for the transaction that has the row.
SaveOrder(w) ==
  /\ saver[w].row = "order"
  /\ OrderRowFree(saver[w].id)
  /\ status' = [status EXCEPT ![saver[w].id] = saver[w].status]
  /\ Serve(w)
  /\ UNCHANGED <<listed, stock, exists, items, buyer, key, locks, proc, closed, relisted>>

\* The UPDATE of the product row waits for the transaction that has it.
ProductUnlocked(p) == plock[p] = None

\* A row deleted since it was read is inserted again: save() falls back to an
\* INSERT when its UPDATE matches no row.  Without the store there is no product
\* left that it could belong to.
SaveProduct(w) ==
  LET p == saver[w].id
  IN  /\ saver[w].row = "product"
      /\ ProductUnlocked(p)
      /\ OwnerOf[p] \notin closed
      /\ listed' = listed \cup {p}
      /\ relisted' = relisted \cup ({p} \ listed)
      /\ stock' = [stock EXCEPT ![p] = saver[w].quantity]
      /\ Serve(w)
      /\ UNCHANGED <<book, locks, proc, closed>>

\* The serializer or the database refuses, or the thread dies.
GiveUp(w) ==
  /\ saver[w] \notin {Nothing, Served}
  /\ Serve(w)
  /\ UNCHANGED <<vars, closed, relisted>>

-----------------------------------------------------------------------------
(* The deletion of stores.                                                 *)

SoldBy(u) == {p \in listed : OwnerOf[p] = u}

\* The orders that the guard of the bulk deletion looks for.
ActiveOrders(u) ==
  {o \in exists : status[o].order \in Cancellable /\ \E p \in SoldBy(u) : items[o][p] > 0}

\* The row lock of the store keeps other deletions of it away.
Deleting(u) == \E w \in Savers : saver[w] = [row |-> "store", id |-> u]

\* The bulk view has the lock of the store and finds no active order of it.
CheckStore(w) ==
  \E u \in Users \ closed :
    /\ saver[w] = Nothing
    /\ ~Deleting(u) /\ SoldBy(u) # {} /\ ActiveOrders(u) = {}
    /\ saver' = [saver EXCEPT ![w] = [row |-> "store", id |-> u]]
    /\ UNCHANGED <<vars, closed, relisted>>

\* DELETE with its cascade: as DeleteProduct for every product of the store.
Cascade(u) ==
  /\ \A p \in SoldBy(u) : plock[p] = None /\ \A r \in Requests : ~HoldsItemRow(r, p)
  /\ listed' = listed \ SoldBy(u)
  /\ items' = [o \in Orders |-> [p \in Products |-> IF p \in SoldBy(u) THEN 0 ELSE items[o][p]]]
  /\ stock' = [p \in Products |-> IF p \in SoldBy(u) THEN 0 ELSE stock[p]]
  /\ closed' = closed \cup {u}
  /\ UNCHANGED <<exists, status, buyer, key, locks, proc, relisted>>

\* The second half of the bulk view.
DeleteChecked(w) == saver[w].row = "store" /\ Cascade(saver[w].id) /\ Serve(w)

\* DELETE of a single store has no guard against active orders.
DeleteStore(w) ==
  \E u \in Users \ closed :
    /\ saver[w] = Nothing
    /\ ~Deleting(u) /\ SoldBy(u) # {}
    /\ Cascade(u) /\ Serve(w)

SaverNext ==
  \/ Next /\ UNCHANGED <<saver, closed, relisted>>
  \/ \E w \in Savers : \/ ReadOrder(w) \/ ReadProduct(w) \/ SaveOrder(w) \/ SaveProduct(w)
                       \/ GiveUp(w) \/ CheckStore(w) \/ DeleteChecked(w) \/ DeleteStore(w)

SaverSpec == SaverInit /\ [][SaverNext]_allVars

-----------------------------------------------------------------------------
(* Properties.                                                             *)

\* Units an open order holds of p: what its creation took from the stock.
InOrder(o, p) ==
  IF o \in exists /\ status[o].order \notin Terminal THEN items[o][p] ELSE 0

SavesNow(w) == saver[w] # Served /\ saver'[w] = Served

\* With every unlocked writer about, a closed order opens again or closes another
\* way by nothing but an upload that had read it before it was closed.
OnlyStaleUploadsReopen ==
  [][\A o \in exists :
       status[o].order \in Terminal /\ status'[o].order # status[o].order =>
         \E w \in Savers : /\ SavesNow(w) /\ saver[w].row = "order" /\ saver[w].id = o
                           /\ saver[w].status.order # status[o].order]_allVars

\* A cancel commits units of p although none of its orders has an item of p left:
\* the product was deleted after the items were fetched and inserted again by a
\* save before the UPDATE ran.
PaysRelisted(r, p) ==
  /\ p \in relisted
  /\ AllUpdated(r) /\ pc'[r] = "idle"
  /\ pending[r][p] > 0 /\ stock'[p] = stock[p] + pending[r][p]
  /\ \A o \in call[r].orders : items[o][p] = 0

\* Units appear or vanish apart from what orders take and return, and a deleted
\* product is listed again, only when an edit saves a row that had changed since,
\* or when a cancel pays its units into a row that such an edit had brought back.
OnlyStaleEditsMoveStock ==
  [][\A p \in listed' :
       \/ p \in listed /\ stock'[p] = stock[p]
       \/ \E o \in Orders : InOrder(o, p)' # InOrder(o, p)
       \/ \E w \in Savers : /\ SavesNow(w) /\ saver[w].row = "product" /\ saver[w].id = p
                            /\ (p \in listed => saver[w].quantity # stock[p])
       \/ \E r \in Requests : PaysRelisted(r, p)]_allVars

\* "No new order can slip in after this check": when the bulk view deletes a store,
\* no active order has an item of it.
NoActiveOrderAtDeletion ==
  [][\A w \in Savers :
       SavesNow(w) /\ saver[w].row = "store" /\ closed' # closed
         => ActiveOrders(saver[w].id) = {}]_allVars
=============================================================================
