---------------------------- MODULE OrdersProofs ----------------------------
(***************************************************************************)
(* Theorems about Orders, for every set of requests, orders, products,     *)
(* users and keys and every bound.                                         *)
(***************************************************************************)
EXTENDS Orders, SetLemmas

(***************************************************************************)
(* The inductive invariant.  Each conjunct is one reason the properties    *)
(* hold; none of the properties is inductive without them.                 *)
(***************************************************************************)

\* What a request works on, by its operation and its place.
Shape(r) ==
  /\ pc[r] = "idle" => call[r] = NoCall
  /\ pc[r] = "order" => call[r].op \in {"delete", "patch"}
  /\ pc[r] = "rows" => call[r].op \in {"create", "patch"}
  /\ call[r].op \in {"delete", "patch"} => \E o \in Orders : call[r].orders = {o}
  /\ call[r].op = "create" => call[r].orders = {}
  /\ call[r].orders \subseteq exists
  /\ pc[r] # "update" => pending[r] = NoItems

\* Past its first lock a request holds the row of every order it works on, and
\* what it read there under the lock is still so.
OwnsOrders(r) ==
  pc[r] \in {"rows", "update"} =>
    \A o \in call[r].orders :
      /\ olock[o] = r
      /\ call[r].op \in {"delete", "bulk"} => StillOpen(o)
      /\ call[r].op = "patch" =>
           /\ RecheckPasses(o, call[r].status)
           /\ call[r].items # NoItems => StillOpen(o)

\* The stock updates a request still has to run are of its own orders, and only a
\* PATCH takes units.
OwnTodo(r) ==
  \A o \in Orders, p \in Products :
    /\ todo[r][o][p] # 0 => o \in call[r].orders
    /\ todo[r][o][p] < 0 => call[r].op = "patch"

\* An uncommitted stock update is on a row its transaction has locked, and leaves
\* enough stock.
PendingCovered(r) ==
  \A p \in Products : /\ pending[r][p] # 0 => plock[p] = r
                      /\ stock[p] + pending[r][p] >= 0

\* So does every increase that passed the stock check and is still to be written.
TodoCovered(r) ==
  pc[r] = "update" =>
    \A o \in Orders, p \in listed :
      todo[r][o][p] < 0 => plock[p] = r /\ stock[p] + pending[r][p] + todo[r][o][p] >= 0

RequestInv(r) == Shape(r) /\ OwnsOrders(r) /\ OwnTodo(r)
                   /\ PendingCovered(r) /\ TodoCovered(r)

IInv == TypeOK /\ (\A r \in Requests : RequestInv(r)) /\ StockNonNegative

-----------------------------------------------------------------------------
(* Types. *)

LEMMA NoItemsType == NoItems \in ItemMap
BY OrdersAssumption DEF NoItems, ItemMap

LEMMA AsksType ==
  ASSUME NEW op \in AllOperations \cup {"none"}, NEW ids \in SUBSET Orders,
         NEW s \in StatusPatch, NEW q \in ItemMap,
         NEW u \in Users \cup {None}, NEW k \in Keys \cup {None}
  PROVE  Asks(op, ids, s, q, u, k) \in Call
BY DEF Asks, Call

LEMMA NoChangeType == NoChange \in StatusPatch
BY DEF NoChange, StatusPatch

LEMMA NoCallType == NoCall \in Call
BY NoItemsType, NoChangeType, AsksType DEF NoCall

LEMMA MergeType ==
  ASSUME NEW s \in Status, NEW t \in StatusPatch
  PROVE  Merge(s, t) \in Status
BY DEF Status, StatusPatch, StatusValues, Merge, Keep

LEMMA NoUpdatesType ==
  /\ NoUpdates \in [Orders -> [Products -> Int]]
  /\ \A o \in Orders, p \in Products : NoUpdates[o][p] = 0
BY DEF NoUpdates, NoItems

\* A cancel gives back the quantities of the items it fetched, at least nothing.
LEMMA ItemRowsType ==
  ASSUME TypeOK, NEW ids
  PROVE  /\ ItemRows(ids) \in [Orders -> [Products -> Int]]
         /\ \A o \in Orders, p \in Products :
              /\ ItemRows(ids)[o][p] \in Nat
              /\ ItemRows(ids)[o][p] = IF o \in ids THEN items[o][p] ELSE 0
<1>1. \A o \in Orders : items[o] \in [Products -> Int] /\ \A p \in Products : items[o][p] \in Nat
  BY DEF TypeOK, ItemMap
<1> QED
  BY <1>1 DEF ItemRows, NoItems

\* A PATCH gives back the difference between what an item had and what it gets.
LEMMA ChangedRowsType ==
  ASSUME TypeOK, NEW r \in Requests
  PROVE  /\ ChangedRows(r) \in [Orders -> [Products -> Int]]
         /\ \A o \in Orders, p \in Products :
              ChangedRows(r)[o][p] =
                IF o \in call[r].orders THEN items[o][p] - call[r].items[p] ELSE 0
<1>1. \A o \in Orders, p \in Products : items[o][p] \in Int /\ call[r].items[p] \in Int
  BY DEF TypeOK, ItemMap, Call
<1> QED
  BY <1>1 DEF ChangedRows

LEMMA InitType == Init => TypeOK
<1> SUFFICES ASSUME Init PROVE TypeOK
  OBVIOUS
<1>1. NewStatus \in Status
  BY DEF NewStatus, Status, StatusValues
<1>2. NoItems \in [Products -> Int]
  BY DEF NoItems
<1>3. InitialStock \in [Products -> Int]
  BY OrdersAssumption
<1> QED
  BY <1>1, <1>2, <1>3, NoItemsType, NoUpdatesType, NoCallType DEF Init, TypeOK

LEMMA ReleaseType ==
  ASSUME TypeOK, NEW r \in Requests, Release(r)
  PROVE  /\ olock' \in [Orders -> Requests \cup {None}]
         /\ plock' \in [Products -> Requests \cup {None}]
         /\ pc' \in [Requests -> {"idle", "order", "rows", "update"}]
         /\ call' \in [Requests -> Call]
         /\ todo' \in [Requests -> [Orders -> [Products -> Int]]]
         /\ pending' \in [Requests -> [Products -> Int]]
<1>1. NoItems \in [Products -> Int]
  BY DEF NoItems
<1> QED
  BY <1>1, NoUpdatesType, NoCallType DEF TypeOK, Release

LEMMA RollbackType ==
  ASSUME TypeOK, NEW r \in Requests, Rollback(r)
  PROVE  TypeOK'
BY ReleaseType DEF TypeOK, Rollback, book

LEMMA StockWithType ==
  ASSUME TypeOK, NEW r \in Requests
  PROVE  StockWith(r) \in [Products -> Int]
BY DEF TypeOK, StockWith

LEMMA NextType == TypeOK /\ [Next]_vars => TypeOK'
<1> SUFFICES ASSUME TypeOK, [Next]_vars PROVE TypeOK'
  OBVIOUS
<1> USE DEF book, locks, proc
<1>1. ASSUME NEW r \in Requests, ReceiveCreate(r) PROVE TypeOK'
  <2>1. PICK u \in Users, k \in Keys \cup {None}, q \in Baskets :
          Receive(r, Asks("create", {}, NoChange, q, u, k), "rows")
    BY <1>1 DEF ReceiveCreate
  <2>2. q \in ItemMap
    BY OrdersAssumption
  <2>3. Asks("create", {}, NoChange, q, u, k) \in Call
    BY <2>2, NoItemsType, NoChangeType, AsksType DEF AllOperations
  <2> QED
    BY <1>1, <2>1, <2>3 DEF ReceiveCreate, Receive, TypeOK
<1>2. ASSUME NEW r \in Requests, ReceiveDelete(r) PROVE TypeOK'
  <2>1. PICK o \in exists :
          Receive(r, Asks("delete", {o}, NoChange, NoItems, None, None), "order")
    BY <1>2 DEF ReceiveDelete
  <2>2. Asks("delete", {o}, NoChange, NoItems, None, None) \in Call
    BY NoItemsType, NoChangeType, AsksType DEF AllOperations, TypeOK
  <2> QED
    BY <1>2, <2>1, <2>2 DEF ReceiveDelete, Receive, TypeOK
<1>3. ASSUME NEW r \in Requests, ReceivePatch(r) PROVE TypeOK'
  <2>1. PICK o \in exists, s \in StatusPatches, q \in Baskets \cup {NoItems} :
          Receive(r, Asks("patch", {o}, s, q, None, None), "order")
    BY <1>3 DEF ReceivePatch
  <2>2. q \in ItemMap /\ s \in StatusPatch
    BY OrdersAssumption, NoItemsType
  <2>3. Asks("patch", {o}, s, q, None, None) \in Call
    BY <2>2, AsksType DEF AllOperations, TypeOK
  <2> QED
    BY <1>3, <2>1, <2>3 DEF ReceivePatch, Receive, TypeOK
<1>4. ASSUME NEW r \in Requests, ReceiveBulk(r) PROVE TypeOK'
  <2>1. PICK ids \in SUBSET exists :
          /\ Receive(r, Asks("bulk", SkipLocked(ids), NoChange, NoItems, None, None), "update")
          /\ olock' = [o \in Orders |-> IF o \in SkipLocked(ids) THEN r ELSE olock[o]]
          /\ todo' = [todo EXCEPT ![r] = ItemRows(SkipLocked(ids))]
    BY <1>4 DEF ReceiveBulk
  <2>2. SkipLocked(ids) \in SUBSET Orders
    BY DEF SkipLocked, TypeOK
  <2>3. Asks("bulk", SkipLocked(ids), NoChange, NoItems, None, None) \in Call
    BY <2>2, NoItemsType, NoChangeType, AsksType DEF AllOperations
  <2>4. ItemRows(SkipLocked(ids)) \in [Orders -> [Products -> Int]]
    BY ItemRowsType
  <2> QED
    BY <1>4, <2>1, <2>3, <2>4 DEF ReceiveBulk, Receive, TypeOK
<1>5. ASSUME NEW r \in Requests, LockForCancel(r) PROVE TypeOK'
  <2>1. PICK o \in call[r].orders :
          \/ Rollback(r)
          \/ /\ olock' = [olock EXCEPT ![o] = r]
             /\ todo' = [todo EXCEPT ![r] = ItemRows({o})]
             /\ pc' = [pc EXCEPT ![r] = "update"]
             /\ UNCHANGED <<listed, stock, book, plock, call, pending>>
    BY <1>5 DEF LockForCancel
  <2>2. o \in Orders
    BY DEF TypeOK, Call
  <2>3. ItemRows({o}) \in [Orders -> [Products -> Int]]
    BY ItemRowsType
  <2>4. CASE Rollback(r)
    BY <2>4, RollbackType
  <2>5. CASE ~Rollback(r)
    <3>1. olock' \in [Orders -> Requests \cup {None}]
      BY <2>1, <2>2, <2>5 DEF TypeOK
    <3>2. todo' \in [Requests -> [Orders -> [Products -> Int]]]
      BY <2>1, <2>3, <2>5 DEF TypeOK
    <3>3. pc' \in [Requests -> {"idle", "order", "rows", "update"}]
      BY <2>1, <2>5 DEF TypeOK
    <3> QED
      BY <2>1, <2>5, <3>1, <3>2, <3>3 DEF TypeOK
  <2> QED
    BY <2>4, <2>5
<1>6. ASSUME NEW r \in Requests, LockForPatch(r) PROVE TypeOK'
  <2>1. PICK o \in call[r].orders :
          \/ Rollback(r)
          \/ /\ olock' = [olock EXCEPT ![o] = r]
             /\ \E ids : todo' = [todo EXCEPT ![r] = ItemRows(ids)]
             /\ pc' = [pc EXCEPT ![r] = "update"] \/ pc' = [pc EXCEPT ![r] = "rows"]
             /\ UNCHANGED <<listed, stock, book, plock, call, pending>>
    BY <1>6 DEF LockForPatch
  <2>2. o \in Orders
    BY DEF TypeOK, Call
  <2>3. \A ids : ItemRows(ids) \in [Orders -> [Products -> Int]]
    BY ItemRowsType
  <2>4. CASE Rollback(r)
    BY <2>4, RollbackType
  <2>5. CASE ~Rollback(r)
    <3>1. olock' \in [Orders -> Requests \cup {None}]
      BY <2>1, <2>2, <2>5 DEF TypeOK
    <3>2. todo' \in [Requests -> [Orders -> [Products -> Int]]]
      <4>1. PICK ids : todo' = [todo EXCEPT ![r] = ItemRows(ids)]
        BY <2>1, <2>5
      <4>2. ItemRows(ids) \in [Orders -> [Products -> Int]]
        BY <2>3
      <4> QED
        BY <4>1, <4>2 DEF TypeOK
    <3>3. pc' \in [Requests -> {"idle", "order", "rows", "update"}]
      BY <2>1, <2>5 DEF TypeOK
    <3> QED
      BY <2>1, <2>5, <3>1, <3>2, <3>3 DEF TypeOK
  <2> QED
    BY <2>4, <2>5
<1>7. ASSUME NEW r \in Requests, LockProduct(r) PROVE TypeOK'
  BY <1>7 DEF LockProduct, TypeOK
<1>8. ASSUME NEW r \in Requests, CheckStock(r) PROVE TypeOK'
  <2>1. CASE Rollback(r)
    BY <2>1, RollbackType
  <2>2. CASE ~Rollback(r)
    <3>1. ChangedRows(r) \in [Orders -> [Products -> Int]]
      BY ChangedRowsType
    <3>2. [p \in Products |-> -call[r].items[p]] \in [Products -> Int]
      BY DEF TypeOK, Call, ItemMap
    <3>3. /\ UNCHANGED <<listed, stock, book, locks, call>>
          /\ pc' = [pc EXCEPT ![r] = "update"]
          /\ \/ UNCHANGED todo
             \/ todo' = [todo EXCEPT ![r] = ChangedRows(r)]
          /\ \/ UNCHANGED pending
             \/ pending' = [pending EXCEPT ![r] = [p \in Products |-> -call[r].items[p]]]
      BY <1>8, <2>2 DEF CheckStock
    <3> QED
      BY <3>1, <3>2, <3>3 DEF TypeOK
  <2> QED
    BY <2>1, <2>2
<1>9. ASSUME NEW r \in Requests, UpdateStock(r) PROVE TypeOK'
  <2>1. PICK o \in Orders, p \in Products :
          /\ todo' = [todo EXCEPT ![r][o][p] = 0]
          /\ \/ /\ plock' = [plock EXCEPT ![p] = r]
                /\ pending' = [pending EXCEPT ![r][p] = pending[r][p] + todo[r][o][p]]
             \/ UNCHANGED <<plock, pending>>
          /\ UNCHANGED <<listed, stock, book, olock, pc, call>>
    BY <1>9 DEF UpdateStock
  <2>2. /\ todo[r][o] \in [Products -> Int] /\ todo[r] \in [Orders -> [Products -> Int]]
        /\ todo[r][o][p] \in Int
    BY DEF TypeOK
  <2>3. pending' \in [Requests -> [Products -> Int]]
    <3>1. [pending[r] EXCEPT ![p] = pending[r][p] + todo[r][o][p]] \in [Products -> Int]
      BY <2>2 DEF TypeOK
    <3> QED
      BY <2>1, <3>1 DEF TypeOK
  <2>4. plock' \in [Products -> Requests \cup {None}]
    BY <2>1 DEF TypeOK
  <2>5. todo' \in [Requests -> [Orders -> [Products -> Int]]]
    <3>1. [todo[r][o] EXCEPT ![p] = 0] \in [Products -> Int]
      BY <2>2
    <3>2. [todo[r] EXCEPT ![o] = [todo[r][o] EXCEPT ![p] = 0]] \in [Orders -> [Products -> Int]]
      BY <2>2, <3>1
    <3> QED
      BY <2>1, <3>2 DEF TypeOK
  <2> QED
    BY <2>1, <2>3, <2>4, <2>5 DEF TypeOK
<1>10. ASSUME NEW r \in Requests, CommitCreate(r) PROVE TypeOK'
  <2>1. NewStatus \in Status
    BY DEF NewStatus, Status, StatusValues
  <2>2. call[r] \in Call
    BY DEF TypeOK
  <2> QED
    BY <1>10, <2>1, <2>2, ReleaseType, StockWithType DEF CommitCreate, TypeOK, Call
<1>11. ASSUME NEW r \in Requests, CommitCancel(r) PROVE TypeOK'
  <2>1. ToCanceled \in StatusPatch
    BY DEF ToCanceled, StatusPatch, StatusValues
  <2>2. ASSUME NEW o \in Orders PROVE Merge(status[o], ToCanceled) \in Status
    BY <2>1, MergeType DEF TypeOK
  <2> QED
    BY <1>11, <2>2, ReleaseType, StockWithType DEF CommitCancel, TypeOK
<1>12. ASSUME NEW r \in Requests, CommitPatch(r) PROVE TypeOK'
  <2>1. PICK o \in call[r].orders :
          /\ status' = [status EXCEPT ![o] = Merge(status[o], call[r].status)]
          /\ items' = [items EXCEPT ![o] = IF Revises(r, o) THEN call[r].items ELSE items[o]]
    BY <1>12 DEF CommitPatch
  <2>2. call[r] \in Call /\ o \in Orders
    BY DEF TypeOK, Call
  <2>3. Merge(status[o], call[r].status) \in Status
    BY <2>2, MergeType DEF TypeOK, Call
  <2>4. status' \in [Orders -> Status]
    BY <2>1, <2>2, <2>3 DEF TypeOK
  <2>5. items' \in [Orders -> ItemMap]
    BY <2>1, <2>2 DEF TypeOK, Call
  <2> QED
    BY <1>12, <2>4, <2>5, ReleaseType, StockWithType DEF CommitPatch, TypeOK
<1>13. ASSUME NEW p \in Products, DeleteProduct(p) PROVE TypeOK'
  BY <1>13, OrdersAssumption DEF DeleteProduct, TypeOK, ItemMap
<1>14. ASSUME NEW r \in Requests, DuplicateKey(r) \/ DeadlockVictim(r) \/ Fail(r)
       PROVE  TypeOK'
  BY <1>14, RollbackType DEF DuplicateKey, DeadlockVictim, Fail
<1>15. CASE UNCHANGED vars
  BY <1>15 DEF vars, TypeOK
<1> QED
  BY <1>1, <1>2, <1>3, <1>4, <1>5, <1>6, <1>7, <1>8, <1>9, <1>10, <1>11, <1>12,
     <1>13, <1>14, <1>15 DEF Next, Arrive, Proceed

\* The tables and the requests keep their types.
THEOREM TypeCorrect == Spec => []TypeOK
BY InitType, NextType, PTL DEF Spec

-----------------------------------------------------------------------------
(* The inductive invariant. *)

\* A step of another request or the deletion of a product as s sees it: its own
\* state, the orders and the product rows it has locked are left alone.
Undisturbed(s) ==
  /\ pc'[s] = pc[s] /\ call'[s] = call[s]
  /\ todo'[s] = todo[s] /\ pending'[s] = pending[s]
  /\ \A o \in call[s].orders : olock[o] = s =>
       /\ olock'[o] = s
       /\ status'[o] = status[o]
       /\ \A p \in listed' : items'[o][p] = items[o][p]
  /\ \A p \in Products : plock[p] = s => plock'[p] = s /\ stock'[p] = stock[p]

LEMMA Frame ==
  ASSUME TypeOK, TypeOK', NEW s \in Requests, RequestInv(s), Undisturbed(s),
         exists \subseteq exists', listed' \subseteq listed, StockNonNegative'
  PROVE  RequestInv(s)'
<1>1. Shape(s)'
  BY DEF RequestInv, Shape, Undisturbed
<1>2. OwnsOrders(s)'
  BY DEF RequestInv, OwnsOrders, Undisturbed, StillOpen, RecheckPasses
<1>3. OwnTodo(s)'
  BY DEF RequestInv, OwnTodo, Undisturbed
<1>4. PendingCovered(s)'
  BY DEF RequestInv, PendingCovered, Undisturbed, TypeOK, StockNonNegative
<1>5. TodoCovered(s)'
  BY DEF RequestInv, TodoCovered, Undisturbed, TypeOK
<1> QED
  BY <1>1, <1>2, <1>3, <1>4, <1>5 DEF RequestInv

\* A request that has ended satisfies the invariant.
LEMMA Released ==
  ASSUME TypeOK, TypeOK', NEW r \in Requests, Release(r), StockNonNegative'
  PROVE  RequestInv(r)'
<1>1. pc'[r] = "idle" /\ call'[r] = NoCall /\ todo'[r] = NoUpdates /\ pending'[r] = NoItems
  BY DEF TypeOK, Release
<1>2. Shape(r)'
  BY <1>1 DEF Shape, NoCall, Asks
<1>3. OwnsOrders(r)' /\ OwnTodo(r)' /\ TodoCovered(r)'
  BY <1>1, NoUpdatesType DEF OwnsOrders, OwnTodo, TodoCovered
<1>4. PendingCovered(r)'
  BY <1>1 DEF PendingCovered, NoItems, StockNonNegative, TypeOK
<1> QED
  BY <1>2, <1>3, <1>4 DEF RequestInv

LEMMA InvRollback ==
  ASSUME IInv, TypeOK', NEW r \in Requests, Rollback(r)
  PROVE  IInv'
<1>1. StockNonNegative'
  BY DEF IInv, StockNonNegative, Rollback
<1>2. ASSUME NEW s \in Requests, s # r PROVE Undisturbed(s)
  BY <1>2 DEF IInv, TypeOK, Call, Rollback, Release, Undisturbed, book
<1>3. ASSUME NEW s \in Requests PROVE RequestInv(s)'
  <2>1. CASE s = r
    BY <2>1, <1>1, Released DEF IInv, Rollback
  <2>2. CASE s # r
    BY <2>2, <1>1, <1>2, Frame DEF IInv, Rollback, book
  <2> QED
    BY <2>1, <2>2
<1> QED
  BY <1>1, <1>3 DEF IInv

\* A commit writes the orders its transaction has locked, or a new one, and the
\* stock it has locked.
LEMMA InvCommit ==
  ASSUME IInv, TypeOK', NEW r \in Requests, Release(r), stock' = StockWith(r),
         listed' = listed, exists \subseteq exists',
         \A o \in exists : olock[o] # r => status'[o] = status[o] /\ items'[o] = items[o]
  PROVE  IInv'
<1>1. StockNonNegative'
  BY DEF IInv, RequestInv, PendingCovered, StockNonNegative, StockWith
<1>2. ASSUME NEW s \in Requests, s # r PROVE Undisturbed(s)
  <2>1. /\ pc'[s] = pc[s] /\ call'[s] = call[s]
        /\ todo'[s] = todo[s] /\ pending'[s] = pending[s]
    BY <1>2 DEF IInv, TypeOK, Release
  <2>2. ASSUME NEW o \in call[s].orders, olock[o] = s
        PROVE  olock'[o] = s /\ status'[o] = status[o] /\ items'[o] = items[o]
    <3>1. o \in exists /\ o \in Orders
      BY DEF IInv, RequestInv, Shape, TypeOK
    <3> QED
      BY <1>2, <2>2, <3>1 DEF Release
  <2>3. ASSUME NEW p \in Products, plock[p] = s
        PROVE  plock'[p] = s /\ stock'[p] = stock[p]
    <3>1. pending[r][p] = 0
      BY <1>2, <2>3 DEF IInv, RequestInv, PendingCovered
    <3>2. stock[p] \in Int
      BY DEF IInv, TypeOK
    <3> QED
      BY <1>2, <2>3, <3>1, <3>2 DEF Release, StockWith
  <2> QED
    BY <2>1, <2>2, <2>3 DEF Undisturbed
<1>3. ASSUME NEW s \in Requests PROVE RequestInv(s)'
  <2>1. CASE s = r
    BY <2>1, <1>1, Released DEF IInv
  <2>2. CASE s # r
    BY <2>2, <1>1, <1>2, Frame DEF IInv
  <2> QED
    BY <2>1, <2>2
<1> QED
  BY <1>1, <1>3 DEF IInv

\* A step that only moves one request: it may take locks nobody holds.
LEMMA InvMove ==
  ASSUME IInv, TypeOK', NEW r \in Requests, RequestInv(r)',
         UNCHANGED <<listed, stock, book>>,
         \A s \in Requests \ {r} :
           /\ pc'[s] = pc[s] /\ call'[s] = call[s]
           /\ todo'[s] = todo[s] /\ pending'[s] = pending[s],
         \A o \in Orders : olock'[o] = olock[o] \/ olock[o] = None,
         \A p \in Products : plock'[p] = plock[p] \/ plock[p] \in {None, r}
  PROVE  IInv'
<1>1. StockNonNegative'
  BY DEF IInv, StockNonNegative
<1>2. ASSUME NEW s \in Requests, s # r PROVE RequestInv(s)'
  <2>1. s # None
    BY OrdersAssumption
  <2>2. Undisturbed(s)
    BY <1>2, <2>1 DEF Undisturbed, book, IInv, TypeOK, Call
  <2> QED
    BY <1>1, <2>2, Frame DEF IInv, book
<1> QED
  BY <1>1, <1>2 DEF IInv

LEMMA InvArrive ==
  ASSUME IInv, TypeOK', NEW r \in Requests, Arrive(r)
  PROVE  IInv'
<1> USE DEF book, locks
<1>0. pc[r] = "idle" /\ pending[r] = NoItems
  BY DEF Arrive, ReceiveCreate, ReceiveDelete, ReceivePatch, ReceiveBulk, Receive,
         IInv, RequestInv, Shape
<1>a. \A o \in Orders, p \in Products : todo[r][o][p] = 0
  BY <1>0 DEF IInv, RequestInv, Shape, OwnTodo, NoCall, Asks
<1>b. \A p \in Products : pending[r][p] = 0 /\ stock[p] >= 0
  BY <1>0 DEF NoItems, IInv, StockNonNegative
<1>1. CASE ReceiveCreate(r)
  <2>1. PICK u \in Users, k \in Keys \cup {None}, q \in Baskets :
          Receive(r, Asks("create", {}, NoChange, q, u, k), "rows")
    BY <1>1 DEF ReceiveCreate
  <2>2. pc'[r] = "rows" /\ call'[r] = Asks("create", {}, NoChange, q, u, k)
    BY <2>1 DEF Receive, IInv, TypeOK
  <2>3. UNCHANGED <<listed, stock, book, locks, todo, pending>>
    BY <1>1 DEF ReceiveCreate
  <2>4. RequestInv(r)'
    BY <2>2, <2>3, <1>0, <1>a, <1>b
       DEF RequestInv, Shape, OwnsOrders, OwnTodo, PendingCovered, TodoCovered, Asks, NoItems,
           IInv, TypeOK
  <2> QED
    BY <2>1, <2>3, <2>4, InvMove DEF Receive, IInv, TypeOK
<1>2. CASE ReceiveDelete(r)
  <2>1. PICK o \in exists :
          Receive(r, Asks("delete", {o}, NoChange, NoItems, None, None), "order")
    BY <1>2 DEF ReceiveDelete
  <2>2. pc'[r] = "order" /\ call'[r] = Asks("delete", {o}, NoChange, NoItems, None, None)
    BY <2>1 DEF Receive, IInv, TypeOK
  <2>3. UNCHANGED <<listed, stock, book, locks, todo, pending>>
    BY <1>2 DEF ReceiveDelete
  <2>4. RequestInv(r)'
    BY <2>2, <2>3, <1>0, <1>a, <1>b
       DEF RequestInv, Shape, OwnsOrders, OwnTodo, PendingCovered, TodoCovered, Asks, NoItems,
           IInv, TypeOK
  <2> QED
    BY <2>1, <2>3, <2>4, InvMove DEF Receive, IInv, TypeOK
<1>3. CASE ReceivePatch(r)
  <2>1. PICK o \in exists, s \in StatusPatches, q \in Baskets \cup {NoItems} :
          Receive(r, Asks("patch", {o}, s, q, None, None), "order")
    BY <1>3 DEF ReceivePatch
  <2>2. pc'[r] = "order" /\ call'[r] = Asks("patch", {o}, s, q, None, None)
    BY <2>1 DEF Receive, IInv, TypeOK
  <2>3. UNCHANGED <<listed, stock, book, locks, todo, pending>>
    BY <1>3 DEF ReceivePatch
  <2>4. RequestInv(r)'
    BY <2>2, <2>3, <1>0, <1>a, <1>b
       DEF RequestInv, Shape, OwnsOrders, OwnTodo, PendingCovered, TodoCovered, Asks, NoItems,
           IInv, TypeOK
  <2> QED
    BY <2>1, <2>3, <2>4, InvMove DEF Receive, IInv, TypeOK
<1>4. CASE ReceiveBulk(r)
  <2>1. PICK ids \in SUBSET exists :
          /\ Receive(r, Asks("bulk", SkipLocked(ids), NoChange, NoItems, None, None), "update")
          /\ olock' = [o \in Orders |-> IF o \in SkipLocked(ids) THEN r ELSE olock[o]]
          /\ todo' = [todo EXCEPT ![r] = ItemRows(SkipLocked(ids))]
    BY <1>4 DEF ReceiveBulk
  <2> DEFINE taken == SkipLocked(ids)
  <2>2. /\ pc'[r] = "update"
        /\ call'[r] = Asks("bulk", taken, NoChange, NoItems, None, None)
        /\ todo'[r] = ItemRows(taken)
    BY <2>1 DEF Receive, IInv, TypeOK
  <2>3. UNCHANGED <<listed, stock, book, plock, pending>>
    BY <1>4 DEF ReceiveBulk
  <2>4. taken \subseteq exists /\ \A o \in taken : StillOpen(o) /\ olock[o] = None
    BY DEF SkipLocked, StillOpen, Cancellable, Terminal, OrderRowFree
  <2> HIDE DEF taken
  <2>5. Shape(r)' /\ OwnsOrders(r)'
    BY <2>1, <2>2, <2>3, <2>4 DEF Shape, OwnsOrders, Asks, StillOpen, taken, IInv, TypeOK
  <2>6. OwnTodo(r)'
    BY <2>2, ItemRowsType DEF OwnTodo, Asks, IInv
  <2>7. PendingCovered(r)'
    BY <2>3, <1>b DEF PendingCovered, IInv, TypeOK
  <2>8. TodoCovered(r)'
    BY <2>2, ItemRowsType DEF TodoCovered, IInv, TypeOK
  <2>9. RequestInv(r)'
    BY <2>5, <2>6, <2>7, <2>8 DEF RequestInv
  <2>10. \A o \in Orders : olock'[o] = olock[o] \/ olock[o] = None
    BY <2>1, <2>4 DEF taken
  <2>11. \A s \in Requests \ {r} :
           /\ pc'[s] = pc[s] /\ call'[s] = call[s]
           /\ todo'[s] = todo[s] /\ pending'[s] = pending[s]
    BY <2>1, <2>3 DEF Receive, IInv, TypeOK
  <2> QED
    BY <2>3, <2>9, <2>10, <2>11, InvMove
<1> QED
  BY <1>1, <1>2, <1>3, <1>4 DEF Arrive

LEMMA InvLockForCancel ==
  ASSUME IInv, TypeOK', NEW r \in Requests, LockForCancel(r)
  PROVE  IInv'
<1>1. CASE Rollback(r)
  BY <1>1, InvRollback
<1>2. CASE ~Rollback(r)
  <2>1. PICK o \in call[r].orders :
          /\ pc[r] = "order" /\ call[r].op = "delete"
          /\ OrderRowFree(o) /\ StillOpen(o)
          /\ olock' = [olock EXCEPT ![o] = r]
          /\ todo' = [todo EXCEPT ![r] = ItemRows({o})]
          /\ pc' = [pc EXCEPT ![r] = "update"]
          /\ UNCHANGED <<listed, stock, book, plock, call, pending>>
    BY <1>2 DEF LockForCancel
  <2>2. call[r].orders = {o} /\ o \in Orders
    BY <2>1 DEF IInv, RequestInv, Shape
  <2>3. pending[r] = NoItems
    BY <2>1 DEF IInv, RequestInv, Shape
  <2>4. Shape(r)' /\ OwnsOrders(r)'
    <3>1. pc'[r] = "update" /\ call'[r] = call[r] /\ olock'[o] = r
      BY <2>1, <2>2 DEF IInv, TypeOK
    <3> QED
      BY <2>1, <2>2, <3>1 DEF Shape, OwnsOrders, StillOpen, IInv, RequestInv, TypeOK, book
  <2>5. OwnTodo(r)'
    BY <2>1, <2>2, ItemRowsType DEF OwnTodo, IInv, TypeOK
  <2>6. PendingCovered(r)'
    BY <2>1, <2>3 DEF PendingCovered, NoItems, StockNonNegative, IInv, TypeOK
  <2>7. TodoCovered(r)'
    BY <2>1, ItemRowsType DEF TodoCovered, IInv, TypeOK
  <2>8. RequestInv(r)'
    BY <2>4, <2>5, <2>6, <2>7 DEF RequestInv
  <2> QED
    BY <2>1, <2>8, InvMove DEF OrderRowFree, IInv, TypeOK
<1> QED
  BY <1>1, <1>2

LEMMA InvLockForPatch ==
  ASSUME IInv, TypeOK', NEW r \in Requests, LockForPatch(r)
  PROVE  IInv'
<1>1. CASE Rollback(r)
  BY <1>1, InvRollback
<1>2. CASE ~Rollback(r)
  <2>1. PICK o \in call[r].orders :
          /\ pc[r] = "order" /\ call[r].op = "patch"
          /\ OrderRowFree(o)
          /\ RecheckPasses(o, call[r].status)
          /\ call[r].items = NoItems \/ StillOpen(o)
          /\ olock' = [olock EXCEPT ![o] = r]
          /\ todo' = [todo EXCEPT ![r] =
                        ItemRows(IF Closes(status[o], call[r].status) THEN {o} ELSE {})]
          /\ pc' = [pc EXCEPT ![r] =
                      IF call[r].items = NoItems \/ Closes(status[o], call[r].status)
                      THEN "update" ELSE "rows"]
          /\ UNCHANGED <<listed, stock, book, plock, call, pending>>
    BY <1>2 DEF LockForPatch
  <2>2. call[r].orders = {o} /\ o \in Orders
    BY <2>1 DEF IInv, RequestInv, Shape
  <2>3. pending[r] = NoItems
    BY <2>1 DEF IInv, RequestInv, Shape
  <2>4. Shape(r)'
    BY <2>1, <2>2, <2>3 DEF Shape, IInv, RequestInv, TypeOK, book
  <2>5. OwnsOrders(r)'
    BY <2>1, <2>2 DEF OwnsOrders, StillOpen, RecheckPasses, IInv, TypeOK, book
  <2>6. OwnTodo(r)'
    BY <2>1, <2>2, ItemRowsType DEF OwnTodo, IInv, TypeOK
  <2>7. PendingCovered(r)'
    BY <2>1, <2>3 DEF PendingCovered, NoItems, StockNonNegative, IInv, TypeOK
  <2>8. TodoCovered(r)'
    BY <2>1, ItemRowsType DEF TodoCovered, IInv, TypeOK
  <2>9. RequestInv(r)'
    BY <2>4, <2>5, <2>6, <2>7, <2>8 DEF RequestInv
  <2> QED
    BY <2>1, <2>9, InvMove DEF OrderRowFree, IInv, TypeOK
<1> QED
  BY <1>1, <1>2

LEMMA InvLockProduct ==
  ASSUME IInv, TypeOK', NEW r \in Requests, LockProduct(r)
  PROVE  IInv'
<1>1. PICK p \in NextRows(r) :
        /\ pc[r] = "rows" /\ ProductRowFree(r, p)
        /\ plock' = [plock EXCEPT ![p] = r]
        /\ UNCHANGED <<listed, stock, book, olock, proc>>
  BY DEF LockProduct
<1>2. RequestInv(r)'
  <2>1. PendingCovered(r)'
    BY <1>1 DEF IInv, RequestInv, PendingCovered, TypeOK, proc
  <2>2. Shape(r)' /\ OwnsOrders(r)' /\ OwnTodo(r)' /\ TodoCovered(r)'
    BY <1>1 DEF IInv, RequestInv, Shape, OwnsOrders, OwnTodo, TodoCovered, StillOpen,
                RecheckPasses, proc, book
  <2> QED
    BY <2>1, <2>2 DEF RequestInv
<1> QED
  BY <1>1, <1>2, InvMove DEF ProductRowFree, proc, IInv, TypeOK

LEMMA OrderOfSingleton ==
  ASSUME NEW r \in Requests, NEW o, call[r].orders = {o}
  PROVE  OrderOf(r) = o
BY DEF OrderOf

LEMMA InvCheckStock ==
  ASSUME IInv, TypeOK', NEW r \in Requests, CheckStock(r)
  PROVE  IInv'
<1>1. CASE Rollback(r)
  BY <1>1, InvRollback
<1>2. CASE ~Rollback(r)
  <2>1. /\ pc[r] = "rows" /\ RowsLeft(r) = {} /\ InStock(r)
        /\ pc' = [pc EXCEPT ![r] = "update"]
        /\ UNCHANGED <<listed, stock, book, locks, call>>
    BY <1>2 DEF CheckStock
  <2>2. pending[r] = NoItems /\ call[r] \in Call
    BY <2>1 DEF IInv, RequestInv, Shape, TypeOK
  <2>3. ASSUME NEW p \in Products, Extra(r, p) > 0
        PROVE  plock[p] = r /\ stock[p] >= Extra(r, p)
    BY <2>1, <2>3 DEF InStock, RowsLeft, Wanted
  <2>4. Shape(r)' /\ OwnsOrders(r)'
    BY <2>1, <2>2 DEF Shape, OwnsOrders, StillOpen, RecheckPasses, IInv, RequestInv,
                      TypeOK, book, locks
  <2>5. CASE call[r].op = "create"
    <3>1. /\ pending' = [pending EXCEPT ![r] = [p \in Products |-> -call[r].items[p]]]
          /\ UNCHANGED todo
      BY <1>2, <2>5 DEF CheckStock
    <3>2. ASSUME NEW p \in Products PROVE Extra(r, p) = call[r].items[p] /\ Extra(r, p) \in Nat
      BY <2>2, <2>5 DEF Extra, Holds, Call, ItemMap
    <3>3. PendingCovered(r)'
      <4> SUFFICES ASSUME NEW p \in Products
                   PROVE  /\ pending'[r][p] # 0 => plock'[p] = r
                          /\ stock'[p] + pending'[r][p] >= 0
        BY DEF PendingCovered
      <4>1. pending'[r][p] = -Extra(r, p)
        BY <3>1, <3>2 DEF IInv, TypeOK
      <4>2. stock[p] \in Int /\ stock[p] >= 0
        BY DEF IInv, TypeOK, StockNonNegative
      <4> QED
        BY <2>1, <2>3, <3>2, <4>1, <4>2 DEF locks
    <3>4. \A x \in Orders, p \in Products : todo[r][x][p] = 0
      BY <2>5 DEF IInv, RequestInv, Shape, OwnTodo
    <3>5. OwnTodo(r)' /\ TodoCovered(r)'
      BY <3>1, <3>4 DEF OwnTodo, TodoCovered, IInv, TypeOK
    <3>6. RequestInv(r)'
      BY <2>4, <3>3, <3>5 DEF RequestInv
    <3> QED
      BY <2>1, <3>1, <3>6, InvMove DEF locks, IInv, TypeOK
  <2>6. CASE call[r].op # "create"
    <3>1. todo' = [todo EXCEPT ![r] = ChangedRows(r)] /\ UNCHANGED pending
      BY <1>2, <2>6 DEF CheckStock
    <3>2. PICK o \in Orders : call[r].orders = {o} /\ call[r].op = "patch"
      BY <2>1, <2>6 DEF IInv, RequestInv, Shape
    <3>3. OwnTodo(r)'
      BY <2>1, <3>1, <3>2, ChangedRowsType DEF OwnTodo, IInv, TypeOK
    <3>4. PendingCovered(r)'
      BY <2>1, <2>2, <3>1 DEF PendingCovered, NoItems, StockNonNegative, IInv, TypeOK
    <3>5. TodoCovered(r)'
      <4> SUFFICES ASSUME NEW x \in Orders, NEW p \in listed', todo'[r][x][p] < 0
                   PROVE  plock'[p] = r /\ stock'[p] + pending'[r][p] + todo'[r][x][p] >= 0
        BY DEF TodoCovered
      <4>1. p \in Products
        BY DEF IInv, TypeOK
      <4>2. /\ todo'[r][x][p] = items[x][p] - call[r].items[p]
            /\ x = o
        <5>1. todo'[r] = ChangedRows(r)
          BY <3>1 DEF IInv, TypeOK
        <5>2. ChangedRows(r)[x][p] = IF x \in call[r].orders
                                     THEN items[x][p] - call[r].items[p] ELSE 0
          BY <4>1, ChangedRowsType DEF IInv
        <5> QED
          BY <3>2, <5>1, <5>2
      <4>3. Extra(r, p) = call[r].items[p] - items[o][p]
        BY <3>2, OrderOfSingleton DEF Extra, Holds
      <4>4. /\ items[o][p] \in Int /\ call[r].items[p] \in Int /\ stock[p] \in Int
            /\ pending[r][p] = 0
        BY <2>2, <4>1 DEF IInv, TypeOK, Call, ItemMap, NoItems
      <4>5. plock[p] = r /\ stock[p] >= Extra(r, p)
        BY <2>3, <4>1, <4>2, <4>3, <4>4
      <4> QED
        BY <2>1, <3>1, <4>2, <4>3, <4>4, <4>5 DEF locks
    <3>6. RequestInv(r)'
      BY <2>4, <3>3, <3>4, <3>5 DEF RequestInv
    <3> QED
      BY <2>1, <3>1, <3>6, InvMove DEF locks, IInv, TypeOK
  <2> QED
    BY <2>5, <2>6
<1> QED
  BY <1>1, <1>2

LEMMA InvUpdateStock ==
  ASSUME IInv, TypeOK', NEW r \in Requests, UpdateStock(r)
  PROVE  IInv'
<1>1. PICK o \in Orders, p \in Products :
        /\ pc[r] = "update" /\ todo[r][o][p] # 0
        /\ todo' = [todo EXCEPT ![r][o][p] = 0]
        /\ \/ /\ p \in listed /\ ProductRowFree(r, p)
              /\ plock' = [plock EXCEPT ![p] = r]
              /\ pending' = [pending EXCEPT ![r][p] = pending[r][p] + todo[r][o][p]]
           \/ UNCHANGED <<plock, pending>>
        /\ UNCHANGED <<listed, stock, book, olock, pc, call>>
  BY DEF UpdateStock
<1>2. /\ \A x \in Orders, y \in Products :
           todo'[r][x][y] = IF x = o /\ y = p THEN 0 ELSE todo[r][x][y]
      /\ \A s \in Requests \ {r} : todo'[s] = todo[s]
  BY <1>1 DEF IInv, TypeOK
<1>3. Shape(r)' /\ OwnsOrders(r)'
  BY <1>1 DEF IInv, RequestInv, Shape, OwnsOrders, StillOpen, RecheckPasses, TypeOK, book
<1>4. OwnTodo(r)'
  BY <1>1, <1>2 DEF IInv, RequestInv, OwnTodo, TypeOK
<1>5. CASE UNCHANGED <<plock, pending>>
  <2>1. PendingCovered(r)'
    BY <1>1, <1>5 DEF IInv, RequestInv, PendingCovered
  <2>2. TodoCovered(r)'
    BY <1>1, <1>2, <1>5 DEF IInv, RequestInv, TodoCovered, TypeOK
  <2>3. RequestInv(r)'
    BY <1>3, <1>4, <2>1, <2>2 DEF RequestInv
  <2> QED
    BY <1>1, <1>2, <1>5, <2>3, InvMove DEF IInv, TypeOK
<1>6. CASE /\ p \in listed /\ ProductRowFree(r, p)
           /\ plock' = [plock EXCEPT ![p] = r]
           /\ pending' = [pending EXCEPT ![r][p] = pending[r][p] + todo[r][o][p]]
  <2>1. /\ pending'[r][p] = pending[r][p] + todo[r][o][p]
        /\ \A y \in Products \ {p} : pending'[r][y] = pending[r][y]
        /\ \A s \in Requests \ {r} : pending'[s] = pending[s]
    BY <1>6 DEF IInv, TypeOK
  <2>2. /\ todo[r][o][p] \in Int /\ pending[r][p] \in Int /\ stock[p] \in Int
        /\ stock[p] + pending[r][p] >= 0
    BY DEF IInv, TypeOK, RequestInv, PendingCovered
  <2>3. stock[p] + pending[r][p] + todo[r][o][p] >= 0
    <3>1. CASE todo[r][o][p] < 0
      BY <1>1, <1>6, <3>1 DEF IInv, RequestInv, TodoCovered
    <3>2. CASE todo[r][o][p] >= 0
      BY <2>2, <3>2
    <3> QED
      BY <2>2, <3>1, <3>2
  <2>4. PendingCovered(r)'
    BY <1>1, <1>6, <2>1, <2>2, <2>3 DEF IInv, RequestInv, PendingCovered, TypeOK
  <2>5. TodoCovered(r)'
    <3> SUFFICES ASSUME NEW x \in Orders, NEW y \in listed', todo'[r][x][y] < 0
                 PROVE  plock'[y] = r /\ stock'[y] + pending'[r][y] + todo'[r][x][y] >= 0
      BY DEF TodoCovered
    <3>1. /\ y \in listed /\ y \in Products /\ ~(x = o /\ y = p)
          /\ todo'[r][x][y] = todo[r][x][y]
      BY <1>1, <1>2 DEF IInv, TypeOK
    <3>2. plock[y] = r /\ stock[y] + pending[r][y] + todo[r][x][y] >= 0
      BY <1>1, <3>1 DEF IInv, RequestInv, TodoCovered
    <3>3. y # p
      <4>1. call[r].op = "patch" /\ x \in call[r].orders
        BY <3>1 DEF IInv, TypeOK, RequestInv, OwnTodo
      <4>2. \E z \in Orders : call[r].orders = {z}
        BY <4>1 DEF IInv, RequestInv, Shape
      <4>3. x = o
        BY <1>1, <4>1, <4>2 DEF IInv, RequestInv, OwnTodo
      <4> QED
        BY <3>1, <4>3
    <3> QED
      BY <1>1, <1>6, <2>1, <3>1, <3>2, <3>3 DEF IInv, TypeOK
  <2>6. RequestInv(r)'
    BY <1>3, <1>4, <2>4, <2>5 DEF RequestInv
  <2> QED
    BY <1>1, <1>2, <1>6, <2>1, <2>6, InvMove DEF ProductRowFree, IInv, TypeOK
<1> QED
  BY <1>1, <1>5, <1>6

\* Whoever commits has locked every order it works on.
LEMMA CommitterOwns ==
  ASSUME IInv, NEW r \in Requests, AllUpdated(r)
  PROVE  \A o \in call[r].orders : o \in exists /\ olock[o] = r
BY DEF IInv, RequestInv, Shape, OwnsOrders, AllUpdated

LEMMA InvCommits ==
  ASSUME IInv, TypeOK', NEW r \in Requests,
         CommitCreate(r) \/ CommitCancel(r) \/ CommitPatch(r)
  PROVE  IInv'
<1>1. CASE CommitCreate(r)
  <2>1. PICK o \in Orders \ exists :
          /\ exists' = exists \cup {o} /\ stock' = StockWith(r) /\ Release(r) /\ listed' = listed
          /\ status' = [status EXCEPT ![o] = NewStatus]
          /\ items' = [items EXCEPT ![o] = call[r].items]
    BY <1>1 DEF CommitCreate
  <2>2. ASSUME NEW x \in exists PROVE status'[x] = status[x] /\ items'[x] = items[x]
    BY <2>1, <2>2 DEF IInv, TypeOK
  <2> QED
    BY <2>1, <2>2, InvCommit
<1>2. CASE CommitCancel(r)
  BY <1>2, CommitterOwns, InvCommit DEF CommitCancel, IInv, TypeOK
<1>3. CASE CommitPatch(r)
  <2>1. PICK o \in call[r].orders :
          /\ AllUpdated(r) /\ stock' = StockWith(r) /\ Release(r)
          /\ listed' = listed /\ exists' = exists
          /\ status' = [status EXCEPT ![o] = Merge(status[o], call[r].status)]
          /\ items' = [items EXCEPT ![o] = IF Revises(r, o) THEN call[r].items ELSE items[o]]
    BY <1>3 DEF CommitPatch
  <2>2. ASSUME NEW x \in exists, olock[x] # r
        PROVE  status'[x] = status[x] /\ items'[x] = items[x]
    BY <2>1, <2>2, CommitterOwns DEF IInv, TypeOK
  <2> QED
    BY <2>1, <2>2, InvCommit
<1> QED
  BY <1>1, <1>2, <1>3

LEMMA InvDeleteProduct ==
  ASSUME IInv, TypeOK', NEW p \in Products, DeleteProduct(p)
  PROVE  IInv'
<1>1. StockNonNegative'
  BY DEF DeleteProduct, IInv, StockNonNegative, TypeOK
<1>2. ASSUME NEW s \in Requests PROVE RequestInv(s)'
  <2>1. s # None
    BY OrdersAssumption
  <2>2. ASSUME NEW o \in call[s].orders, NEW y \in listed' PROVE items'[o][y] = items[o][y]
    BY DEF DeleteProduct, IInv, TypeOK, ItemMap, Call
  <2>3. Undisturbed(s)
    BY <2>1, <2>2 DEF Undisturbed, DeleteProduct, locks, proc, IInv, TypeOK
  <2> QED
    BY <1>1, <2>3, Frame DEF DeleteProduct, IInv
<1> QED
  BY <1>1, <1>2 DEF IInv

LEMMA InitIInv == Init => IInv
<1> SUFFICES ASSUME Init PROVE IInv
  OBVIOUS
<1>1. StockNonNegative
  BY OrdersAssumption DEF Init, StockNonNegative
<1>2. ASSUME NEW r \in Requests PROVE RequestInv(r)
  <2>1. pc[r] = "idle" /\ call[r] = NoCall /\ todo[r] = NoUpdates /\ pending[r] = NoItems
    BY DEF Init
  <2>2. Shape(r) /\ OwnsOrders(r) /\ OwnTodo(r) /\ TodoCovered(r)
    BY <2>1, NoUpdatesType DEF Shape, OwnsOrders, OwnTodo, TodoCovered, NoCall, Asks
  <2>3. PendingCovered(r)
    BY <1>1, <2>1, InitType DEF PendingCovered, NoItems, StockNonNegative, TypeOK
  <2> QED
    BY <2>2, <2>3 DEF RequestInv
<1> QED
  BY <1>1, <1>2, InitType DEF IInv

LEMMA NextIInv == IInv /\ [Next]_vars => IInv'
<1> SUFFICES ASSUME IInv, [Next]_vars PROVE IInv'
  OBVIOUS
<1>0. TypeOK'
  BY NextType DEF IInv
<1>1. ASSUME NEW r \in Requests, Arrive(r) PROVE IInv'
  BY <1>0, <1>1, InvArrive
<1>2. ASSUME NEW r \in Requests, Proceed(r) PROVE IInv'
  BY <1>0, <1>2, InvLockForCancel, InvLockForPatch, InvLockProduct, InvCheckStock,
     InvUpdateStock, InvCommits, InvRollback DEF Proceed, DuplicateKey
<1>3. ASSUME NEW r \in Requests, DeadlockVictim(r) \/ Fail(r) PROVE IInv'
  BY <1>0, <1>3, InvRollback DEF DeadlockVictim, Fail
<1>4. ASSUME NEW p \in Products, DeleteProduct(p) PROVE IInv'
  BY <1>0, <1>4, InvDeleteProduct
<1>5. CASE UNCHANGED vars
  <2>1. StockNonNegative'
    BY <1>5 DEF IInv, StockNonNegative, vars
  <2>2. ASSUME NEW s \in Requests PROVE RequestInv(s)'
    <3>1. Undisturbed(s)
      BY <1>5 DEF vars, book, locks, proc, Undisturbed
    <3> QED
      BY <1>0, <1>5, <2>1, <3>1, Frame DEF IInv, vars, book
  <2> QED
    BY <1>0, <2>1, <2>2 DEF IInv
<1> QED
  BY <1>1, <1>2, <1>3, <1>4, <1>5 DEF Next

LEMMA Invariance == Spec => []IInv
BY InitIInv, NextIInv, PTL DEF Spec

-----------------------------------------------------------------------------
(* The properties. *)

\* Only a commit and the deletion of a product write the tables.
LEMMA BookSteps ==
  ASSUME [Next]_vars
  PROVE  \/ \E r \in Requests : CommitCreate(r) \/ CommitCancel(r) \/ CommitPatch(r)
         \/ \E p \in Products : DeleteProduct(p)
         \/ UNCHANGED book
BY DEF Next, Arrive, Proceed, ReceiveCreate, ReceiveDelete, ReceivePatch, ReceiveBulk,
       LockForCancel, LockForPatch, LockProduct, CheckStock, UpdateStock, DuplicateKey,
       DeadlockVictim, Fail, Rollback, vars

\* No interleaving of requests makes the stock of a product negative.
THEOREM StockNeverNegative == Spec => []StockNonNegative
BY Invariance, PTL DEF IInv

\* Each idempotency key has at most one order.
THEOREM OneOrderPerIdempotencyKey == Spec => []OneOrderPerKey
<1>1. Init => OneOrderPerKey
  BY DEF Init, OneOrderPerKey
<1>2. IInv /\ OneOrderPerKey /\ [Next]_vars => OneOrderPerKey'
  <2> SUFFICES ASSUME IInv, OneOrderPerKey, [Next]_vars PROVE OneOrderPerKey'
    OBVIOUS
  <2>1. CASE UNCHANGED <<exists, key>>
    BY <2>1 DEF OneOrderPerKey
  <2>2. ASSUME NEW r \in Requests, CommitCreate(r) PROVE OneOrderPerKey'
    BY <2>2 DEF CommitCreate, KeyTaken, OneOrderPerKey, IInv, TypeOK
  <2>3. (\E r \in Requests : CommitCreate(r)) \/ UNCHANGED <<exists, key>>
    BY BookSteps DEF CommitCancel, CommitPatch, DeleteProduct, book
  <2> QED
    BY <2>1, <2>2, <2>3
<1> QED
  BY <1>1, <1>2, Invariance, PTL DEF Spec

\* What a step may do to an order that is there.
LEMMA StatusSteps ==
  ASSUME IInv, [Next]_vars, NEW o \in exists
  PROVE  /\ o \in exists'
         /\ \/ status'[o] = status[o]
            \/ StillOpen(o) /\ status'[o] = Merge(status[o], ToCanceled)
            \/ \E s \in StatusPatch : /\ RecheckPasses(o, s)
                                       /\ status'[o] = Merge(status[o], s)
<1>0. o \in Orders
  BY DEF IInv, TypeOK
<1>1. ASSUME NEW r \in Requests, CommitCreate(r)
      PROVE  o \in exists' /\ status'[o] = status[o]
  BY <1>0, <1>1 DEF CommitCreate, IInv, TypeOK
<1>2. ASSUME NEW r \in Requests, CommitCancel(r)
      PROVE  /\ o \in exists'
             /\ \/ status'[o] = status[o]
                \/ StillOpen(o) /\ status'[o] = Merge(status[o], ToCanceled)
  BY <1>0, <1>2 DEF CommitCancel, AllUpdated, IInv, RequestInv, OwnsOrders
<1>3. ASSUME NEW r \in Requests, CommitPatch(r)
      PROVE  /\ o \in exists'
             /\ \/ status'[o] = status[o]
                \/ \E s \in StatusPatch : /\ RecheckPasses(o, s)
                                           /\ status'[o] = Merge(status[o], s)
  <2>1. PICK x \in call[r].orders :
          /\ AllUpdated(r) /\ call[r].op = "patch"
          /\ status' = [status EXCEPT ![x] = Merge(status[x], call[r].status)]
          /\ exists' = exists
    BY <1>3 DEF CommitPatch
  <2>2. RecheckPasses(x, call[r].status) /\ call[r].status \in StatusPatch
    BY <2>1 DEF AllUpdated, IInv, RequestInv, OwnsOrders, TypeOK, Call
  <2> QED
    BY <1>0, <2>1, <2>2 DEF IInv, TypeOK
<1>4. \/ \E r \in Requests : CommitCreate(r) \/ CommitCancel(r) \/ CommitPatch(r)
      \/ UNCHANGED <<exists, status>>
  BY BookSteps DEF DeleteProduct, book
<1> QED
  BY <1>1, <1>2, <1>3, <1>4

LEMMA CancelFollows ==
  ASSUME NEW s \in Status, s.order \notin Terminal
  PROVE  Follows(s, Merge(s, ToCanceled))
BY DEF Follows, Merge, ToCanceled, Keep, Fields, Allowed, Status, StatusValues, Terminal

LEMMA LegalFollows ==
  ASSUME NEW s \in Status, NEW t \in StatusPatch, Legal(s, t)
  PROVE  Follows(s, Merge(s, t))
<1>1. ASSUME NEW f \in Fields
      PROVE  Merge(s, t)[f] = IF t[f] = Keep THEN s[f] ELSE t[f]
  BY DEF Merge, Fields
<1> QED
  BY <1>1 DEF Follows, Legal

\* Every committed status change follows the transition maps.
THEOREM StatusesFollowTheMap == Spec => StatusFollowsMap
<1>1. IInv /\ [Next]_vars =>
        [\A o \in exists : o \in exists' /\ Follows(status[o], status'[o])]_vars
  <2> SUFFICES ASSUME IInv, [Next]_vars, NEW o \in exists
               PROVE  o \in exists' /\ Follows(status[o], status'[o])
    OBVIOUS
  <2>1. status[o] \in Status
    BY DEF IInv, TypeOK
  <2>2. CASE status'[o] = status[o]
    BY <2>2, StatusSteps DEF Follows
  <2> QED
    BY <2>1, <2>2, StatusSteps, CancelFollows, LegalFollows DEF StillOpen, RecheckPasses
<1> QED
  BY <1>1, Invariance, PTL DEF Spec, StatusFollowsMap

\* What a step leaves of a closed order.
LEMMA ClosedStep ==
  ASSUME IInv, [Next]_vars, NEW o \in exists, status[o].order \in Terminal
  PROVE  /\ status'[o].order = status[o].order
         /\ \A p \in listed' : items'[o][p] = items[o][p]
<1>0. o \in Orders /\ status[o] \in Status
  BY DEF IInv, TypeOK
<1>1. status'[o].order = status[o].order
  <2>1. CASE status'[o] = status[o]
    BY <2>1
  <2>2. ASSUME NEW s \in StatusPatch, RecheckPasses(o, s), status'[o] = Merge(status[o], s)
        PROVE  status'[o].order = status[o].order
    <3>1. s.order \in {Keep, status[o].order}
      BY <1>0, <2>2 DEF RecheckPasses, Legal, Fields, Allowed, Terminal
    <3> QED
      BY <2>2, <3>1 DEF Merge
  <2> QED
    BY <2>1, <2>2, StatusSteps DEF StillOpen
<1>2. ASSUME NEW p \in listed' PROVE items'[o][p] = items[o][p]
  <2>1. ASSUME NEW r \in Requests, CommitCreate(r) PROVE items'[o] = items[o]
    BY <1>0, <2>1 DEF CommitCreate, IInv, TypeOK
  <2>2. ASSUME NEW r \in Requests, CommitPatch(r) PROVE items'[o] = items[o]
    <3>1. PICK x \in call[r].orders :
            /\ AllUpdated(r) /\ call[r].op = "patch"
            /\ items' = [items EXCEPT ![x] = IF Revises(r, x) THEN call[r].items
                                                            ELSE items[x]]
      BY <2>2 DEF CommitPatch
    <3>2. Revises(r, x) => StillOpen(x)
      BY <3>1 DEF AllUpdated, Revises, IInv, RequestInv, OwnsOrders
    <3> QED
      BY <1>0, <3>1, <3>2 DEF StillOpen, IInv, TypeOK
  <2>3. ASSUME NEW y \in Products, DeleteProduct(y) PROVE items'[o][p] = items[o][p]
    BY <1>0, <2>3 DEF DeleteProduct, IInv, TypeOK, ItemMap
  <2>4. \/ \E r \in Requests : CommitCreate(r) \/ CommitPatch(r)
        \/ \E y \in Products : DeleteProduct(y)
        \/ UNCHANGED items
    BY BookSteps DEF CommitCancel, book
  <2> QED
    BY <2>1, <2>2, <2>3, <2>4
<1> QED
  BY <1>1, <1>2

\* A closed order keeps its order status and its items.
THEOREM ClosedOrdersStayClosed == Spec => TerminalIsFinal
<1>1. IInv /\ [Next]_vars =>
        [\A o \in exists : status[o].order \in Terminal =>
           /\ status'[o].order = status[o].order
           /\ \A p \in listed' : items'[o][p] = items[o][p]]_vars
  BY ClosedStep
<1> QED
  BY <1>1, Invariance, PTL DEF Spec, TerminalIsFinal

-----------------------------------------------------------------------------
(***************************************************************************)
(* The accounts: what a transaction has in pending[r] is what the orders   *)
(* it works on hold, item for item, at every moment until it commits.      *)
(***************************************************************************)

\* The units of p that the orders in S hold, by the item lists it.
HeldBy(it, S, p) == Cardinality({u \in S \X (1..MaxQty) : u[2] <= it[u[1]][p]})

\* The orders of r that have given their units of p back.
Repaid(r, p) == {o \in call[r].orders : todo[r][o][p] = 0}

\* Who asks, and for what.
Kind(r) ==
  /\ pc[r] # "idle" => call[r].op # "none"
  /\ call[r].op = "create" => call[r].user \in Users
  /\ call[r].op = "bulk" => call[r].orders # {}
  /\ pc[r] = "rows" /\ call[r].op = "patch" => \A o \in call[r].orders : Revises(r, o)

\* A new order takes what it lists, all of it listed and locked.
TakesAll(r) ==
  \A p \in Products :
    /\ pending[r][p] = -call[r].items[p]
    /\ call[r].items[p] > 0 => p \in listed /\ plock[p] = r

\* An item that has still to give back its units holds as many as were fetched:
\* without edits that insert a product again, a fetched quantity is never stale.
StillHeld(r) == \A o \in call[r].orders, p \in listed : todo[r][o][p] \in {0, items[o][p]}

\* Orders that are closed give back all they hold.
GivesBack(r) ==
  /\ \A p \in Products : pending[r][p] = HeldBy(items, Repaid(r, p), p)
  /\ StillHeld(r)

\* A revision takes or gives the difference.
TakesDifference(r, o) ==
  \A p \in Products :
    /\ todo[r][o][p] \in {0, items[o][p] - call[r].items[p]}
    /\ pending[r][p] = IF todo[r][o][p] # 0 THEN 0 ELSE items[o][p] - call[r].items[p]
    /\ call[r].items[p] > 0 => p \in listed

TakesNothing(r) ==
  \A p \in Products : pending[r][p] = 0 /\ \A o \in Orders : todo[r][o][p] = 0

Accounts(r) ==
  pc[r] = "update" =>
    /\ call[r].op = "create" => TakesAll(r)
    /\ call[r].op \in {"delete", "bulk"} => GivesBack(r)
    /\ call[r].op = "patch" =>
         \A o \in call[r].orders :
           /\ Closes(status[o], call[r].status) => GivesBack(r)
           /\ Revises(r, o) => TakesDifference(r, o)
           /\ ~Closes(status[o], call[r].status) /\ ~Revises(r, o) => TakesNothing(r)

\* A deleted product is in no stock and in no order.
Delisted == \A p \in Products \ listed : stock[p] = 0 /\ \A o \in Orders : items[o][p] = 0

BookInv == (\A r \in Requests : Kind(r) /\ Accounts(r)) /\ Delisted /\ StockConserved

-----------------------------------------------------------------------------
(* Counting units. *)

LEMMA HeldFinite ==
  ASSUME NEW it \in [Orders -> ItemMap], NEW S \in SUBSET Orders, NEW p \in Products
  PROVE  /\ IsFiniteSet({u \in S \X (1..MaxQty) : u[2] <= it[u[1]][p]})
         /\ HeldBy(it, S, p) \in Nat
<1> DEFINE U == {u \in S \X (1..MaxQty) : u[2] <= it[u[1]][p]}
<1>1. IsFiniteSet(S) /\ IsFiniteSet(1..MaxQty)
  <2>1. IsFiniteSet(S)
    BY OrdersAssumption, FS_Subset
  <2>2. 1 \in Int /\ MaxQty \in Int
    BY OrdersAssumption
  <2> QED
    BY <2>1, <2>2, FS_Interval
<1>2. IsFiniteSet(S \X (1..MaxQty))
  BY <1>1, FS_Product
<1>3. U \in SUBSET (S \X (1..MaxQty))
  OBVIOUS
<1>4. IsFiniteSet(U)
  BY <1>2, <1>3, FS_Subset
<1> QED
  BY <1>4, FS_CardinalityType DEF HeldBy

\* Who holds none of it holds zero units.
LEMMA HeldNone ==
  ASSUME NEW it \in [Orders -> ItemMap], NEW S \in SUBSET Orders, NEW p \in Products,
         \A o \in S : it[o][p] = 0
  PROVE  HeldBy(it, S, p) = 0
<1>1. {u \in S \X (1..MaxQty) : u[2] <= it[u[1]][p]} = {}
  OBVIOUS
<1> QED
  BY <1>1, FS_EmptySet DEF HeldBy

\* Two item lists that agree on p.
LEMMA HeldSame ==
  ASSUME NEW it, NEW jt, NEW S, NEW p, \A o \in S : it[o][p] = jt[o][p]
  PROVE  HeldBy(it, S, p) = HeldBy(jt, S, p)
<1>1. {u \in S \X (1..MaxQty) : u[2] <= it[u[1]][p]}
        = {u \in S \X (1..MaxQty) : u[2] <= jt[u[1]][p]}
  OBVIOUS
<1> QED
  BY <1>1 DEF HeldBy

LEMMA HeldOne ==
  ASSUME NEW it \in [Orders -> ItemMap], NEW o \in Orders, NEW p \in Products
  PROVE  HeldBy(it, {o}, p) = it[o][p]
<1> DEFINE k == it[o][p]
<1>1. k \in 0..MaxQty /\ MaxQty \in Nat
  BY OrdersAssumption DEF ItemMap
<1>2. {u \in {o} \X (1..MaxQty) : u[2] <= it[u[1]][p]} = {o} \X (1..k)
  BY <1>1
<1>3. IsFiniteSet({o}) /\ Cardinality({o}) = 1
  BY FS_Singleton
<1>4. IsFiniteSet(1..k) /\ Cardinality(1..k) = k
  <2>1. 1 \in Int /\ k \in Int /\ k - 1 + 1 = k /\ (1 > k => k = 0)
    BY <1>1
  <2> HIDE DEF k
  <2>2. IsFiniteSet(1..k) /\ Cardinality(1..k) = IF 1 > k THEN 0 ELSE k - 1 + 1
    BY <2>1, FS_Interval
  <2> QED
    BY <2>1, <2>2
<1>5. Cardinality({o} \X (1..k)) = 1 * k
  BY <1>3, <1>4, FS_Product
<1> QED
  BY <1>1, <1>2, <1>5 DEF HeldBy

LEMMA HeldApart ==
  ASSUME NEW it \in [Orders -> ItemMap], NEW S \in SUBSET Orders, NEW T \in SUBSET Orders,
         S \cap T = {}, NEW p \in Products
  PROVE  HeldBy(it, S \cup T, p) = HeldBy(it, S, p) + HeldBy(it, T, p)
<1> DEFINE U(X) == {u \in X \X (1..MaxQty) : u[2] <= it[u[1]][p]}
<1>1. IsFiniteSet(U(S)) /\ IsFiniteSet(U(T)) /\ HeldBy(it, S, p) \in Nat /\ HeldBy(it, T, p) \in Nat
  BY HeldFinite
<1>2. U(S \cup T) = U(S) \cup U(T) /\ U(S) \cap U(T) = {}
  OBVIOUS
<1>3. Cardinality(U(S) \cap U(T)) = 0
  BY <1>2, FS_EmptySet
<1>4. /\ HeldBy(it, S \cup T, p) = Cardinality(U(S) \cup U(T))
      /\ HeldBy(it, S, p) = Cardinality(U(S)) /\ HeldBy(it, T, p) = Cardinality(U(T))
  BY <1>2 DEF HeldBy
<1> HIDE DEF U
<1>5. Cardinality(U(S) \cup U(T))
        = Cardinality(U(S)) + Cardinality(U(T)) - Cardinality(U(S) \cap U(T))
  BY <1>1, FS_Union
<1> QED
  BY <1>1, <1>3, <1>4, <1>5

\* One order more.
LEMMA HeldMore ==
  ASSUME NEW it \in [Orders -> ItemMap], NEW S \in SUBSET Orders, NEW o \in Orders \ S,
         NEW p \in Products
  PROVE  HeldBy(it, S \cup {o}, p) = HeldBy(it, S, p) + it[o][p]
<1>1. o \in Orders /\ {o} \in SUBSET Orders /\ S \cap {o} = {}
  OBVIOUS
<1>2. HeldBy(it, S \cup {o}, p) = HeldBy(it, S, p) + HeldBy(it, {o}, p)
  BY <1>1, HeldApart
<1>3. HeldBy(it, {o}, p) = it[o][p]
  BY <1>1, HeldOne
<1> QED
  BY <1>2, <1>3

\* The item lists of a step differ in one order at most.
LEMMA HeldRevised ==
  ASSUME NEW it \in [Orders -> ItemMap], NEW jt \in [Orders -> ItemMap], NEW S \in SUBSET Orders,
         NEW o \in S, NEW p \in Products, \A x \in S \ {o} : jt[x][p] = it[x][p]
  PROVE  HeldBy(jt, S, p) = HeldBy(it, S, p) - it[o][p] + jt[o][p]
<1> DEFINE R == S \ {o}
<1>1. S = R \cup {o} /\ R \in SUBSET Orders /\ o \in Orders \ R
  OBVIOUS
<1>2. \A x \in R : jt[x][p] = it[x][p]
  OBVIOUS
<1>3. it[o][p] \in Int /\ jt[o][p] \in Int
  BY <1>1 DEF ItemMap
<1> HIDE DEF R
<1>4. HeldBy(jt, R, p) = HeldBy(it, R, p)
  BY <1>2, HeldSame
<1>5. HeldBy(it, R, p) \in Nat
  BY <1>1, HeldFinite
<1>6. HeldBy(it, R \cup {o}, p) = HeldBy(it, R, p) + it[o][p]
  BY <1>1, HeldMore
<1>7. HeldBy(jt, R \cup {o}, p) = HeldBy(jt, R, p) + jt[o][p]
  BY <1>1, HeldMore
<1> QED
  BY <1>1, <1>3, <1>4, <1>5, <1>6, <1>7

OpenIn(S, st) == {o \in S : st[o].order \notin Terminal}

\* The abstract counts, in the words of these lemmas.
LEMMA BookCounts ==
  /\ Book!Open = OpenIn(exists, status)
  /\ Book!Open' = OpenIn(exists', status')
  /\ \A S, p : Book!Held(S, p) = HeldBy(items, S, p)
<1>1. Book!Open = OpenIn(exists, status)
  BY DEF Book!Open, Book!Terminal, Terminal, OpenIn
<1>2. Book!Open' = OpenIn(exists', status')
  BY DEF Book!Open, Book!Terminal, Terminal, OpenIn
<1>3. ASSUME NEW S, NEW p PROVE Book!Held(S, p) = HeldBy(items, S, p)
  <2>1. Book!Units(S, p) = {u \in S \X (1..MaxQty) : u[2] <= items[u[1]][p]}
    BY DEF Book!Units
  <2> QED
    BY <2>1 DEF Book!Held, HeldBy, Book!Cardinality, Cardinality
<1> QED
  BY <1>1, <1>2, <1>3

LEMMA ConservedMeans ==
  StockConserved <=>
    \A p \in listed : stock[p] + HeldBy(items, OpenIn(exists, status), p) = InitialStock[p]
BY BookCounts DEF StockConserved

LEMMA ConservedMeansNext ==
  StockConserved' <=>
    \A p \in listed' : stock'[p] + HeldBy(items', OpenIn(exists', status'), p) = InitialStock[p]
<1>1. ASSUME NEW S, NEW p
      PROVE  Cardinality({u \in S \X (1..MaxQty) : u[2] <= items'[u[1]][p]}) = HeldBy(items', S, p)
  BY DEF HeldBy
<1>2. StockConserved' <=>
        \A p \in listed' :
          stock'[p] + Cardinality({u \in Book!Open' \X (1..MaxQty) : u[2] <= items'[u[1]][p]})
            = InitialStock[p]
  BY DEF StockConserved, Book!Held, Book!Units, Book!Cardinality, Cardinality
<1> QED
  BY <1>1, <1>2, BookCounts

-----------------------------------------------------------------------------
(* The book keeps its own invariants. *)

LEMMA BookNames ==
  /\ Book!Terminal = Terminal
  /\ Book!Status = Status
  /\ Book!NewStatus = NewStatus
  /\ \A s, t : Book!Follows(s, t) <=> Follows(s, t)
BY DEF Book!Terminal, Terminal, Book!Status, Status, Book!StatusValues, StatusValues,
       Book!NewStatus, NewStatus, Book!Follows, Follows, Book!Allowed, Allowed, Book!Fields, Fields

\* A closed order follows the map nowhere.
LEMMA ClosedFollows ==
  ASSUME NEW s \in Status, NEW t, Follows(s, t), s.order \in Terminal
  PROVE  t.order = s.order
BY DEF Follows, Fields, Allowed, Terminal, Status, StatusValues

\* Every operation of the book leaves deleted products nowhere and the sums as
\* they were.
LEMMA BookKeeps ==
  ASSUME TypeOK, TypeOK', Delisted, StockConserved, [Book!BookNext]_(Book!bookVars)
  PROVE  Delisted' /\ StockConserved'
<1> DEFINE open == OpenIn(exists, status)
           openNext == OpenIn(exists', status')
<1>1. open \in SUBSET Orders /\ openNext \in SUBSET Orders
  BY DEF OpenIn, TypeOK
<1>2. ASSUME NEW p \in listed
      PROVE  /\ stock[p] + HeldBy(items, open, p) = InitialStock[p]
             /\ p \in Products /\ stock[p] \in Int
             /\ HeldBy(items, open, p) \in Int /\ HeldBy(items', open, p) \in Int
  <2>1. /\ p \in Products /\ stock[p] \in Int
        /\ items \in [Orders -> ItemMap] /\ items' \in [Orders -> ItemMap]
    BY DEF TypeOK
  <2>2. stock[p] + HeldBy(items, open, p) = InitialStock[p]
    BY ConservedMeans
  <2> HIDE DEF open
  <2>3. HeldBy(items, open, p) \in Nat /\ HeldBy(items', open, p) \in Nat
    BY <1>1, <2>1, HeldFinite
  <2> QED
    BY <2>1, <2>2, <2>3
<1>3. SUFFICES /\ Delisted'
               /\ \A p \in listed' :
                    stock'[p] + HeldBy(items', openNext, p) = InitialStock[p]
  BY ConservedMeansNext
<1>4. ASSUME NEW o \in Orders, Book!Place(o)
      PROVE  /\ Delisted'
             /\ \A p \in listed' : stock'[p] + HeldBy(items', openNext, p) = InitialStock[p]
  <2>1. PICK q \in Book!AnyItems :
          /\ o \notin exists
          /\ \A p \in Products : q[p] > 0 => p \in listed /\ q[p] <= stock[p]
          /\ exists' = exists \cup {o}
          /\ status' = [status EXCEPT ![o] = NewStatus]
          /\ items' = [items EXCEPT ![o] = q]
          /\ stock' = [p \in Products |-> stock[p] - q[p]]
          /\ UNCHANGED listed
    BY <1>4, BookNames DEF Book!Place
  <2>2. \A p \in Products : q[p] \in 0..MaxQty
    BY DEF Book!AnyItems
  <2>3. Delisted'
    BY <2>1, <2>2 DEF Delisted, TypeOK
  <2>4. openNext = open \cup {o} /\ o \in Orders \ open
    BY <2>1 DEF OpenIn, NewStatus, Terminal, TypeOK
  <2>5. ASSUME NEW p \in listed
        PROVE  stock'[p] + HeldBy(items', openNext, p) = InitialStock[p]
    <3>1. p \in Products /\ items' \in [Orders -> ItemMap]
      BY DEF TypeOK
    <3>2. HeldBy(items', open \cup {o}, p) = HeldBy(items', open, p) + items'[o][p]
      <4> HIDE DEF open, openNext
      <4> QED
        BY <1>1, <2>4, <3>1, HeldMore
    <3>3. HeldBy(items', open, p) = HeldBy(items, open, p)
      <4>1. \A x \in open : items'[x][p] = items[x][p]
        BY <1>1, <2>1, <2>4 DEF TypeOK
      <4> QED
        BY <4>1, HeldSame
    <3>4. items'[o][p] = q[p] /\ stock'[p] = stock[p] - q[p] /\ q[p] \in Int
      BY <2>1, <2>2, <3>1 DEF TypeOK
    <3> HIDE DEF open, openNext
    <3> QED
      BY <1>2, <2>4, <3>2, <3>3, <3>4
  <2> QED
    BY <2>1, <2>3, <2>5
<1>5. ASSUME NEW S \in SUBSET Book!Open, Book!Close(S)
      PROVE  /\ Delisted'
             /\ \A p \in listed' : stock'[p] + HeldBy(items', openNext, p) = InitialStock[p]
  <2>1. /\ \A o \in S : status'[o].order \in Terminal
        /\ \A o \in Orders \ S : status'[o] = status[o]
        /\ \A p \in Products : stock'[p] = IF p \in listed THEN stock[p] + HeldBy(items, S, p)
                                                          ELSE stock[p]
        /\ UNCHANGED <<listed, exists, items>>
    BY <1>5, BookNames, BookCounts DEF Book!Close, Book!MoveStatus
  <2>2. Delisted'
    BY <2>1 DEF Delisted
  <2>3. openNext = open \ S /\ S \subseteq open /\ open \ S \in SUBSET Orders /\ S \in SUBSET Orders
    BY <1>1, <2>1, BookCounts DEF OpenIn
  <2>4. ASSUME NEW p \in listed
        PROVE  stock'[p] + HeldBy(items', openNext, p) = InitialStock[p]
    <3> HIDE DEF open, openNext
    <3>1. open = (open \ S) \cup S /\ (open \ S) \cap S = {} /\ p \in Products /\ items \in [Orders -> ItemMap]
      BY <2>3 DEF TypeOK
    <3>2. HeldBy(items, (open \ S) \cup S, p) = HeldBy(items, open \ S, p) + HeldBy(items, S, p)
      BY <2>3, <3>1, HeldApart
    <3>3. HeldBy(items, open \ S, p) \in Nat /\ HeldBy(items, S, p) \in Nat
      BY <2>3, <3>1, HeldFinite
    <3>4. stock'[p] = stock[p] + HeldBy(items, S, p) /\ items' = items
      BY <2>1, <3>1
    <3>5. stock[p] + HeldBy(items, open, p) = InitialStock[p] /\ stock[p] \in Int
      BY <1>2
    <3>6. HeldBy(items, open, p) = HeldBy(items, open \ S, p) + HeldBy(items, S, p)
      BY <3>1, <3>2
    <3>7. stock'[p] + HeldBy(items, open \ S, p) = InitialStock[p]
      BY <3>3, <3>4, <3>5, <3>6
    <3> QED
      BY <2>3, <3>4, <3>7
  <2> QED
    BY <2>1, <2>2, <2>4
<1>6. ASSUME NEW o \in Book!Open, Book!Revise(o)
      PROVE  /\ Delisted'
             /\ \A p \in listed' : stock'[p] + HeldBy(items', openNext, p) = InitialStock[p]
  <2>1. PICK q \in Book!AnyItems :
          /\ \A p \in Products : q[p] > items[o][p] => p \in listed
          /\ items' = [items EXCEPT ![o] = q]
          /\ stock' = [p \in Products |-> stock[p] + items[o][p] - q[p]]
    BY <1>6 DEF Book!Revise
  <2>2. /\ status'[o].order \notin Terminal
        /\ \A x \in Orders \ {o} : status'[x] = status[x]
        /\ UNCHANGED <<listed, exists>>
    BY <1>6, BookNames DEF Book!Revise, Book!MoveStatus
  <2>3. o \in open /\ o \in Orders /\ openNext = open
    BY <1>1, <2>2, BookCounts DEF OpenIn
  <2>4. \A p \in Products : q[p] \in 0..MaxQty /\ items[o][p] \in 0..MaxQty /\ stock[p] \in Int
    BY <2>3 DEF Book!AnyItems, TypeOK, ItemMap
  <2>5. Delisted'
    <3> SUFFICES ASSUME NEW p \in Products \ listed
                 PROVE  stock'[p] = 0 /\ \A x \in Orders : items'[x][p] = 0
      BY <2>2 DEF Delisted
    <3>1. stock[p] = 0 /\ (\A x \in Orders : items[x][p] = 0)
      BY DEF Delisted
    <3>2. q[p] = 0
      BY <2>1, <2>3, <2>4, <3>1
    <3>3. stock'[p] = 0
      BY <2>1, <2>3, <3>1, <3>2
    <3> QED
      BY <2>1, <2>3, <3>1, <3>2, <3>3 DEF TypeOK
  <2>6. ASSUME NEW p \in listed
        PROVE  stock'[p] + HeldBy(items', openNext, p) = InitialStock[p]
    <3> HIDE DEF open, openNext
    <3>1. p \in Products /\ items \in [Orders -> ItemMap] /\ items' \in [Orders -> ItemMap]
      BY DEF TypeOK
    <3>2. \A x \in open \ {o} : items'[x][p] = items[x][p]
      BY <1>1, <2>1, <3>1
    <3>3. HeldBy(items', open, p) = HeldBy(items, open, p) - items[o][p] + items'[o][p]
      BY <1>1, <2>3, <3>1, <3>2, HeldRevised
    <3>4. items'[o][p] = q[p] /\ stock'[p] = stock[p] + items[o][p] - q[p]
      BY <2>1, <2>3, <3>1
    <3>5. q[p] \in Int /\ items[o][p] \in Int
      BY <2>4, <3>1
    <3> QED
      BY <1>2, <2>3, <3>3, <3>4, <3>5
  <2> QED
    BY <2>2, <2>5, <2>6
<1>7. ASSUME NEW o \in exists, Book!Restate(o)
      PROVE  /\ Delisted'
             /\ \A p \in listed' : stock'[p] + HeldBy(items', openNext, p) = InitialStock[p]
  <2>1. /\ o \in Orders => Follows(status[o], status'[o])
        /\ \A x \in Orders \ {o} : status'[x] = status[x]
        /\ status'[o].order \in Terminal => status[o].order = status'[o].order
        /\ UNCHANGED <<listed, stock, exists, items>>
    BY <1>7, BookNames DEF Book!Restate, Book!MoveStatus
  <2>2. o \in Orders /\ status[o] \in Status
    BY DEF TypeOK
  <2>3. status'[o].order \in Terminal <=> status[o].order \in Terminal
    BY <2>1, <2>2, ClosedFollows
  <2>4. openNext = open
    BY <1>1, <2>1, <2>3 DEF OpenIn
  <2> QED
    BY <1>2, <2>1, <2>4 DEF Delisted
<1>8. ASSUME NEW d \in Products, Book!Delist(d)
      PROVE  /\ Delisted'
             /\ \A p \in listed' : stock'[p] + HeldBy(items', openNext, p) = InitialStock[p]
  <2>1. /\ listed' = listed \ {d}
        /\ stock' = [stock EXCEPT ![d] = 0]
        /\ items' = [o \in Orders |-> [items[o] EXCEPT ![d] = 0]]
        /\ UNCHANGED <<exists, status>>
    BY <1>8 DEF Book!Delist
  <2>2. Delisted'
    BY <2>1 DEF Delisted, TypeOK, ItemMap
  <2>3. ASSUME NEW p \in listed'
        PROVE  stock'[p] + HeldBy(items', openNext, p) = InitialStock[p]
    <3>1. p \in listed /\ p # d /\ p \in Products
      BY <2>1 DEF TypeOK
    <3>2. \A o \in open : items'[o][p] = items[o][p]
      BY <1>1, <2>1, <3>1 DEF TypeOK, ItemMap
    <3>3. stock'[p] = stock[p] /\ openNext = open
      BY <2>1, <3>1 DEF TypeOK
    <3>4. HeldBy(items', open, p) = HeldBy(items, open, p)
      BY <3>2, HeldSame
    <3> QED
      BY <1>2, <3>1, <3>3, <3>4
  <2> QED
    BY <2>2, <2>3
<1>9. CASE UNCHANGED Book!bookVars
  BY <1>2, <1>9 DEF Book!bookVars, Delisted
<1> QED
  BY <1>3, <1>4, <1>5, <1>6, <1>7, <1>8, <1>9 DEF Book!BookNext

-----------------------------------------------------------------------------
(* Every step is a step of the book, or none. *)

LEMMA TableSteps ==
  ASSUME [Next]_vars
  PROVE  \/ \E r \in Requests : CommitCreate(r) \/ CommitCancel(r) \/ CommitPatch(r)
         \/ \E p \in Products : DeleteProduct(p)
         \/ UNCHANGED <<listed, stock, book>>
<1>1. ASSUME NEW r \in Requests, UpdateStock(r) PROVE UNCHANGED <<listed, stock, book>>
  BY <1>1 DEF UpdateStock
<1>2. ASSUME NEW r \in Requests, Arrive(r) PROVE UNCHANGED <<listed, stock, book>>
  BY <1>2 DEF Arrive, ReceiveCreate, ReceiveDelete, ReceivePatch, ReceiveBulk
<1>3. ASSUME NEW r \in Requests,
             \/ LockForCancel(r) \/ LockForPatch(r) \/ LockProduct(r) \/ CheckStock(r)
             \/ DuplicateKey(r) \/ DeadlockVictim(r) \/ Fail(r)
      PROVE  UNCHANGED <<listed, stock, book>>
  BY <1>3 DEF LockForCancel, LockForPatch, LockProduct, CheckStock, DuplicateKey,
              DeadlockVictim, Fail, Rollback
<1> QED
  BY <1>1, <1>2, <1>3 DEF Next, Proceed, vars

\* Orders that gave back all they hold: what a cancelling commit adds to the stock.
LEMMA GivenBack ==
  ASSUME TypeOK, Delisted, NEW r \in Requests, GivesBack(r), todo[r] = NoUpdates,
         call[r].orders \in SUBSET Orders
  PROVE  StockWith(r) = [p \in Products |->
                           IF p \in listed THEN stock[p] + HeldBy(items, call[r].orders, p)
                                           ELSE stock[p]]
<1>1. ASSUME NEW p \in Products PROVE pending[r][p] = HeldBy(items, call[r].orders, p)
  <2>1. Repaid(r, p) = call[r].orders
    BY NoUpdatesType DEF Repaid
  <2> QED
    BY <2>1 DEF GivesBack
<1>2. ASSUME NEW p \in Products \ listed PROVE HeldBy(items, call[r].orders, p) = 0
  <2>1. /\ \A o \in call[r].orders : items[o][p] = 0
        /\ items \in [Orders -> ItemMap]
    BY DEF Delisted, TypeOK
  <2> QED
    BY <2>1, HeldNone
<1>3. \A p \in Products : stock[p] \in Int
  BY DEF TypeOK
<1> QED
  BY <1>1, <1>2, <1>3 DEF StockWith

LEMMA CreatePlaces ==
  ASSUME IInv, BookInv, TypeOK', NEW r \in Requests, CommitCreate(r)
  PROVE  Book!BookNext
<1>1. PICK o \in Orders \ exists :
        /\ AllUpdated(r) /\ call[r].op = "create"
        /\ ~KeyTaken(call[r].key)
        /\ exists' = exists \cup {o}
        /\ status' = [status EXCEPT ![o] = NewStatus]
        /\ items' = [items EXCEPT ![o] = call[r].items]
        /\ buyer' = [buyer EXCEPT ![o] = call[r].user]
        /\ key' = [key EXCEPT ![o] = call[r].key]
        /\ stock' = StockWith(r)
        /\ UNCHANGED listed
  BY DEF CommitCreate
<1> DEFINE q == call[r].items
           u == call[r].user
           k == call[r].key
<1>2. TakesAll(r) /\ u \in Users
  BY <1>1 DEF BookInv, Kind, Accounts, AllUpdated
<1>3. q \in Book!AnyItems /\ k \in Keys \cup {None} /\ \A p \in Products : q[p] \in 0..MaxQty
  BY DEF Book!AnyItems, IInv, TypeOK, Call, ItemMap
<1>4. ASSUME NEW p \in Products
      PROVE  /\ stock[p] \in Int /\ q[p] \in Nat
             /\ pending[r][p] = -q[p]
             /\ q[p] > 0 => p \in listed
             /\ stock[p] + pending[r][p] >= 0
  BY <1>2, <1>3 DEF TakesAll, IInv, TypeOK, RequestInv, PendingCovered
<1>5. \A p \in Products : q[p] > 0 => p \in listed /\ q[p] <= stock[p]
  BY <1>4
<1>6. stock' = [p \in Products |-> stock[p] - q[p]]
  BY <1>1, <1>4 DEF StockWith
<1>7. \A other \in exists : k = None \/ key[other] # k
  BY <1>1 DEF KeyTaken
<1> HIDE DEF q, u, k
<1>8. Book!Place(o)
  <2>1. /\ items' = [items EXCEPT ![o] = q] /\ buyer' = [buyer EXCEPT ![o] = u]
        /\ key' = [key EXCEPT ![o] = k]
    BY <1>1 DEF q, u, k
  <2>2. status' = [status EXCEPT ![o] = Book!NewStatus]
    BY <1>1, BookNames
  <2> QED
    BY <1>1, <1>2, <1>3, <1>5, <1>6, <1>7, <2>1, <2>2 DEF Book!Place
<1> QED
  BY <1>1, <1>8 DEF Book!BookNext

LEMMA CancelCloses ==
  ASSUME IInv, BookInv, TypeOK', NEW r \in Requests, CommitCancel(r)
  PROVE  Book!BookNext
<1> DEFINE S == call[r].orders
<1>1. /\ AllUpdated(r) /\ call[r].op \in {"delete", "bulk"}
      /\ status' = [o \in Orders |-> IF o \in S THEN Merge(status[o], ToCanceled) ELSE status[o]]
      /\ stock' = StockWith(r)
      /\ UNCHANGED <<listed, exists, items, buyer, key>>
  BY DEF CommitCancel
<1>2. S # {} /\ S \in SUBSET exists /\ S \in SUBSET Orders /\ \A o \in S : StillOpen(o)
  BY <1>1 DEF IInv, TypeOK, RequestInv, Shape, OwnsOrders, AllUpdated, BookInv, Kind
<1>3. S \in SUBSET Book!Open
  BY <1>2, BookCounts DEF OpenIn, StillOpen
<1>4. GivesBack(r) /\ todo[r] = NoUpdates
  BY <1>1 DEF BookInv, Accounts, AllUpdated
<1>5. stock' = [p \in Products |-> IF p \in listed THEN stock[p] + Book!Held(S, p) ELSE stock[p]]
  BY <1>1, <1>2, <1>4, GivenBack, BookCounts DEF IInv, BookInv
<1>6. ASSUME NEW o \in S
      PROVE  Follows(status[o], status'[o]) /\ status'[o].order \in Terminal
  <2>1. o \in Orders /\ status[o] \in Status /\ status[o].order \notin Terminal
    BY <1>2 DEF IInv, TypeOK, StillOpen
  <2>2. status'[o] = Merge(status[o], ToCanceled)
    BY <1>1, <2>1
  <2>3. Merge(status[o], ToCanceled).order = "CANCELED"
    BY DEF Merge, ToCanceled, Keep
  <2> QED
    BY <2>1, <2>2, <2>3, CancelFollows DEF Terminal
<1>7. \A o \in Orders \ S : status'[o] = status[o]
  BY <1>1
<1>8. status' \in [Orders -> Status]
  BY DEF TypeOK
<1> HIDE DEF S
<1>9. Book!MoveStatus(S)
  BY <1>6, <1>7, <1>8, BookNames DEF Book!MoveStatus
<1>10. Book!Close(S)
  BY <1>1, <1>2, <1>5, <1>6, <1>9, BookNames DEF Book!Close
<1> QED
  BY <1>3, <1>10 DEF Book!BookNext

LEMMA PatchIsOneOperation ==
  ASSUME IInv, BookInv, TypeOK', NEW r \in Requests, CommitPatch(r)
  PROVE  Book!BookNext
<1>1. PICK o \in call[r].orders :
        /\ AllUpdated(r) /\ call[r].op = "patch"
        /\ status' = [status EXCEPT ![o] = Merge(status[o], call[r].status)]
        /\ items' = [items EXCEPT ![o] = IF Revises(r, o) THEN call[r].items ELSE items[o]]
        /\ stock' = StockWith(r)
        /\ UNCHANGED <<listed, exists, buyer, key>>
  BY DEF CommitPatch
<1> DEFINE s == call[r].status
           q == call[r].items
<1>2. /\ call[r].orders = {o} /\ o \in Orders /\ o \in exists
      /\ status[o] \in Status /\ s \in StatusPatch
      /\ Legal(status[o], s)
      /\ q # NoItems => status[o].order \notin Terminal
  BY <1>1 DEF IInv, TypeOK, Call, RequestInv, Shape, OwnsOrders, AllUpdated, StillOpen,
              RecheckPasses
<1>3. status'[o] = Merge(status[o], s) /\ \A x \in Orders \ {o} : status'[x] = status[x]
  BY <1>1, <1>2 DEF IInv, TypeOK
<1>4. Book!MoveStatus({o})
  BY <1>2, <1>3, LegalFollows, BookNames DEF Book!MoveStatus, TypeOK
<1>5. CASE Closes(status[o], s)
  <2>1. GivesBack(r) /\ todo[r] = NoUpdates /\ ~Revises(r, o)
    BY <1>1, <1>5 DEF BookInv, Accounts, AllUpdated, Revises
  <2>2. stock' = [p \in Products |-> IF p \in listed THEN stock[p] + Book!Held({o}, p) ELSE stock[p]]
    BY <1>1, <1>2, <2>1, GivenBack, BookCounts DEF IInv, BookInv
  <2>3. items' = items
    BY <1>1, <2>1 DEF IInv, TypeOK
  <2>4. status'[o].order \in Terminal /\ status[o].order \notin Terminal
    BY <1>3, <1>5 DEF Closes, Merge, Terminal, Keep
  <2>5. Book!Close({o})
    BY <1>1, <1>4, <2>2, <2>3, <2>4, BookNames DEF Book!Close
  <2>6. {o} \in SUBSET Book!Open
    BY <1>2, <2>4, BookCounts DEF OpenIn
  <2> QED
    BY <2>5, <2>6 DEF Book!BookNext
<1>6. CASE Revises(r, o)
  <2>1. TakesDifference(r, o) /\ todo[r] = NoUpdates
    BY <1>1, <1>6 DEF BookInv, Accounts, AllUpdated
  <2>2. status[o].order \notin Terminal /\ status'[o].order \notin Terminal
    BY <1>2, <1>3, <1>6 DEF Revises, Closes, Merge
  <2>3. ASSUME NEW p \in Products
        PROVE  /\ stock[p] \in Int /\ q[p] \in 0..MaxQty /\ items[o][p] \in 0..MaxQty
               /\ pending[r][p] = items[o][p] - q[p]
               /\ q[p] > 0 => p \in listed
               /\ stock[p] + pending[r][p] >= 0
    BY <1>2, <2>1, NoUpdatesType
       DEF TakesDifference, IInv, TypeOK, Call, ItemMap, RequestInv, PendingCovered
  <2>4. q \in Book!AnyItems
    BY DEF Book!AnyItems, IInv, TypeOK, Call, ItemMap
  <2>5. items' = [items EXCEPT ![o] = q]
    BY <1>1, <1>6
  <2>6. stock' = [p \in Products |-> stock[p] + items[o][p] - q[p]]
    BY <1>1, <2>3 DEF StockWith
  <2> HIDE DEF q, s
  <2>7. \A p \in Products : q[p] > items[o][p] => p \in listed /\ q[p] - items[o][p] <= stock[p]
    BY <2>3
  <2>8. Book!Revise(o)
    BY <1>1, <1>4, <2>2, <2>4, <2>5, <2>6, <2>7, BookNames DEF Book!Revise
  <2>9. o \in Book!Open
    BY <1>2, <2>2, BookCounts DEF OpenIn
  <2> QED
    BY <2>8, <2>9 DEF Book!BookNext
<1>7. CASE ~Closes(status[o], s) /\ ~Revises(r, o)
  <2>1. TakesNothing(r)
    BY <1>1, <1>7 DEF BookInv, Accounts, AllUpdated
  <2>2. stock' = stock /\ items' = items
    BY <1>1, <1>7, <2>1 DEF StockWith, TakesNothing, IInv, TypeOK
  <2>3. status'[o].order \in Terminal => status[o].order = status'[o].order
    <3>1. CASE s.order = Keep
      BY <1>3, <3>1 DEF Merge
    <3>2. CASE s.order # Keep
      <4>1. status'[o].order = s.order
        BY <1>3, <3>2 DEF Merge
      <4>2. s.order \in {status[o].order} \cup Allowed["order"][status[o].order]
        BY <1>2, <3>2 DEF Legal, Fields
      <4> QED
        BY <1>2, <1>7, <4>1, <4>2 DEF Closes, Allowed, Terminal
    <3> QED
      BY <3>1, <3>2
  <2>4. Book!Restate(o)
    BY <1>1, <1>4, <2>2, <2>3, BookNames DEF Book!Restate
  <2> QED
    BY <1>2, <2>4 DEF Book!BookNext
<1> QED
  BY <1>5, <1>6, <1>7

LEMMA StepMaps ==
  ASSUME IInv, BookInv, TypeOK', [Next]_vars
  PROVE  [Book!BookNext]_(Book!bookVars)
<1>1. ASSUME NEW r \in Requests, CommitCreate(r) \/ CommitCancel(r) \/ CommitPatch(r)
      PROVE  Book!BookNext
  BY <1>1, CreatePlaces, CancelCloses, PatchIsOneOperation
<1>2. ASSUME NEW p \in Products, DeleteProduct(p) PROVE Book!BookNext
  <2>1. Book!Delist(p)
    BY <1>2 DEF DeleteProduct, Book!Delist
  <2> QED
    BY <2>1 DEF Book!BookNext
<1>3. CASE UNCHANGED <<listed, stock, book>>
  BY <1>3 DEF book, Book!bookVars
<1> QED
  BY <1>1, <1>2, <1>3, TableSteps

-----------------------------------------------------------------------------
(* The accounts are kept. *)

\* A step of one request leaves every other one undisturbed.
LEMMA OthersUndisturbed ==
  ASSUME IInv, NEW r \in Requests, NEW s \in Requests, s # r,
         Arrive(r) \/ Proceed(r) \/ DeadlockVictim(r) \/ Fail(r)
  PROVE  Undisturbed(s)
<1> USE DEF book, locks, proc
<1>0. s # None /\ call[s].orders \subseteq exists /\ call[s].orders \subseteq Orders
  BY OrdersAssumption DEF IInv, RequestInv, Shape, TypeOK, Call
<1>1. CASE ReceiveCreate(r) \/ ReceiveDelete(r) \/ ReceivePatch(r)
  BY <1>0, <1>1 DEF ReceiveCreate, ReceiveDelete, ReceivePatch, Receive, Undisturbed, IInv, TypeOK
<1>2. CASE ReceiveBulk(r)
  <2>1. PICK ids \in SUBSET exists :
          /\ pc' = [pc EXCEPT ![r] = "update"]
          /\ call' = [call EXCEPT ![r] = Asks("bulk", SkipLocked(ids), NoChange, NoItems, None, None)]
          /\ olock' = [o \in Orders |-> IF o \in SkipLocked(ids) THEN r ELSE olock[o]]
          /\ todo' = [todo EXCEPT ![r] = ItemRows(SkipLocked(ids))]
          /\ UNCHANGED <<listed, stock, book, plock, pending>>
    BY <1>2 DEF ReceiveBulk, Receive
  <2>2. \A o \in SkipLocked(ids) : olock[o] = None
    BY DEF SkipLocked, OrderRowFree
  <2> QED
    BY <1>0, <2>1, <2>2 DEF Undisturbed, IInv, TypeOK
<1>3. CASE Rollback(r)
  BY <1>0, <1>3 DEF Rollback, Release, Undisturbed, IInv, TypeOK
<1>4. CASE LockForCancel(r) /\ ~Rollback(r)
  BY <1>0, <1>4 DEF LockForCancel, OrderRowFree, Undisturbed, IInv, TypeOK
<1>5. CASE LockForPatch(r) /\ ~Rollback(r)
  BY <1>0, <1>5 DEF LockForPatch, OrderRowFree, Undisturbed, IInv, TypeOK
<1>6. CASE LockProduct(r)
  BY <1>0, <1>6 DEF LockProduct, ProductRowFree, Undisturbed, IInv, TypeOK
<1>7. CASE CheckStock(r) /\ ~Rollback(r)
  BY <1>0, <1>7 DEF CheckStock, Undisturbed, IInv, TypeOK
<1>8. CASE UpdateStock(r)
  BY <1>0, <1>8 DEF UpdateStock, ProductRowFree, Undisturbed, IInv, TypeOK
<1>9. CASE CommitCreate(r) \/ CommitCancel(r) \/ CommitPatch(r)
  <2>1. Release(r) /\ stock' = StockWith(r) /\ listed' = listed
    BY <1>9 DEF CommitCreate, CommitCancel, CommitPatch
  <2>2. \A o \in exists : olock[o] # r => status'[o] = status[o] /\ items'[o] = items[o]
    BY <1>9, CommitterOwns DEF CommitCreate, CommitCancel, CommitPatch, IInv, TypeOK
  <2>3. \A p \in Products : plock[p] = s => pending[r][p] = 0 /\ stock[p] \in Int
    BY DEF IInv, TypeOK, RequestInv, PendingCovered
  <2>4. \A p \in Products : plock[p] = s => stock'[p] = stock[p]
    BY <2>1, <2>3 DEF StockWith
  <2> QED
    BY <1>0, <2>1, <2>2, <2>4 DEF Release, Undisturbed, IInv, TypeOK
<1> QED
  BY <1>1, <1>2, <1>3, <1>4, <1>5, <1>6, <1>7, <1>8, <1>9
     DEF Arrive, Proceed, DuplicateKey, DeadlockVictim, Fail

\* Who is not disturbed keeps its accounts.
LEMMA AccountsFrame ==
  ASSUME TypeOK, TypeOK', NEW s \in Requests, RequestInv(s), Kind(s), Accounts(s),
         Undisturbed(s), listed' = listed, Delisted, Delisted'
  PROVE  Kind(s)' /\ Accounts(s)'
<1>1. /\ pc'[s] = pc[s] /\ call'[s] = call[s] /\ todo'[s] = todo[s] /\ pending'[s] = pending[s]
      /\ call[s].orders \in SUBSET Orders
      /\ items \in [Orders -> ItemMap] /\ items' \in [Orders -> ItemMap]
  BY DEF Undisturbed, TypeOK, Call
<1>2. ASSUME pc[s] \in {"rows", "update"}, NEW o \in call[s].orders
      PROVE  /\ status'[o] = status[o] /\ Revises(s, o)' = Revises(s, o)
             /\ \A p \in Products : items'[o][p] = items[o][p]
  <2>1. o \in Orders /\ olock[o] = s
    BY <1>1, <1>2 DEF RequestInv, OwnsOrders
  <2>2. status'[o] = status[o] /\ \A p \in listed' : items'[o][p] = items[o][p]
    BY <2>1 DEF Undisturbed
  <2>3. \A p \in Products \ listed : items[o][p] = 0 /\ items'[o][p] = 0
    BY <2>1 DEF Delisted
  <2> QED
    BY <1>1, <2>2, <2>3 DEF Revises
<1>3. Kind(s)'
  BY <1>1, <1>2 DEF Kind
<1>4. ASSUME TakesAll(s) PROVE TakesAll(s)'
  BY <1>1, <1>4 DEF TakesAll, Undisturbed
<1>5. ASSUME pc[s] = "update", GivesBack(s) PROVE GivesBack(s)'
  <2>0. StillHeld(s)'
    BY <1>1, <1>2, <1>5 DEF GivesBack, StillHeld, TypeOK
  <2> SUFFICES ASSUME NEW p \in Products
               PROVE  pending'[s][p] = HeldBy(items', Repaid(s, p)', p)
    BY <2>0 DEF GivesBack
  <2>1. Repaid(s, p)' = Repaid(s, p) /\ Repaid(s, p) \subseteq call[s].orders
    BY <1>1 DEF Repaid
  <2>2. HeldBy(items', Repaid(s, p), p) = HeldBy(items, Repaid(s, p), p)
    BY <1>2, <1>5, <2>1, HeldSame
  <2> QED
    BY <1>1, <1>5, <2>1, <2>2 DEF GivesBack
<1>6. ASSUME pc[s] = "update", NEW o \in call[s].orders, TakesDifference(s, o)
      PROVE  TakesDifference(s, o)'
  BY <1>1, <1>2, <1>6 DEF TakesDifference
<1>7. ASSUME TakesNothing(s) PROVE TakesNothing(s)'
  BY <1>1, <1>7 DEF TakesNothing
<1>8. Accounts(s)'
  BY <1>1, <1>2, <1>4, <1>5, <1>6, <1>7 DEF Accounts
<1> QED
  BY <1>3, <1>8

\* An ended request owes nothing.
LEMMA AccountsClosed ==
  ASSUME TypeOK, NEW r \in Requests, Release(r)
  PROVE  Kind(r)' /\ Accounts(r)'
<1>1. pc'[r] = "idle" /\ call'[r] = NoCall
  BY DEF Release, TypeOK
<1> QED
  BY <1>1 DEF Kind, Accounts, NoCall, Asks

\* With every item still to be returned, nothing has been given back.
LEMMA NothingGivenYet ==
  ASSUME TypeOK, TypeOK', NEW r \in Requests, pending'[r] = NoItems, items' = items,
         todo'[r] = ItemRows(call'[r].orders)
  PROVE  GivesBack(r)'
<1>0. \A o \in call'[r].orders, p \in Products : todo'[r][o][p] = items'[o][p]
  BY ItemRowsType DEF TypeOK, Call
<1>a. StillHeld(r)'
  BY <1>0 DEF StillHeld, TypeOK
<1> SUFFICES ASSUME NEW p \in Products
             PROVE  pending'[r][p] = HeldBy(items', Repaid(r, p)', p)
  BY <1>a DEF GivesBack
<1>1. /\ Repaid(r, p)' \in SUBSET Orders /\ items' \in [Orders -> ItemMap]
      /\ \A o \in Repaid(r, p)' : items'[o][p] = 0
  BY <1>0 DEF Repaid, TypeOK, Call, ItemMap
<1>2. HeldBy(items', Repaid(r, p)', p) = 0
  BY <1>1, HeldNone
<1> QED
  BY <1>2 DEF NoItems

LEMMA ArrivalsOpenAccounts ==
  ASSUME IInv, BookInv, TypeOK', NEW r \in Requests, Arrive(r)
  PROVE  Kind(r)' /\ Accounts(r)'
<1>1. CASE ReceiveCreate(r)
  <2>1. PICK u \in Users, k \in Keys \cup {None}, q \in Baskets :
          Receive(r, Asks("create", {}, NoChange, q, u, k), "rows")
    BY <1>1 DEF ReceiveCreate
  <2>2. pc'[r] = "rows" /\ call'[r] = Asks("create", {}, NoChange, q, u, k)
    BY <2>1 DEF Receive, IInv, TypeOK
  <2> QED
    BY <2>2 DEF Kind, Accounts, Asks
<1>2. CASE ReceiveDelete(r)
  <2>1. PICK o \in exists :
          Receive(r, Asks("delete", {o}, NoChange, NoItems, None, None), "order")
    BY <1>2 DEF ReceiveDelete
  <2>2. pc'[r] = "order" /\ call'[r] = Asks("delete", {o}, NoChange, NoItems, None, None)
    BY <2>1 DEF Receive, IInv, TypeOK
  <2> QED
    BY <2>2 DEF Kind, Accounts, Asks
<1>3. CASE ReceivePatch(r)
  <2>1. PICK o \in exists, s \in StatusPatches, q \in Baskets \cup {NoItems} :
          Receive(r, Asks("patch", {o}, s, q, None, None), "order")
    BY <1>3 DEF ReceivePatch
  <2>2. pc'[r] = "order" /\ call'[r] = Asks("patch", {o}, s, q, None, None)
    BY <2>1 DEF Receive, IInv, TypeOK
  <2> QED
    BY <2>2 DEF Kind, Accounts, Asks
<1>4. CASE ReceiveBulk(r)
  <2>1. PICK ids \in SUBSET exists :
          /\ SkipLocked(ids) # {}
          /\ Receive(r, Asks("bulk", SkipLocked(ids), NoChange, NoItems, None, None), "update")
          /\ todo' = [todo EXCEPT ![r] = ItemRows(SkipLocked(ids))]
          /\ UNCHANGED <<items, pending>>
    BY <1>4 DEF ReceiveBulk, book
  <2> DEFINE taken == SkipLocked(ids)
  <2>2. /\ pc[r] = "idle" /\ pc'[r] = "update"
        /\ call'[r] = Asks("bulk", taken, NoChange, NoItems, None, None)
        /\ todo'[r] = ItemRows(taken)
    BY <2>1 DEF Receive, IInv, TypeOK
  <2>3. taken # {} /\ pending'[r] = NoItems
    BY <2>1, <2>2 DEF IInv, RequestInv, Shape
  <2> HIDE DEF taken
  <2>4. GivesBack(r)'
    BY <2>1, <2>2, <2>3, NothingGivenYet DEF Asks, IInv
  <2> QED
    BY <2>2, <2>3, <2>4 DEF Kind, Accounts, Asks
<1> QED
  BY <1>1, <1>2, <1>3, <1>4 DEF Arrive

LEMMA LocksOpenAccounts ==
  ASSUME IInv, BookInv, TypeOK', NEW r \in Requests, LockForCancel(r) \/ LockForPatch(r)
  PROVE  Kind(r)' /\ Accounts(r)'
<1>1. CASE Rollback(r)
  BY <1>1, AccountsClosed DEF IInv, Rollback
<1>2. CASE LockForCancel(r) /\ ~Rollback(r)
  <2>1. PICK o \in call[r].orders :
          /\ pc[r] = "order" /\ call[r].op = "delete"
          /\ todo' = [todo EXCEPT ![r] = ItemRows({o})]
          /\ pc' = [pc EXCEPT ![r] = "update"]
          /\ UNCHANGED <<listed, stock, book, plock, call, pending>>
    BY <1>2 DEF LockForCancel
  <2>2. /\ call[r].orders = {o} /\ pending'[r] = NoItems
        /\ todo'[r] = ItemRows({o}) /\ pc'[r] = "update" /\ call'[r] = call[r] /\ items' = items
    BY <2>1 DEF IInv, TypeOK, RequestInv, Shape, book
  <2>3. GivesBack(r)'
    BY <2>2, NothingGivenYet DEF IInv
  <2> QED
    BY <2>1, <2>2, <2>3 DEF Kind, Accounts
<1>3. CASE LockForPatch(r) /\ ~Rollback(r)
  <2>1. PICK o \in call[r].orders :
          /\ pc[r] = "order" /\ call[r].op = "patch"
          /\ todo' = [todo EXCEPT ![r] =
                        ItemRows(IF Closes(status[o], call[r].status) THEN {o} ELSE {})]
          /\ pc' = [pc EXCEPT ![r] =
                      IF call[r].items = NoItems \/ Closes(status[o], call[r].status)
                      THEN "update" ELSE "rows"]
          /\ UNCHANGED <<listed, stock, book, plock, call, pending>>
    BY <1>3 DEF LockForPatch
  <2>2. /\ call[r].orders = {o} /\ pending'[r] = NoItems
        /\ call'[r] = call[r] /\ items' = items /\ status' = status
    BY <2>1 DEF IInv, TypeOK, RequestInv, Shape, book
  <2>3. CASE Closes(status[o], call[r].status)
    <3>1. todo'[r] = ItemRows({o}) /\ pc'[r] = "update"
      BY <2>1, <2>3 DEF IInv, TypeOK
    <3>2. GivesBack(r)'
      BY <2>2, <3>1, NothingGivenYet DEF IInv
    <3>3. Revises(r, o)' <=> FALSE
      BY <2>2, <2>3 DEF Revises
    <3> QED
      BY <2>1, <2>2, <2>3, <3>1, <3>2, <3>3 DEF Kind, Accounts
  <2>4. CASE ~Closes(status[o], call[r].status) /\ call[r].items = NoItems
    <3>1. todo'[r] = ItemRows({}) /\ pc'[r] = "update"
      BY <2>1, <2>4 DEF IInv, TypeOK
    <3>2. TakesNothing(r)'
      BY <2>2, <3>1, ItemRowsType DEF TakesNothing, NoItems, IInv
    <3>3. Revises(r, o)' <=> FALSE
      BY <2>2, <2>4 DEF Revises
    <3> QED
      BY <2>1, <2>2, <2>4, <3>1, <3>2, <3>3 DEF Kind, Accounts
  <2>5. CASE ~Closes(status[o], call[r].status) /\ call[r].items # NoItems
    <3>1. pc'[r] = "rows"
      BY <2>1, <2>5 DEF IInv, TypeOK
    <3>2. Revises(r, o)'
      BY <2>1, <2>2, <2>5 DEF Revises
    <3> QED
      BY <2>1, <2>2, <3>1, <3>2 DEF Kind, Accounts
  <2> QED
    BY <2>3, <2>4, <2>5
<1> QED
  BY <1>1, <1>2, <1>3

LEMMA CheckStockOpensAccounts ==
  ASSUME IInv, BookInv, TypeOK', NEW r \in Requests, CheckStock(r)
  PROVE  Kind(r)' /\ Accounts(r)'
<1>1. CASE Rollback(r)
  BY <1>1, AccountsClosed DEF IInv, Rollback
<1>2. CASE ~Rollback(r)
  <2>1. /\ pc[r] = "rows" /\ RowsLeft(r) = {} /\ InStock(r)
        /\ pc' = [pc EXCEPT ![r] = "update"]
        /\ UNCHANGED <<listed, stock, book, locks, call>>
    BY <1>2 DEF CheckStock
  <2>2. /\ pc'[r] = "update" /\ call'[r] = call[r] /\ pending[r] = NoItems /\ call[r] \in Call
        /\ call[r].op \in {"create", "patch"}
    BY <2>1 DEF IInv, TypeOK, RequestInv, Shape
  <2>3. ASSUME NEW p \in Products, Extra(r, p) > 0
        PROVE  p \in listed /\ plock[p] = r
    BY <2>1, <2>3 DEF InStock, RowsLeft, Wanted
  <2>4. CASE call[r].op = "create"
    <3>1. pending' = [pending EXCEPT ![r] = [p \in Products |-> -call[r].items[p]]]
      BY <1>2, <2>4 DEF CheckStock
    <3>2. \A p \in Products : Extra(r, p) = call[r].items[p]
      BY <2>2, <2>4 DEF Extra, Holds, Call, ItemMap
    <3>3. TakesAll(r)'
      BY <2>1, <2>2, <2>3, <3>1, <3>2 DEF TakesAll, locks, IInv, TypeOK
    <3> QED
      BY <2>2, <2>4, <3>3 DEF Kind, Accounts, BookInv
  <2>5. CASE call[r].op = "patch"
    <3>1. todo'[r] = ChangedRows(r) /\ pending'[r] = NoItems
      BY <1>2, <2>2, <2>5 DEF CheckStock, IInv, TypeOK
    <3>2. PICK o \in Orders : call[r].orders = {o} /\ Revises(r, o)
      BY <2>1, <2>5 DEF IInv, RequestInv, Shape, BookInv, Kind
    <3>3. /\ Revises(r, o)' /\ items' = items /\ listed' = listed
          /\ ~Closes(status'[o], call'[r].status)
      BY <2>1, <2>2, <3>2 DEF Revises, book
    <3>4. ASSUME NEW p \in Products
          PROVE  /\ todo'[r][o][p] = items[o][p] - call[r].items[p]
                 /\ 0 = IF todo'[r][o][p] # 0 THEN 0 ELSE items[o][p] - call[r].items[p]
                 /\ call[r].items[p] > 0 => p \in listed
      <4>1. items[o][p] \in Nat /\ call[r].items[p] \in Nat
        BY <2>2, <3>2 DEF IInv, TypeOK, ItemMap, Call
      <4>2. Extra(r, p) = call[r].items[p] - items[o][p]
        BY <2>5, <3>2, OrderOfSingleton DEF Extra, Holds
      <4>3. items[o][p] > 0 => p \in listed
        BY DEF BookInv, Delisted
      <4>4. call[r].items[p] > 0 => p \in listed
        BY <2>3, <4>1, <4>2, <4>3
      <4>5. todo'[r][o][p] = items[o][p] - call[r].items[p]
        BY <3>1, <3>2, ChangedRowsType DEF IInv
      <4> QED
        BY <4>1, <4>4, <4>5
    <3>5. TakesDifference(r, o)'
      BY <2>2, <3>1, <3>3, <3>4 DEF TakesDifference, NoItems
    <3> QED
      BY <2>2, <2>5, <3>2, <3>3, <3>5 DEF Kind, Accounts
  <2> QED
    BY <2>2, <2>4, <2>5
<1> QED
  BY <1>1, <1>2

LEMMA UpdateStockKeepsAccounts ==
  ASSUME IInv, BookInv, TypeOK', NEW r \in Requests, UpdateStock(r)
  PROVE  Kind(r)' /\ Accounts(r)'
<1>1. PICK o \in Orders, p \in Products :
        /\ pc[r] = "update" /\ todo[r][o][p] # 0
        /\ todo' = [todo EXCEPT ![r][o][p] = 0]
        /\ \/ /\ p \in listed
              /\ plock' = [plock EXCEPT ![p] = r]
              /\ pending' = [pending EXCEPT ![r][p] = pending[r][p] + todo[r][o][p]]
           \/ /\ p \notin listed
              /\ UNCHANGED <<plock, pending>>
        /\ UNCHANGED <<listed, stock, book, olock, pc, call>>
  BY DEF UpdateStock
<1>2. /\ \A x \in Orders, y \in Products :
           todo'[r][x][y] = IF x = o /\ y = p THEN 0 ELSE todo[r][x][y]
      /\ o \in call[r].orders
      /\ pc'[r] = "update" /\ call' = call /\ items' = items /\ status' = status /\ listed' = listed
      /\ call[r] \in Call /\ call[r].orders \in SUBSET Orders /\ items \in [Orders -> ItemMap]
  BY <1>1 DEF IInv, TypeOK, Call, RequestInv, OwnTodo, book
<1>3. /\ items[o][p] \in 0..MaxQty /\ call[r].items[p] \in 0..MaxQty /\ pending[r][p] \in Int
      /\ p \notin listed => items[o][p] = 0
      /\ todo[r][o][p] \in Int
  BY <1>2 DEF IInv, TypeOK, ItemMap, Call, BookInv, Delisted
<1>4. /\ pending'[r][p] = IF p \in listed THEN pending[r][p] + todo[r][o][p] ELSE pending[r][p]
      /\ \A y \in Products \ {p} : pending'[r][y] = pending[r][y]
  BY <1>1 DEF IInv, TypeOK
<1>5. Kind(r)'
  BY <1>1, <1>2 DEF BookInv, Kind
<1>6. ASSUME GivesBack(r), ~Revises(r, o) PROVE GivesBack(r)'
  <2>0. StillHeld(r)'
    BY <1>2, <1>6 DEF GivesBack, StillHeld, IInv, TypeOK
  <2> SUFFICES ASSUME NEW y \in Products
               PROVE  pending'[r][y] = HeldBy(items, Repaid(r, y)', y)
    BY <1>2, <2>0 DEF GivesBack
  <2>1. pending[r][y] = HeldBy(items, Repaid(r, y), y)
    BY <1>6 DEF GivesBack
  <2>2. CASE y # p
    <3>1. Repaid(r, y)' = Repaid(r, y)
      BY <1>2, <2>2 DEF Repaid
    <3> QED
      BY <1>4, <2>1, <2>2, <3>1
  <2>3. CASE y = p
    <3>1. Repaid(r, p)' = Repaid(r, p) \cup {o} /\ Repaid(r, p) \in SUBSET Orders
          /\ o \in Orders \ Repaid(r, p)
      BY <1>1, <1>2 DEF Repaid
    <3>2. HeldBy(items, Repaid(r, p) \cup {o}, p) = HeldBy(items, Repaid(r, p), p) + items[o][p]
      BY <1>2, <3>1, HeldMore
    <3>3. p \in listed => todo[r][o][p] = items[o][p]
      BY <1>1, <1>2, <1>6 DEF GivesBack, StillHeld
    <3>4. pending'[r][p] = pending[r][p] + items[o][p]
      BY <1>3, <1>4, <3>3
    <3> QED
      BY <2>1, <2>3, <3>1, <3>2, <3>4
  <2> QED
    BY <2>2, <2>3
<1>7. ASSUME TakesDifference(r, o), Revises(r, o) PROVE TakesDifference(r, o)'
  <2> SUFFICES ASSUME NEW y \in Products
               PROVE  /\ todo'[r][o][y] \in {0, items[o][y] - call[r].items[y]}
                      /\ pending'[r][y] = IF todo'[r][o][y] # 0 THEN 0
                                          ELSE items[o][y] - call[r].items[y]
                      /\ call[r].items[y] > 0 => y \in listed
    BY <1>2 DEF TakesDifference
  <2>1. /\ todo[r][o][y] \in {0, items[o][y] - call[r].items[y]}
        /\ pending[r][y] = IF todo[r][o][y] # 0 THEN 0 ELSE items[o][y] - call[r].items[y]
        /\ call[r].items[y] > 0 => y \in listed
    BY <1>7 DEF TakesDifference
  <2>2. CASE y # p
    BY <1>2, <1>4, <2>1, <2>2
  <2>3. CASE y = p
    <3>1. pending[r][p] = 0 /\ todo'[r][o][y] = 0
      BY <1>1, <1>2, <2>1, <2>3
    <3>2. todo[r][o][p] = items[o][p] - call[r].items[p]
      BY <1>1, <2>1, <2>3
    <3>3. p \notin listed => items[o][p] - call[r].items[p] = 0
      BY <1>3, <2>1, <2>3
    <3>4. pending'[r][p] = items[o][p] - call[r].items[p]
      BY <1>3, <1>4, <3>1, <3>2, <3>3
    <3> QED
      BY <2>1, <2>3, <3>1, <3>4
  <2> QED
    BY <2>2, <2>3
<1>8. Accounts(r)'
  <2>1. CASE call[r].op = "create"
    BY <1>2, <2>1 DEF IInv, RequestInv, Shape
  <2>2. CASE call[r].op \in {"delete", "bulk"}
    <3>1. GivesBack(r) /\ ~Revises(r, o)
      BY <1>1, <2>2 DEF BookInv, Accounts, Revises
    <3> QED
      BY <1>2, <1>6, <2>2, <3>1 DEF Accounts
  <2>3. CASE call[r].op = "patch"
    <3>1. call[r].orders = {o}
      BY <1>2, <2>3 DEF IInv, RequestInv, Shape
    <3>2. Revises(r, o)' <=> Revises(r, o)
      BY <1>2 DEF Revises
    <3>3. Closes(status[o], call[r].status) => ~Revises(r, o)
      BY DEF Revises
    <3>4. Closes(status[o], call[r].status) \/ Revises(r, o)
      BY <1>1, <1>2, <2>3 DEF BookInv, Accounts, TakesNothing
    <3>5. /\ Closes(status[o], call[r].status) => GivesBack(r)
          /\ Revises(r, o) => TakesDifference(r, o)
      BY <1>1, <1>2, <2>3 DEF BookInv, Accounts
    <3> QED
      BY <1>2, <1>6, <1>7, <2>3, <3>1, <3>2, <3>3, <3>4, <3>5 DEF Accounts
  <2>4. CASE call[r].op = "none"
    BY <1>1, <2>4 DEF BookInv, Kind
  <2> QED
    BY <1>2, <2>1, <2>2, <2>3, <2>4 DEF Call, AllOperations
<1> QED
  BY <1>5, <1>8

\* A product goes only when no transaction has to account for it.
LEMMA DeleteProductKeepsAccounts ==
  ASSUME IInv, BookInv, TypeOK', NEW d \in Products, DeleteProduct(d), NEW s \in Requests
  PROVE  Kind(s)' /\ Accounts(s)'
<1>1. /\ plock[d] = None /\ ~HoldsItemRow(s, d) /\ s # None
      /\ listed' = listed \ {d}
      /\ items' = [o \in Orders |-> [items[o] EXCEPT ![d] = 0]]
      /\ UNCHANGED <<status, plock, pc, call, todo, pending>>
  BY OrdersAssumption DEF DeleteProduct, locks, proc
<1>2. /\ call[s] \in Call /\ call[s].orders \in SUBSET Orders
      /\ items \in [Orders -> ItemMap] /\ items' \in [Orders -> ItemMap]
      /\ plock[d] # s /\ pending[s][d] = 0
  BY <1>1 DEF IInv, TypeOK, Call, RequestInv, PendingCovered
<1>3. ASSUME NEW o \in Orders
      PROVE  /\ items'[o][d] = 0 /\ \A p \in Products \ {d} : items'[o][p] = items[o][p]
             /\ Revises(s, o)' <=> Revises(s, o)
  BY <1>1, <1>2 DEF Revises, ItemMap
<1>4. Kind(s)'
  BY <1>1, <1>2, <1>3 DEF BookInv, Kind
<1>5. ASSUME TakesAll(s) PROVE TakesAll(s)'
  <2>1. \A p \in Products : call[s].items[p] > 0 => p \in listed' /\ plock'[p] = s
    BY <1>1, <1>2, <1>5 DEF TakesAll
  <2> QED
    BY <1>1, <1>5, <2>1 DEF TakesAll
<1>6. ASSUME GivesBack(s) PROVE GivesBack(s)'
  <2>0. StillHeld(s)'
    BY <1>1, <1>2, <1>3, <1>6 DEF GivesBack, StillHeld, IInv, TypeOK
  <2> SUFFICES ASSUME NEW p \in Products
               PROVE  pending[s][p] = HeldBy(items', Repaid(s, p), p)
    BY <1>1, <2>0 DEF GivesBack, Repaid
  <2>1. Repaid(s, p) \in SUBSET Orders
    BY <1>2 DEF Repaid
  <2>2. CASE p = d
    <3>1. HeldBy(items', Repaid(s, p), p) = 0
      BY <1>2, <1>3, <2>1, <2>2, HeldNone
    <3> QED
      BY <1>2, <2>2, <3>1
  <2>3. CASE p # d
    <3>1. HeldBy(items', Repaid(s, p), p) = HeldBy(items, Repaid(s, p), p)
      BY <1>3, <2>1, <2>3, HeldSame
    <3> QED
      BY <1>6, <3>1 DEF GivesBack
  <2> QED
    BY <2>2, <2>3
<1>7. ASSUME pc[s] = "update", NEW o \in call[s].orders, Revises(s, o), TakesDifference(s, o)
      PROVE  TakesDifference(s, o)'
  <2>0. o \in Orders
    BY <1>2
  <2>1. items[o][d] \in Nat /\ call[s].items[d] \in Nat
    BY <1>2, <2>0 DEF Call, ItemMap
  <2>2. items[o][d] = 0
    <3>1. ~(items[o][d] > 0)
      BY <1>1, <1>7 DEF HoldsItemRow
    <3> QED
      BY <2>1, <3>1
  <2>3. call[s].items[d] = 0
    <3> SUFFICES ASSUME call[s].items[d] > 0 PROVE FALSE
      BY <2>1
    <3>1. CASE todo[s][o][d] # 0
      <4>1. d \in listed /\ todo[s][o][d] = items[o][d] - call[s].items[d]
        BY <1>7, <3>1 DEF TakesDifference
      <4>2. todo[s][o][d] < 0
        BY <2>1, <2>2, <4>1
      <4> QED
        BY <1>2, <1>7, <2>0, <4>1, <4>2 DEF IInv, RequestInv, TodoCovered
    <3>2. CASE todo[s][o][d] = 0
      BY <1>2, <1>7, <2>1, <2>2, <3>2 DEF TakesDifference
    <3> QED
      BY <3>1, <3>2
  <2>4. ASSUME NEW p \in Products
        PROVE  /\ todo[s][o][p] \in {0, items'[o][p] - call[s].items[p]}
               /\ pending[s][p] = IF todo[s][o][p] # 0 THEN 0 ELSE items'[o][p] - call[s].items[p]
               /\ call[s].items[p] > 0 => p \in listed'
    <3>1. CASE p = d
      BY <1>2, <1>3, <1>7, <2>0, <2>2, <2>3, <3>1 DEF TakesDifference
    <3>2. CASE p # d
      BY <1>1, <1>3, <1>7, <2>0, <3>2 DEF TakesDifference
    <3> QED
      BY <3>1, <3>2
  <2> QED
    BY <1>1, <2>4 DEF TakesDifference
<1>8. ASSUME TakesNothing(s) PROVE TakesNothing(s)'
  BY <1>1, <1>8 DEF TakesNothing
<1>9. Accounts(s)'
  <2> SUFFICES ASSUME pc[s] = "update"
               PROVE  /\ call[s].op = "create" => TakesAll(s)'
                      /\ call[s].op \in {"delete", "bulk"} => GivesBack(s)'
                      /\ call[s].op = "patch" =>
                           \A o \in call[s].orders :
                             /\ Closes(status[o], call[s].status) => GivesBack(s)'
                             /\ Revises(s, o) => TakesDifference(s, o)'
                             /\ ~Closes(status[o], call[s].status) /\ ~Revises(s, o)
                                  => TakesNothing(s)'
    BY <1>1, <1>2, <1>3 DEF Accounts
  <2> QED
    BY <1>5, <1>6, <1>7, <1>8 DEF BookInv, Accounts
<1> QED
  BY <1>4, <1>9

LEMMA NextBookInv ==
  ASSUME IInv, BookInv, TypeOK', [Next]_vars
  PROVE  BookInv'
<1>1. Delisted' /\ StockConserved'
  BY StepMaps, BookKeeps DEF IInv, BookInv
<1>2. ASSUME NEW r \in Requests, Arrive(r) \/ Proceed(r) \/ DeadlockVictim(r) \/ Fail(r),
             NEW s \in Requests
      PROVE  Kind(s)' /\ Accounts(s)'
  <2>1. listed' = listed
    BY <1>2 DEF Arrive, Proceed, ReceiveCreate, ReceiveDelete, ReceivePatch, ReceiveBulk,
                LockForCancel, LockForPatch, LockProduct, CheckStock, UpdateStock,
                CommitCreate, CommitCancel, CommitPatch, DuplicateKey, DeadlockVictim, Fail, Rollback
  <2>2. CASE s # r
    <3>1. Undisturbed(s)
      BY <1>2, <2>2, OthersUndisturbed
    <3> QED
      BY <1>1, <2>1, <3>1, AccountsFrame DEF IInv, BookInv
  <2>3. CASE s = r
    <3>1. CASE Arrive(r)
      BY <2>3, <3>1, ArrivalsOpenAccounts
    <3>2. CASE LockForCancel(r) \/ LockForPatch(r)
      BY <2>3, <3>2, LocksOpenAccounts
    <3>3. CASE LockProduct(r)
      <4>1. Undisturbed(r)
        BY <3>3 DEF LockProduct, Undisturbed, book, proc, IInv, TypeOK
      <4> QED
        BY <1>1, <2>1, <2>3, <4>1, AccountsFrame DEF IInv, BookInv
    <3>4. CASE CheckStock(r)
      BY <2>3, <3>4, CheckStockOpensAccounts
    <3>5. CASE UpdateStock(r)
      BY <2>3, <3>5, UpdateStockKeepsAccounts
    <3>6. CASE Release(r)
      BY <2>3, <3>6, AccountsClosed DEF IInv
    <3> QED
      BY <1>2, <3>1, <3>2, <3>3, <3>4, <3>5, <3>6
         DEF Proceed, CommitCreate, CommitCancel, CommitPatch, DuplicateKey, DeadlockVictim,
             Fail, Rollback
  <2> QED
    BY <2>2, <2>3
<1>3. ASSUME NEW p \in Products, DeleteProduct(p), NEW s \in Requests
      PROVE  Kind(s)' /\ Accounts(s)'
  BY <1>3, DeleteProductKeepsAccounts
<1>4. ASSUME UNCHANGED vars, NEW s \in Requests PROVE Kind(s)' /\ Accounts(s)'
  <2>1. Undisturbed(s) /\ listed' = listed
    BY <1>4 DEF vars, book, locks, proc, Undisturbed
  <2> QED
    BY <1>1, <2>1, AccountsFrame DEF IInv, BookInv
<1>5. \A s \in Requests : Kind(s)' /\ Accounts(s)'
  BY <1>2, <1>3, <1>4 DEF Next
<1> QED
  BY <1>1, <1>5 DEF BookInv

LEMMA InitBookInv == Init => BookInv /\ Book!BookInit
<1> SUFFICES ASSUME Init PROVE BookInv /\ Book!BookInit
  OBVIOUS
<1>1. Book!BookInit
  BY BookNames DEF Init, Book!BookInit, NoItems
<1>2. Delisted
  BY DEF Init, Delisted
<1>3. StockConserved
  <2>1. OpenIn(exists, status) = {}
    BY DEF Init, OpenIn
  <2>2. ASSUME NEW p \in listed PROVE HeldBy(items, {}, p) = 0
    BY InitType, HeldNone DEF Init, TypeOK
  <2>3. \A p \in listed : stock[p] = InitialStock[p] /\ stock[p] \in Int
    BY OrdersAssumption DEF Init
  <2> QED
    BY <2>1, <2>2, <2>3, ConservedMeans
<1>4. ASSUME NEW r \in Requests PROVE Kind(r) /\ Accounts(r)
  BY DEF Init, Kind, Accounts, NoCall, Asks
<1> QED
  BY <1>1, <1>2, <1>3, <1>4 DEF BookInv

LEMMA BookInvariance == Spec => [](IInv /\ BookInv)
<1>1. Init => IInv /\ BookInv
  BY InitIInv, InitBookInv
<1>2. IInv /\ BookInv /\ [Next]_vars => (IInv /\ BookInv)'
  BY NextIInv, NextBookInv DEF IInv
<1> QED
  BY <1>1, <1>2, PTL DEF Spec

\* What a product has in stock and what open orders hold of it always add up to
\* what there was: no interleaving leaks stock or returns it twice.
THEOREM StockAddsUp == Spec => []StockConserved
BY BookInvariance, PTL DEF BookInv

\* Every step of overlapping requests, seen from the tables, is one whole
\* operation of the order book or none.
THEOREM OrdersKeepTheBook == Spec => ImplementsOrderBook
<1>1. Init => Book!BookInit
  BY InitBookInv
<1>2. IInv /\ BookInv /\ [Next]_vars => [Book!BookNext]_(Book!bookVars)
  BY StepMaps, NextType DEF IInv
<1> QED
  BY <1>1, <1>2, BookInvariance, PTL DEF Spec, ImplementsOrderBook, Book!BookSpec

-----------------------------------------------------------------------------
(***************************************************************************)
(* Circles of waits.  "Eliminates the deadlock" (serializers.py) is too    *)
(* much to say of the sorted queries, as the run orders_deadlock shows;    *)
(* this is what is true of them.                                           *)
(***************************************************************************)

\* In every circle of waits somebody is past its query, at the UPDATE of a stock,
\* unless two products share a name: Meta.ordering is by name.
CirclesNeedUpdates ==
  \A S \in SUBSET Requests :
    WaitCycle(S) => \/ \E r \in S : pc[r] = "update"
                    \/ \E p, q \in Products : p # q /\ NameRank[p] = NameRank[q]

\* Only a request that has begun to lock holds a row.
HoldsLate(r) ==
  (\E p \in Products : plock[p] = r) \/ (\E o \in Orders : olock[o] = r) =>
    pc[r] \in {"rows", "update"}

\* The rows a query has locked come before those it has still to lock.
LocksInOrder(r) ==
  pc[r] = "rows" =>
    \A p \in Products, q \in RowsLeft(r) : plock[p] = r => NameRank[p] <= NameRank[q]

LockInv == \A r \in Requests : HoldsLate(r) /\ LocksInOrder(r)

\* A step of another request gives s no lock and its query no more rows to lock.
LEMMA LocksFrame ==
  ASSUME TypeOK, NEW s \in Requests, RequestInv(s), Undisturbed(s), HoldsLate(s), LocksInOrder(s),
         listed' \subseteq listed,
         \A p \in Products : plock'[p] = s => plock[p] = s,
         \A o \in Orders : olock'[o] = s => olock[o] = s
  PROVE  HoldsLate(s)' /\ LocksInOrder(s)'
<1>1. HoldsLate(s)'
  BY DEF HoldsLate, Undisturbed
<1>2. ASSUME pc[s] = "rows", NEW q \in RowsLeft(s)' PROVE q \in RowsLeft(s)
  <2>1. q \in Products /\ q \in listed' /\ q \in listed /\ plock'[q] # s /\ Extra(s, q)' > 0
    BY <1>2 DEF RowsLeft, Wanted
  <2>2. plock[q] # s /\ call'[s] = call[s]
    BY <2>1 DEF Undisturbed
  <2>3. Extra(s, q)' = Extra(s, q)
    <3>1. CASE call[s].op = "patch"
      <4>1. PICK o \in Orders : call[s].orders = {o}
        BY <3>1 DEF RequestInv, Shape
      <4>2. OrderOf(s) = o /\ OrderOf(s)' = o
        BY <2>2, <4>1 DEF OrderOf
      <4>3. items'[o][q] = items[o][q]
        BY <1>2, <2>1, <4>1 DEF RequestInv, OwnsOrders, Undisturbed
      <4> QED
        BY <2>2, <4>2, <4>3 DEF Extra, Holds
    <3>2. CASE call[s].op # "patch"
      BY <2>2, <3>2 DEF Extra, Holds
    <3> QED
      BY <3>1, <3>2
  <2> QED
    BY <2>1, <2>2, <2>3 DEF RowsLeft, Wanted
<1>3. LocksInOrder(s)'
  BY <1>2 DEF LocksInOrder, Undisturbed
<1> QED
  BY <1>1, <1>3

LEMMA NextLockInv ==
  ASSUME IInv, TypeOK', LockInv, [Next]_vars
  PROVE  LockInv'
<1>1. ASSUME NEW r \in Requests, Arrive(r) \/ Proceed(r) \/ DeadlockVictim(r) \/ Fail(r),
             NEW s \in Requests, s # r
      PROVE  HoldsLate(s)' /\ LocksInOrder(s)'
  <2>1. Undisturbed(s)
    BY <1>1, OthersUndisturbed
  <2>2. s # None
    BY OrdersAssumption
  <2>3. /\ \A p \in Products : plock'[p] = s => plock[p] = s
        /\ \A o \in Orders : olock'[o] = s => olock[o] = s
        /\ listed' = listed
    BY <1>1, <2>2
       DEF Arrive, Proceed, ReceiveCreate, ReceiveDelete, ReceivePatch, ReceiveBulk,
           LockForCancel, LockForPatch, LockProduct, CheckStock, UpdateStock, CommitCreate,
           CommitCancel, CommitPatch, DuplicateKey, DeadlockVictim, Fail, Rollback, Release,
           locks, IInv, TypeOK
  <2> QED
    BY <2>1, <2>3, LocksFrame DEF IInv, LockInv
<1>2. ASSUME NEW r \in Requests, Arrive(r) PROVE HoldsLate(r)' /\ LocksInOrder(r)'
  <2>1. pc[r] = "idle" /\ plock' = plock /\ pc' \in [Requests -> {"idle", "order", "rows", "update"}]
    BY <1>2 DEF Arrive, ReceiveCreate, ReceiveDelete, ReceivePatch, ReceiveBulk, Receive, locks, TypeOK
  <2>2. /\ \A p \in Products : plock'[p] # r
        /\ \A o \in Orders : olock[o] # r
    BY <2>1 DEF LockInv, HoldsLate
  <2>3. olock' = olock \/ pc'[r] = "update"
    BY <1>2 DEF Arrive, ReceiveCreate, ReceiveDelete, ReceivePatch, ReceiveBulk, Receive, locks,
                IInv, TypeOK
  <2> QED
    BY <2>2, <2>3 DEF HoldsLate, LocksInOrder
<1>3. ASSUME NEW r \in Requests, Release(r) PROVE HoldsLate(r)' /\ LocksInOrder(r)'
  <2>1. r # None
    BY OrdersAssumption
  <2> QED
    BY <1>3, <2>1 DEF Release, HoldsLate, LocksInOrder, IInv, TypeOK
<1>4. ASSUME NEW r \in Requests, LockForCancel(r) \/ LockForPatch(r), ~Rollback(r)
      PROVE  HoldsLate(r)' /\ LocksInOrder(r)'
  <2>1. pc[r] = "order" /\ plock' = plock /\ pc'[r] \in {"rows", "update"}
    BY <1>4 DEF LockForCancel, LockForPatch, IInv, TypeOK
  <2>2. \A p \in Products : plock'[p] # r
    BY <2>1 DEF LockInv, HoldsLate
  <2> QED
    BY <2>1, <2>2 DEF HoldsLate, LocksInOrder
<1>5. ASSUME NEW r \in Requests, LockProduct(r) PROVE HoldsLate(r)' /\ LocksInOrder(r)'
  <2>1. PICK p \in NextRows(r) :
          /\ pc[r] = "rows" /\ pc' = pc
          /\ plock' = [plock EXCEPT ![p] = r]
          /\ UNCHANGED <<listed, items, call>>
    BY <1>5 DEF LockProduct, book, proc
  <2>2. p \in RowsLeft(r) /\ \A q \in RowsLeft(r) : NameRank[p] <= NameRank[q]
    BY DEF NextRows
  <2>3. ASSUME NEW q \in RowsLeft(r)' PROVE q \in RowsLeft(r)
    <3>1. Extra(r, q)' = Extra(r, q)
      BY <2>1 DEF Extra, Holds, OrderOf
    <3> QED
      BY <2>1, <3>1 DEF RowsLeft, Wanted, IInv, TypeOK
  <2>4. LocksInOrder(r)'
    <3> SUFFICES ASSUME NEW x \in Products, NEW q \in RowsLeft(r)', plock'[x] = r
                 PROVE  NameRank[x] <= NameRank[q]
      BY DEF LocksInOrder
    <3>1. CASE x = p
      BY <2>2, <2>3, <3>1
    <3>2. CASE x # p
      BY <2>1, <2>3, <3>2 DEF LockInv, LocksInOrder, IInv, TypeOK
    <3> QED
      BY <3>1, <3>2
  <2> QED
    BY <2>1, <2>4 DEF HoldsLate
<1>6. ASSUME NEW r \in Requests, (CheckStock(r) /\ ~Rollback(r)) \/ UpdateStock(r)
      PROVE  HoldsLate(r)' /\ LocksInOrder(r)'
  <2>1. pc'[r] = "update"
    BY <1>6 DEF CheckStock, UpdateStock, IInv, TypeOK
  <2> QED
    BY <2>1 DEF HoldsLate, LocksInOrder
<1>7. ASSUME NEW d \in Products, DeleteProduct(d), NEW s \in Requests
      PROVE  HoldsLate(s)' /\ LocksInOrder(s)'
  <2>1. ASSUME NEW o \in call[s].orders, NEW y \in listed' PROVE items'[o][y] = items[o][y]
    BY <1>7 DEF DeleteProduct, IInv, TypeOK, ItemMap, Call
  <2>2. s # None
    BY OrdersAssumption
  <2>3. Undisturbed(s)
    BY <1>7, <2>1, <2>2 DEF Undisturbed, DeleteProduct, locks, proc, IInv, TypeOK
  <2>4. listed' \subseteq listed /\ plock' = plock /\ olock' = olock
    BY <1>7 DEF DeleteProduct, locks
  <2> QED
    BY <2>3, <2>4, LocksFrame DEF IInv, LockInv
<1>8. ASSUME UNCHANGED vars, NEW s \in Requests PROVE HoldsLate(s)' /\ LocksInOrder(s)'
  <2>1. Undisturbed(s) /\ listed' = listed /\ plock' = plock /\ olock' = olock
    BY <1>8 DEF vars, book, locks, proc, Undisturbed
  <2> QED
    BY <2>1, LocksFrame DEF IInv, LockInv
<1>9. ASSUME NEW r \in Requests, Arrive(r) \/ Proceed(r) \/ DeadlockVictim(r) \/ Fail(r)
      PROVE  HoldsLate(r)' /\ LocksInOrder(r)'
  BY <1>2, <1>3, <1>4, <1>5, <1>6, <1>9
     DEF Proceed, CommitCreate, CommitCancel, CommitPatch, DuplicateKey, DeadlockVictim,
         Fail, Rollback
<1>10. ASSUME NEW s \in Requests PROVE HoldsLate(s)' /\ LocksInOrder(s)'
  BY <1>1, <1>7, <1>8, <1>9 DEF Next
<1> QED
  BY <1>10 DEF LockInv

\* A finite set of requests has no relation that leads each to one of a higher rank.
LEMMA NoClimbForEver ==
  ASSUME NEW S, IsFiniteSet(S), S # {}, NEW rank \in [S -> Nat],
         \A r \in S : \E s \in S : rank[r] < rank[s]
  PROVE  FALSE
<1> DEFINE above(r) == {s \in S : rank[r] <= rank[s]}
           sizes == {Cardinality(above(r)) : r \in S}
<1>1. ASSUME NEW r \in S PROVE IsFiniteSet(above(r)) /\ Cardinality(above(r)) \in Nat
  <2>1. above(r) \in SUBSET S
    OBVIOUS
  <2> HIDE DEF above
  <2> QED
    BY <2>1, FS_Subset, FS_CardinalityType
<1>2. sizes \subseteq Nat /\ sizes # {}
  BY <1>1
<1>3. PICK n \in sizes : \A m \in sizes : ~(<<m, n>> \in OpToRel(<, Nat))
  <2> HIDE DEF sizes
  <2> QED
    BY <1>2, NatLessThanWellFounded, WFMin
<1>4. PICK r \in S : n = Cardinality(above(r))
  OBVIOUS
<1>5. PICK s \in S : rank[r] < rank[s]
  OBVIOUS
<1>6. above(s) \in SUBSET above(r) /\ r \in above(r) /\ r \notin above(s)
  BY <1>5
<1>7. Cardinality(above(s)) \in sizes /\ n \in Nat /\ Cardinality(above(s)) \in Nat
  BY <1>1, <1>2
<1>8. ~(Cardinality(above(s)) < n)
  BY <1>2, <1>3, <1>7 DEF OpToRel
<1>9. /\ Cardinality(above(s)) <= n
      /\ n = Cardinality(above(s)) => above(r) = above(s)
  <2>1. IsFiniteSet(above(r))
    BY <1>1
  <2> HIDE DEF above, sizes
  <2> QED
    BY <1>4, <1>6, <2>1, FS_Subset
<1> QED
  BY <1>6, <1>7, <1>8, <1>9

LEMMA QueriesDoNotCircle ==
  ASSUME IInv, LockInv
  PROVE  CirclesNeedUpdates
<1> SUFFICES ASSUME NEW S \in SUBSET Requests, WaitCycle(S), \A r \in S : pc[r] # "update",
                    \A p, q \in Products : p # q => NameRank[p] # NameRank[q]
             PROVE  FALSE
  BY DEF CirclesNeedUpdates
<1> DEFINE T == {r \in S : pc[r] = "rows"}
           wants(r, p) == p \in NextRows(r)
           rank == [r \in T |-> NameRank[CHOOSE p \in Products : wants(r, p)]]
<1>1. ASSUME NEW r \in S PROVE Holders(r) # {} /\ Holders(r) \cap {None, r} = {} /\ Holders(r) \subseteq S
  BY DEF WaitCycle, Waiting
<1>2. ASSUME NEW r \in S PROVE pc[r] \in {"order", "rows"}
  <2>1. pc[r] \in {"idle", "order", "rows", "update"} /\ pc[r] # "update"
    BY DEF IInv, TypeOK
  <2>2. pc[r] # "idle"
    BY <1>1 DEF Holders
  <2> QED
    BY <2>1, <2>2
<1>3. ASSUME NEW r \in S, NEW s \in S, s \in Holders(r) PROVE s \in T
  <2>1. CASE pc[r] = "order"
    <3>1. \E o \in Orders : olock[o] = s
      BY <1>3, <2>1 DEF Holders, IInv, TypeOK, Call
    <3> QED
      BY <1>2, <3>1 DEF LockInv, HoldsLate
  <2>2. CASE pc[r] = "rows"
    <3>1. \E p \in Products : plock[p] = s
      BY <1>3, <2>2 DEF Holders, NextRows, RowsLeft, Wanted
    <3> QED
      BY <1>2, <3>1 DEF LockInv, HoldsLate
  <2> QED
    BY <1>2, <2>1, <2>2
<1>4. T # {} /\ IsFiniteSet(T)
  <2>1. PICK r \in S : TRUE
    BY DEF WaitCycle
  <2>2. PICK s \in Holders(r) : s \in S
    BY <1>1
  <2>3. s \in T
    BY <1>3, <2>2
  <2>4. T \in SUBSET Requests
    OBVIOUS
  <2> HIDE DEF T
  <2> QED
    BY <2>3, <2>4, OrdersAssumption, FS_Subset
<1>5. ASSUME NEW r \in T
      PROVE  \E p \in Products : /\ p \in NextRows(r) /\ rank[r] = NameRank[p]
                                 /\ plock[p] \in T /\ plock[p] # r
  <2>1. Holders(r) = {plock[p] : p \in NextRows(r)}
    BY DEF Holders
  <2>2. \E p \in Products : wants(r, p)
    BY <1>1, <2>1 DEF NextRows, RowsLeft, Wanted
  <2>3. PICK p \in Products : wants(r, p) /\ rank[r] = NameRank[p]
    BY <2>2
  <2>4. plock[p] \in Holders(r)
    BY <2>1, <2>3
  <2> QED
    BY <1>1, <1>3, <2>3, <2>4
<1>6. rank \in [T -> Nat]
  BY <1>5, OrdersAssumption
<1>7. ASSUME NEW r \in T PROVE \E s \in T : rank[r] < rank[s]
  <2>1. PICK p \in Products : /\ p \in NextRows(r) /\ rank[r] = NameRank[p] /\ plock[p] \in T
    BY <1>5
  <2>2. PICK q \in Products : /\ q \in NextRows(plock[p]) /\ rank[plock[p]] = NameRank[q]
    BY <1>5, <2>1
  <2>3. q \in RowsLeft(plock[p]) /\ plock[q] # plock[p] /\ pc[plock[p]] = "rows"
    BY <2>1, <2>2 DEF NextRows, RowsLeft
  <2>4. NameRank[p] <= NameRank[q] /\ p # q
    BY <2>1, <2>3 DEF LockInv, LocksInOrder
  <2>5. NameRank[p] # NameRank[q] /\ NameRank[p] \in Nat /\ NameRank[q] \in Nat
    BY <2>4, OrdersAssumption
  <2> HIDE DEF rank
  <2> QED
    BY <2>1, <2>2, <2>4, <2>5
<1> HIDE DEF T, rank
<1> QED
  BY <1>4, <1>6, <1>7, NoClimbForEver

\* What the sorted locking queries of create_order() and update() do guarantee: they
\* alone never make requests wait for one another in a circle.
THEOREM SortedQueriesDoNotDeadlock == Spec => []CirclesNeedUpdates
<1>1. Init => LockInv
  <2> SUFFICES ASSUME Init, NEW r \in Requests PROVE HoldsLate(r) /\ LocksInOrder(r)
    BY DEF LockInv
  <2>1. r # None
    BY OrdersAssumption
  <2> QED
    BY <2>1 DEF Init, HoldsLate, LocksInOrder
<1>2. IInv /\ LockInv /\ [Next]_vars => LockInv'
  BY NextLockInv, NextType DEF IInv
<1>3. IInv /\ LockInv => CirclesNeedUpdates
  BY QueriesDoNotCircle
<1> QED
  BY <1>1, <1>2, <1>3, Invariance, PTL DEF Spec
=============================================================================
