---------------------------- MODULE SaversProofs ----------------------------
(***************************************************************************)
(* Theorems about StaleSavers: what the invariants of Orders are worth     *)
(* when the writers that take no lock are about.                           *)
(***************************************************************************)
EXTENDS StaleSavers, OrdersProofs

(***************************************************************************)
(* The inductive invariant: that of Orders, and what it lacks once rows    *)
(* may be listed again.                                                    *)
(***************************************************************************)

\* The request is to change the items of o or to close it.
Acts(r, o) ==
  \/ call[r].op \in {"delete", "bulk"}
  \/ Revises(r, o)
  \/ call[r].op = "patch" /\ Closes(status[o], call[r].status)

\* What the item of o for p gives back by the quantity it has now.
Returned(r, o, p) == IF Revises(r, o) THEN items[o][p] - call[r].items[p]
                                      ELSE items[o][p]

\* The stock updates still to run are of such orders, and those that take units
\* are of products that are listed.  They are what the items hold, but for those
\* of a product that was deleted, and maybe inserted again, under a cancel.
Takes(r) ==
  pc[r] = "update" =>
    \A o \in Orders, p \in Products : todo[r][o][p] # 0 =>
      /\ Acts(r, o)
      /\ todo[r][o][p] < 0 => p \in listed
      /\ Revises(r, o) \/ p \in listed \ relisted => todo[r][o][p] = Returned(r, o, p)
      /\ ~Revises(r, o) => todo[r][o][p] > 0

\* Order o accounts for what r has added to p.
Explains(r, o, p) ==
  /\ Acts(r, o)
  /\ \/ Returned(r, o, p) # 0
     \/ p \in relisted /\ ~Revises(r, o) /\ pending[r][p] > 0

\* The stock updates that have run are of such orders too.
Made(r) ==
  \A p \in Products : pending[r][p] # 0 =>
    /\ p \in listed
    /\ IF call[r].op = "create"
       THEN call[r].items[p] # 0
       ELSE \E o \in call[r].orders : Explains(r, o, p)

\* A patch locks product rows for the items of an order it leaves open.
Brings(r) ==
  pc[r] = "rows" /\ call[r].op = "patch" => \A o \in call[r].orders : Revises(r, o)

Justified(r) == Takes(r) /\ Made(r) /\ Brings(r)

\* An edit writes back a quantity that was in the row.
SaverInv(w) == saver[w].row = "product" => saver[w].quantity >= 0

\* The tables and the requests of Orders.
Good == IInv /\ \A r \in Requests : Justified(r)

SaversInv == Good /\ SaverTypeOK /\ \A w \in Savers : SaverInv(w)

-----------------------------------------------------------------------------
(* What a step leaves to the requests that it does not move.               *)

\* Product p is deleted in this step: nobody has its row or an item row of it.
Deleted(p) ==
  /\ p \in listed /\ p \notin listed' /\ plock[p] = None
  /\ \A r \in Requests : ~HoldsItemRow(r, p)
  /\ \A o \in Orders : items'[o][p] = 0

Kept(s) ==
  /\ pc'[s] = pc[s] /\ call'[s] = call[s] /\ todo'[s] = todo[s] /\ pending'[s] = pending[s]
  /\ \A o \in call[s].orders : olock[o] = s =>
       /\ status'[o] = status[o]
       /\ \A p \in Products : items'[o][p] = items[o][p] \/ Deleted(p)

LEMMA JustifiedFrame ==
  ASSUME IInv, TypeOK', NEW s \in Requests, Justified(s), Kept(s),
         \A p \in listed : p \in listed' \/ Deleted(p),
         relisted \subseteq relisted', listed' \ relisted' \subseteq listed
  PROVE  Justified(s)'
<1>0. s # None /\ call[s] \in Call
  BY OrdersAssumption DEF IInv, TypeOK
<1>1. ASSUME NEW o \in call[s].orders, olock[o] = s
      PROVE  Revises(s, o)' = Revises(s, o) /\ Acts(s, o)' = Acts(s, o)
  BY <1>1 DEF Kept, Revises, Acts
<1>2. ASSUME NEW o \in call[s].orders, olock[o] = s, NEW p \in Products, ~Deleted(p)
      PROVE  Returned(s, o, p)' = Returned(s, o, p)
  BY <1>1, <1>2 DEF Kept, Returned
<1>3. Takes(s)'
  <2> SUFFICES ASSUME pc'[s] = "update", NEW o \in Orders, NEW p \in Products, todo'[s][o][p] # 0
               PROVE  /\ Acts(s, o)'
                      /\ todo[s][o][p] < 0 => p \in listed'
                      /\ Revises(s, o) \/ p \in listed' \ relisted' =>
                           todo[s][o][p] = Returned(s, o, p)'
                      /\ ~Revises(s, o) => todo[s][o][p] > 0
    <3>1. ASSUME pc'[s] = "update", NEW o \in Orders, NEW p \in Products, todo'[s][o][p] # 0
          PROVE  todo'[s] = todo[s] /\ o \in call[s].orders /\ olock[o] = s
      <4>1. todo'[s] = todo[s] /\ pc[s] = "update" /\ todo[s][o][p] # 0
        BY <3>1 DEF Kept
      <4>2. o \in call[s].orders
        BY <4>1 DEF IInv, RequestInv, OwnTodo
      <4>3. olock[o] = s
        BY <4>1, <4>2 DEF IInv, RequestInv, OwnsOrders
      <4> QED
        BY <4>1, <4>2, <4>3
    <3> QED
      BY <1>1, <3>1 DEF Takes
  <2>1. pc[s] = "update" /\ todo[s][o][p] # 0
    BY DEF Kept
  <2>2. o \in call[s].orders /\ olock[o] = s
    BY <2>1 DEF IInv, RequestInv, OwnTodo, OwnsOrders
  <2>3. /\ Acts(s, o)
        /\ todo[s][o][p] < 0 => p \in listed
        /\ Revises(s, o) \/ p \in listed \ relisted => todo[s][o][p] = Returned(s, o, p)
        /\ ~Revises(s, o) => todo[s][o][p] > 0
    BY <2>1 DEF Justified, Takes
  <2>4. todo[s][o][p] < 0 => p \in listed'
    <3>1. todo[s][o][p] < 0 => plock[p] = s
      BY <2>1, <2>3 DEF IInv, RequestInv, TodoCovered
    <3> QED
      BY <1>0, <2>3, <3>1 DEF Deleted
  <2>5. ASSUME Revises(s, o) \/ p \in listed' \ relisted'
        PROVE  todo[s][o][p] = Returned(s, o, p)'
    <3>1. CASE ~Deleted(p)
      BY <1>2, <2>2, <2>3, <2>5, <3>1
    <3>2. CASE Deleted(p)
      <4>1. Revises(s, o)
        BY <2>5, <3>2 DEF Deleted
      <4>2. items[o][p] = 0
        <5>1. ~(items[o][p] > 0)
          BY <2>1, <2>2, <3>2, <4>1 DEF Deleted, HoldsItemRow
        <5>2. items[o][p] \in Nat
          BY DEF IInv, TypeOK, ItemMap
        <5> QED
          BY <5>1, <5>2
      <4>3. Returned(s, o, p)' = Returned(s, o, p)
        BY <1>1, <2>2, <3>2, <4>1, <4>2 DEF Returned, Deleted, Kept
      <4> QED
        BY <2>3, <4>1, <4>3
    <3> QED
      BY <3>1, <3>2
  <2> QED
    BY <1>1, <2>2, <2>3, <2>4, <2>5
<1>4. Made(s)'
  <2> SUFFICES ASSUME NEW p \in Products, pending'[s][p] # 0
               PROVE  /\ p \in listed'
                      /\ IF call'[s].op = "create"
                         THEN call'[s].items[p] # 0
                         ELSE \E o \in call'[s].orders : Explains(s, o, p)'
    BY DEF Made
  <2>1. pending[s][p] # 0 /\ plock[p] = s
    BY DEF Kept, IInv, RequestInv, PendingCovered
  <2>2. ~Deleted(p)
    BY <1>0, <2>1 DEF Deleted
  <2>3. p \in listed'
    BY <2>1, <2>2 DEF Justified, Made
  <2>4. CASE call[s].op = "create"
    BY <2>1, <2>3, <2>4 DEF Justified, Made, Kept
  <2>5. CASE call[s].op # "create"
    <3>1. PICK o \in call[s].orders : Explains(s, o, p)
      BY <2>1, <2>5 DEF Justified, Made
    <3>2. pc[s] = "update"
      BY <2>1 DEF IInv, RequestInv, Shape, NoItems
    <3>3. olock[o] = s
      BY <3>2 DEF IInv, RequestInv, OwnsOrders
    <3>4. Explains(s, o, p)'
      BY <1>1, <1>2, <2>2, <3>1, <3>3 DEF Kept, Explains
    <3> QED
      BY <2>3, <2>5, <3>4 DEF Kept
  <2> QED
    BY <2>4, <2>5
<1>5. Brings(s)'
  <2>1. pc[s] = "rows" => \A o \in call[s].orders : olock[o] = s
    BY DEF IInv, RequestInv, OwnsOrders
  <2> QED
    BY <1>1, <2>1 DEF Justified, Brings, Kept
<1> QED
  BY <1>3, <1>4, <1>5 DEF Justified

\* Another request's step, that deletes nothing.
LEMMA OthersKept ==
  ASSUME IInv, TypeOK', NEW s \in Requests, Justified(s), UNCHANGED <<listed, relisted>>,
         pc'[s] = pc[s], call'[s] = call[s], todo'[s] = todo[s], pending'[s] = pending[s],
         \A o \in exists : olock[o] = s => status'[o] = status[o] /\ items'[o] = items[o]
  PROVE  Justified(s)'
<1>1. Kept(s)
  BY DEF Kept, IInv, RequestInv, Shape
<1> QED
  BY <1>1, JustifiedFrame

\* A request that is to give back whole orders.
LEMMA GivesJustified ==
  ASSUME TypeOK', NEW r \in Requests, pc'[r] = "update", pending'[r] = NoItems,
         \A o \in Orders, p \in Products : todo'[r][o][p] # 0 =>
           Acts(r, o)' /\ todo'[r][o][p] = Returned(r, o, p)' /\ todo'[r][o][p] > 0
  PROVE  Justified(r)'
<1>1. \A o \in Orders, p \in Products : todo'[r][o][p] \in Int
  BY DEF TypeOK
<1>2. Takes(r)'
  BY <1>1 DEF Takes
<1> QED
  BY <1>2 DEF Justified, Made, Brings, NoItems

LEMMA JustifiedIdle ==
  ASSUME NEW r \in Requests, pc'[r] # "update", pending'[r] = NoItems, Brings(r)'
  PROVE  Justified(r)'
BY DEF Justified, Takes, Made, NoItems

\* A step that moves one request and writes no table.
LEMMA MoveJustified ==
  ASSUME IInv, TypeOK', \A s \in Requests : Justified(s), NEW r \in Requests, Justified(r)',
         UNCHANGED <<listed, book, relisted>>,
         \A s \in Requests \ {r} :
           /\ pc'[s] = pc[s] /\ call'[s] = call[s]
           /\ todo'[s] = todo[s] /\ pending'[s] = pending[s]
  PROVE  \A s \in Requests : Justified(s)'
BY OthersKept DEF book

LEMMA ReleaseJustified ==
  ASSUME IInv, TypeOK', \A s \in Requests : Justified(s), NEW r \in Requests, Release(r),
         UNCHANGED <<listed, relisted>>,
         \A o \in exists : olock[o] # r => status'[o] = status[o] /\ items'[o] = items[o]
  PROVE  \A s \in Requests : Justified(s)'
<1>1. pc'[r] = "idle" /\ pending'[r] = NoItems
  BY DEF Release, IInv, TypeOK
<1>2. Justified(r)'
  BY <1>1, JustifiedIdle DEF Brings
<1>3. ASSUME NEW s \in Requests, s # r PROVE Justified(s)'
  BY <1>3, OthersKept DEF Release, IInv, TypeOK
<1> QED
  BY <1>2, <1>3

LEMMA RollbackJustified ==
  ASSUME IInv, TypeOK', \A s \in Requests : Justified(s), UNCHANGED relisted, NEW r \in Requests, Rollback(r)
  PROVE  \A s \in Requests : Justified(s)'
BY ReleaseJustified DEF Rollback, book

LEMMA CommitJustified ==
  ASSUME IInv, TypeOK', \A s \in Requests : Justified(s), UNCHANGED relisted, NEW r \in Requests,
         CommitCreate(r) \/ CommitCancel(r) \/ CommitPatch(r)
  PROVE  \A s \in Requests : Justified(s)'
<1>1. Release(r) /\ UNCHANGED listed
  BY DEF CommitCreate, CommitCancel, CommitPatch
<1>2. AllUpdated(r) /\ exists \subseteq Orders
  BY DEF CommitCreate, CommitCancel, CommitPatch, IInv, TypeOK
<1>3. ASSUME NEW o \in exists, olock[o] # r
      PROVE  status'[o] = status[o] /\ items'[o] = items[o]
  <2>1. o \notin call[r].orders
    BY <1>2, <1>3, CommitterOwns
  <2>2. CASE CommitCreate(r)
    BY <1>2, <2>2 DEF CommitCreate, IInv, TypeOK
  <2>3. CASE CommitCancel(r)
    BY <1>2, <2>1, <2>3 DEF CommitCancel, IInv, TypeOK
  <2>4. CASE CommitPatch(r)
    BY <1>2, <2>1, <2>4 DEF CommitPatch, IInv, TypeOK
  <2> QED
    BY <2>2, <2>3, <2>4
<1> QED
  BY <1>1, <1>3, ReleaseJustified

LEMMA ArriveJustified ==
  ASSUME IInv, TypeOK', \A s \in Requests : Justified(s), UNCHANGED relisted, NEW r \in Requests, Arrive(r)
  PROVE  \A s \in Requests : Justified(s)'
<1>1. /\ pc[r] = "idle" /\ \E at \in {"rows", "order", "update"} : pc' = [pc EXCEPT ![r] = at]
      /\ \A s \in Requests \ {r} : call'[s] = call[s]
  BY DEF Arrive, ReceiveCreate, ReceiveDelete, ReceivePatch, ReceiveBulk, Receive, IInv, TypeOK
<1>2. PICK at \in {"rows", "order", "update"} :
        pc'[r] = at /\ \A s \in Requests \ {r} : pc'[s] = pc[s]
  BY <1>1 DEF IInv, TypeOK
<1>3. /\ UNCHANGED <<listed, book, pending>>
      /\ \A s \in Requests \ {r} : todo'[s] = todo[s]
  BY DEF Arrive, ReceiveCreate, ReceiveDelete, ReceivePatch, ReceiveBulk, IInv, TypeOK
<1>4. pending'[r] = NoItems
  BY <1>1, <1>3 DEF IInv, RequestInv, Shape
<1>5. CASE at # "update"
  <2>1. Brings(r)'
    <3>1. CASE ReceiveCreate(r)
      <4>1. PICK u \in Users, k \in Keys \cup {None}, q \in Baskets :
              call' = [call EXCEPT ![r] = Asks("create", {}, NoChange, q, u, k)]
        BY <3>1 DEF ReceiveCreate, Receive
      <4>2. call'[r].op = "create"
        BY <4>1 DEF Asks, IInv, TypeOK
      <4> QED
        BY <4>2 DEF Brings
    <3>2. CASE ~ReceiveCreate(r)
      <4>1. pc'[r] # "rows"
        BY <3>2 DEF Arrive, ReceiveDelete, ReceivePatch, ReceiveBulk, Receive, IInv, TypeOK
      <4> QED
        BY <4>1 DEF Brings
    <3> QED
      BY <3>1, <3>2
  <2> QED
    BY <1>1, <1>2, <1>3, <1>4, <1>5, <2>1, JustifiedIdle, MoveJustified
<1>6. CASE at = "update"
  <2>1. ReceiveBulk(r)
    <3>1. pc'[r] = "update"
      BY <1>2, <1>6
    <3> QED
      BY <3>1 DEF Arrive, ReceiveCreate, ReceiveDelete, ReceivePatch, Receive, IInv, TypeOK
  <2>2. PICK taken : /\ Receive(r, Asks("bulk", taken, NoChange, NoItems, None, None), "update")
                     /\ todo' = [todo EXCEPT ![r] = ItemRows(taken)]
    BY <2>1 DEF ReceiveBulk
  <2>3. call'[r] = Asks("bulk", taken, NoChange, NoItems, None, None)
    BY <2>2 DEF Receive, IInv, TypeOK
  <2>4. call'[r].op = "bulk"
    BY <2>3 DEF Asks
  <2>5. todo'[r] = ItemRows(taken)
    BY <2>1, <2>2 DEF Receive, IInv, TypeOK
  <2>6. ASSUME NEW o \in Orders, NEW p \in Products, todo'[r][o][p] # 0
        PROVE  Acts(r, o)' /\ todo'[r][o][p] = Returned(r, o, p)' /\ todo'[r][o][p] > 0
    <3>1. Returned(r, o, p)' = items'[o][p] /\ items' = items
      BY <1>3, <2>4 DEF Returned, Revises, book
    <3>2. todo'[r][o][p] \in Nat /\ todo'[r][o][p] = IF o \in taken THEN items[o][p] ELSE 0
      BY <2>5, ItemRowsType DEF IInv
    <3> QED
      BY <2>4, <2>6, <3>1, <3>2 DEF Acts
  <2>7. Justified(r)'
    BY <1>2, <1>4, <1>6, <2>6, GivesJustified DEF IInv, TypeOK
  <2> QED
    BY <1>1, <1>2, <1>3, <2>7, MoveJustified
<1> QED
  BY <1>5, <1>6

LEMMA LocksJustified ==
  ASSUME IInv, TypeOK', \A s \in Requests : Justified(s), UNCHANGED relisted, NEW r \in Requests,
         LockForCancel(r) \/ LockForPatch(r) \/ LockProduct(r)
  PROVE  \A s \in Requests : Justified(s)'
<1>1. CASE Rollback(r)
  BY <1>1, RollbackJustified
<1>2. CASE LockProduct(r)
  <2>1. pc[r] = "rows" /\ UNCHANGED <<listed, book, proc>>
    BY <1>2 DEF LockProduct
  <2>2. Justified(r)'
    BY <2>1, JustifiedIdle DEF Justified, Brings, Revises, proc, book, IInv, RequestInv, Shape
  <2> QED
    BY <2>1, <2>2, MoveJustified DEF proc
<1>3. CASE LockForCancel(r) /\ ~Rollback(r)
  <2>1. PICK o \in call[r].orders :
          /\ pc[r] = "order" /\ call[r].op = "delete"
          /\ todo' = [todo EXCEPT ![r] = ItemRows({o})] /\ pc' = [pc EXCEPT ![r] = "update"]
          /\ UNCHANGED <<listed, book, call, pending>>
    BY <1>3 DEF LockForCancel
  <2>2. pending'[r] = NoItems /\ todo'[r] = ItemRows({o})
    BY <2>1 DEF IInv, TypeOK, RequestInv, Shape
  <2>3. ASSUME NEW x \in Orders, NEW p \in Products, todo'[r][x][p] # 0
        PROVE  Acts(r, x)' /\ todo'[r][x][p] = Returned(r, x, p)' /\ todo'[r][x][p] > 0
    <3>1. Returned(r, x, p)' = items'[x][p] /\ items' = items
      BY <2>1 DEF Returned, Revises, book
    <3>2. todo'[r][x][p] \in Nat /\ todo'[r][x][p] = IF x \in {o} THEN items[x][p] ELSE 0
      BY <2>2, ItemRowsType DEF IInv
    <3> QED
      BY <2>1, <2>3, <3>1, <3>2 DEF Acts
  <2>4. Justified(r)'
    <3>1. pc'[r] = "update"
      BY <2>1 DEF IInv, TypeOK
    <3> QED
      BY <2>2, <2>3, <3>1, GivesJustified
  <2> QED
    BY <2>1, <2>4, MoveJustified DEF IInv, TypeOK
<1>4. CASE LockForPatch(r) /\ ~Rollback(r)
  <2>1. PICK o \in call[r].orders :
          /\ pc[r] = "order" /\ call[r].op = "patch"
          /\ todo' = [todo EXCEPT ![r] =
                        ItemRows(IF Closes(status[o], call[r].status) THEN {o} ELSE {})]
          /\ \/ pc' = [pc EXCEPT ![r] = "update"]
             \/ /\ pc' = [pc EXCEPT ![r] = "rows"]
                /\ call[r].items # NoItems /\ ~Closes(status[o], call[r].status)
          /\ UNCHANGED <<listed, book, call, pending>>
    BY <1>4 DEF LockForPatch
  <2>2. /\ pending'[r] = NoItems /\ call[r].orders = {o}
        /\ todo'[r] = ItemRows(IF Closes(status[o], call[r].status) THEN {o} ELSE {})
    BY <2>1 DEF IInv, TypeOK, RequestInv, Shape
  <2>3. ASSUME NEW x \in Orders, NEW p \in Products, todo'[r][x][p] # 0
        PROVE  Acts(r, x)' /\ todo'[r][x][p] = Returned(r, x, p)' /\ todo'[r][x][p] > 0
    <3>1. /\ todo'[r][x][p] \in Nat
          /\ todo'[r][x][p] =
               IF x \in (IF Closes(status[o], call[r].status) THEN {o} ELSE {})
               THEN items[x][p] ELSE 0
      BY <2>2, ItemRowsType DEF IInv
    <3>2. Closes(status[o], call[r].status) /\ x = o
      BY <2>3, <3>1
    <3>3. Returned(r, x, p)' = items[x][p]
      BY <2>1, <3>2 DEF Returned, Revises, book
    <3> QED
      BY <2>1, <2>3, <3>1, <3>2, <3>3 DEF Acts, book
  <2>4. Brings(r)'
    BY <2>1, <2>2 DEF Brings, Revises, book, IInv, TypeOK
  <2>5. Justified(r)'
    <3>1. pc'[r] \in {"update", "rows"}
      BY <2>1 DEF IInv, TypeOK
    <3> QED
      BY <2>2, <2>3, <2>4, <3>1, GivesJustified, JustifiedIdle
  <2> QED
    BY <2>1, <2>5, MoveJustified DEF IInv, TypeOK
<1> QED
  BY <1>1, <1>2, <1>3, <1>4

LEMMA CheckJustified ==
  ASSUME IInv, TypeOK', \A s \in Requests : Justified(s), UNCHANGED relisted, NEW r \in Requests, CheckStock(r)
  PROVE  \A s \in Requests : Justified(s)'
<1>1. CASE Rollback(r)
  BY <1>1, RollbackJustified
<1>2. CASE ~Rollback(r)
  <2>1. /\ pc[r] = "rows" /\ InStock(r) /\ pc' = [pc EXCEPT ![r] = "update"]
        /\ UNCHANGED <<listed, book, call>>
    BY <1>2 DEF CheckStock
  <2>2. pending[r] = NoItems /\ call[r] \in Call
    BY <2>1 DEF IInv, RequestInv, Shape, TypeOK
  <2>3. CASE call[r].op = "create"
    <3>1. /\ pending' = [pending EXCEPT ![r] = [p \in Products |-> -call[r].items[p]]]
          /\ UNCHANGED todo
      BY <1>2, <2>3 DEF CheckStock
    <3>2. \A o \in Orders, p \in Products : todo'[r][o][p] = 0
      BY <2>3, <3>1 DEF IInv, RequestInv, Shape, OwnTodo
    <3>3. ASSUME NEW p \in Products, pending'[r][p] # 0
          PROVE  call[r].items[p] # 0 /\ p \in listed
      <4>1. pending'[r][p] = -call[r].items[p] /\ call[r].items[p] \in Nat
        BY <2>2, <3>1 DEF IInv, TypeOK, Call, ItemMap
      <4>2. call[r].items[p] > 0
        BY <3>3, <4>1
      <4>3. Extra(r, p) = call[r].items[p]
        BY <2>3, <4>1 DEF Extra, Holds
      <4> QED
        BY <2>1, <4>2, <4>3 DEF InStock, Wanted
    <3>4. Justified(r)'
      BY <2>1, <2>3, <3>2, <3>3 DEF Justified, Takes, Made, Brings
    <3> QED
      BY <2>1, <3>1, <3>4, MoveJustified DEF IInv, TypeOK
  <2>4. CASE call[r].op # "create"
    <3>1. todo' = [todo EXCEPT ![r] = ChangedRows(r)] /\ UNCHANGED pending
      BY <1>2, <2>4 DEF CheckStock
    <3>2. PICK o \in Orders : call[r].orders = {o} /\ call[r].op = "patch"
      BY <2>1, <2>4 DEF IInv, RequestInv, Shape
    <3>3. ASSUME NEW x \in Orders, NEW p \in Products, todo'[r][x][p] # 0
          PROVE  /\ Acts(r, x)' /\ Revises(r, x)' /\ todo'[r][x][p] = Returned(r, x, p)'
                 /\ todo'[r][x][p] < 0 => p \in listed
      <4>1. todo'[r] = ChangedRows(r)
        BY <3>1 DEF IInv, TypeOK
      <4>2. ChangedRows(r)[x][p] = IF x \in call[r].orders
                                   THEN items[x][p] - call[r].items[p] ELSE 0
        BY ChangedRowsType DEF IInv
      <4>3. x = o /\ todo'[r][x][p] = items[o][p] - call[r].items[p]
        BY <3>2, <3>3, <4>1, <4>2
      <4>4. Revises(r, o)
        BY <2>1, <3>2 DEF Justified, Brings
      <4>5. Acts(r, x)' /\ Revises(r, x)' /\ Returned(r, x, p)' = items[o][p] - call[r].items[p]
        BY <2>1, <4>3, <4>4 DEF Acts, Returned, Revises, book
      <4>6. Extra(r, p) = call[r].items[p] - items[o][p]
        BY <3>2, OrderOfSingleton DEF Extra, Holds
      <4>7. items[o][p] \in Nat /\ call[r].items[p] \in Nat
        BY <2>2 DEF IInv, TypeOK, Call, ItemMap
      <4>8. todo'[r][x][p] < 0 => Extra(r, p) > 0
        BY <4>3, <4>6, <4>7
      <4> QED
        BY <2>1, <4>3, <4>5, <4>8 DEF InStock, Wanted
    <3>4. Justified(r)'
      BY <2>1, <2>2, <3>1, <3>3 DEF Justified, Takes, Made, Brings, NoItems, IInv, TypeOK
    <3> QED
      BY <2>1, <3>1, <3>4, MoveJustified DEF IInv, TypeOK
  <2> QED
    BY <2>3, <2>4
<1> QED
  BY <1>1, <1>2

LEMMA UpdateJustified ==
  ASSUME IInv, TypeOK', \A s \in Requests : Justified(s), UNCHANGED relisted, NEW r \in Requests, UpdateStock(r)
  PROVE  \A s \in Requests : Justified(s)'
<1>1. PICK o \in Orders, p \in Products :
        /\ pc[r] = "update" /\ todo[r][o][p] # 0
        /\ todo' = [todo EXCEPT ![r][o][p] = 0]
        /\ \/ p \in listed /\ pending' = [pending EXCEPT ![r][p] = pending[r][p] + todo[r][o][p]]
           \/ UNCHANGED pending
        /\ UNCHANGED <<listed, book, pc, call>>
  BY DEF UpdateStock
<1>2. ASSUME NEW x
      PROVE  /\ Acts(r, x)' = Acts(r, x) /\ Revises(r, x)' = Revises(r, x)
             /\ \A y : Returned(r, x, y)' = Returned(r, x, y)
  BY <1>1 DEF Acts, Returned, Revises, book
<1>3. /\ \A x \in Orders, y \in Products :
           todo'[r][x][y] = IF x = o /\ y = p THEN 0 ELSE todo[r][x][y]
      /\ \A s \in Requests \ {r} : todo'[s] = todo[s]
  BY <1>1 DEF IInv, TypeOK
<1>4. Takes(r)'
  <2> SUFFICES ASSUME NEW x \in Orders, NEW y \in Products, todo'[r][x][y] # 0
               PROVE  /\ Acts(r, x)
                      /\ todo'[r][x][y] < 0 => y \in listed
                      /\ Revises(r, x) \/ y \in listed \ relisted =>
                           todo'[r][x][y] = Returned(r, x, y)
                      /\ ~Revises(r, x) => todo'[r][x][y] > 0
    BY <1>1, <1>2 DEF Takes
  <2>1. todo'[r][x][y] = todo[r][x][y]
    BY <1>3
  <2> QED
    BY <1>1, <2>1 DEF Justified, Takes
<1>5. /\ Acts(r, o) /\ o \in call[r].orders /\ todo[r][o][p] \in Int
      /\ Revises(r, o) \/ p \in listed \ relisted => todo[r][o][p] = Returned(r, o, p)
      /\ ~Revises(r, o) => todo[r][o][p] > 0
  BY <1>1 DEF Justified, Takes, IInv, TypeOK, RequestInv, OwnTodo
<1>6. call[r].op # "create"
  BY <1>5 DEF IInv, RequestInv, Shape
<1>7. Made(r)'
  <2> SUFFICES ASSUME NEW y \in Products, pending'[r][y] # 0
               PROVE  y \in listed /\ \E x \in call[r].orders : Explains(r, x, y)'
    BY <1>1, <1>6 DEF Made
  <2>1. CASE pending'[r][y] = pending[r][y]
    <3>1. y \in listed
      BY <1>6, <2>1 DEF Justified, Made
    <3>2. PICK x \in call[r].orders : Explains(r, x, y)
      BY <1>6, <2>1 DEF Justified, Made
    <3>3. Explains(r, x, y)'
      BY <1>2, <2>1, <3>2 DEF Explains
    <3> QED
      BY <3>1, <3>3
  <2>2. CASE pending'[r][y] # pending[r][y]
    <3>1. y = p /\ p \in listed /\ pending'[r][p] = pending[r][p] + todo[r][o][p]
      BY <1>1, <2>2 DEF IInv, TypeOK
    <3>2. pending[r][p] \in Int
      BY DEF IInv, TypeOK
    <3>3. CASE Revises(r, o) \/ p \notin relisted
      <4>1. Returned(r, o, p) # 0
        BY <1>1, <1>5, <3>1, <3>3
      <4> QED
        BY <1>2, <1>5, <3>1, <4>1 DEF Explains
    <3>4. CASE ~Revises(r, o) /\ p \in relisted /\ pending[r][p] = 0
      BY <1>2, <1>5, <3>1, <3>2, <3>4 DEF Explains
    <3>5. CASE ~Revises(r, o) /\ p \in relisted /\ pending[r][p] # 0
      <4>1. PICK x \in call[r].orders : Explains(r, x, p)
        BY <1>6, <3>5 DEF Justified, Made
      <4>2. CASE Returned(r, x, p) # 0
        BY <1>2, <3>1, <4>1, <4>2 DEF Explains
      <4>3. CASE ~Revises(r, x) /\ pending[r][p] > 0
        <5>1. pending'[r][p] > 0
          BY <1>5, <3>1, <3>2, <3>5, <4>3
        <5> QED
          BY <1>2, <3>1, <3>5, <4>1, <4>3, <5>1 DEF Explains
      <4> QED
        BY <4>1, <4>2, <4>3 DEF Explains
    <3> QED
      BY <3>3, <3>4, <3>5
  <2> QED
    BY <2>1, <2>2
<1>8. Brings(r)'
  BY <1>1 DEF Brings
<1>9. Justified(r)'
  BY <1>4, <1>7, <1>8 DEF Justified
<1>10. \A s \in Requests \ {r} : pending'[s] = pending[s]
  BY <1>1 DEF IInv, TypeOK
<1> QED
  BY <1>1, <1>3, <1>9, <1>10, MoveJustified

LEMMA DeleteJustified ==
  ASSUME IInv, TypeOK', \A s \in Requests : Justified(s), UNCHANGED relisted, NEW y \in Products, DeleteProduct(y)
  PROVE  \A s \in Requests : Justified(s)'
<1> SUFFICES ASSUME NEW s \in Requests PROVE Justified(s)'
  OBVIOUS
<1>1. \A o \in Orders, p \in Products : items'[o][p] = IF p = y THEN 0 ELSE items[o][p]
  BY DEF DeleteProduct, IInv, TypeOK, ItemMap
<1>2. Deleted(y)
  BY <1>1 DEF Deleted, DeleteProduct
<1>3. Kept(s)
  <2>1. call[s].orders \subseteq Orders
    BY DEF IInv, TypeOK, Call
  <2> QED
    BY <1>1, <1>2, <2>1 DEF Kept, DeleteProduct, proc
<1>4. \A p \in listed : p \in listed' \/ Deleted(p)
  BY <1>2 DEF DeleteProduct
<1>5. relisted \subseteq relisted' /\ listed' \ relisted' \subseteq listed
  BY DEF DeleteProduct
<1> QED
  BY <1>3, <1>4, <1>5, JustifiedFrame

LEMMA NextJustified ==
  ASSUME IInv, \A s \in Requests : Justified(s), Next, UNCHANGED relisted
  PROVE  \A s \in Requests : Justified(s)'
<1>0. TypeOK'
  BY NextType DEF IInv
<1>1. ASSUME NEW r \in Requests, Arrive(r) PROVE \A s \in Requests : Justified(s)'
  BY <1>0, <1>1, ArriveJustified
<1>2. ASSUME NEW r \in Requests, Proceed(r) PROVE \A s \in Requests : Justified(s)'
  <2>1. CASE LockForCancel(r) \/ LockForPatch(r) \/ LockProduct(r)
    BY <1>0, <2>1, LocksJustified
  <2>2. CASE CheckStock(r)
    BY <1>0, <2>2, CheckJustified
  <2>3. CASE UpdateStock(r)
    BY <1>0, <2>3, UpdateJustified
  <2>4. CASE CommitCreate(r) \/ CommitCancel(r) \/ CommitPatch(r)
    BY <1>0, <2>4, CommitJustified
  <2>5. CASE DuplicateKey(r)
    BY <1>0, <2>5, RollbackJustified DEF DuplicateKey
  <2> QED
    BY <1>2, <2>1, <2>2, <2>3, <2>4, <2>5 DEF Proceed
<1>3. ASSUME NEW r \in Requests, DeadlockVictim(r) \/ Fail(r)
      PROVE  \A s \in Requests : Justified(s)'
  BY <1>0, <1>3, RollbackJustified DEF DeadlockVictim, Fail
<1>4. ASSUME NEW p \in Products, DeleteProduct(p) PROVE \A s \in Requests : Justified(s)'
  BY <1>0, <1>4, DeleteJustified
<1> QED
  BY <1>1, <1>2, <1>3, <1>4 DEF Next

-----------------------------------------------------------------------------
(* The writers without locks.                                              *)

\* What a call has read, by the row it is about.
LEMMA Reads ==
  ASSUME SaverTypeOK, NEW w \in Savers
  PROVE  /\ saver[w].row = "order" => saver[w].id \in Orders /\ saver[w].status \in Status
         /\ saver[w].row = "product" => saver[w].id \in Products /\ saver[w].quantity \in Int
         /\ saver[w].row = "store" => saver[w].id \in Users
<1>1. saver[w] \in {Nothing, Served}
        \cup [row : {"order"}, id : Orders, status : Status]
        \cup [row : {"product"}, id : Products, quantity : Int]
        \cup [row : {"store"}, id : Users]
  BY DEF SaverTypeOK
<1>2. CASE saver[w] \in {Nothing, Served}
  BY <1>2 DEF Nothing, Served
<1>3. CASE saver[w] \in [row : {"order"}, id : Orders, status : Status]
  BY <1>3
<1>4. CASE saver[w] \in [row : {"product"}, id : Products, quantity : Int]
  BY <1>4
<1>5. CASE saver[w] \in [row : {"store"}, id : Users]
  BY <1>5
<1> QED
  BY <1>1, <1>2, <1>3, <1>4, <1>5

LEMMA SaveOrderGood ==
  ASSUME Good, SaverTypeOK, NEW w \in Savers, SaveOrder(w)
  PROVE  Good'
<1> DEFINE x == saver[w].id
<1>1. /\ x \in Orders /\ saver[w].status \in Status /\ olock[x] = None
      /\ status' = [status EXCEPT ![x] = saver[w].status]
      /\ UNCHANGED <<listed, stock, exists, items, buyer, key, olock, plock, pc, call, todo, pending, relisted>>
  BY Reads DEF SaveOrder, OrderRowFree, locks, proc
<1> HIDE DEF x
<1>2. TypeOK'
  BY <1>1 DEF Good, IInv, TypeOK
<1>3. StockNonNegative'
  BY <1>1 DEF Good, IInv, StockNonNegative
<1>4. ASSUME NEW s \in Requests, NEW o \in Orders, olock[o] = s PROVE status'[o] = status[o]
  BY <1>1, <1>4, OrdersAssumption DEF Good, IInv, TypeOK
<1>5. ASSUME NEW s \in Requests PROVE RequestInv(s)' /\ Justified(s)'
  <2>1. call[s].orders \subseteq Orders /\ exists \subseteq Orders
    BY DEF Good, IInv, TypeOK, Call
  <2>2. Undisturbed(s)
    BY <1>1, <1>4, <2>1 DEF Undisturbed
  <2>3. Justified(s)'
    BY <1>1, <1>2, <1>4, <2>1, OthersKept DEF Good
  <2> QED
    BY <1>1, <1>2, <1>3, <2>2, <2>3, Frame DEF Good, IInv
<1> QED
  BY <1>2, <1>3, <1>5 DEF Good, IInv

LEMMA SaveProductGood ==
  ASSUME Good, SaverTypeOK, NEW w \in Savers, SaverInv(w), SaveProduct(w)
  PROVE  Good'
<1> DEFINE x == saver[w].id
<1>1. /\ x \in Products /\ saver[w].quantity \in Int /\ saver[w].quantity >= 0 /\ plock[x] = None
      /\ listed' = listed \cup {x}
      /\ relisted' = relisted \cup ({x} \ listed)
      /\ stock' = [stock EXCEPT ![x] = saver[w].quantity]
      /\ UNCHANGED <<exists, status, items, buyer, key, olock, plock, pc, call, todo, pending>>
  BY Reads DEF SaverInv, SaveProduct, ProductUnlocked, book, locks, proc
<1> HIDE DEF x
<1>2. TypeOK'
  BY <1>1 DEF Good, IInv, TypeOK
<1>3. StockNonNegative'
  BY <1>1 DEF Good, IInv, StockNonNegative, TypeOK
<1>4. \A p \in Products : p # x => stock'[p] = stock[p]
  BY <1>1 DEF Good, IInv, TypeOK
<1>5. ASSUME NEW s \in Requests PROVE RequestInv(s)' /\ Justified(s)'
  <2>0. s # None
    BY OrdersAssumption
  <2>1. Shape(s)' /\ OwnsOrders(s)' /\ OwnTodo(s)'
    BY <1>1 DEF Good, IInv, RequestInv, Shape, OwnsOrders, OwnTodo, StillOpen, RecheckPasses
  <2>2. PendingCovered(s)'
    <3> SUFFICES ASSUME NEW p \in Products
                 PROVE  /\ pending[s][p] # 0 => plock[p] = s
                        /\ stock'[p] + pending[s][p] >= 0
      BY <1>1 DEF PendingCovered
    <3>1. /\ pending[s][p] # 0 => plock[p] = s
          /\ stock[p] + pending[s][p] >= 0
      BY DEF Good, IInv, RequestInv, PendingCovered
    <3>2. CASE p = x
      <4>1. pending[s][p] = 0
        BY <1>1, <2>0, <3>1, <3>2
      <4> QED
        BY <1>2, <1>3, <4>1 DEF StockNonNegative, TypeOK
    <3> QED
      BY <1>4, <3>1, <3>2
  <2>3. Kept(s)
    BY <1>1 DEF Kept
  <2>4. TodoCovered(s)'
    <3> SUFFICES ASSUME pc[s] = "update", NEW o \in Orders, NEW p \in listed', todo[s][o][p] < 0
                 PROVE  plock[p] = s /\ stock'[p] + pending[s][p] + todo[s][o][p] >= 0
      BY <1>1 DEF TodoCovered
    <3>1. p \in Products
      BY <1>2 DEF TypeOK
    <3>2. todo[s][o][p] # 0
      BY DEF Good, IInv, TypeOK
    <3>3. p \in listed
      BY <3>1, <3>2 DEF Good, Justified, Takes
    <3>4. plock[p] = s /\ stock[p] + pending[s][p] + todo[s][o][p] >= 0
      BY <3>3 DEF Good, IInv, RequestInv, TodoCovered
    <3> QED
      BY <1>1, <1>4, <2>0, <3>1, <3>4
  <2>5. Justified(s)'
    BY <1>1, <1>2, <2>3, JustifiedFrame DEF Good
  <2> QED
    BY <2>1, <2>2, <2>4, <2>5 DEF RequestInv
<1> QED
  BY <1>2, <1>3, <1>5 DEF Good, IInv

LEMMA CascadeGood ==
  ASSUME Good, NEW u \in Users, Cascade(u)
  PROVE  Good'
<1>1. /\ \A p \in SoldBy(u) : plock[p] = None /\ \A r \in Requests : ~HoldsItemRow(r, p)
      /\ listed' = listed \ SoldBy(u) /\ SoldBy(u) \subseteq listed
      /\ items' = [o \in Orders |-> [p \in Products |-> IF p \in SoldBy(u) THEN 0 ELSE items[o][p]]]
      /\ stock' = [p \in Products |-> IF p \in SoldBy(u) THEN 0 ELSE stock[p]]
      /\ UNCHANGED <<exists, status, buyer, key, olock, plock, pc, call, todo, pending, relisted>>
  BY DEF Cascade, SoldBy, locks, proc
<1>2. TypeOK'
  BY <1>1, OrdersAssumption DEF Good, IInv, TypeOK, ItemMap
<1>3. StockNonNegative'
  BY <1>1 DEF Good, IInv, StockNonNegative
<1>4. \A p \in SoldBy(u) : Deleted(p)
  BY <1>1 DEF Deleted, Good, IInv, TypeOK
<1>5. ASSUME NEW s \in Requests PROVE RequestInv(s)' /\ Justified(s)'
  <2>0. s # None
    BY OrdersAssumption
  <2>1. call[s].orders \subseteq Orders
    BY DEF Good, IInv, TypeOK, Call
  <2>2. Undisturbed(s)
    BY <1>1, <2>0, <2>1 DEF Undisturbed, Good, IInv, TypeOK
  <2>3. Kept(s)
    BY <1>1, <1>4, <2>1 DEF Kept
  <2>4. Justified(s)'
    BY <1>1, <1>2, <1>4, <2>3, JustifiedFrame DEF Good
  <2> QED
    BY <1>1, <1>2, <1>3, <2>2, <2>4, Frame DEF Good, IInv
<1> QED
  BY <1>2, <1>3, <1>5 DEF Good, IInv

LEMMA ServeKeeps ==
  ASSUME SaversInv, NEW w \in Savers, Serve(w), closed' \subseteq Users,
         relisted' \subseteq Products, TypeOK'
  PROVE  SaverTypeOK' /\ \A v \in Savers : SaverInv(v)'
<1>1. \A v \in Savers : saver'[v] = IF v = w THEN Served ELSE saver[v]
  BY DEF Serve, SaversInv, SaverTypeOK
<1>2. SaverTypeOK'
  BY DEF Serve, SaversInv, SaverTypeOK
<1>3. \A v \in Savers : SaverInv(v)'
  BY <1>1 DEF SaversInv, SaverInv, Served
<1> QED
  BY <1>2, <1>3

LEMMA ReadKeeps ==
  ASSUME SaversInv, NEW w \in Savers, ReadOrder(w) \/ ReadProduct(w) \/ CheckStore(w)
  PROVE  SaversInv'
<1>1. UNCHANGED <<vars, closed, relisted>>
  BY DEF ReadOrder, ReadProduct, CheckStore
<1>2. UNCHANGED <<listed, stock, exists, status, items, buyer, key, olock, plock,
                  pc, call, todo, pending, closed, relisted>>
  BY <1>1 DEF vars, book, locks, proc
<1>3. TypeOK /\ StockNonNegative /\ SaverTypeOK /\ listed \subseteq Products
  BY DEF SaversInv, Good, IInv, TypeOK
<1>4. Good'
  <2>1. TypeOK' /\ StockNonNegative'
    BY <1>2, <1>3 DEF TypeOK, StockNonNegative
  <2>2. ASSUME NEW s \in Requests PROVE RequestInv(s)' /\ Justified(s)'
    <3>1. Undisturbed(s)
      BY <1>2 DEF Undisturbed
    <3>2. Justified(s)'
      BY <1>2, <2>1, OthersKept DEF SaversInv, Good
    <3> QED
      BY <1>2, <2>1, <3>1, <3>2, Frame DEF SaversInv, Good, IInv
  <2> QED
    BY <2>1, <2>2 DEF Good, IInv
<1>5. SaverTypeOK' /\ \A v \in Savers : SaverInv(v)'
  <2>1. CASE ReadOrder(w)
    <3>1. PICK o \in exists :
            saver' = [saver EXCEPT ![w] = [row |-> "order", id |-> o, status |-> status[o]]]
      BY <2>1 DEF ReadOrder
    <3>2. o \in Orders /\ status[o] \in Status
      BY <1>3 DEF TypeOK
    <3>3. SaverTypeOK'
      BY <1>2, <1>4, <3>1, <3>2, <1>3 DEF SaverTypeOK, Good, IInv
    <3>4. \A v \in Savers : saver'[v] = saver[v] \/ saver'[v].row = "order"
      BY <1>3, <3>1 DEF SaverTypeOK
    <3> QED
      BY <3>3, <3>4 DEF SaversInv, SaverInv
  <2>2. CASE ReadProduct(w)
    <3>1. PICK p \in listed :
            saver' = [saver EXCEPT ![w] = [row |-> "product", id |-> p, quantity |-> stock[p]]]
      BY <2>2 DEF ReadProduct
    <3>2. p \in Products /\ stock[p] \in Int /\ stock[p] >= 0
      BY <1>3 DEF TypeOK, StockNonNegative
    <3>3. SaverTypeOK'
      BY <1>2, <1>4, <3>1, <3>2, <1>3 DEF SaverTypeOK, Good, IInv
    <3>4. \A v \in Savers : saver'[v] = saver[v] \/ saver'[v].quantity = stock[p]
      BY <1>3, <3>1 DEF SaverTypeOK
    <3> QED
      BY <3>2, <3>3, <3>4 DEF SaversInv, SaverInv
  <2>3. CASE CheckStore(w)
    <3>1. PICK u \in Users : saver' = [saver EXCEPT ![w] = [row |-> "store", id |-> u]]
      BY <2>3 DEF CheckStore
    <3>2. SaverTypeOK'
      BY <1>2, <1>4, <3>1, <1>3 DEF SaverTypeOK, Good, IInv
    <3>3. \A v \in Savers : saver'[v] = saver[v] \/ saver'[v].row = "store"
      BY <1>3, <3>1 DEF SaverTypeOK
    <3> QED
      BY <3>2, <3>3 DEF SaversInv, SaverInv
  <2> QED
    BY <2>1, <2>2, <2>3
<1> QED
  BY <1>4, <1>5 DEF SaversInv

LEMMA StandStill ==
  ASSUME SaversInv, UNCHANGED <<vars, relisted>>
  PROVE  Good'
<1>1. UNCHANGED <<listed, stock, exists, status, items, buyer, key, olock, plock,
                  pc, call, todo, pending, relisted>>
  BY DEF vars, book, locks, proc
<1>2. IInv'
  BY NextIInv DEF SaversInv, Good
<1>3. ASSUME NEW s \in Requests PROVE Justified(s)'
  BY <1>1, <1>2, OthersKept DEF SaversInv, Good, IInv
<1> QED
  BY <1>2, <1>3 DEF Good

LEMMA SaverNextKeeps == SaversInv /\ [SaverNext]_allVars => SaversInv'
<1> SUFFICES ASSUME SaversInv, [SaverNext]_allVars PROVE SaversInv'
  OBVIOUS
<1>0. closed \subseteq Users /\ relisted \subseteq Products
  BY DEF SaversInv, SaverTypeOK
<1>1. CASE UNCHANGED allVars
  <2>1. Good' /\ UNCHANGED <<saver, closed, relisted>>
    BY <1>1, StandStill DEF allVars
  <2> QED
    BY <2>1 DEF SaversInv, SaverTypeOK, SaverInv, Good, IInv
<1>2. CASE Next /\ UNCHANGED <<saver, closed, relisted>>
  <2>1. Good'
    BY <1>2, NextIInv, NextJustified DEF SaversInv, Good
  <2> QED
    BY <1>2, <2>1 DEF SaversInv, SaverTypeOK, SaverInv, Good, IInv
<1>3. ASSUME NEW w \in Savers, ReadOrder(w) \/ ReadProduct(w) \/ CheckStore(w) PROVE SaversInv'
  BY <1>3, ReadKeeps
<1>4. ASSUME NEW w \in Savers, SaveOrder(w) \/ SaveProduct(w) \/ GiveUp(w) PROVE SaversInv'
  <2>1. Serve(w) /\ closed' = closed /\ relisted' \subseteq Products
    BY <1>0, <1>4, Reads DEF SaveOrder, SaveProduct, GiveUp, SaversInv
  <2>2. Good'
    BY <1>4, SaveOrderGood, SaveProductGood, StandStill DEF SaversInv, GiveUp
  <2> QED
    BY <1>0, <2>1, <2>2, ServeKeeps DEF SaversInv, Good, IInv
<1>5. ASSUME NEW w \in Savers, DeleteChecked(w) \/ DeleteStore(w) PROVE SaversInv'
  <2>1. PICK u \in Users : Cascade(u) /\ Serve(w)
    BY <1>5, Reads DEF DeleteChecked, DeleteStore, SaversInv
  <2>2. Good'
    BY <2>1, CascadeGood DEF SaversInv
  <2>3. closed' \subseteq Users /\ relisted' \subseteq Products
    BY <1>0, <2>1 DEF Cascade
  <2> QED
    BY <2>1, <2>2, <2>3, ServeKeeps DEF SaversInv, Good, IInv
<1> QED
  BY <1>1, <1>2, <1>3, <1>4, <1>5 DEF SaverNext

LEMMA SaverInitEstablishes == SaverInit => SaversInv
<1> SUFFICES ASSUME SaverInit PROVE SaversInv
  OBVIOUS
<1>1. IInv
  BY InitIInv DEF SaverInit
<1>2. ASSUME NEW r \in Requests PROVE Justified(r)
  BY NoUpdatesType DEF SaverInit, Init, Justified, Takes, Made, Brings, NoItems
<1>3. SaverTypeOK
  BY <1>1 DEF SaverInit, SaverTypeOK, IInv
<1>4. \A w \in Savers : SaverInv(w)
  BY DEF SaverInit, SaverInv, Nothing
<1> QED
  BY <1>1, <1>2, <1>3, <1>4 DEF SaversInv, Good

LEMMA SaversInvariance == SaverSpec => []SaversInv
BY SaverInitEstablishes, SaverNextKeeps, PTL DEF SaverSpec

-----------------------------------------------------------------------------
(* The properties.                                                         *)

\* The tables, the requests and what the other writers have read keep their types.
THEOREM SaversTypeCorrect == SaverSpec => []SaverTypeOK
<1>1. SaversInv => SaverTypeOK
  BY DEF SaversInv
<1> QED
  BY SaversInvariance, <1>1, PTL

\* Edits that write old quantities back make stock wrong, but never negative.
THEOREM StockNeverNegativeForAll == SaverSpec => []StockNonNegative
<1>1. SaversInv => StockNonNegative
  BY DEF SaversInv, Good, IInv
<1> QED
  BY SaversInvariance, <1>1, PTL

\* A stale upload is all that takes an order out of CANCELED or REJECTED.
THEOREM UploadsReopen == SaverSpec => OnlyStaleUploadsReopen
<1> DEFINE Reopened(o) ==
             \E w \in Savers : /\ SavesNow(w) /\ saver[w].row = "order" /\ saver[w].id = o
                               /\ saver[w].status.order # status[o].order
<1>1. SaversInv /\ [SaverNext]_allVars =>
        [\A o \in exists :
           status[o].order \in Terminal /\ status'[o].order # status[o].order => Reopened(o)]_allVars
  <2> SUFFICES ASSUME SaversInv, SaverNext, NEW o \in exists,
                      status[o].order \in Terminal, status'[o].order # status[o].order
               PROVE  Reopened(o)
    BY DEF allVars, vars, book
  <2>1. o \in Orders /\ status \in [Orders -> Status] /\ SaverTypeOK /\ IInv
    BY DEF SaversInv, Good, IInv, TypeOK
  <2>2. CASE Next
    BY <2>1, <2>2, ClosedStep
  <2>3. ASSUME NEW w \in Savers, SaveOrder(w) PROVE Reopened(o)
    <3>1. /\ saver[w].row = "order" /\ Serve(w) /\ saver[w].id \in Orders
          /\ status' = [status EXCEPT ![saver[w].id] = saver[w].status]
      BY <2>1, <2>3, Reads DEF SaveOrder
    <3>2. saver[w].id = o /\ status'[o] = saver[w].status
      BY <2>1, <3>1
    <3>3. SavesNow(w)
      BY <2>1, <3>1 DEF SavesNow, Serve, Served, SaverTypeOK
    <3> QED
      BY <3>1, <3>2, <3>3
  <2>4. CASE UNCHANGED status
    BY <2>4
  <2>5. Next \/ (\E w \in Savers : SaveOrder(w)) \/ UNCHANGED status
    BY DEF SaverNext, ReadOrder, ReadProduct, SaveProduct, GiveUp, CheckStore, DeleteChecked,
           DeleteStore, Cascade, vars, book
  <2> QED
    BY <2>2, <2>3, <2>4, <2>5
<1> QED
  BY <1>1, SaversInvariance, PTL DEF SaverSpec, OnlyStaleUploadsReopen

\* Only commits and deletions write the stock.
LEMMA StockSteps ==
  ASSUME Next
  PROVE  \/ \E r \in Requests : CommitCreate(r) \/ CommitCancel(r) \/ CommitPatch(r)
         \/ \E p \in Products : DeleteProduct(p)
         \/ UNCHANGED <<listed, stock>>
BY DEF Next, Arrive, Proceed, ReceiveCreate, ReceiveDelete, ReceivePatch, ReceiveBulk,
       LockForCancel, LockForPatch, LockProduct, CheckStock, UpdateStock, DuplicateKey,
       DeadlockVictim, Fail, Rollback

\* A commit moves stock against what an order holds, or pays it into a row that an
\* edit brought back.
LEMMA CommitMovesOrders ==
  ASSUME Good, NEW r \in Requests, CommitCreate(r) \/ CommitCancel(r) \/ CommitPatch(r),
         NEW p \in Products, pending[r][p] # 0
  PROVE  (\E o \in Orders : InOrder(o, p)' # InOrder(o, p)) \/ PaysRelisted(r, p)
<1>1. AllUpdated(r) /\ IInv /\ TypeOK /\ Made(r) /\ call[r] \in Call
  BY DEF Good, IInv, TypeOK, Justified, CommitCreate, CommitCancel, CommitPatch
<1>0. \/ \E o \in call[r].orders : items[o][p] # 0
      \/ pending[r][p] > 0 /\ p \in relisted => PaysRelisted(r, p)
  <2>1. stock' = StockWith(r) /\ Release(r)
    BY DEF CommitCreate, CommitCancel, CommitPatch
  <2>2. pc'[r] = "idle" /\ stock'[p] = stock[p] + pending[r][p]
    BY <1>1, <2>1 DEF Release, StockWith, TypeOK
  <2> QED
    BY <1>1, <2>2 DEF PaysRelisted
<1>2. CASE CommitCreate(r)
  <2>1. PICK o \in Orders \ exists :
          /\ call[r].op = "create" /\ exists' = exists \cup {o}
          /\ status' = [status EXCEPT ![o] = NewStatus]
          /\ items' = [items EXCEPT ![o] = call[r].items]
    BY <1>2 DEF CommitCreate
  <2>2. InOrder(o, p) = 0
    BY <2>1 DEF InOrder
  <2>3. call[r].items[p] # 0
    BY <1>1, <2>1 DEF Made
  <2>4. o \in exists' /\ status'[o] = NewStatus /\ items'[o] = call[r].items
    BY <1>1, <2>1 DEF TypeOK
  <2>5. InOrder(o, p)' = call[r].items[p]
    BY <2>4 DEF InOrder, NewStatus, Terminal
  <2> QED
    BY <2>2, <2>3, <2>5
<1>3. CASE CommitCancel(r)
  <2>1. call[r].op \in {"delete", "bulk"} /\ call[r].op # "create"
    BY <1>3 DEF CommitCancel
  <2>2. PICK x \in call[r].orders : Explains(r, x, p)
    BY <1>1, <2>1 DEF Made
  <2> SUFFICES ASSUME ~PaysRelisted(r, p)
               PROVE  \E o \in Orders : InOrder(o, p)' # InOrder(o, p)
    OBVIOUS
  <2>9. PICK o \in call[r].orders : items[o][p] # 0
    <3>1. CASE Returned(r, x, p) # 0
      BY <2>1, <3>1 DEF Returned, Revises
    <3>2. CASE pending[r][p] > 0 /\ p \in relisted
      BY <1>0, <3>2
    <3> QED
      BY <2>2, <3>1, <3>2 DEF Explains
  <2>3. o \in exists /\ o \in Orders /\ StillOpen(o)
    BY <1>1, <2>1 DEF IInv, TypeOK, RequestInv, Shape, OwnsOrders, AllUpdated
  <2>5. InOrder(o, p) = items[o][p]
    BY <2>3 DEF InOrder, StillOpen
  <2>6. o \in exists' /\ status'[o].order = "CANCELED"
    BY <1>3, <2>3 DEF CommitCancel, Merge, ToCanceled, Keep
  <2>7. InOrder(o, p)' = 0
    BY <2>6 DEF InOrder, Terminal
  <2> QED
    BY <2>3, <2>9, <2>5, <2>7
<1>4. CASE CommitPatch(r)
  <2>1. PICK o \in call[r].orders :
          /\ call[r].op = "patch" /\ exists' = exists
          /\ status' = [status EXCEPT ![o] = Merge(status[o], call[r].status)]
          /\ items' = [items EXCEPT ![o] = IF Revises(r, o) THEN call[r].items ELSE items[o]]
    BY <1>4 DEF CommitPatch
  <2> SUFFICES ASSUME ~PaysRelisted(r, p)
               PROVE  \E y \in Orders : InOrder(y, p)' # InOrder(y, p)
    OBVIOUS
  <2>2. PICK x \in call[r].orders : Explains(r, x, p)
    BY <1>1, <2>1 DEF Made
  <2>3. x = o /\ o \in exists /\ o \in Orders
    BY <1>1, <2>1, <2>2 DEF IInv, TypeOK, RequestInv, Shape
  <2>4. /\ status'[o] = Merge(status[o], call[r].status)
        /\ items'[o] = IF Revises(r, o) THEN call[r].items ELSE items[o]
        /\ o \in exists'
    BY <1>1, <2>1, <2>3 DEF TypeOK
  <2>5. status[o] \in Status /\ call[r].status \in StatusPatch
    BY <1>1, <2>3 DEF TypeOK, Call
  <2>6. CASE Revises(r, o)
    <3>1. StillOpen(o) /\ ~Closes(status[o], call[r].status)
      BY <1>1, <2>1, <2>6 DEF IInv, RequestInv, OwnsOrders, AllUpdated, Revises
    <3>2. status'[o].order \notin Terminal
      BY <2>4, <3>1 DEF Closes, StillOpen, Merge
    <3>3. InOrder(o, p) = items[o][p] /\ InOrder(o, p)' = call[r].items[p]
      BY <2>3, <2>4, <2>6, <3>1, <3>2 DEF InOrder, StillOpen
    <3>4. items[o][p] - call[r].items[p] # 0
      BY <2>2, <2>3, <2>6 DEF Returned, Explains
    <3>5. items[o][p] \in Int /\ call[r].items[p] \in Int
      BY <1>1, <2>3 DEF TypeOK, Call, ItemMap
    <3>6. items[o][p] # call[r].items[p]
      BY <3>4, <3>5
    <3> QED
      BY <2>3, <3>3, <3>6
  <2>7. CASE ~Revises(r, o)
    <3>1. Closes(status[o], call[r].status)
      BY <2>1, <2>2, <2>3, <2>7 DEF Acts, Explains
    <3>2. status'[o].order \in Terminal
      BY <2>4, <3>1 DEF Closes, Merge, Keep, Terminal
    <3>3. InOrder(o, p) = items[o][p] /\ InOrder(o, p)' = 0
      BY <2>3, <3>1, <3>2 DEF InOrder, Closes
    <3>4. items[o][p] # 0
      <4>1. \A y \in call[r].orders : y = o
        BY <1>1, <2>1 DEF IInv, RequestInv, Shape
      <4> QED
        BY <1>0, <2>2, <2>3, <2>7, <4>1 DEF Returned, Explains
    <3> QED
      BY <2>3, <3>3, <3>4
  <2> QED
    BY <2>6, <2>7
<1> QED
  BY <1>2, <1>3, <1>4

\* Only a stale edit of a product moves stock that no order has moved, and lists a
\* deleted product again; into such a row a cancel may pay the units it had fetched
\* before the deletion.
THEOREM EditsMoveStock == SaverSpec => OnlyStaleEditsMoveStock
<1> DEFINE Accounted(p) ==
             \/ p \in listed /\ stock'[p] = stock[p]
             \/ \E o \in Orders : InOrder(o, p)' # InOrder(o, p)
             \/ \E w \in Savers : /\ SavesNow(w) /\ saver[w].row = "product" /\ saver[w].id = p
                                  /\ (p \in listed => saver[w].quantity # stock[p])
             \/ \E r \in Requests : PaysRelisted(r, p)
<1>1. SaversInv /\ [SaverNext]_allVars => [\A p \in listed' : Accounted(p)]_allVars
  <2> SUFFICES ASSUME SaversInv, SaverNext, NEW p \in listed' PROVE Accounted(p)
    OBVIOUS
  <2>0. /\ stock \in [Products -> Int] /\ listed \subseteq Products /\ SaverTypeOK
        /\ pending \in [Requests -> [Products -> Int]] /\ Good
    BY DEF SaversInv, Good, IInv, TypeOK
  <2>1. CASE Next
    <3>1. ASSUME NEW r \in Requests, CommitCreate(r) \/ CommitCancel(r) \/ CommitPatch(r)
          PROVE  Accounted(p)
      <4>1. listed' = listed /\ stock' = StockWith(r)
        BY <3>1 DEF CommitCreate, CommitCancel, CommitPatch
      <4>2. p \in listed /\ p \in Products
        BY <2>0, <4>1
      <4>3. CASE pending[r][p] # 0
        BY <2>0, <3>1, <4>2, <4>3, CommitMovesOrders
      <4>4. CASE pending[r][p] = 0
        BY <2>0, <4>1, <4>2, <4>4 DEF StockWith
      <4> QED
        BY <4>3, <4>4
    <3>2. ASSUME NEW y \in Products, DeleteProduct(y) PROVE Accounted(p)
      BY <2>0, <3>2 DEF DeleteProduct
    <3> QED
      BY <2>1, <3>1, <3>2, StockSteps
  <2>2. ASSUME NEW w \in Savers, SaveProduct(w) PROVE Accounted(p)
    <3>1. /\ saver[w].row = "product" /\ Serve(w) /\ saver[w].id \in Products
          /\ listed' = listed \cup {saver[w].id}
          /\ stock' = [stock EXCEPT ![saver[w].id] = saver[w].quantity]
      BY <2>0, <2>2, Reads DEF SaveProduct
    <3>2. SavesNow(w)
      BY <2>0, <3>1 DEF SavesNow, Serve, Served, SaverTypeOK
    <3>3. CASE p = saver[w].id
      BY <2>0, <3>1, <3>2, <3>3
    <3>4. CASE p # saver[w].id
      BY <2>0, <3>1, <3>4
    <3> QED
      BY <3>3, <3>4
  <2>3. ASSUME NEW u, Cascade(u) PROVE Accounted(p)
    BY <2>0, <2>3 DEF Cascade
  <2>4. CASE UNCHANGED <<listed, stock>>
    BY <2>4
  <2>5. \/ Next \/ (\E w \in Savers : SaveProduct(w)) \/ (\E u : Cascade(u))
        \/ UNCHANGED <<listed, stock>>
    BY DEF SaverNext, ReadOrder, ReadProduct, SaveOrder, GiveUp, CheckStore, DeleteChecked,
           DeleteStore, vars
  <2> QED
    BY <2>1, <2>2, <2>3, <2>4, <2>5
<1> QED
  BY <1>1, SaversInvariance, PTL DEF SaverSpec, OnlyStaleEditsMoveStock
=============================================================================
