----------------------------- MODULE OrderBook -----------------------------
(***************************************************************************)
(* What the orders app promises: a book of orders and a stock of products, *)
(* in which every operation happens at once.  No locks, no transactions,   *)
(* no requests.  Orders implements it (ImplementsOrderBook).               *)
(***************************************************************************)
EXTENDS Integers, FiniteSets, OrderStatus

CONSTANTS Orders, Products, Users, Keys, MaxQty, InitialStock, None

VARIABLES listed, stock, exists, status, items, buyer, key

bookVars == <<listed, stock, exists, status, items, buyer, key>>

AnyItems == [Products -> 0..MaxQty]

Open == {o \in exists : status[o].order \notin Terminal}

\* The units of p that the orders in S hold, counted one by one.
Units(S, p) == {u \in S \X (1..MaxQty) : u[2] <= items[u[1]][p]}

Held(S, p) == Cardinality(Units(S, p))

BookInit ==
  /\ listed = Products /\ stock = InitialStock /\ exists = {}
  /\ status = [o \in Orders |-> NewStatus]
  /\ items = [o \in Orders |-> [p \in Products |-> 0]]
  /\ buyer = [o \in Orders |-> None]
  /\ key = [o \in Orders |-> None]

\* A basket becomes an order and leaves the stock; a key is used once.
Place(o) ==
  \E q \in AnyItems, u \in Users, k \in Keys \cup {None} :
    /\ o \notin exists
    /\ \A p \in Products : q[p] > 0 => p \in listed /\ q[p] <= stock[p]
    /\ \A other \in exists : k = None \/ key[other] # k
    /\ exists' = exists \cup {o}
    /\ status' = [status EXCEPT ![o] = NewStatus]
    /\ items' = [items EXCEPT ![o] = q]
    /\ buyer' = [buyer EXCEPT ![o] = u]
    /\ key' = [key EXCEPT ![o] = k]
    /\ stock' = [p \in Products |-> stock[p] - q[p]]
    /\ UNCHANGED listed

\* The statuses of the orders in S, and of no other, may change, by the map.
MoveStatus(S) ==
  /\ status' \in [Orders -> Status]
  /\ \A o \in Orders : IF o \in S THEN Follows(status[o], status'[o])
                                 ELSE status'[o] = status[o]

\* Some open orders are closed for good and give back all they hold, once.
Close(S) ==
  /\ S # {}
  /\ MoveStatus(S)
  /\ \A o \in S : status'[o].order \in Terminal
  /\ stock' = [p \in Products |-> IF p \in listed THEN stock[p] + Held(S, p)
                                                  ELSE stock[p]]
  /\ UNCHANGED <<listed, exists, items, buyer, key>>

\* An open order gets other items; the stock takes the difference.
Revise(o) ==
  /\ \E q \in AnyItems :
       /\ \A p \in Products :
            q[p] > items[o][p] => p \in listed /\ q[p] - items[o][p] <= stock[p]
       /\ items' = [items EXCEPT ![o] = q]
       /\ stock' = [p \in Products |-> stock[p] + items[o][p] - q[p]]
  /\ MoveStatus({o})
  /\ status'[o].order \notin Terminal
  /\ UNCHANGED <<listed, exists, buyer, key>>

\* The statuses of an order change without closing it.
Restate(o) ==
  /\ MoveStatus({o})
  /\ status'[o].order \in Terminal => status[o].order = status'[o].order
  /\ UNCHANGED <<listed, stock, exists, items, buyer, key>>

\* A product goes, out of the stock and out of every order.
Delist(p) ==
  /\ p \in listed
  /\ listed' = listed \ {p}
  /\ stock' = [stock EXCEPT ![p] = 0]
  /\ items' = [o \in Orders |-> [items[o] EXCEPT ![p] = 0]]
  /\ UNCHANGED <<exists, status, buyer, key>>

BookNext ==
  \/ \E o \in Orders : Place(o)
  \/ \E S \in SUBSET Open : Close(S)
  \/ \E o \in Open : Revise(o)
  \/ \E o \in exists : Restate(o)
  \/ \E p \in Products : Delist(p)

BookSpec == BookInit /\ [][BookNext]_bookVars
=============================================================================
