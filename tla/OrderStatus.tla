---------------------------- MODULE OrderStatus ----------------------------
(***************************************************************************)
(* The three status fields of an order and the transitions the order       *)
(* serializer allows between their values (apps/orders/models.py and       *)
(* apps/orders/serializers.py).  A module of constants: no state.          *)
(***************************************************************************)

(***************************************************************************)
(* Order.OrderStatus, Order.DeliveryStatus and Order.PaymentStatus, the    *)
(* choices of the three columns, as one function over the column names.    *)
(***************************************************************************)
StatusValues ==
  [order    |-> {"IN_PROCESSING", "ACCEPTED", "CANCELED", "REJECTED"},
   delivery |-> {"IN_PROCESSING", "IN_PROGRESS", "DELIVERED", "CANCELED",
                 "RETURNED", "REJECTED"},
   payment  |-> {"WAITING_FOR_PAY", "PAID", "REFUNDED"}]

Fields == {"order", "delivery", "payment"}

Status == [order    : StatusValues.order,
           delivery : StatusValues.delivery,
           payment  : StatusValues.payment]

\* The defaults of the three columns: the status of an order just created.
NewStatus == [order    |-> "IN_PROCESSING",
              delivery |-> "IN_PROCESSING",
              payment  |-> "WAITING_FOR_PAY"]

\* _ORDER_TERMINAL_STATES, and the same set in cancel_order().
Terminal == {"CANCELED", "REJECTED"}

\* cancellable / cancellable_statuses of the DELETE and bulk-cancel views.
Cancellable == {"IN_PROCESSING", "ACCEPTED"}

\* The successors of each value: _ALLOWED_{ORDER,DELIVERY,PAYMENT}_STATUS_TRANSITIONS.
Allowed ==
  [order |->
     [IN_PROCESSING |-> {"ACCEPTED", "CANCELED", "REJECTED"},
      ACCEPTED      |-> {"CANCELED", "REJECTED"},
      CANCELED      |-> {},
      REJECTED      |-> {}],
   delivery |->
     [IN_PROCESSING |-> {"IN_PROGRESS", "CANCELED", "REJECTED"},
      IN_PROGRESS   |-> {"DELIVERED", "CANCELED", "RETURNED"},
      DELIVERED     |-> {"RETURNED"},
      CANCELED      |-> {},
      RETURNED      |-> {},
      REJECTED      |-> {}],
   payment |->
     [WAITING_FOR_PAY |-> {"PAID"},
      PAID            |-> {"REFUNDED"},
      REFUNDED        |-> {}]]

(***************************************************************************)
(* What a PATCH body says about the three fields: a value, or Keep for a   *)
(* field that is not in the body.                                          *)
(***************************************************************************)
Keep == "KEEP"

StatusPatch == [order    : StatusValues.order \cup {Keep},
                delivery : StatusValues.delivery \cup {Keep},
                payment  : StatusValues.payment \cup {Keep}]

\* A body without any of the three.
NoChange == [order |-> Keep, delivery |-> Keep, payment |-> Keep]

\* The only field cancel_order() and the bulk view write.
ToCanceled == [order |-> "CANCELED", delivery |-> Keep, payment |-> Keep]

\* setattr() of every field that is in the body.
Merge(old, patch) ==
  [order    |-> IF patch.order = Keep THEN old.order ELSE patch.order,
   delivery |-> IF patch.delivery = Keep THEN old.delivery ELSE patch.delivery,
   payment  |-> IF patch.payment = Keep THEN old.payment ELSE patch.payment]

(***************************************************************************)
(* The check of _validate_status_transition() and of                       *)
(* _recheck_status_transitions_locked(): each field in the body keeps its  *)
(* value or moves to a successor of it.                                    *)
(***************************************************************************)
Legal(old, patch) ==
  \A f \in Fields : patch[f] \in {Keep, old[f]} \cup Allowed[f][old[f]]

\* The statuses reachable from s in one legal change.
Follows(s, t) == \A f \in Fields : t[f] \in {s[f]} \cup Allowed[f][s[f]]

\* Faulty variant: only CANCELED restores stock (what update() did once).
ClosesOnlyByCancel(old, patch) ==
  patch.order = "CANCELED" /\ old.order \notin Terminal

\* A patch that closes the order: was_terminal_reached of update().
Closes(old, patch) == patch.order \in Terminal /\ old.order \notin Terminal
============================================================================
