------------------------------- MODULE Stores -------------------------------
(***************************************************************************)
(* The store's account (apps/stores): promocodes, tariff purchases, the    *)
(* balance ledger with its idempotency keys, and its slides.               *)
(*                                                                         *)
(* A request reads what it needs without a lock when it arrives, then runs *)
(* one transaction that starts by locking the store row; seen[r] is the    *)
(* Store instance it has in memory.  The edits of a store and of a slide   *)
(* have no transaction: they save the instance they read.  A plan is a     *)
(* tariff for a duration; when it ends is never looked at.  The CHECK      *)
(* constraint on balance is left out on purpose.                           *)
(***************************************************************************)
EXTENDS Integers, FiniteSets, SequencesExt

CONSTANTS
  Requests,        \* the requests that may be in flight at the same time
  Stores,
  AdminOf,         \* AdminOf[s]: Store.admin_user
  InitialBalance,
  Codes,           \* the promocodes
  StoreOf,         \* StoreOf[c]: the store a promocode is for
  Amount,          \* Amount[c]: Promocode.amount, which nothing keeps positive
  Tariffs,
  Free,            \* the tariff a store starts with
  Durations,
  Price,           \* Price[<<t, d>>]: TARIFF_PRICES
  Keys,            \* the Idempotency-Key values clients use
  Slides,          \* bound: the slide ids the database may hand out
  Places,          \* the values of Slide.sort_order
  MaxSlides,       \* _MAX_SLIDES_PER_STORE
  MaxLedger,       \* bound: the transactions the ledger may hold
  Galleries,       \* bound: the stores whose slides clients change
  MaxEdits,        \* bound: the edits and orderings of slides they ask for
  Operations,      \* bound: the endpoints the clients of an instance call
  None

\* The combinations that have a price.
Plans == DOMAIN Price

AllOperations == {"promo", "tariff", "slide", "edit_store", "edit_slide", "reorder"}

ASSUME StoresAssumption ==
  /\ InitialBalance \in [Stores -> Nat]
  /\ StoreOf \in [Codes -> Stores] /\ Amount \in [Codes -> Int]
  /\ Free \in Tariffs /\ Plans \subseteq Tariffs \X Durations /\ Price \in [Plans -> Nat]
  /\ Places \subseteq Nat /\ 0 \in Places
  /\ MaxSlides \in Nat /\ MaxLedger \in Nat /\ MaxEdits \in Nat
  /\ Galleries \subseteq Stores
  /\ Operations \subseteq AllOperations
  /\ None \notin Requests \cup Codes \cup Tariffs \cup Plans \cup Slides \cup Keys
  /\ Codes \cap Plans = {}

VARIABLES
  balance,  \* Store.balance
  tariff,   \* Store.tariff_plan
  used,     \* the promocodes with is_used
  ledger,   \* StoreBalanceTransaction (a purchase's StoreTariffPlan with it)
  slides,   \* slides[s]: the ids of its Slide rows
  place,    \* place[x]: Slide.sort_order, 0 without a row
  edits,    \* the edits and orderings of slides so far
  issued,   \* the slide ids handed out so far
  slock,    \* the transaction that holds the lock on a store row
  clock,    \* the transaction that holds the lock on a promocode row
  pc, call, seen

account == <<balance, tariff, used, ledger>>
gallery == <<slides, place, issued>>
locks   == <<slock, clock>>
vars    == <<account, gallery, edits, locks, pc, call, seen>>

Asks(op, s, what, k) == [op |-> op, store |-> s, what |-> what, key |-> k]
NoCall == Asks("none", None, None, None)

NoRow == [balance |-> 0, tariff |-> Free, place |-> 0]
Row(s) == [NoRow EXCEPT !.balance = balance[s], !.tariff = tariff[s]]
SlideRow(x) == [NoRow EXCEPT !.place = place[x]]

\* A slide, and the place that a request names for it.
Ranked == Slides \X (Places \cup {None})

\* Faulty variant: store and code or tariff exchanged.
EntrySwapped(s, what, amount, before, after, k) ==
  [store |-> what, what |-> s, amount |-> amount,
   before |-> before, after |-> after, key |-> k]

\* A transaction of the ledger; amount is negative for an OUTCOME.
Entry(s, what, amount, before, after, k) ==
  [store |-> s, what |-> what, amount |-> amount,
   before |-> before, after |-> after, key |-> k]

Entries == [store : Stores, what : Codes \cup Plans, amount : Int,
            before : Int, after : Int, key : Keys \cup {None}]

TypeOK ==
  /\ balance \in [Stores -> Int] /\ tariff \in [Stores -> Tariffs]
  /\ used \subseteq Codes /\ ledger \in Seq(Entries)
  /\ slides \in [Stores -> SUBSET Slides] /\ issued \subseteq Slides
  /\ place \in [Slides -> Places] /\ edits \in 0..MaxEdits
  /\ slock \in [Stores -> Requests \cup {None}]
  /\ clock \in [Codes -> Requests \cup {None}]
  /\ pc \in [Requests -> {"idle", "store", "code", "count", "write", "save", "reorder"}]
  /\ call \in [Requests -> [op : AllOperations \cup {"none"}, store : Stores \cup {None},
                            what : Codes \cup Plans \cup Tariffs \cup Ranked \cup {None},
                            key : Keys \cup {None}]]
  /\ seen \in [Requests -> [balance : Int, tariff : Tariffs, place : Places]]

Init ==
  /\ balance = InitialBalance /\ tariff = [s \in Stores |-> Free]
  /\ used = {} /\ ledger = <<>>
  /\ slides = [s \in Stores |-> {}] /\ place = [x \in Slides |-> 0] /\ issued = {}
  /\ edits = 0
  /\ slock = [s \in Stores |-> None] /\ clock = [c \in Codes |-> None]
  /\ pc = [r \in Requests |-> "idle"]
  /\ call = [r \in Requests |-> NoCall]
  /\ seen = [r \in Requests |-> NoRow]

-----------------------------------------------------------------------------
(* The arrival of a request and its unlocked reads.                        *)

\* The transactions of this user's stores with the key of the request.
Handled(u, k) ==
  {e \in ToSet(ledger) : k # None /\ e.key = k /\ AdminOf[e.store] = u}

\* The StoreTariffPlan rows of a store.
PlansOf(s) == {e \in ToSet(ledger) : e.store = s /\ e.what \in Plans}

HasPlan(s) == PlansOf(s) # {}

\* Bound: the ledger has room for every request in flight.
LedgerRoom ==
  Len(ledger) + Cardinality({r \in Requests : call[r].op \in {"promo", "tariff"}})
    < MaxLedger

Receive(r, c, at) ==
  /\ pc[r] = "idle"
  /\ c.op \in Operations
  /\ call' = [call EXCEPT ![r] = c]
  /\ pc' = [pc EXCEPT ![r] = at]
  /\ edits' = IF c.op \in {"edit_slide", "reorder"} THEN edits + 1 ELSE edits
  /\ edits' <= MaxEdits
  /\ UNCHANGED <<account, gallery, locks>>

ReceivePromo(r) ==
  \E s \in Stores, c \in Codes, k \in Keys \cup {None} :
    /\ LedgerRoom
    /\ Handled(AdminOf[s], k) = {}
    /\ Receive(r, Asks("promo", s, c, k), "store")
    /\ UNCHANGED seen

\* A key that is handled already but whose store has no plan goes on.
ReceiveTariff(r) ==
  \E s \in Stores, p \in Tariffs \X Durations, k \in Keys \cup {None} :
    /\ LedgerRoom
    /\ \A e \in Handled(AdminOf[s], k) : ~HasPlan(e.store)
    /\ p \in Plans
    /\ Receive(r, Asks("tariff", s, p, k), "store")
    /\ UNCHANGED seen

ReceiveSlide(r) ==
  \E s \in Galleries :
    /\ Receive(r, Asks("slide", s, None, None), "store")
    /\ UNCHANGED seen

\* PATCH of a store; its body may name tariff_plan, which is writable.
ReceiveStoreEdit(r) ==
  \E s \in Stores, t \in Tariffs \cup {None} :
    /\ Receive(r, Asks("edit_store", s, t, None), "save")
    /\ seen' = [seen EXCEPT ![r] = Row(s)]

ReceiveSlideEdit(r) ==
  \E s \in Galleries, n \in Places \cup {None} : \E x \in slides[s] :
    /\ Receive(r, Asks("edit_slide", s, <<x, n>>, None), "save")
    /\ seen' = [seen EXCEPT ![r] = SlideRow(x)]

\* One entry of POST slides/set-ordering/; another store's slides are left out.
ReceiveOrdering(r) ==
  \E s \in Galleries, n \in Places : \E x \in slides[s] :
    /\ Receive(r, Asks("reorder", s, <<x, n>>, None), "reorder")
    /\ UNCHANGED seen

-----------------------------------------------------------------------------
(* Locks and the end of a transaction.                                     *)

Release(r) ==
  /\ pc' = [pc EXCEPT ![r] = "idle"]
  /\ call' = [call EXCEPT ![r] = NoCall]
  /\ seen' = [seen EXCEPT ![r] = NoRow]
  /\ slock' = [s \in Stores |-> IF slock[s] = r THEN None ELSE slock[s]]
  /\ clock' = [c \in Codes |-> IF clock[c] = r THEN None ELSE clock[c]]

Rollback(r) == Release(r) /\ UNCHANGED <<account, gallery, edits>>

\* Faulty variant: the store is read without FOR UPDATE.
StoreRowRead(s) == TRUE

StoreRowFree(s) == slock[s] = None

AfterLock == [promo |-> "code", tariff |-> "write", slide |-> "count"]

LockStore(r) ==
  LET s == call[r].store
  IN  /\ pc[r] = "store"
      /\ StoreRowFree(s)
      /\ slock' = [slock EXCEPT ![s] = r]
      /\ seen' = [seen EXCEPT ![r] = Row(s)]
      /\ pc' = [pc EXCEPT ![r] = AfterLock[call[r].op]]
      /\ UNCHANGED <<account, gallery, edits, clock, call>>

\* Faulty variant: the code's is_used is not part of the look-up.
AnyCode(c, s) == StoreOf[c] = s /\ Amount[c] > 0

\* A code of this store, unused, with a positive amount.
Redeemable(c, s) == StoreOf[c] = s /\ c \notin used /\ Amount[c] > 0

LockCode(r) ==
  LET c == call[r].what
  IN  /\ pc[r] = "code"
      /\ clock[c] = None
      /\ IF Redeemable(c, call[r].store)
         THEN /\ clock' = [clock EXCEPT ![c] = r]
              /\ pc' = [pc EXCEPT ![r] = "write"]
              /\ UNCHANGED <<account, gallery, edits, slock, call, seen>>
         ELSE Rollback(r)

-----------------------------------------------------------------------------
(* The writes.                                                             *)

\* Faulty variant: no constraint, the look-up on arrival alone.
NoUniqueKey(k) == FALSE

\* The UNIQUE constraint on StoreBalanceTransaction.idempotency_key.
KeyTaken(k) == k # None /\ \E e \in ToSet(ledger) : e.key = k

\* Faulty variant: a request without a key leaves no transaction.
BookedWithKey(e) == IF e.key = None THEN ledger ELSE Append(ledger, e)

Booked(e) == Append(ledger, e)

\* The balance moves by F('balance') + amount, and is read back for the ledger.
Credit(r) ==
  LET s == call[r].store
      c == call[r].what
      after == balance[s] + Amount[c]
  IN  /\ pc[r] = "write" /\ call[r].op = "promo"
      /\ ~KeyTaken(call[r].key)
      /\ balance' = [balance EXCEPT ![s] = after]
      /\ used' = used \cup {c}
      /\ ledger' = Booked(Entry(s, c, Amount[c], seen[r].balance, after, call[r].key))
      /\ Release(r)
      /\ UNCHANGED <<tariff, gallery, edits>>

get_tariff_price(p) == Price[p]

\* Faulty variant: the price is compared with a balance it may exceed by one.
NearlyAffordable(r) ==
  /\ seen[r].tariff # call[r].what[1]
  /\ seen[r].balance + 1 >= get_tariff_price(call[r].what)

\* Not the current tariff, and the balance covers its price.
Affordable(r) ==
  /\ seen[r].tariff # call[r].what[1]
  /\ seen[r].balance >= get_tariff_price(call[r].what)

\* The balance is computed in memory from the locked row.
Purchase(r) ==
  LET s == call[r].store
      p == call[r].what
      after == seen[r].balance - get_tariff_price(p)
  IN  /\ pc[r] = "write" /\ call[r].op = "tariff"
      /\ Affordable(r)
      /\ ~KeyTaken(call[r].key)
      /\ balance' = [balance EXCEPT ![s] = after]
      /\ tariff' = [tariff EXCEPT ![s] = p[1]]
      /\ ledger' = Booked(Entry(s, p, -get_tariff_price(p), seen[r].balance, after, call[r].key))
      /\ Release(r)
      /\ UNCHANGED <<used, gallery, edits>>

\* TariffError, or the IntegrityError of a key that is taken.
Refuse(r) ==
  /\ pc[r] = "write" /\ call[r].op \in {"promo", "tariff"}
  /\ KeyTaken(call[r].key) \/ (call[r].op = "tariff" /\ ~Affordable(r))
  /\ Rollback(r)

\* The count of create_slide_locked().
SlideAllowed(s) == Cardinality(slides[s]) < MaxSlides

CountSlides(r) ==
  /\ pc[r] = "count"
  /\ IF SlideAllowed(call[r].store)
     THEN /\ pc' = [pc EXCEPT ![r] = "write"]
          /\ UNCHANGED <<account, gallery, edits, locks, call, seen>>
     ELSE Rollback(r)

\* The body may name sort_order, which is 0 by default.
InsertSlide(r) ==
  \E x \in Slides \ issued, n \in Places :
    /\ pc[r] = "write" /\ call[r].op = "slide"
    /\ slides' = [slides EXCEPT ![call[r].store] = @ \cup {x}]
    /\ place' = [place EXCEPT ![x] = n]
    /\ issued' = issued \cup {x}
    /\ Release(r)
    /\ UNCHANGED <<account, edits>>

\* instance.save() of a store writes every column of the row, with balance and
\* tariff as they were read.
SaveStore(r) ==
  LET s == call[r].store
  IN  /\ pc[r] = "save" /\ call[r].op = "edit_store"
      /\ slock[s] = None
      /\ balance' = [balance EXCEPT ![s] = seen[r].balance]
      /\ tariff' = [tariff EXCEPT ![s] = IF call[r].what = None THEN seen[r].tariff
                                                                ELSE call[r].what]
      /\ Release(r)
      /\ UNCHANGED <<used, ledger, gallery, edits>>

\* save() of a slide deleted since it was read inserts it again; the foreign key of
\* the new row waits for the store row.  The UPDATE that finds no row changes nothing,
\* and an INSERT that another edit has overtaken violates the primary key: it is Fail.
SaveSlide(r) ==
  LET s == call[r].store
      x == call[r].what[1]
      n == call[r].what[2]
  IN  /\ pc[r] = "save" /\ call[r].op = "edit_slide"
      /\ x \in slides[s] \/ slock[s] = None
      /\ slides' = [slides EXCEPT ![s] = @ \cup {x}]
      /\ place' = [place EXCEPT ![x] = IF n = None THEN seen[r].place ELSE n]
      /\ Release(r)
      /\ UNCHANGED <<account, issued, edits>>

\* Faulty variant: the slides are saved, those that are gone as well.
Resorted(s, x) == slides[s] \cup {x}

\* bulk_update() of a column adds no row.
Sorted(s, x) == slides[s]

\* reorder_slides(): an UPDATE of sort_order by primary key.
Reorder(r) ==
  LET s == call[r].store
      x == call[r].what[1]
  IN  /\ pc[r] = "reorder"
      /\ slides' = [slides EXCEPT ![s] = Sorted(s, x)]
      /\ place' = [place EXCEPT ![x] = IF x \in slides'[s] THEN call[r].what[2] ELSE @]
      /\ Release(r)
      /\ UNCHANGED <<account, issued, edits>>

DeleteSlide(s) ==
  \E x \in slides[s] :
    /\ slides' = [slides EXCEPT ![s] = @ \ {x}]
    /\ place' = [place EXCEPT ![x] = 0]
    /\ UNCHANGED <<account, issued, edits, locks, pc, call, seen>>

\* The worker dies, or a statement fails: PostgreSQL rolls back.
Fail(r) == pc[r] # "idle" /\ Rollback(r)

-----------------------------------------------------------------------------
Arrive(r) == \/ ReceivePromo(r) \/ ReceiveTariff(r) \/ ReceiveSlide(r)
             \/ ReceiveStoreEdit(r) \/ ReceiveSlideEdit(r) \/ ReceiveOrdering(r)

Proceed(r) == \/ LockStore(r) \/ LockCode(r) \/ Credit(r) \/ Purchase(r) \/ Refuse(r)
              \/ CountSlides(r) \/ InsertSlide(r) \/ SaveStore(r) \/ SaveSlide(r)
              \/ Reorder(r)

Next == \/ \E r \in Requests : Arrive(r) \/ Proceed(r) \/ Fail(r)
        \/ \E s \in Stores : DeleteSlide(s)

Spec == Init /\ [][Next]_vars

-----------------------------------------------------------------------------
(* Properties.                                                             *)

\* Overlapping purchases and credits, and stale edits, never overdraw a store,
\* even without the CHECK constraint.
BalanceNonNegative == \A s \in Stores : balance[s] >= 0

\* However often and concurrently a promocode is activated, it is credited once,
\* and it is marked as used exactly when the ledger has it.
CodeCreditedOnce ==
  /\ \A i, j \in DOMAIN ledger :
       ledger[i].what \in Codes /\ ledger[i].what = ledger[j].what => i = j
  /\ used = Codes \cap {e.what : e \in ToSet(ledger)}

\* A retried or duplicated request leaves one transaction per idempotency key,
\* across promocodes, tariffs and stores.
OneEntryPerKey ==
  \A i, j \in DOMAIN ledger :
    ledger[i].key # None /\ ledger[i].key = ledger[j].key => i = j

\* Every transaction of the ledger is what happened to the balance: it starts
\* from the committed balance and the balance moves by its amount.
LedgerRecordsBalance ==
  [][ledger' # ledger =>
       LET e == Last(ledger')
       IN  /\ ledger' = Append(ledger, e)
           /\ e.before = balance[e.store]
           /\ e.after = balance'[e.store]
           /\ e.after = e.before + e.amount]_vars

\* Money comes and goes without a transaction of the ledger only when an edit of
\* the store that has overlapped a purchase or a credit saves what it had read.
OnlyStaleEditsLoseMoney ==
  [][\A s \in Stores :
       balance'[s] # balance[s] /\ ledger' = ledger =>
         \E r \in Requests :
           /\ pc[r] = "save" /\ pc'[r] = "idle" /\ call[r].store = s
           /\ seen[r].balance = balance'[s]]_vars

\* However many slides are created, put in order, edited and deleted at once, a store
\* goes over the limit, and a slide loses the place it was given, only when the edit
\* of a slide that another request has deleted or moved meanwhile saves what it read.
OnlyStaleEditsUndoSlides ==
  [][\A s \in Stores, x \in Slides :
       LET by(op) == {r \in Requests : /\ pc[r] # "idle" /\ pc'[r] = "idle"
                                       /\ call[r].op = op /\ call[r].what[1] = x}
       IN  /\ x \in slides'[s] \ slides[s] /\ Cardinality(slides'[s]) > MaxSlides =>
                by("edit_slide") # {}
           /\ x \in slides'[s] \cap slides[s] /\ place'[x] # place[x] =>
                \E r \in by("edit_slide") \cup by("reorder") :
                  \/ call[r].what[2] = place'[x]
                  \/ call[r].op = "edit_slide" /\ seen[r].place = place'[x]]_vars
=============================================================================
