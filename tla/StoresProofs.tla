----------------------------- MODULE StoresProofs -----------------------------
(***************************************************************************)
(* Theorems about Stores, for every set of requests, stores, promocodes,   *)
(* plans, keys and slides and every bound.                                 *)
(***************************************************************************)
EXTENDS Stores, SequenceTheorems, FiniteSetTheorems, TLAPS

(***************************************************************************)
(* The inductive invariant.                                                *)
(***************************************************************************)

\* What a request asks for, by its operation, and where it may stand.
Shape(r) ==
  /\ pc[r] = "idle" <=> call[r].op = "none"
  /\ pc[r] # "idle" => call[r].store \in Stores
  /\ pc[r] = "store" => call[r].op \in {"promo", "tariff", "slide"}
  /\ pc[r] = "code" => call[r].op = "promo"
  /\ pc[r] = "count" => call[r].op = "slide"
  /\ pc[r] = "write" => call[r].op \in {"promo", "tariff", "slide"}
  /\ pc[r] = "save" => call[r].op \in {"edit_store", "edit_slide"}
  /\ pc[r] = "reorder" => call[r].op = "reorder"
  /\ call[r].op = "promo" => call[r].what \in Codes
  /\ call[r].op = "tariff" => call[r].what \in Plans
  /\ call[r].op = "edit_store" => call[r].what \in Tariffs \cup {None}
  /\ call[r].op = "edit_slide" => call[r].what \in Ranked
  /\ call[r].op = "reorder" => call[r].what \in Slides \X Places

\* Past its first lock a request holds its store's row and has read what is there.
HoldsStore(r) ==
  pc[r] \in {"code", "count", "write"} =>
    slock[call[r].store] = r /\ seen[r].balance = balance[call[r].store]

\* What it has checked under the locks is still so when it writes.
StillChecked(r) ==
  pc[r] = "write" =>
    /\ call[r].op = "promo" => clock[call[r].what] = r
                               /\ Redeemable(call[r].what, call[r].store)
    /\ call[r].op = "slide" => SlideAllowed(call[r].store)

\* A request never has an overdrawn balance in memory.
SawMoney(r) == seen[r].balance >= 0

RequestInv(r) == Shape(r) /\ HoldsStore(r) /\ StillChecked(r) /\ SawMoney(r)

\* Slide x is in the gallery of s, or an edit that has read it there may put it back.
Belongs(x, s) ==
  \/ x \in slides[s]
  \/ \E r \in Requests :
       call[r].op = "edit_slide" /\ call[r].store = s /\ call[r].what[1] = x

\* A slide is of one store for ever: ids are not used again.
OneGallery ==
  /\ \A s \in Stores : IsFiniteSet(slides[s])
  /\ \A x \in Slides, s \in Stores : Belongs(x, s) => x \in issued
  /\ \A x \in Slides, s, t \in Stores : Belongs(x, s) /\ Belongs(x, t) => s = t

IInv == /\ TypeOK /\ (\A r \in Requests : RequestInv(r)) /\ OneGallery
        /\ BalanceNonNegative /\ CodeCreditedOnce /\ OneEntryPerKey

-----------------------------------------------------------------------------
(* Types. *)

CallType == [op : AllOperations \cup {"none"}, store : Stores \cup {None},
             what : Codes \cup Plans \cup Tariffs \cup Ranked \cup {None},
             key : Keys \cup {None}]

SeenType == [balance : Int, tariff : Tariffs, place : Places]

Steps == {"idle", "store", "code", "count", "write", "save", "reorder"}

LEMMA NoCallType == NoCall \in CallType /\ NoRow \in SeenType
BY StoresAssumption DEF NoCall, Asks, NoRow, CallType, SeenType

LEMMA RowType ==
  ASSUME TypeOK
  PROVE  /\ \A s \in Stores : Row(s) \in SeenType
         /\ \A x \in Slides : SlideRow(x) \in SeenType
BY NoCallType DEF TypeOK, Row, SlideRow, NoRow, SeenType

LEMMA InitType == Init => TypeOK
<1> SUFFICES ASSUME Init PROVE TypeOK
  OBVIOUS
<1>1. ledger \in Seq(Entries)
  BY EmptySeq DEF Init
<1> QED
  BY <1>1, NoCallType, StoresAssumption DEF Init, TypeOK, CallType, SeenType

LEMMA ReceiveType ==
  ASSUME TypeOK, NEW r \in Requests, NEW c \in CallType, NEW at \in Steps,
         Receive(r, c, at), seen' \in [Requests -> SeenType]
  PROVE  TypeOK'
<1>1. edits' \in 0..MaxEdits
  BY StoresAssumption DEF Receive, TypeOK
<1> QED
  BY <1>1 DEF Receive, TypeOK, account, gallery, locks, CallType, SeenType, Steps

LEMMA ArriveType ==
  ASSUME TypeOK, NEW r \in Requests, Arrive(r)
  PROVE  TypeOK'
<1> USE RowType, ReceiveType DEF AllOperations, Asks, CallType, Steps
<1>0. seen \in [Requests -> SeenType]
  BY DEF TypeOK, SeenType
<1>1. CASE ReceivePromo(r)
  BY <1>0, <1>1 DEF ReceivePromo
<1>2. CASE ReceiveTariff(r)
  BY <1>0, <1>2 DEF ReceiveTariff
<1>3. CASE ReceiveSlide(r)
  BY <1>0, <1>3, StoresAssumption DEF ReceiveSlide
<1>4. CASE ReceiveStoreEdit(r)
  BY <1>0, <1>4 DEF ReceiveStoreEdit
<1>5. CASE ReceiveSlideEdit(r)
  <2>0. PICK s \in Galleries, n \in Places \cup {None} : \E x \in slides[s] :
          /\ Receive(r, Asks("edit_slide", s, <<x, n>>, None), "save")
          /\ seen' = [seen EXCEPT ![r] = SlideRow(x)]
    BY <1>5 DEF ReceiveSlideEdit
  <2>1. PICK x \in slides[s] :
          /\ Receive(r, Asks("edit_slide", s, <<x, n>>, None), "save")
          /\ seen' = [seen EXCEPT ![r] = SlideRow(x)]
    BY <2>0
  <2>2. x \in Slides
    BY StoresAssumption DEF TypeOK
  <2> QED
    BY <1>0, <2>1, <2>2, StoresAssumption DEF Ranked
<1>6. CASE ReceiveOrdering(r)
  <2>0. PICK s \in Galleries, n \in Places : \E x \in slides[s] :
          Receive(r, Asks("reorder", s, <<x, n>>, None), "reorder") /\ seen' = seen
    BY <1>6 DEF ReceiveOrdering
  <2>1. PICK x \in slides[s] :
          Receive(r, Asks("reorder", s, <<x, n>>, None), "reorder") /\ seen' = seen
    BY <2>0
  <2>2. x \in Slides
    BY StoresAssumption DEF TypeOK
  <2> QED
    BY <1>0, <2>1, <2>2, StoresAssumption DEF Ranked
<1> QED
  BY <1>1, <1>2, <1>3, <1>4, <1>5, <1>6 DEF Arrive

LEMMA ReleaseType ==
  ASSUME TypeOK, NEW r \in Requests, Release(r)
  PROVE  /\ pc' \in [Requests -> Steps] /\ call' \in [Requests -> CallType]
         /\ seen' \in [Requests -> SeenType]
         /\ slock' \in [Stores -> Requests \cup {None}]
         /\ clock' \in [Codes -> Requests \cup {None}]
BY NoCallType DEF Release, TypeOK, Steps, CallType, SeenType

LEMMA RollbackType ==
  ASSUME TypeOK, NEW r \in Requests, Rollback(r)
  PROVE  TypeOK'
BY ReleaseType DEF Rollback, TypeOK, account, gallery, Steps, CallType, SeenType

\* A transaction that is put at the end of the ledger.
LEMMA AppendType ==
  ASSUME TypeOK, NEW e \in Entries, ledger' = Append(ledger, e)
  PROVE  /\ ledger' \in Seq(Entries) /\ Len(ledger') = Len(ledger) + 1
         /\ Len(ledger) \in Nat
         /\ \A i \in 1..Len(ledger) : ledger'[i] = ledger[i]
         /\ ledger'[Len(ledger) + 1] = e
         /\ ToSet(ledger') = ToSet(ledger) \cup {e}
<1>1. ledger \in Seq(Entries)
  BY DEF TypeOK
<1> QED
  BY <1>1, AppendProperties DEF ToSet

LEMMA NextType == TypeOK /\ (\A r \in Requests : Shape(r)) /\ [Next]_vars => TypeOK'
<1> SUFFICES ASSUME TypeOK, \A r \in Requests : Shape(r), [Next]_vars PROVE TypeOK'
  OBVIOUS
<1> USE DEF account, gallery, locks
<1>1. ASSUME NEW r \in Requests, LockStore(r) PROVE TypeOK'
  <2>1. Row(call[r].store) \in SeenType /\ call[r].store \in Stores
    BY <1>1, RowType DEF LockStore, Shape
  <2>2. AfterLock[call[r].op] \in Steps
    BY <1>1 DEF LockStore, Shape, AfterLock, Steps
  <2> QED
    BY <1>1, <2>1, <2>2 DEF LockStore, TypeOK, SeenType, Steps
<1>2. ASSUME NEW r \in Requests, LockCode(r) PROVE TypeOK'
  BY <1>2, RollbackType DEF LockCode, TypeOK
<1>3. ASSUME NEW r \in Requests, Credit(r) PROVE TypeOK'
  <2>0. call[r].store \in Stores /\ call[r].what \in Codes /\ call[r].key \in Keys \cup {None}
    BY <1>3 DEF Credit, Shape, TypeOK
  <2>1. Amount[call[r].what] \in Int /\ balance[call[r].store] \in Int /\ seen[r].balance \in Int
    BY <2>0, StoresAssumption DEF TypeOK
  <2>2. PICK e \in Entries : ledger' = Append(ledger, e)
    BY <1>3, <2>0, <2>1 DEF Credit, Booked, Entry, Entries
  <2> QED
    BY <1>3, <2>0, <2>1, <2>2, AppendType, ReleaseType DEF Credit, TypeOK, Steps, CallType, SeenType
<1>4. ASSUME NEW r \in Requests, Purchase(r) PROVE TypeOK'
  <2>0. call[r].store \in Stores /\ call[r].what \in Plans /\ call[r].key \in Keys \cup {None}
    BY <1>4 DEF Purchase, Shape, TypeOK
  <2>1. /\ call[r].what[1] \in Tariffs /\ get_tariff_price(call[r].what) \in Nat
        /\ seen[r].balance \in Int
    BY <2>0, StoresAssumption DEF TypeOK, get_tariff_price
  <2>2. PICK e \in Entries : ledger' = Append(ledger, e)
    BY <1>4, <2>0, <2>1 DEF Purchase, Booked, Entry, Entries
  <2> QED
    BY <1>4, <2>0, <2>1, <2>2, AppendType, ReleaseType
    DEF Purchase, TypeOK, Steps, CallType, SeenType
<1>5. ASSUME NEW r \in Requests, Refuse(r) \/ Fail(r) PROVE TypeOK'
  BY <1>5, RollbackType DEF Refuse, Fail
<1>6. ASSUME NEW r \in Requests, CountSlides(r) PROVE TypeOK'
  BY <1>6, RollbackType DEF CountSlides, TypeOK
<1>7. ASSUME NEW r \in Requests, InsertSlide(r) PROVE TypeOK'
  BY <1>7, ReleaseType DEF InsertSlide, Shape, TypeOK, Steps, CallType, SeenType
<1>8. ASSUME NEW r \in Requests, SaveStore(r) PROVE TypeOK'
  <2>1. /\ call[r].store \in Stores /\ call[r].what \in Tariffs \cup {None}
        /\ seen[r].balance \in Int /\ seen[r].tariff \in Tariffs
    BY <1>8 DEF SaveStore, Shape, TypeOK
  <2> QED
    BY <1>8, <2>1, ReleaseType DEF SaveStore, TypeOK, Steps, CallType, SeenType
<1>9. ASSUME NEW r \in Requests, SaveSlide(r) PROVE TypeOK'
  <2>1. /\ call[r].store \in Stores /\ call[r].what[1] \in Slides
        /\ call[r].what[2] \in Places \cup {None} /\ seen[r].place \in Places
    BY <1>9 DEF SaveSlide, Shape, TypeOK, Ranked
  <2> QED
    BY <1>9, <2>1, ReleaseType DEF SaveSlide, TypeOK, Steps, CallType, SeenType
<1>10. ASSUME NEW r \in Requests, Reorder(r) PROVE TypeOK'
  <2>1. /\ call[r].store \in Stores /\ call[r].what[1] \in Slides
        /\ call[r].what[2] \in Places
    BY <1>10 DEF Reorder, Shape, TypeOK, Ranked
  <2> QED
    BY <1>10, <2>1, ReleaseType DEF Reorder, Sorted, TypeOK, Steps, CallType, SeenType
<1>11. ASSUME NEW s \in Stores, DeleteSlide(s) PROVE TypeOK'
  BY <1>11, StoresAssumption DEF DeleteSlide, TypeOK
<1>12. CASE UNCHANGED vars
  BY <1>12 DEF vars, TypeOK
<1> QED
  BY <1>1, <1>2, <1>3, <1>4, <1>5, <1>6, <1>7, <1>8, <1>9, <1>10, <1>11, <1>12,
     ArriveType DEF Next, Proceed

-----------------------------------------------------------------------------
(* What the locks of a request keep, whatever another request does.        *)

Undisturbed(q) ==
  /\ pc'[q] = pc[q] /\ call'[q] = call[q] /\ seen'[q] = seen[q]
  /\ \A s \in Stores :
       slock[s] = q => /\ slock'[s] = q /\ balance'[s] = balance[s]
                       /\ SlideAllowed(s) => SlideAllowed(s)'
  /\ \A c \in Codes : clock[c] = q => clock'[c] = q /\ (c \notin used => c \notin used')

LEMMA Frame ==
  ASSUME NEW q \in Requests, RequestInv(q), Undisturbed(q)
  PROVE  RequestInv(q)'
<1> USE DEF Undisturbed
<1>1. Shape(q)'
  BY DEF RequestInv, Shape
<1>2. HoldsStore(q)' /\ SawMoney(q)'
  BY DEF RequestInv, Shape, HoldsStore, SawMoney
<1>3. StillChecked(q)'
  BY DEF RequestInv, Shape, HoldsStore, StillChecked, Redeemable
<1> QED
  BY <1>1, <1>2, <1>3 DEF RequestInv

\* The end of a request leaves it idle and takes no lock of another.
LEMMA ReleaseSelf ==
  ASSUME TypeOK, NEW r \in Requests, Release(r)
  PROVE  pc'[r] = "idle" /\ call'[r] = NoCall /\ RequestInv(r)'
<1>1. pc'[r] = "idle" /\ call'[r] = NoCall /\ seen'[r] = NoRow
  BY DEF Release, TypeOK
<1> QED
  BY <1>1, StoresAssumption
  DEF RequestInv, Shape, HoldsStore, StillChecked, SawMoney, NoCall, NoRow, Asks

LEMMA ReleaseOthers ==
  ASSUME TypeOK, NEW r \in Requests, Release(r), NEW q \in Requests, q # r
  PROVE  /\ pc'[q] = pc[q] /\ call'[q] = call[q] /\ seen'[q] = seen[q]
         /\ \A s \in Stores : slock[s] = q => slock'[s] = q
         /\ \A c \in Codes : clock[c] = q => clock'[c] = q
BY DEF Release, TypeOK

\* A request that ends keeps the invariant of all requests if it writes to no row
\* that another has locked.
LEMMA EndKeepsRequests ==
  ASSUME IInv, NEW r \in Requests, Release(r),
         \A q \in Requests, s \in Stores :
           q # r /\ slock[s] = q => /\ balance'[s] = balance[s]
                                    /\ SlideAllowed(s) => SlideAllowed(s)',
         \A q \in Requests, c \in Codes :
           q # r /\ clock[c] = q /\ c \notin used => c \notin used'
  PROVE  \A q \in Requests : RequestInv(q)'
<1> SUFFICES ASSUME NEW q \in Requests PROVE RequestInv(q)'
  OBVIOUS
<1>1. CASE q = r
  BY <1>1, ReleaseSelf DEF IInv
<1>2. CASE q # r
  <2>1. Undisturbed(q)
    BY <1>2, ReleaseOthers DEF IInv, Undisturbed
  <2> QED
    BY <2>1, Frame DEF IInv
<1> QED
  BY <1>1, <1>2

\* A request that goes on, takes a lock at most, and writes nothing.
LEMMA StepKeepsRequests ==
  ASSUME IInv, NEW r \in Requests, NEW at, NEW what, NEW row,
         pc' = [pc EXCEPT ![r] = at], call' = [call EXCEPT ![r] = what],
         seen' = [seen EXCEPT ![r] = row],
         \A s \in Stores : slock[s] # None => slock'[s] = slock[s],
         \A c \in Codes : clock[c] # None => clock'[c] = clock[c],
         UNCHANGED <<balance, used, slides>>,
         RequestInv(r)'
  PROVE  \A q \in Requests : RequestInv(q)'
<1> SUFFICES ASSUME NEW q \in Requests, q # r PROVE RequestInv(q)'
  OBVIOUS
<1>1. q # None
  BY StoresAssumption
<1>2. Undisturbed(q)
  BY <1>1 DEF IInv, TypeOK, Undisturbed, SlideAllowed
<1> QED
  BY <1>2, Frame DEF IInv

-----------------------------------------------------------------------------
(* The galleries. *)

\* No slide comes to a gallery but from it or as a new one.
LEMMA GalleriesKept ==
  ASSUME IInv, TypeOK', issued' = issued,
         \A s \in Stores : IsFiniteSet(slides'[s]),
         \A x \in Slides, s \in Stores : Belongs(x, s)' => Belongs(x, s)
  PROVE  OneGallery'
BY DEF IInv, OneGallery

LEMMA GalleriesIdle ==
  ASSUME IInv, TypeOK', NEW r \in Requests, UNCHANGED <<slides, issued>>,
         \A q \in Requests : call'[q] = call[q] \/ call'[q].op # "edit_slide"
  PROVE  OneGallery'
<1>1. \A x \in Slides, s \in Stores : Belongs(x, s)' => Belongs(x, s)
  BY DEF Belongs
<1> QED
  BY <1>1, GalleriesKept DEF IInv, OneGallery

-----------------------------------------------------------------------------
(* The invariant, action by action. *)

LEMMA MoneyIdle ==
  ASSUME IInv, UNCHANGED account
  PROVE  BalanceNonNegative' /\ CodeCreditedOnce' /\ OneEntryPerKey'
BY DEF IInv, account, BalanceNonNegative, CodeCreditedOnce, OneEntryPerKey

\* What an arrival must bring: a call that suits its first step, and, for the edit
\* of a slide, a slide of the store.
Arrives(c, at, row) ==
  /\ at \in {"store", "save", "reorder"} /\ c.store \in Stores /\ row.balance >= 0
  /\ \/ at = "store" /\ c.op = "promo" /\ c.what \in Codes
     \/ at = "store" /\ c.op = "tariff" /\ c.what \in Plans
     \/ at = "store" /\ c.op = "slide"
     \/ at = "save" /\ c.op = "edit_store" /\ c.what \in Tariffs \cup {None}
     \/ at = "save" /\ c.op = "edit_slide" /\ c.what \in Ranked
                    /\ c.what[1] \in slides[c.store]
     \/ at = "reorder" /\ c.op = "reorder" /\ c.what \in Slides \X Places

LEMMA InvReceive ==
  ASSUME IInv, TypeOK', NEW r \in Requests, NEW c, NEW at, NEW row,
         Receive(r, c, at), seen' = [seen EXCEPT ![r] = row], Arrives(c, at, row)
  PROVE  IInv'
<1>1. /\ UNCHANGED <<account, gallery, locks>> /\ pc[r] = "idle"
      /\ pc' = [pc EXCEPT ![r] = at] /\ call' = [call EXCEPT ![r] = c]
  BY DEF Receive
<1>2. pc'[r] = at /\ call'[r] = c /\ seen'[r] = row
  BY <1>1 DEF IInv, TypeOK
<1>3. RequestInv(r)'
  BY <1>2 DEF Arrives, RequestInv, Shape, HoldsStore, StillChecked, SawMoney
<1>4. \A q \in Requests : RequestInv(q)'
  BY <1>1, <1>3, StepKeepsRequests DEF account, gallery, locks
<1>5. OneGallery'
  <2>1. \A x \in Slides, s \in Stores : Belongs(x, s)' => Belongs(x, s)
    BY <1>1, <1>2 DEF Belongs, Arrives, gallery, IInv, TypeOK
  <2> QED
    BY <1>1, <2>1, GalleriesKept DEF gallery, IInv, OneGallery
<1> QED
  BY <1>1, <1>4, <1>5, MoneyIdle DEF IInv

LEMMA InvArrive ==
  ASSUME IInv, TypeOK', NEW r \in Requests, Arrive(r)
  PROVE  IInv'
<1>0. seen = [seen EXCEPT ![r] = seen[r]] /\ seen[r].balance >= 0
  BY DEF IInv, TypeOK, RequestInv, SawMoney
<1>1. CASE ReceivePromo(r)
  <2>1. PICK s \in Stores, x \in Codes, k \in Keys \cup {None} :
          Receive(r, Asks("promo", s, x, k), "store") /\ seen' = seen
    BY <1>1 DEF ReceivePromo
  <2>2. Arrives(Asks("promo", s, x, k), "store", seen[r])
    BY <1>0 DEF Arrives, Asks
  <2> QED
    BY <1>0, <2>1, <2>2, InvReceive
<1>2. CASE ReceiveTariff(r)
  <2>1. PICK s \in Stores, p \in Tariffs \X Durations, k \in Keys \cup {None} :
          p \in Plans /\ Receive(r, Asks("tariff", s, p, k), "store") /\ seen' = seen
    BY <1>2 DEF ReceiveTariff
  <2>2. Arrives(Asks("tariff", s, p, k), "store", seen[r])
    BY <1>0, <2>1 DEF Arrives, Asks
  <2> QED
    BY <1>0, <2>1, <2>2, InvReceive
<1>3. CASE ReceiveSlide(r)
  <2>1. PICK s \in Galleries :
          Receive(r, Asks("slide", s, None, None), "store") /\ seen' = seen
    BY <1>3 DEF ReceiveSlide
  <2>2. Arrives(Asks("slide", s, None, None), "store", seen[r])
    BY <1>0, StoresAssumption DEF Arrives, Asks
  <2> QED
    BY <1>0, <2>1, <2>2, InvReceive
<1>4. CASE ReceiveStoreEdit(r)
  <2>1. PICK s \in Stores, t \in Tariffs \cup {None} :
          /\ Receive(r, Asks("edit_store", s, t, None), "save")
          /\ seen' = [seen EXCEPT ![r] = Row(s)]
    BY <1>4 DEF ReceiveStoreEdit
  <2>2. Arrives(Asks("edit_store", s, t, None), "save", Row(s))
    BY DEF Arrives, Asks, Row, NoRow, IInv, BalanceNonNegative
  <2> QED
    BY <2>1, <2>2, InvReceive
<1>5. CASE ReceiveSlideEdit(r)
  <2>1. PICK s \in Galleries, n \in Places \cup {None} : \E x \in slides[s] :
          /\ Receive(r, Asks("edit_slide", s, <<x, n>>, None), "save")
          /\ seen' = [seen EXCEPT ![r] = SlideRow(x)]
    BY <1>5 DEF ReceiveSlideEdit
  <2>2. PICK x \in slides[s] :
          /\ Receive(r, Asks("edit_slide", s, <<x, n>>, None), "save")
          /\ seen' = [seen EXCEPT ![r] = SlideRow(x)]
    BY <2>1
  <2>3. s \in Stores /\ x \in Slides
    BY StoresAssumption DEF IInv, TypeOK
  <2>4. Arrives(Asks("edit_slide", s, <<x, n>>, None), "save", SlideRow(x))
    BY <2>3 DEF Arrives, Asks, SlideRow, NoRow, Ranked
  <2> QED
    BY <2>2, <2>4, InvReceive
<1>6. CASE ReceiveOrdering(r)
  <2>1. PICK s \in Galleries, n \in Places : \E x \in slides[s] :
          Receive(r, Asks("reorder", s, <<x, n>>, None), "reorder") /\ seen' = seen
    BY <1>6 DEF ReceiveOrdering
  <2>2. PICK x \in slides[s] :
          Receive(r, Asks("reorder", s, <<x, n>>, None), "reorder") /\ seen' = seen
    BY <2>1
  <2>3. s \in Stores /\ x \in Slides
    BY StoresAssumption DEF IInv, TypeOK
  <2>4. Arrives(Asks("reorder", s, <<x, n>>, None), "reorder", seen[r])
    BY <1>0, <2>3 DEF Arrives, Asks
  <2> QED
    BY <1>0, <2>2, <2>4, InvReceive
<1> QED
  BY <1>1, <1>2, <1>3, <1>4, <1>5, <1>6 DEF Arrive

LEMMA InvLockStore ==
  ASSUME IInv, TypeOK', NEW r \in Requests, LockStore(r)
  PROVE  IInv'
<1>1. call[r].store \in Stores /\ call[r].op \in {"promo", "tariff", "slide"} /\ Shape(r)
  BY DEF LockStore, IInv, RequestInv, Shape
<1>2. RequestInv(r)'
  <2>1. /\ pc'[r] = AfterLock[call[r].op] /\ call'[r] = call[r]
        /\ slock'[call[r].store] = r /\ seen'[r] = Row(call[r].store)
        /\ balance' = balance
    BY <1>1 DEF LockStore, IInv, TypeOK, account
  <2>2. seen'[r].balance = balance[call[r].store]
    BY <2>1 DEF Row, NoRow
  <2> QED
    BY <1>1, <2>1, <2>2
    DEF RequestInv, Shape, HoldsStore, StillChecked, SawMoney, AfterLock, IInv,
        BalanceNonNegative
<1>3. \A q \in Requests : RequestInv(q)'
  <2>1. call' = [call EXCEPT ![r] = call[r]]
    BY DEF LockStore, IInv, TypeOK
  <2> QED
    BY <1>2, <2>1, StepKeepsRequests
    DEF LockStore, StoreRowFree, account, gallery, IInv, TypeOK
<1>4. OneGallery'
  BY GalleriesIdle DEF LockStore, gallery
<1> QED
  BY <1>3, <1>4, MoneyIdle DEF IInv, LockStore

LEMMA InvRollback ==
  ASSUME IInv, TypeOK', NEW r \in Requests, Rollback(r)
  PROVE  IInv'
<1>1. \A q \in Requests : RequestInv(q)'
  BY EndKeepsRequests DEF Rollback, account, gallery, SlideAllowed
<1>2. OneGallery'
  BY GalleriesIdle, ReleaseSelf, ReleaseOthers DEF Rollback, gallery, IInv, NoCall, Asks
<1> QED
  BY <1>1, <1>2, MoneyIdle DEF IInv, Rollback

LEMMA InvLockCode ==
  ASSUME IInv, TypeOK', NEW r \in Requests, LockCode(r)
  PROVE  IInv'
<1>1. CASE Rollback(r)
  BY <1>1, InvRollback
<1>2. CASE ~Rollback(r)
  <2>1. /\ Redeemable(call[r].what, call[r].store) /\ clock[call[r].what] = None
        /\ clock' = [clock EXCEPT ![call[r].what] = r]
        /\ pc[r] = "code" /\ pc' = [pc EXCEPT ![r] = "write"]
        /\ UNCHANGED <<account, gallery, edits, slock, call, seen>>
    BY <1>2 DEF LockCode
  <2>2. call[r].what \in Codes /\ RequestInv(r) /\ call[r].op = "promo"
    BY <2>1 DEF IInv, RequestInv, Shape
  <2>3. RequestInv(r)'
    BY <2>1, <2>2
    DEF RequestInv, Shape, HoldsStore, StillChecked, SawMoney, Redeemable, account, IInv, TypeOK
  <2>4. \A q \in Requests : RequestInv(q)'
    <3>1. call' = [call EXCEPT ![r] = call[r]] /\ seen' = [seen EXCEPT ![r] = seen[r]]
      BY <2>1 DEF IInv, TypeOK
    <3> QED
      BY <2>1, <2>2, <2>3, <3>1, StepKeepsRequests DEF account, gallery, IInv, TypeOK
  <2>5. OneGallery'
    BY <2>1, GalleriesIdle DEF gallery
  <2> QED
    BY <2>1, <2>4, <2>5, MoneyIdle DEF IInv
<1> QED
  BY <1>1, <1>2

LEMMA InvCountSlides ==
  ASSUME IInv, TypeOK', NEW r \in Requests, CountSlides(r)
  PROVE  IInv'
<1>1. CASE Rollback(r)
  BY <1>1, InvRollback
<1>2. CASE ~Rollback(r)
  <2>1. /\ SlideAllowed(call[r].store) /\ pc[r] = "count"
        /\ pc' = [pc EXCEPT ![r] = "write"]
        /\ UNCHANGED <<account, gallery, edits, locks, call, seen>>
    BY <1>2 DEF CountSlides
  <2>2. RequestInv(r)'
    BY <2>1 DEF RequestInv, Shape, HoldsStore, StillChecked, SawMoney, SlideAllowed, account,
                gallery, locks, IInv, TypeOK
  <2>3. \A q \in Requests : RequestInv(q)'
    <3>1. call' = [call EXCEPT ![r] = call[r]] /\ seen' = [seen EXCEPT ![r] = seen[r]]
      BY <2>1 DEF IInv, TypeOK
    <3> QED
      BY <2>1, <2>2, <3>1, StepKeepsRequests DEF account, gallery, locks
  <2>4. OneGallery'
    BY <2>1, GalleriesIdle DEF gallery
  <2> QED
    BY <2>1, <2>3, <2>4, MoneyIdle DEF IInv
<1> QED
  BY <1>1, <1>2

\* A transaction with a key that is not taken.
LEMMA KeysKept ==
  ASSUME IInv, NEW e \in Entries, ledger' = Append(ledger, e), ~KeyTaken(e.key)
  PROVE  OneEntryPerKey'
<1>1. ledger \in Seq(Entries)
  BY DEF IInv, TypeOK
<1>2. \A i \in DOMAIN ledger : ledger[i] \in ToSet(ledger)
  BY DEF ToSet
<1>3. /\ DOMAIN ledger = 1..Len(ledger) /\ DOMAIN ledger' = 1..(Len(ledger) + 1)
      /\ Len(ledger) \in Nat /\ ledger'[Len(ledger) + 1] = e
      /\ \A i \in 1..Len(ledger) : ledger'[i] = ledger[i]
  BY <1>1, AppendType, LenProperties DEF IInv
<1>4. \A i \in 1..Len(ledger) : e.key # None => ledger[i].key # e.key
  BY <1>2, <1>3 DEF KeyTaken
<1> QED
  BY <1>3, <1>4 DEF OneEntryPerKey, IInv

LEMMA LockedByNobodyElse ==
  ASSUME IInv, NEW r \in Requests, pc[r] \in {"code", "count", "write"}
  PROVE  call[r].store \in Stores /\ slock[call[r].store] = r
         /\ seen[r].balance = balance[call[r].store]
BY DEF IInv, RequestInv, Shape, HoldsStore

LEMMA InvCredit ==
  ASSUME IInv, TypeOK', NEW r \in Requests, Credit(r)
  PROVE  IInv'
<1> DEFINE s == call[r].store
           c == call[r].what
           e == Entry(s, c, Amount[c], seen[r].balance, balance[s] + Amount[c], call[r].key)
<1>1. /\ pc[r] = "write" /\ call[r].op = "promo" /\ ~KeyTaken(call[r].key)
      /\ balance' = [balance EXCEPT ![s] = balance[s] + Amount[c]]
      /\ used' = used \cup {c} /\ ledger' = Append(ledger, e)
      /\ Release(r) /\ UNCHANGED <<tariff, gallery, edits>>
  BY DEF Credit, Booked
<1>2. s \in Stores /\ c \in Codes /\ slock[s] = r /\ seen[r].balance = balance[s]
      /\ clock[c] = r /\ Redeemable(c, s) /\ call[r].key \in Keys \cup {None}
  BY <1>1, LockedByNobodyElse DEF IInv, RequestInv, Shape, StillChecked, TypeOK
<1>3. e \in Entries /\ e.key = call[r].key /\ e.what = c
  BY <1>2, StoresAssumption DEF Entry, Entries, IInv, TypeOK
<1>4. \A q \in Requests : RequestInv(q)'
  BY <1>1, <1>2, EndKeepsRequests DEF gallery, SlideAllowed, IInv, TypeOK
<1>5. OneGallery'
  BY <1>1, GalleriesIdle, ReleaseSelf, ReleaseOthers DEF gallery, IInv, NoCall, Asks
<1>6. BalanceNonNegative'
  BY <1>1, <1>2, StoresAssumption DEF BalanceNonNegative, Redeemable, IInv, TypeOK
<1>7. CodeCreditedOnce'
  <2>1. ledger \in Seq(Entries)
    BY DEF IInv, TypeOK
  <2>2. /\ DOMAIN ledger = 1..Len(ledger) /\ DOMAIN ledger' = 1..(Len(ledger) + 1)
        /\ Len(ledger) \in Nat /\ ledger'[Len(ledger) + 1] = e
        /\ \A i \in 1..Len(ledger) : ledger'[i] = ledger[i]
        /\ ToSet(ledger') = ToSet(ledger) \cup {e}
    BY <1>1, <1>3, <2>1, AppendType, LenProperties DEF IInv
  <2>3. \A i \in 1..Len(ledger) : ledger[i].what # c
    BY <1>2, <2>2 DEF IInv, CodeCreditedOnce, Redeemable, ToSet
  <2>4. used' = Codes \cap {x.what : x \in ToSet(ledger')}
    BY <1>1, <1>2, <1>3, <2>2 DEF IInv, CodeCreditedOnce
  <2>5. \A i, j \in DOMAIN ledger' :
          ledger'[i].what \in Codes /\ ledger'[i].what = ledger'[j].what => i = j
    BY <1>3, <2>2, <2>3 DEF IInv, CodeCreditedOnce
  <2> QED
    BY <2>4, <2>5 DEF CodeCreditedOnce
<1>8. OneEntryPerKey'
  BY <1>1, <1>3, KeysKept
<1> QED
  BY <1>4, <1>5, <1>6, <1>7, <1>8 DEF IInv

LEMMA InvPurchase ==
  ASSUME IInv, TypeOK', NEW r \in Requests, Purchase(r)
  PROVE  IInv'
<1> DEFINE s == call[r].store
           p == call[r].what
           cost == get_tariff_price(p)
           e == Entry(s, p, -cost, seen[r].balance, seen[r].balance - cost, call[r].key)
<1>1. /\ pc[r] = "write" /\ call[r].op = "tariff" /\ ~KeyTaken(call[r].key)
      /\ Affordable(r)
      /\ balance' = [balance EXCEPT ![s] = seen[r].balance - cost]
      /\ used' = used /\ ledger' = Append(ledger, e)
      /\ Release(r) /\ UNCHANGED gallery
  BY DEF Purchase, Booked
<1>2. s \in Stores /\ p \in Plans /\ slock[s] = r /\ seen[r].balance = balance[s]
      /\ call[r].key \in Keys \cup {None} /\ cost \in Nat /\ balance[s] \in Int
  <2>1. TypeOK /\ Shape(r)
    BY DEF IInv, RequestInv
  <2>2. s \in Stores /\ p \in Plans
    BY <1>1, <2>1 DEF Shape
  <2>3. slock[s] = r /\ seen[r].balance = balance[s]
    BY <1>1, <2>2, LockedByNobodyElse
  <2>4. call[r].key \in Keys \cup {None} /\ balance[s] \in Int
    BY <2>1, <2>2 DEF TypeOK
  <2>5. cost \in Nat
    BY <2>2, StoresAssumption DEF get_tariff_price
  <2> QED
    BY <2>2, <2>3, <2>4, <2>5
<1>3. e \in Entries /\ e.key = call[r].key /\ e.what = p
  BY <1>2 DEF Entry, Entries
<1>4. \A q \in Requests : RequestInv(q)'
  BY <1>1, <1>2, EndKeepsRequests DEF gallery, SlideAllowed, IInv, TypeOK
<1>5. OneGallery'
  BY <1>1, GalleriesIdle, ReleaseSelf, ReleaseOthers DEF gallery, IInv, NoCall, Asks
<1>6. BalanceNonNegative'
  BY <1>1, <1>2 DEF BalanceNonNegative, Affordable, IInv, TypeOK
<1>7. CodeCreditedOnce'
  <2>0. p \notin Codes
    BY <1>2, StoresAssumption
  <2>1. ledger \in Seq(Entries)
    BY DEF IInv, TypeOK
  <2>2. /\ DOMAIN ledger = 1..Len(ledger) /\ DOMAIN ledger' = 1..(Len(ledger) + 1)
        /\ Len(ledger) \in Nat /\ ledger'[Len(ledger) + 1] = e
        /\ \A i \in 1..Len(ledger) : ledger'[i] = ledger[i]
        /\ ToSet(ledger') = ToSet(ledger) \cup {e}
    BY <1>1, <1>3, <2>1, AppendType, LenProperties DEF IInv
  <2>3. used' = Codes \cap {x.what : x \in ToSet(ledger')}
    BY <1>1, <1>3, <2>0, <2>2 DEF IInv, CodeCreditedOnce
  <2>4. \A i, j \in DOMAIN ledger' :
          ledger'[i].what \in Codes /\ ledger'[i].what = ledger'[j].what => i = j
    BY <1>3, <2>0, <2>2 DEF IInv, CodeCreditedOnce
  <2> QED
    BY <2>3, <2>4 DEF CodeCreditedOnce
<1>8. OneEntryPerKey'
  BY <1>1, <1>3, KeysKept
<1> QED
  BY <1>4, <1>5, <1>6, <1>7, <1>8 DEF IInv

\* The row is free: a save disturbs nobody who has it.
LEMMA InvSaveStore ==
  ASSUME IInv, TypeOK', NEW r \in Requests, SaveStore(r)
  PROVE  IInv'
<1> DEFINE s == call[r].store
<1>1. /\ slock[s] = None /\ balance' = [balance EXCEPT ![s] = seen[r].balance]
      /\ Release(r) /\ UNCHANGED <<used, ledger, gallery>>
  BY DEF SaveStore
<1>2. None \notin Requests
  BY StoresAssumption
<1>3. \A q \in Requests : RequestInv(q)'
  BY <1>1, <1>2, EndKeepsRequests DEF gallery, SlideAllowed, IInv, TypeOK
<1>4. OneGallery'
  BY <1>1, GalleriesIdle, ReleaseSelf, ReleaseOthers DEF gallery, IInv, NoCall, Asks
<1>5. BalanceNonNegative'
  BY <1>1 DEF BalanceNonNegative, IInv, TypeOK, RequestInv, SawMoney
<1>6. CodeCreditedOnce' /\ OneEntryPerKey'
  BY <1>1 DEF CodeCreditedOnce, OneEntryPerKey, IInv
<1> QED
  BY <1>3, <1>4, <1>5, <1>6 DEF IInv

LEMMA InvReorder ==
  ASSUME IInv, TypeOK', NEW r \in Requests, Reorder(r)
  PROVE  IInv'
<1>1. Release(r) /\ slides' = slides /\ UNCHANGED <<account, issued>>
  BY DEF Reorder, Sorted, IInv, TypeOK
<1>2. \A q \in Requests : RequestInv(q)'
  BY <1>1, EndKeepsRequests DEF account, SlideAllowed
<1>3. OneGallery'
  BY <1>1, GalleriesIdle, ReleaseSelf, ReleaseOthers DEF IInv, NoCall, Asks
<1> QED
  BY <1>1, <1>2, <1>3, MoneyIdle DEF IInv

LEMMA InvInsertSlide ==
  ASSUME IInv, TypeOK', NEW r \in Requests, InsertSlide(r)
  PROVE  IInv'
<1> DEFINE s == call[r].store
<1>1. PICK x \in Slides \ issued :
        /\ pc[r] = "write" /\ slides' = [slides EXCEPT ![s] = @ \cup {x}]
        /\ issued' = issued \cup {x} /\ Release(r) /\ UNCHANGED account
  BY DEF InsertSlide
<1>2. s \in Stores /\ slock[s] = r
  BY <1>1, LockedByNobodyElse
<1>3. \A q \in Requests : RequestInv(q)'
  BY <1>1, <1>2, EndKeepsRequests DEF account, SlideAllowed, IInv, TypeOK
<1>4. OneGallery'
  <2>1. \A t \in Stores : IsFiniteSet(slides'[t])
    BY <1>1, <1>2, FS_AddElement DEF IInv, TypeOK, OneGallery
  <2>2. \A t \in Stores : ~Belongs(x, t)
    BY <1>1 DEF IInv, OneGallery
  <2>3. \A y \in Slides, t \in Stores : Belongs(y, t)' => Belongs(y, t) \/ (y = x /\ t = s)
    <3>1. \A q \in Requests : call'[q] = call[q] \/ call'[q].op # "edit_slide"
      BY <1>1, ReleaseSelf, ReleaseOthers DEF IInv, NoCall, Asks
    <3> QED
      BY <1>1, <3>1 DEF Belongs, IInv, TypeOK
  <2> QED
    BY <1>1, <2>1, <2>2, <2>3 DEF IInv, OneGallery
<1> QED
  BY <1>1, <1>3, <1>4, MoneyIdle DEF IInv

\* A slide that is put back is one more only if nobody has the store's row.
LEMMA InvSaveSlide ==
  ASSUME IInv, TypeOK', NEW r \in Requests, SaveSlide(r)
  PROVE  IInv'
<1> DEFINE s == call[r].store
           x == call[r].what[1]
<1>1. /\ pc[r] = "save" /\ call[r].op = "edit_slide" /\ (x \in slides[s] \/ slock[s] = None)
      /\ slides' = [slides EXCEPT ![s] = @ \cup {x}]
      /\ issued' = issued /\ Release(r) /\ UNCHANGED account
  BY DEF SaveSlide
<1>2. s \in Stores /\ x \in Slides /\ Belongs(x, s)
  BY <1>1 DEF IInv, RequestInv, Shape, Ranked, Belongs
<1>3. \A q \in Requests : RequestInv(q)'
  <2>1. \A q \in Requests, t \in Stores : slock[t] = q => slides'[t] = slides[t]
    <3> SUFFICES ASSUME NEW q \in Requests, NEW t \in Stores, slock[t] = q
                 PROVE  slides'[t] = slides[t]
      OBVIOUS
    <3>1. slides \in [Stores -> SUBSET Slides] /\ q # None
      BY StoresAssumption DEF IInv, TypeOK
    <3>2. CASE t = s
      BY <1>1, <1>2, <3>1, <3>2
    <3>3. CASE t # s
      BY <1>1, <1>2, <3>1, <3>3
    <3> QED
      BY <3>2, <3>3
  <2> QED
    BY <1>1, <2>1, EndKeepsRequests DEF account, SlideAllowed
<1>4. OneGallery'
  <2>1. \A t \in Stores : IsFiniteSet(slides'[t])
    <3>1. IsFiniteSet(slides[s] \cup {x})
      BY <1>2, FS_AddElement DEF IInv, OneGallery
    <3>2. slides'[s] = slides[s] \cup {x} /\ \A t \in Stores : t # s => slides'[t] = slides[t]
      BY <1>1, <1>2 DEF IInv, TypeOK
    <3> QED
      BY <3>1, <3>2 DEF IInv, OneGallery
  <2>2. \A y \in Slides, t \in Stores : Belongs(y, t)' => Belongs(y, t)
    <3>1. \A q \in Requests : call'[q] = call[q] \/ call'[q].op # "edit_slide"
      BY <1>1, ReleaseSelf, ReleaseOthers DEF IInv, NoCall, Asks
    <3> QED
      BY <1>1, <1>2, <3>1 DEF Belongs, IInv, TypeOK
  <2> QED
    BY <1>1, <2>1, <2>2, GalleriesKept
<1> QED
  BY <1>1, <1>3, <1>4, MoneyIdle DEF IInv

LEMMA InvDeleteSlide ==
  ASSUME IInv, TypeOK', NEW s \in Stores, DeleteSlide(s)
  PROVE  IInv'
<1>1. PICK x \in slides[s] :
        /\ slides' = [slides EXCEPT ![s] = @ \ {x}]
        /\ UNCHANGED <<account, issued, locks, pc, call, seen>>
  BY DEF DeleteSlide
<1>2. \A t \in Stores : IsFiniteSet(slides'[t]) /\ (SlideAllowed(t) => SlideAllowed(t)')
  <2>1. ASSUME NEW t \in Stores
        PROVE  IsFiniteSet(slides'[t]) /\ (SlideAllowed(t) => SlideAllowed(t)')
    <3>1. CASE t = s
      <4>1. IsFiniteSet(slides[s]) /\ slides'[s] = slides[s] \ {x}
        BY <1>1 DEF IInv, TypeOK, OneGallery
      <4>2. /\ IsFiniteSet(slides'[s]) /\ Cardinality(slides'[s]) = Cardinality(slides[s]) - 1
            /\ Cardinality(slides[s]) \in Nat
        BY <4>1, FS_RemoveElement, FS_CardinalityType
      <4> QED
        BY <3>1, <4>2, StoresAssumption DEF SlideAllowed
    <3>2. CASE t # s
      BY <1>1, <3>2 DEF IInv, TypeOK, OneGallery, SlideAllowed
    <3> QED
      BY <3>1, <3>2
  <2> QED
    BY <2>1
<1>3. \A q \in Requests : RequestInv(q)'
  <2>1. \A q \in Requests : Undisturbed(q)
    BY <1>1, <1>2 DEF Undisturbed, account, locks
  <2> QED
    BY <2>1, Frame DEF IInv
<1>4. OneGallery'
  <2>1. \A y \in Slides, t \in Stores : Belongs(y, t)' => Belongs(y, t)
    BY <1>1 DEF Belongs, IInv, TypeOK
  <2> QED
    BY <1>1, <1>2, <2>1, GalleriesKept
<1> QED
  BY <1>1, <1>3, <1>4, MoneyIdle DEF IInv

-----------------------------------------------------------------------------
(* The theorems. *)

LEMMA InitIInv == Init => IInv
<1> SUFFICES ASSUME Init PROVE IInv
  OBVIOUS
<1>1. \A r \in Requests : RequestInv(r)
  BY StoresAssumption
  DEF Init, RequestInv, Shape, HoldsStore, StillChecked, SawMoney, NoCall, NoRow, Asks
<1>2. OneGallery
  BY FS_EmptySet DEF Init, OneGallery, Belongs, NoCall, Asks
<1>3. BalanceNonNegative
  BY StoresAssumption DEF Init, BalanceNonNegative
<1>4. DOMAIN ledger = {} /\ ToSet(ledger) = {}
  BY EmptySeq DEF Init, ToSet
<1>5. CodeCreditedOnce /\ OneEntryPerKey
  BY <1>4 DEF Init, CodeCreditedOnce, OneEntryPerKey
<1> QED
  BY <1>1, <1>2, <1>3, <1>5, InitType DEF IInv

LEMMA NextIInv == IInv /\ [Next]_vars => IInv'
<1> SUFFICES ASSUME IInv, [Next]_vars PROVE IInv'
  OBVIOUS
<1>0. TypeOK'
  BY NextType DEF IInv, RequestInv
<1> USE <1>0
<1>1. ASSUME NEW r \in Requests, Arrive(r) PROVE IInv'
  BY <1>1, InvArrive
<1>2. ASSUME NEW r \in Requests, Proceed(r) PROVE IInv'
  <2>1. CASE LockStore(r) \/ LockCode(r) \/ CountSlides(r)
    BY <2>1, InvLockStore, InvLockCode, InvCountSlides
  <2>2. CASE Credit(r) \/ Purchase(r) \/ SaveStore(r)
    BY <2>2, InvCredit, InvPurchase, InvSaveStore
  <2>3. CASE InsertSlide(r) \/ SaveSlide(r) \/ Reorder(r)
    BY <2>3, InvInsertSlide, InvSaveSlide, InvReorder
  <2>4. CASE Refuse(r)
    BY <2>4, InvRollback DEF Refuse
  <2> QED
    BY <1>2, <2>1, <2>2, <2>3, <2>4 DEF Proceed
<1>3. ASSUME NEW r \in Requests, Fail(r) PROVE IInv'
  BY <1>3, InvRollback DEF Fail
<1>4. ASSUME NEW s \in Stores, DeleteSlide(s) PROVE IInv'
  BY <1>4, InvDeleteSlide
<1>5. CASE UNCHANGED vars
  <2>1. \A q \in Requests : RequestInv(q)'
    BY <1>5, Frame DEF Undisturbed, vars, account, gallery, locks, SlideAllowed, IInv
  <2>2. OneGallery'
    BY <1>5 DEF vars, gallery, OneGallery, Belongs, IInv
  <2> QED
    BY <1>5, <2>1, <2>2, MoneyIdle DEF vars, IInv
<1> QED
  BY <1>1, <1>2, <1>3, <1>4, <1>5 DEF Next

LEMMA Invariance == Spec => []IInv
BY InitIInv, NextIInv, PTL DEF Spec

\* Every variable keeps its type.
THEOREM TypeCorrect == Spec => []TypeOK
<1>1. IInv => TypeOK
  BY DEF IInv
<1> QED
  BY <1>1, Invariance, PTL

\* No interleaving of purchases, credits and stale edits overdraws a store
\* (activate_promocode(), purchase_tariff() and the PATCH of a store).
THEOREM NeverOverdrawn == Spec => []BalanceNonNegative
<1>1. IInv => BalanceNonNegative
  BY DEF IInv
<1> QED
  BY <1>1, Invariance, PTL

\* A promocode is credited at most once, and it is used exactly when the ledger
\* has it (the lock on the promocode's row in activate_promocode()).
THEOREM CreditedOnce == Spec => []CodeCreditedOnce
<1>1. IInv => CodeCreditedOnce
  BY DEF IInv
<1> QED
  BY <1>1, Invariance, PTL

\* An idempotency key is in one transaction of the ledger, of whatever store
\* (the UNIQUE constraint and the look-up on arrival).
THEOREM KeysOnce == Spec => []OneEntryPerKey
<1>1. IInv => OneEntryPerKey
  BY DEF IInv
<1> QED
  BY <1>1, Invariance, PTL

-----------------------------------------------------------------------------
(* What a step may do to the ledger, the balances and the galleries. *)

LEMMA MoneySteps ==
  ASSUME [Next]_vars
  PROVE  \/ UNCHANGED <<balance, ledger>>
         \/ \E r \in Requests : Credit(r) \/ Purchase(r) \/ SaveStore(r)
<1>1. ASSUME NEW r \in Requests, Arrive(r) PROVE UNCHANGED account
  BY <1>1
  DEF Arrive, ReceivePromo, ReceiveTariff, ReceiveSlide, ReceiveStoreEdit,
      ReceiveSlideEdit, ReceiveOrdering, Receive
<1>2. ASSUME NEW r \in Requests, Proceed(r), ~(Credit(r) \/ Purchase(r) \/ SaveStore(r))
      PROVE  UNCHANGED account
  <2>1. CASE LockStore(r) \/ LockCode(r) \/ CountSlides(r) \/ Refuse(r)
    BY <2>1 DEF LockStore, LockCode, CountSlides, Refuse, Rollback
  <2>2. CASE InsertSlide(r) \/ SaveSlide(r) \/ Reorder(r)
    BY <2>2 DEF InsertSlide, SaveSlide, Reorder
  <2> QED
    BY <1>2, <2>1, <2>2 DEF Proceed
<1>3. ASSUME NEW r \in Requests, Fail(r) PROVE UNCHANGED account
  BY <1>3 DEF Fail, Rollback
<1>4. ASSUME NEW s \in Stores, DeleteSlide(s) PROVE UNCHANGED account
  BY <1>4 DEF DeleteSlide
<1> QED
  BY <1>1, <1>2, <1>3, <1>4 DEF Next, vars, account

LEMMA GallerySteps ==
  ASSUME [Next]_vars
  PROVE  \/ UNCHANGED <<slides, place>>
         \/ \E r \in Requests : InsertSlide(r) \/ SaveSlide(r) \/ Reorder(r)
         \/ \E s \in Stores : DeleteSlide(s)
<1>1. ASSUME NEW r \in Requests, Arrive(r) PROVE UNCHANGED gallery
  BY <1>1
  DEF Arrive, ReceivePromo, ReceiveTariff, ReceiveSlide, ReceiveStoreEdit,
      ReceiveSlideEdit, ReceiveOrdering, Receive
<1>2. ASSUME NEW r \in Requests, Proceed(r), ~(InsertSlide(r) \/ SaveSlide(r) \/ Reorder(r))
      PROVE  UNCHANGED gallery
  <2>1. CASE LockStore(r) \/ LockCode(r) \/ CountSlides(r) \/ Refuse(r)
    BY <2>1 DEF LockStore, LockCode, CountSlides, Refuse, Rollback
  <2>2. CASE Credit(r) \/ Purchase(r) \/ SaveStore(r)
    BY <2>2 DEF Credit, Purchase, SaveStore
  <2> QED
    BY <1>2, <2>1, <2>2 DEF Proceed
<1>3. ASSUME NEW r \in Requests, Fail(r) PROVE UNCHANGED gallery
  BY <1>3 DEF Fail, Rollback
<1> QED
  BY <1>1, <1>2, <1>3 DEF Next, vars, gallery

\* The transaction that a step puts at the end of the ledger.
Books(e) ==
  /\ ledger' = Append(ledger, e) /\ e \in Entries
  /\ e.before = balance[e.store] /\ e.after = balance'[e.store]
  /\ e.after = e.before + e.amount

LEMMA CreditBooks ==
  ASSUME IInv, NEW r \in Requests, Credit(r)
  PROVE  \E e \in Entries : Books(e)
<1> DEFINE s == call[r].store
           c == call[r].what
           e == Entry(s, c, Amount[c], seen[r].balance, balance[s] + Amount[c], call[r].key)
<1>1. /\ ledger' = Append(ledger, e)
      /\ balance' = [balance EXCEPT ![s] = balance[s] + Amount[c]] /\ pc[r] = "write"
      /\ call[r].op = "promo"
  BY DEF Credit, Booked
<1>2. s \in Stores /\ c \in Codes /\ seen[r].balance = balance[s]
      /\ call[r].key \in Keys \cup {None} /\ balance[s] \in Int /\ Amount[c] \in Int
  BY <1>1, LockedByNobodyElse, StoresAssumption DEF IInv, RequestInv, Shape, TypeOK
<1>3. balance'[s] = balance[s] + Amount[c]
  BY <1>1, <1>2 DEF IInv, TypeOK
<1>4. e \in Entries
  BY <1>2 DEF Entry, Entries
<1>5. Books(e)
  BY <1>1, <1>2, <1>3, <1>4 DEF Entry, Books
<1> QED
  BY <1>4, <1>5

LEMMA PurchaseBooks ==
  ASSUME IInv, NEW r \in Requests, Purchase(r)
  PROVE  \E e \in Entries : Books(e)
<1> DEFINE s == call[r].store
           p == call[r].what
           cost == get_tariff_price(p)
           e == Entry(s, p, -cost, seen[r].balance, seen[r].balance - cost, call[r].key)
<1>1. /\ ledger' = Append(ledger, e)
      /\ balance' = [balance EXCEPT ![s] = seen[r].balance - cost] /\ pc[r] = "write"
      /\ call[r].op = "tariff"
  BY DEF Purchase, Booked
<1>2. s \in Stores /\ p \in Plans /\ seen[r].balance = balance[s]
      /\ call[r].key \in Keys \cup {None} /\ balance[s] \in Int /\ cost \in Int
  BY <1>1, LockedByNobodyElse, StoresAssumption
  DEF IInv, RequestInv, Shape, TypeOK, get_tariff_price
<1>3. balance'[s] = balance[s] - cost
  BY <1>1, <1>2 DEF IInv, TypeOK
<1>4. e \in Entries
  BY <1>2 DEF Entry, Entries
<1>5. Books(e)
  <2> HIDE DEF cost
  <2> QED BY <1>1, <1>2, <1>3, <1>4 DEF Entry, Books
<1> QED
  BY <1>4, <1>5

\* A transaction that is booked changes the ledger, and is its last.
LEMMA BookedIsLast ==
  ASSUME IInv, NEW e \in Entries, ledger' = Append(ledger, e)
  PROVE  Last(ledger') = e /\ ledger' # ledger
<1>1. Len(ledger') = Len(ledger) + 1 /\ Len(ledger) \in Nat
      /\ ledger'[Len(ledger) + 1] = e
  BY AppendType DEF IInv
<1> QED
  BY <1>1 DEF Last

\* The ledger changes only by a transaction at its end that says what happens to
\* the balance (activate_promocode(), purchase_tariff(): before is read under the
\* lock on the store's row).
THEOREM LedgerSpeaksTrue == Spec => LedgerRecordsBalance
<1>1. IInv /\ [Next]_vars =>
        [ledger' # ledger =>
           LET e == Last(ledger')
           IN  /\ ledger' = Append(ledger, e)
               /\ e.before = balance[e.store]
               /\ e.after = balance'[e.store]
               /\ e.after = e.before + e.amount]_vars
  <2> SUFFICES ASSUME IInv, [Next]_vars, ledger' # ledger
               PROVE  LET e == Last(ledger')
                      IN  /\ ledger' = Append(ledger, e)
                          /\ e.before = balance[e.store]
                          /\ e.after = balance'[e.store]
                          /\ e.after = e.before + e.amount
    OBVIOUS
  <2>1. PICK r \in Requests : Credit(r) \/ Purchase(r)
    BY MoneySteps DEF SaveStore
  <2>2. PICK e \in Entries : Books(e)
    BY <2>1, CreditBooks, PurchaseBooks
  <2> QED
    BY <2>2, BookedIsLast DEF Books
<1> QED
  BY <1>1, Invariance, PTL DEF Spec, LedgerRecordsBalance

\* A balance moves without a transaction only by the save of a store that was read
\* with that balance (StoreSerializer.update() writes every column).
THEOREM MoneyIsLostByStaleEdits == Spec => OnlyStaleEditsLoseMoney
<1>1. IInv /\ [Next]_vars =>
        [\A s \in Stores :
           balance'[s] # balance[s] /\ ledger' = ledger =>
             \E r \in Requests :
               /\ pc[r] = "save" /\ pc'[r] = "idle" /\ call[r].store = s
               /\ seen[r].balance = balance'[s]]_vars
  <2> SUFFICES ASSUME IInv, [Next]_vars, NEW s \in Stores,
                      balance'[s] # balance[s], ledger' = ledger
               PROVE  \E r \in Requests :
                        /\ pc[r] = "save" /\ pc'[r] = "idle" /\ call[r].store = s
                        /\ seen[r].balance = balance'[s]
    OBVIOUS
  <2>1. PICK r \in Requests : Credit(r) \/ Purchase(r) \/ SaveStore(r)
    BY MoneySteps
  <2>2. SaveStore(r)
    <3>1. ASSUME Credit(r) \/ Purchase(r) PROVE ledger' # ledger
      BY <3>1, CreditBooks, PurchaseBooks, BookedIsLast DEF Books
    <3> QED
      BY <2>1, <3>1
  <2>3. /\ pc[r] = "save" /\ Release(r)
        /\ balance' = [balance EXCEPT ![call[r].store] = seen[r].balance]
    BY <2>2 DEF SaveStore
  <2>4. pc'[r] = "idle" /\ call[r].store = s /\ balance'[s] = seen[r].balance
    BY <2>3, ReleaseSelf DEF IInv, TypeOK
  <2> QED
    BY <2>3, <2>4
<1> QED
  BY <1>1, Invariance, PTL DEF Spec, OnlyStaleEditsLoseMoney

\* The requests for operation op on slide x that end with this step.
Ends(op, x) == {r \in Requests : /\ pc[r] # "idle" /\ pc'[r] = "idle"
                                 /\ call[r].op = op /\ call[r].what[1] = x}

\* A slide beyond the limit is one that an edit puts back.
LEMMA LimitSteps ==
  ASSUME IInv, [Next]_vars, NEW s \in Stores, NEW x \in Slides,
         x \in slides'[s] \ slides[s], Cardinality(slides'[s]) > MaxSlides
  PROVE  Ends("edit_slide", x) # {}
<1>1. PICK r \in Requests : InsertSlide(r) \/ SaveSlide(r)
  BY GallerySteps DEF Reorder, Sorted, DeleteSlide, IInv, TypeOK
<1>2. ~InsertSlide(r)
  <2> SUFFICES ASSUME InsertSlide(r) PROVE FALSE
    OBVIOUS
  <2>1. PICK y \in Slides \ issued :
          /\ pc[r] = "write" /\ call[r].op = "slide"
          /\ slides' = [slides EXCEPT ![call[r].store] = @ \cup {y}]
    BY DEF InsertSlide
  <2>2. call[r].store = s /\ slides'[s] = slides[s] \cup {y} /\ y \notin slides[s]
    BY <2>1 DEF IInv, TypeOK
  <2>3. IsFiniteSet(slides[s]) /\ Cardinality(slides[s]) < MaxSlides
    BY <2>1, <2>2 DEF IInv, OneGallery, RequestInv, StillChecked, SlideAllowed
  <2>4. Cardinality(slides[s]) \in Nat
        /\ Cardinality(slides'[s]) = Cardinality(slides[s]) + 1
    BY <2>2, <2>3, FS_AddElement, FS_CardinalityType
  <2> QED
    BY <2>3, <2>4, StoresAssumption
<1>3. /\ pc[r] = "save" /\ call[r].op = "edit_slide" /\ Release(r)
      /\ slides' = [slides EXCEPT ![call[r].store] = @ \cup {call[r].what[1]}]
  BY <1>1, <1>2 DEF SaveSlide
<1>4. pc'[r] = "idle" /\ call[r].what[1] = x
  BY <1>3, ReleaseSelf DEF IInv, TypeOK
<1> QED
  BY <1>3, <1>4 DEF Ends

\* A slide that stays moves to the place that a request names, or has read.
LEMMA PlaceSteps ==
  ASSUME IInv, [Next]_vars, NEW s \in Stores, NEW x \in Slides,
         x \in slides'[s] \cap slides[s], place'[x] # place[x]
  PROVE  \E r \in Ends("edit_slide", x) \cup Ends("reorder", x) :
           \/ call[r].what[2] = place'[x]
           \/ call[r].op = "edit_slide" /\ seen[r].place = place'[x]
<1>1. CASE \E t \in Stores : DeleteSlide(t)
  <2>1. PICK t \in Stores : DeleteSlide(t)
    BY <1>1
  <2>2. PICK y \in slides[t] : slides' = [slides EXCEPT ![t] = @ \ {y}]
                               /\ place' = [place EXCEPT ![y] = 0]
    BY <2>1 DEF DeleteSlide
  <2>3. y = x
    BY <2>2 DEF IInv, TypeOK
  <2>4. s = t
    BY <2>2, <2>3 DEF IInv, OneGallery, Belongs
  <2> QED
    BY <2>2, <2>3, <2>4 DEF IInv, TypeOK
<1>2. ASSUME NEW r \in Requests, SaveSlide(r)
      PROVE  /\ r \in Ends("edit_slide", x) /\ call[r].op = "edit_slide"
             /\ \/ call[r].what[2] = place'[x]
                \/ seen[r].place = place'[x]
  <2>1. /\ pc[r] = "save" /\ call[r].op = "edit_slide" /\ Release(r)
        /\ place' = [place EXCEPT ![call[r].what[1]] =
                       IF call[r].what[2] = None THEN seen[r].place ELSE call[r].what[2]]
    BY <1>2 DEF SaveSlide
  <2>2. pc'[r] = "idle" /\ call[r].what[1] = x
    BY <2>1, ReleaseSelf DEF IInv, TypeOK
  <2> QED
    BY <2>1, <2>2 DEF Ends, IInv, TypeOK
<1>3. ASSUME NEW r \in Requests, Reorder(r)
      PROVE  r \in Ends("reorder", x) /\ call[r].what[2] = place'[x]
  <2>1. /\ pc[r] = "reorder" /\ call[r].op = "reorder" /\ Release(r)
        /\ place' = [place EXCEPT ![call[r].what[1]] =
              IF call[r].what[1] \in slides'[call[r].store] THEN call[r].what[2] ELSE @]
    BY <1>3 DEF Reorder, IInv, RequestInv, Shape
  <2>2. pc'[r] = "idle" /\ call[r].what[1] = x
    BY <2>1, ReleaseSelf DEF IInv, TypeOK
  <2> QED
    BY <2>1, <2>2 DEF Ends, IInv, TypeOK
<1>4. ASSUME NEW r \in Requests, InsertSlide(r) PROVE FALSE
  <2>1. PICK y \in Slides \ issued, n \in Places :
          /\ slides' = [slides EXCEPT ![call[r].store] = @ \cup {y}]
          /\ place' = [place EXCEPT ![y] = n]
    BY <1>4 DEF InsertSlide
  <2>2. y # x
    BY DEF IInv, OneGallery, Belongs
  <2> QED
    BY <2>1, <2>2 DEF IInv, TypeOK
<1> QED
  BY <1>1, <1>2, <1>3, <1>4, GallerySteps

\* Only the edit of a slide that was read before takes a store over its limit or a
\* slide back to a place it had (the save() of a slide, against the count that
\* create_slide_locked() takes under the lock).
THEOREM SlidesAreUndoneByStaleEdits == Spec => OnlyStaleEditsUndoSlides
<1> DEFINE A == \A s \in Stores, x \in Slides :
                  /\ x \in slides'[s] \ slides[s] /\ Cardinality(slides'[s]) > MaxSlides =>
                       Ends("edit_slide", x) # {}
                  /\ x \in slides'[s] \cap slides[s] /\ place'[x] # place[x] =>
                       \E r \in Ends("edit_slide", x) \cup Ends("reorder", x) :
                         \/ call[r].what[2] = place'[x]
                         \/ call[r].op = "edit_slide" /\ seen[r].place = place'[x]
<1>1. IInv /\ [Next]_vars => A
  <2> SUFFICES ASSUME IInv, [Next]_vars, NEW s \in Stores, NEW x \in Slides
               PROVE  /\ x \in slides'[s] \ slides[s] /\ Cardinality(slides'[s]) > MaxSlides =>
                           Ends("edit_slide", x) # {}
                      /\ x \in slides'[s] \cap slides[s] /\ place'[x] # place[x] =>
                           \E r \in Ends("edit_slide", x) \cup Ends("reorder", x) :
                             \/ call[r].what[2] = place'[x]
                             \/ call[r].op = "edit_slide" /\ seen[r].place = place'[x]
    OBVIOUS
  <2> QED
    BY LimitSteps, PlaceSteps
<1> QED
  BY <1>1, Invariance, PTL DEF Spec, OnlyStaleEditsUndoSlides, Ends
=============================================================================
