--------------------------- MODULE CatalogueProofs ---------------------------
(***************************************************************************)
(* Theorems about Catalogue, for every set of requests, every finite set   *)
(* of categories, every set of products, stores and customers, and every   *)
(* choice of the endpoints that are called.                                *)
(***************************************************************************)
EXTENDS Catalogue, SetLemmas

(***************************************************************************)
(* The inductive invariant.                                                *)
(***************************************************************************)

\* The operations that make a row; the others have found one.
Makes == {"create", "bulk", "copy"}

\* The operations that fetch the link they name.
Fetches == {"create", "edit"}

\* Where a request may stand, by its operation.
Shape(r) ==
  LET c == call[r]
  IN  /\ pc[r] = "idle" <=> c.op = "none"
      /\ pc[r] # "idle" => c.item \in Items
      /\ c.item \in created \cup {None}
      /\ pc[r] \in {"fetch", "walk", "validate"} => c.op \in Fetches /\ c.body.under \in Categories
      /\ pc[r] = "walk" => c.op = "edit" /\ c.item \in Categories /\ at[r].pk \in Categories
      /\ pc[r] = "save" => c.op \in Makes \cup {"edit"}
      /\ pc[r] = "arrange" => c.op = "arrange"
      /\ pc[r] = "insert" => c.item \in Products /\ c.customer \in Customers
      /\ c.op \in {"bulk", "copy"} => c.item \in Products
      /\ c.op \in Makes \cup {"arrange"} => c.body.place # Keep
      /\ c.op = "create" => c.body.under # Keep
      /\ pc[r] \in {"idle", "fetch"} => visited[r] = {}

\* What a request has read is what is there, until another one writes.
Fresh(r) ==
  ~disturbed[r] =>
    /\ call[r].op \in {"edit", "arrange"} =>
         Exists(call[r].item) /\ seen[r] = row[call[r].item]
    /\ call[r].op \in Makes => ~Exists(call[r].item)

\* The link that was fetched, and what validate() has made sure of.
Fetched(r) ==
  pc[r] \in {"walk", "validate", "save"} /\ call[r].op \in Fetches
    /\ call[r].body.under \in Categories =>
    LET c == call[r].body.under
    IN  /\ c # call[r].item
        /\ ~disturbed[r] => Exists(c) /\ row[c].store = at[r].store
        /\ pc[r] = "save" => at[r].store = Merged(r).store

\* The categories that are still to be visited.
Ahead(r) == IF pc[r] = "walk" THEN {at[r].pk} ELSE {}

\* The walk of a category's edit has met the new parent and what is above it, but not
\* the category itself.
Climbs(r) ==
  pc[r] \in {"walk", "validate", "save"} /\ call[r].op = "edit" /\ call[r].item \in Categories
    /\ call[r].body.under \in Categories =>
    /\ call[r].item \notin visited[r]
    /\ ~disturbed[r] =>
         /\ call[r].body.under \in visited[r] \cup Ahead(r)
         /\ \A v \in visited[r] : row[v].under \in visited[r] \cup Ahead(r) \cup {None}
         /\ pc[r] = "walk" => Exists(at[r].pk) /\ at[r].up = row[at[r].pk].under

Counted(r) == loads[r] = Cardinality(visited[r])

RequestInv(r) == Shape(r) /\ Fresh(r) /\ Fetched(r) /\ Climbs(r) /\ Counted(r)

\* Every row has an id that was handed out, and its link leads to a row.
Linked ==
  \A x \in Items :
    Exists(x) => x \in created /\ (row[x].under # None => Exists(row[x].under))

IInv == TypeOK /\ (\A r \in Requests : RequestInv(r)) /\ Linked /\ OneFavourite

-----------------------------------------------------------------------------
(* Types. *)

Steps == {"idle", "fetch", "walk", "validate", "save", "arrange", "insert"}

CallType == [op : AllOperations \cup {"none"}, item : Items \cup {None},
             body : Body, customer : Customers \cup {None}]

AtType == [pk : Categories \cup {None}, up : Categories \cup {None}, store : Stores \cup {None}]

\* A row that is there has its columns.
LEMMA RowType ==
  ASSUME TypeOK, NEW x \in Items, Exists(x)
  PROVE  /\ row[x] \in Row /\ row[x].store \in Stores
         /\ row[x].under \in Categories \cup {None} /\ row[x].place \in Places
         /\ row[x].text \in Texts
BY DEF TypeOK, Exists, Row

LEMMA NoneIsNoRow == None \notin Row /\ None # Keep /\ NoRow \in Row
BY CatalogueAssumption DEF Row, NoRow, Posted

LEMMA NoCallType == NoCall \in CallType
BY DEF NoCall, Asks, CallType, Body, Unchanged

LEMMA NowhereType == Nowhere \in AtType
BY DEF Nowhere, AtType

\* What a request saves is a row.
LEMMA MergedType ==
  ASSUME TypeOK, NEW r \in Requests
  PROVE  Merged(r) \in Row
<1>1. /\ seen[r].store \in Stores /\ seen[r].under \in Categories \cup {None}
      /\ seen[r].place \in Places /\ seen[r].text \in Texts
  BY DEF TypeOK, Row
<1>2. /\ call[r].body.store \in Stores \cup {Keep}
      /\ call[r].body.under \in Categories \cup {None, Keep}
      /\ call[r].body.place \in Places \cup {Keep} /\ call[r].body.text \in Texts \cup {Keep}
  <2>1. call[r].body \in Body
    BY DEF TypeOK
  <2> QED
    BY <2>1 DEF Body
<1> QED
  BY <1>1, <1>2 DEF Merged, Row

\* What a change of many rows leaves of one.
LEMMA ArrangedRow ==
  ASSUME TypeOK, NEW r \in Requests, NEW x \in Items, Exists(x)
  PROVE  /\ Arranged(r, x) \in Row
         /\ Arranged(r, x).store = row[x].store /\ Arranged(r, x).under = row[x].under
         /\ Arranged(r, x).place = Merged(r).place
         /\ Arranged(r, x).text = IF x \in Products THEN Merged(r).text ELSE row[x].text
<1> DEFINE p == Merged(r).place
           v == IF x \in Products THEN Merged(r).text ELSE row[x].text
<1>1. p \in Places /\ v \in Texts /\ row[x] \in Row
  BY MergedType, RowType DEF Row
<1>2. Arranged(r, x) = [row[x] EXCEPT !.place = p, !.text = v]
  BY DEF Arranged
<1> HIDE DEF p, v
<1>3. /\ Arranged(r, x) \in Row /\ Arranged(r, x).place = p /\ Arranged(r, x).text = v
      /\ Arranged(r, x).store = row[x].store /\ Arranged(r, x).under = row[x].under
  BY <1>1, <1>2 DEF Row
<1> QED
  BY <1>3 DEF p, v

LEMMA EndType ==
  ASSUME TypeOK, NEW r \in Requests, NEW wrote \in BOOLEAN, End(r, wrote)
  PROVE  /\ pc' \in [Requests -> Steps] /\ call' \in [Requests -> CallType]
         /\ seen' \in [Requests -> Row] /\ at' \in [Requests -> AtType]
         /\ visited' \in [Requests -> SUBSET Categories] /\ loads' \in [Requests -> Nat]
         /\ disturbed' \in [Requests -> BOOLEAN]
<1> USE NoCallType, NowhereType, NoneIsNoRow DEF TypeOK, End, Goto
<1>1. pc' \in [Requests -> Steps]
  BY DEF Steps
<1>2. call' \in [Requests -> CallType]
  BY DEF CallType
<1>3. at' \in [Requests -> AtType]
  BY DEF AtType
<1>4. \A q \in Requests : (q # r /\ (disturbed[q] \/ (wrote /\ pc[q] # "idle"))) \in BOOLEAN
  OBVIOUS
<1>5. disturbed' \in [Requests -> BOOLEAN]
  BY <1>4
<1> QED
  BY <1>1, <1>2, <1>3, <1>5

-----------------------------------------------------------------------------
(* What a step leaves of the other requests' invariants. *)

\* Request q is where it was, with what it knew.
Stays(q) ==
  /\ pc'[q] = pc[q] /\ call'[q] = call[q] /\ seen'[q] = seen[q]
  /\ at'[q] = at[q] /\ visited'[q] = visited[q] /\ loads'[q] = loads[q]

LEMMA OthersKeep ==
  ASSUME NEW q \in Requests, RequestInv(q), Stays(q), created \subseteq created',
         \/ row' = row /\ disturbed'[q] = disturbed[q]
         \/ pc[q] = "idle" \/ disturbed'[q]
  PROVE  RequestInv(q)'
<1> USE DEF RequestInv, Stays
<1>1. Shape(q)'
  BY DEF Shape
<1>2. Fresh(q)'
  BY DEF Fresh, Exists, Shape, Makes
<1>3. Fetched(q)'
  BY DEF Fetched, Merged, Exists
<1>4. Climbs(q)'
  BY DEF Climbs, Ahead, Exists
<1>5. Counted(q)'
  BY DEF Counted
<1> QED
  BY <1>1, <1>2, <1>3, <1>4, <1>5

LEMMA IdleHolds ==
  ASSUME NEW q \in Requests, pc'[q] = "idle", call'[q] = NoCall, visited'[q] = {}, loads'[q] = 0
  PROVE  RequestInv(q)'
<1> USE DEF NoCall, Asks, Unchanged
<1>1. Shape(q)'
  BY DEF Shape, Makes, Fetches
<1>2. Fresh(q)'
  BY DEF Fresh, Makes
<1>3. Fetched(q)' /\ Climbs(q)'
  BY DEF Fetched, Climbs
<1>4. Counted(q)'
  BY FS_EmptySet DEF Counted
<1> QED
  BY <1>1, <1>2, <1>3, <1>4 DEF RequestInv

LEMMA EndHolds ==
  ASSUME TypeOK, \A q \in Requests : RequestInv(q), NEW r \in Requests,
         NEW wrote \in BOOLEAN, End(r, wrote), row' = row \/ wrote, created' = created
  PROVE  \A q \in Requests : RequestInv(q)'
<1> SUFFICES ASSUME NEW q \in Requests PROVE RequestInv(q)'
  OBVIOUS
<1>1. CASE q = r
  BY <1>1, IdleHolds DEF End, Goto, TypeOK
<1>2. CASE q # r
  <2>1. Stays(q)
    BY <1>2 DEF End, Goto, TypeOK, Stays
  <2>2. disturbed'[q] = (disturbed[q] \/ (wrote /\ pc[q] # "idle"))
    BY <1>2 DEF End
  <2>3. disturbed[q] \in BOOLEAN /\ disturbed'[q] \in BOOLEAN
    BY EndType DEF TypeOK
  <2> QED
    BY <2>1, <2>2, <2>3, OthersKeep
<1> QED
  BY <1>1, <1>2

LEMMA RefuseHolds ==
  ASSUME IInv, NEW r \in Requests, Refuse(r)
  PROVE  IInv'
<1> USE DEF IInv, Refuse, table
<1>1. End(r, FALSE)
  OBVIOUS
<1>2. TypeOK'
  BY <1>1, EndType DEF TypeOK, Steps, CallType, AtType
<1>3. \A q \in Requests : RequestInv(q)'
  BY <1>1, EndHolds
<1>4. Linked' /\ OneFavourite'
  BY DEF Linked, OneFavourite, Exists
<1> QED
  BY <1>2, <1>3, <1>4

-----------------------------------------------------------------------------
(* The requests that arrive. *)

\* What the endpoints make sure of before a request does anything: read is what
\* get_object() has found, to is where the request goes on.
Proper(c, read, to) ==
  /\ c \in CallType /\ c.op # "none" /\ c.item \in created' /\ c.item \in Items
  /\ read \in Row /\ to \in {"fetch", "save", "arrange", "insert"}
  /\ to = "fetch" => c.op \in Fetches /\ c.body.under \in Categories
  /\ to = "save" => c.op \in Makes \cup {"edit"}
  /\ to = "save" /\ c.op \in Fetches => c.body.under \notin Categories
  /\ to = "arrange" => c.op = "arrange"
  /\ to = "insert" => c.item \in Products /\ c.customer \in Customers
  /\ c.op \in {"bulk", "copy"} => c.item \in Products
  /\ c.op \in Makes \cup {"arrange"} => c.body.place # Keep
  /\ c.op = "create" => c.body.under # Keep
  /\ c.op \in {"edit", "arrange"} => Exists(c.item) /\ read = row[c.item]
  /\ c.op \in Makes => ~Exists(c.item)

LEMMA ArrivalHolds ==
  ASSUME IInv, NEW r \in Requests, NEW c, NEW read, NEW to, Receive(r, c, read, to),
         Proper(c, read, to), created \subseteq created', created' \subseteq Items
  PROVE  IInv'
<1> USE DEF IInv, Receive, walk
<1>1. /\ pc'[r] = to /\ call'[r] = c /\ seen'[r] = read /\ pc[r] = "idle"
      /\ at'[r] = at[r] /\ visited'[r] = visited[r] /\ loads'[r] = loads[r]
  BY DEF Goto, TypeOK
<1>2. TypeOK'
  <2>1. pc' \in [Requests -> Steps] /\ call' \in [Requests -> CallType]
    BY DEF Goto, TypeOK, Proper, Steps, CallType
  <2>2. seen' \in [Requests -> Row] /\ calls' \in 0..MaxCalls
    BY CatalogueAssumption DEF TypeOK, Proper, Called
  <2> QED
    BY <2>1, <2>2 DEF TypeOK, Steps, CallType
<1>3. RequestInv(r)'
  <2>1. Shape(r) /\ Counted(r)
    BY DEF RequestInv
  <2>2. Shape(r)'
    BY <1>1, <2>1 DEF Shape, Proper, Makes, Fetches
  <2>3. Fresh(r)'
    BY <1>1 DEF Fresh, Proper, Exists, Makes
  <2>4. Fetched(r)'
    BY <1>1 DEF Fetched, Proper
  <2>5. Climbs(r)'
    BY <1>1 DEF Climbs, Proper, Fetches
  <2>6. Counted(r)'
    BY <1>1, <2>1 DEF Counted
  <2> QED
    BY <2>2, <2>3, <2>4, <2>5, <2>6 DEF RequestInv
<1>4. ASSUME NEW q \in Requests PROVE RequestInv(q)'
  <2>1. CASE q = r
    BY <1>3, <2>1
  <2>2. CASE q # r
    <3>1. Stays(q)
      BY <2>2 DEF Goto, TypeOK, Stays
    <3> QED
      BY <3>1, OthersKeep
  <2> QED
    BY <2>1, <2>2
<1>5. Linked' /\ OneFavourite'
  BY DEF Linked, OneFavourite, Exists
<1> QED
  BY <1>2, <1>4, <1>5

LEMMA BodyType ==
  ASSUME NEW s \in Stores \cup {Keep}, NEW c \in Links \cup {Keep}, NEW p \in Places \cup {Keep},
         NEW v \in Texts \cup {Keep}
  PROVE  [store |-> s, under |-> c, place |-> p, text |-> v] \in Body
BY DEF Body, Links

\* The body of a POST.
LEMMA PostedType ==
  ASSUME NEW s \in Stores, NEW c \in Links
  PROVE  /\ Posted(s, c) \in Body /\ Posted(s, c).under = c
         /\ Posted(s, c).place = Plain /\ Plain # Keep
BY BodyType, CatalogueAssumption DEF Posted

\* No id that is still to be handed out has a row.
LEMMA NewHasNoRow ==
  ASSUME IInv, NEW x \in Items, x \notin created
  PROVE  ~Exists(x)
BY DEF IInv, Linked

LEMMA NewArrives ==
  ASSUME IInv, NEW r \in Requests, NEW X \in {Categories, Products}, ReceiveNew(r, X)
  PROVE  IInv'
<1>1. PICK x \in X \ created, s \in Stores, u \in Links :
        /\ Receive(r, Asks("create", x, Posted(s, u), None), NoRow, FirstStep(Posted(s, u)))
        /\ created' = created \cup {x}
  BY DEF ReceiveNew
<1> DEFINE b == Posted(s, u)
           c == Asks("create", x, b, None)
<1>2. Receive(r, c, NoRow, FirstStep(b)) /\ created' = created \cup {x}
  BY <1>1
<1>3. b \in Body /\ Plain # Keep /\ u # Keep
  BY PostedType, CatalogueAssumption DEF Links, Items
<1>4. x \in Items /\ ~Exists(x)
  BY NewHasNoRow DEF Items
<1>5. c \in CallType /\ c.op = "create" /\ c.item = x /\ c.body = b
  BY <1>3, <1>4 DEF Asks, CallType, AllOperations
<1>6. /\ FirstStep(b) \in {"fetch", "save"}
      /\ FirstStep(b) = "fetch" <=> b.under \in Categories
  BY DEF FirstStep
<1>7. b.under = u /\ b.place = Plain
  BY PostedType
<1> HIDE DEF b, c
<1>8. Proper(c, NoRow, FirstStep(b))
  BY <1>2, <1>3, <1>4, <1>5, <1>6, <1>7, NoneIsNoRow DEF Proper, Fetches, Makes
<1>9. created \subseteq created' /\ created' \subseteq Items
  BY <1>2, <1>4 DEF IInv, TypeOK
<1> QED
  BY <1>2, <1>8, <1>9, ArrivalHolds

LEMMA EditArrives ==
  ASSUME IInv, NEW r \in Requests, ReceiveEdit(r)
  PROVE  IInv'
<1>1. PICK x \in Items, b \in Edits :
        /\ Exists(x)
        /\ Receive(r, Asks("edit", x, b, None), row[x], FirstStep(b))
        /\ UNCHANGED created
  BY DEF ReceiveEdit
<1> DEFINE c == Asks("edit", x, b, None)
<1>2. b \in Body /\ row[x] \in Row
  BY <1>1, RowType DEF Edits, IInv
<1>3. c \in CallType /\ c.op = "edit" /\ c.item = x /\ c.body = b
  BY <1>2 DEF Asks, CallType, AllOperations
<1>4. /\ FirstStep(b) \in {"fetch", "save"}
      /\ FirstStep(b) = "fetch" <=> b.under \in Categories
  BY DEF FirstStep
<1>5. x \in created /\ created \subseteq Items /\ created' = created
  BY <1>1 DEF IInv, Linked, TypeOK
<1>6. Receive(r, c, row[x], FirstStep(b))
  BY <1>1
<1> HIDE DEF c
<1>7. Proper(c, row[x], FirstStep(b))
  BY <1>1, <1>2, <1>3, <1>4, <1>5 DEF Proper, Fetches, Makes
<1> QED
  BY <1>5, <1>6, <1>7, ArrivalHolds

LEMMA BulkArrives ==
  ASSUME IInv, NEW r \in Requests, ReceiveBulk(r)
  PROVE  IInv'
<1>1. PICK x \in Products \ created, s \in Stores, u \in Links :
        /\ Receive(r, Asks("bulk", x, Posted(s, IF u # None /\ Exists(u) THEN u ELSE None), None),
                   NoRow, "save")
        /\ created' = created \cup {x}
  BY DEF ReceiveBulk
<1> DEFINE v == IF u # None /\ Exists(u) THEN u ELSE None
           b == Posted(s, v)
           c == Asks("bulk", x, b, None)
<1>2. Receive(r, c, NoRow, "save") /\ created' = created \cup {x}
  BY <1>1
<1>3. v \in Links
  BY DEF Links
<1>4. b \in Body /\ b.place = Plain /\ Plain # Keep
  BY <1>3, PostedType
<1>5. x \in Items /\ ~Exists(x)
  BY NewHasNoRow DEF Items
<1>6. c \in CallType /\ c.op = "bulk" /\ c.item = x /\ c.body = b /\ b.place = Plain
  BY <1>4, <1>5 DEF Asks, CallType, AllOperations
<1> HIDE DEF b, c, v
<1>7. Proper(c, NoRow, "save")
  BY <1>2, <1>4, <1>5, <1>6, NoneIsNoRow DEF Proper, Fetches, Makes
<1>8. created \subseteq created' /\ created' \subseteq Items
  BY <1>2, <1>5 DEF IInv, TypeOK
<1> QED
  BY <1>2, <1>7, <1>8, ArrivalHolds

LEMMA CopyArrives ==
  ASSUME IInv, NEW r \in Requests, ReceiveCopy(r)
  PROVE  IInv'
<1>1. PICK x \in Products \ created, original \in Products :
        /\ Exists(original)
        /\ Receive(r, Asks("copy", x, [Unchanged EXCEPT !.place = Hidden], None),
                   row[original], "save")
        /\ created' = created \cup {x}
  BY DEF ReceiveCopy
<1> DEFINE b == [Unchanged EXCEPT !.place = Hidden]
           c == Asks("copy", x, b, None)
<1>2. Receive(r, c, row[original], "save") /\ created' = created \cup {x}
  BY <1>1
<1>3. b = [store |-> Keep, under |-> Keep, place |-> Hidden, text |-> Keep]
  BY DEF Unchanged
<1>4. b \in Body /\ b.place = Hidden /\ Hidden # Keep
  BY <1>3, BodyType, CatalogueAssumption
<1>5. x \in Items /\ ~Exists(x) /\ row[original] \in Row
  BY <1>1, NewHasNoRow, RowType DEF Items, IInv
<1>6. c \in CallType /\ c.op = "copy" /\ c.item = x /\ c.body = b
  BY <1>4, <1>5 DEF Asks, CallType, AllOperations
<1> HIDE DEF b, c
<1>7. Proper(c, row[original], "save")
  BY <1>2, <1>4, <1>5, <1>6 DEF Proper, Fetches, Makes
<1>8. created \subseteq created' /\ created' \subseteq Items
  BY <1>2, <1>5 DEF IInv, TypeOK
<1> QED
  BY <1>2, <1>7, <1>8, ArrivalHolds

LEMMA ArrangeArrives ==
  ASSUME IInv, NEW r \in Requests, ReceiveArrange(r)
  PROVE  IInv'
<1>1. PICK x \in Items, p \in Places, v \in Texts \cup {Keep} :
        /\ Exists(x)
        /\ Receive(r, Asks("arrange", x, [Unchanged EXCEPT !.place = p, !.text = v], None),
                   row[x], "arrange")
        /\ UNCHANGED created
  BY DEF ReceiveArrange
<1> DEFINE b == [Unchanged EXCEPT !.place = p, !.text = v]
           c == Asks("arrange", x, b, None)
<1>2. Receive(r, c, row[x], "arrange")
  BY <1>1
<1>3. b = [store |-> Keep, under |-> Keep, place |-> p, text |-> v]
  <2>1. [Unchanged EXCEPT !.place = p] = [store |-> Keep, under |-> Keep, place |-> p, text |-> Keep]
    BY DEF Unchanged
  <2>2. [[store |-> Keep, under |-> Keep, place |-> p, text |-> Keep] EXCEPT !.text = v]
          = [store |-> Keep, under |-> Keep, place |-> p, text |-> v]
    OBVIOUS
  <2>3. b = [[Unchanged EXCEPT !.place = p] EXCEPT !.text = v]
    OBVIOUS
  <2> QED
    BY <2>1, <2>2, <2>3, Zenon
<1>4. b \in Body /\ b.place = p /\ p # Keep
  BY <1>3, BodyType, CatalogueAssumption
<1>5. /\ row[x] \in Row /\ x \in created /\ created \subseteq Items /\ created' = created
  BY <1>1, RowType DEF IInv, Linked, TypeOK
<1>6. c \in CallType /\ c.op = "arrange" /\ c.item = x /\ c.body = b
  BY <1>4 DEF Asks, CallType, AllOperations
<1> HIDE DEF b, c
<1>7. Proper(c, row[x], "arrange")
  BY <1>1, <1>4, <1>5, <1>6 DEF Proper, Fetches, Makes
<1> QED
  BY <1>2, <1>5, <1>7, ArrivalHolds

LEMMA FavouriteArrives ==
  ASSUME IInv, NEW r \in Requests, ReceiveFavourite(r)
  PROVE  IInv'
<1>1. PICK u \in Customers, p \in Products :
        /\ Exists(p) /\ NotYetFavourite(u, p)
        /\ Receive(r, Asks("favour", p, Unchanged, u), NoRow, "insert")
        /\ UNCHANGED created
  BY DEF ReceiveFavourite
<1> DEFINE c == Asks("favour", p, Unchanged, u)
<1>2. Receive(r, c, NoRow, "insert")
  BY <1>1
<1>3. Unchanged \in Body /\ p \in Items
  BY DEF Unchanged, Body, Items
<1>4. p \in created /\ created \subseteq Items /\ created' = created
  BY <1>1, <1>3 DEF IInv, Linked, TypeOK
<1>5. c \in CallType /\ c.op = "favour" /\ c.item = p /\ c.customer = u
  BY <1>3 DEF Asks, CallType, AllOperations
<1> HIDE DEF c
<1>6. Proper(c, NoRow, "insert")
  BY <1>3, <1>4, <1>5, NoneIsNoRow DEF Proper, Fetches, Makes
<1> QED
  BY <1>2, <1>4, <1>6, ArrivalHolds

LEMMA ArriveHolds ==
  ASSUME IInv, NEW r \in Requests, Arrive(r)
  PROVE  IInv'
BY NewArrives, EditArrives, BulkArrives, CopyArrives, ArrangeArrives, FavouriteArrives
DEF Arrive, ReceiveCategory, ReceiveProduct

-----------------------------------------------------------------------------
(* The steps of a request. *)

\* A step that reads, and keeps what it has learnt.
LEMMA ReadingHolds ==
  ASSUME IInv, NEW r \in Requests, NEW to \in Steps, Goto(r, to) \/ UNCHANGED pc,
         at' \in [Requests -> AtType], visited' \in [Requests -> SUBSET Categories],
         loads' \in [Requests -> Nat],
         \A q \in Requests \ {r} :
           at'[q] = at[q] /\ visited'[q] = visited[q] /\ loads'[q] = loads[q],
         UNCHANGED <<table, favourites, calls, call, seen, disturbed>>, RequestInv(r)'
  PROVE  IInv'
<1> USE DEF IInv, table
<1>1. pc' \in [Requests -> Steps]
  BY DEF Goto, TypeOK, Steps
<1>2. TypeOK'
  BY <1>1 DEF TypeOK, Steps, AtType
<1>3. ASSUME NEW q \in Requests PROVE RequestInv(q)'
  <2>1. CASE q # r
    <3>1. Stays(q)
      BY <2>1 DEF Goto, TypeOK, Stays
    <3> QED
      BY <3>1, OthersKeep
  <2> QED
    BY <2>1
<1>4. Linked' /\ OneFavourite'
  BY DEF Linked, OneFavourite, Exists
<1> QED
  BY <1>2, <1>3, <1>4

LEMMA FetchHolds ==
  ASSUME IInv, NEW r \in Requests, FetchLink(r)
  PROVE  IInv'
<1> DEFINE c == call[r].body.under
           walks == call[r].op = "edit" /\ call[r].item \in Categories
           to == IF walks THEN "walk" ELSE "validate"
<1> USE DEF IInv
<1>1. CASE ~Exists(c) \/ c = call[r].item
  BY <1>1, RefuseHolds DEF FetchLink
<1>2. CASE ~(~Exists(c) \/ c = call[r].item)
  <2>1. /\ at' = [at EXCEPT ![r] = Loaded(c, row[c].store)] /\ Goto(r, to) /\ pc[r] = "fetch"
        /\ UNCHANGED <<table, favourites, calls, call, seen, visited, loads, disturbed>>
    BY <1>2 DEF FetchLink
  <2>2. Shape(r) /\ Fresh(r) /\ Counted(r) /\ c \in Categories /\ Exists(c)
    BY <1>2, <2>1 DEF RequestInv, Shape
  <2>3. row[c].store \in Stores /\ row[c].under \in Categories \cup {None}
    BY <2>2, RowType DEF Items
  <2>4. at' \in [Requests -> AtType]
    BY <2>1, <2>2, <2>3 DEF TypeOK, Loaded, AtType
  <2>5. /\ pc'[r] = to /\ at'[r] = Loaded(c, row[c].store) /\ call' = call /\ row' = row
        /\ created' = created
        /\ seen' = seen /\ visited' = visited /\ loads' = loads /\ disturbed' = disturbed
    BY <2>1 DEF Goto, TypeOK, table
  <2>6. RequestInv(r)'
    <3>1. visited[r] = {} /\ call[r].op \in Fetches
      BY <2>1, <2>2 DEF Shape
    <3>2. Shape(r)'
      BY <2>1, <2>2, <2>5, <3>1 DEF Shape, Loaded, Fetches, Makes
    <3>3. Fresh(r)'
      BY <2>2, <2>5 DEF Fresh, Exists
    <3>4. Fetched(r)'
      BY <1>2, <2>5 DEF Fetched, Loaded, Exists
    <3>5. Climbs(r)'
      BY <2>5, <3>1, <1>2 DEF Climbs, Ahead, Loaded, Exists
    <3>6. Counted(r)'
      BY <2>2, <2>5 DEF Counted
    <3> QED
      BY <3>2, <3>3, <3>4, <3>5, <3>6 DEF RequestInv
  <2>7. \A q \in Requests \ {r} : at'[q] = at[q]
    BY <2>1 DEF TypeOK
  <2>8. visited \in [Requests -> SUBSET Categories] /\ loads \in [Requests -> Nat] /\ to \in Steps
    BY DEF TypeOK, Steps
  <2> HIDE DEF to
  <2> QED
    BY <2>1, <2>4, <2>5, <2>6, <2>7, <2>8, ReadingHolds
<1> QED
  BY <1>1, <1>2

LEMMA WalkHolds ==
  ASSUME IInv, NEW r \in Requests, Walk(r)
  PROVE  IInv'
<1> USE DEF IInv
<1> DEFINE up == at[r].up
           pk == at[r].pk
<1>1. CASE ClosesCycle(r)
  BY <1>1, RefuseHolds DEF Walk
<1>2. CASE ~ClosesCycle(r)
  <2>1. /\ pc[r] = "walk"
        /\ visited' = [visited EXCEPT ![r] = Visits(r)]
        /\ loads' = [loads EXCEPT ![r] = @ + 1]
        /\ UNCHANGED <<table, favourites, calls, call, seen, disturbed>>
    BY <1>2 DEF Walk
  <2>2. /\ Shape(r) /\ Fresh(r) /\ Counted(r) /\ Fetched(r) /\ Climbs(r)
        /\ call[r].op = "edit" /\ call[r].item \in Categories /\ call[r].body.under \in Categories
        /\ pk \in Categories /\ pk \notin visited[r] /\ pk # call[r].item
    BY <1>2, <2>1 DEF RequestInv, Shape, ClosesCycle
  <2>3. /\ visited[r] \in SUBSET Categories /\ Visits(r) \in SUBSET Categories
        /\ Visits(r) = visited[r] \cup {pk}
    BY <2>2 DEF TypeOK, Visits
  <2>4. /\ visited' \in [Requests -> SUBSET Categories] /\ loads' \in [Requests -> Nat]
        /\ visited'[r] = visited[r] \cup {pk} /\ loads'[r] = loads[r] + 1
    BY <2>1, <2>3 DEF TypeOK
  <2>5. Counted(r)'
    <3>1. IsFiniteSet(visited[r])
      BY <2>3, CatalogueAssumption, FS_Subset
    <3>2. Cardinality(visited[r] \cup {pk}) = Cardinality(visited[r]) + 1
      BY <2>2, <3>1, FS_AddElement
    <3> QED
      BY <2>2, <2>4, <3>2 DEF Counted
  <2>6. /\ call' = call /\ row' = row /\ seen' = seen /\ disturbed' = disturbed
        /\ created' = created
    BY <2>1 DEF table
  <2>7. /\ ~disturbed[r] =>
             /\ Exists(pk) /\ up = row[pk].under /\ call[r].body.under \in visited[r] \cup {pk}
             /\ \A v \in visited[r] : row[v].under \in visited[r] \cup {pk, None}
        /\ call[r].item \notin visited[r]
    BY <2>1, <2>2 DEF Climbs, Ahead
  <2>8. CASE up # None /\ Exists(up)
    <3>1. at' = [at EXCEPT ![r] = Loaded(up, @.store)] /\ UNCHANGED pc
      BY <1>2, <2>8 DEF Walk
    <3>2. up \in Categories /\ at[r].store \in Stores \cup {None}
      BY <2>8 DEF TypeOK
    <3>3. row[up].under \in Categories \cup {None}
      BY <2>8, <3>2, RowType DEF Items
    <3>4. at' \in [Requests -> AtType] /\ at'[r] = Loaded(up, at[r].store)
      BY <3>1, <3>2, <3>3 DEF TypeOK, Loaded, AtType
    <3>5. pc'[r] = "walk"
      BY <2>1, <3>1
    <3>6. Shape(r)'
      BY <2>1, <2>2, <2>6, <3>2, <3>4, <3>5 DEF Shape, Loaded
    <3>7. Fresh(r)' /\ Fetched(r)'
      BY <2>1, <2>2, <2>6, <3>4, <3>5 DEF Fresh, Fetched, Exists, Loaded
    <3>8. Climbs(r)'
      <4>1. call'[r].item \notin visited'[r]
        BY <2>2, <2>4, <2>6, <2>7
      <4>2. Ahead(r)' = {up} /\ at'[r].pk = up /\ at'[r].up = row'[up].under
        BY <2>6, <3>4, <3>5 DEF Ahead, Loaded
      <4>3. row'[up] # None
        BY <2>6, <2>8 DEF Exists
      <4> QED
        BY <2>4, <2>6, <2>7, <4>1, <4>2, <4>3 DEF Climbs, Exists
    <3>9. RequestInv(r)'
      BY <2>5, <3>6, <3>7, <3>8 DEF RequestInv
    <3>10. \A q \in Requests \ {r} :
             at'[q] = at[q] /\ visited'[q] = visited[q] /\ loads'[q] = loads[q]
      BY <2>1, <3>1 DEF TypeOK
    <3> QED
      BY <2>1, <2>4, <3>1, <3>4, <3>9, <3>10, ReadingHolds DEF Steps
  <2>9. CASE ~(up # None /\ Exists(up))
    <3>1. Goto(r, "validate") /\ UNCHANGED at
      BY <1>2, <2>9 DEF Walk
    <3>2. pc'[r] = "validate" /\ at' = at
      BY <3>1 DEF Goto, TypeOK
    <3>3. Shape(r)'
      BY <2>2, <2>6, <3>2, <2>1 DEF Shape, Fetches
    <3>4. Fresh(r)' /\ Fetched(r)'
      BY <2>1, <2>2, <2>6, <3>2 DEF Fresh, Fetched, Exists
    <3>5. Climbs(r)'
      <4>1. call'[r].item \notin visited'[r]
        BY <2>2, <2>4, <2>6, <2>7
      <4>2. Ahead(r)' = {}
        BY <3>2 DEF Ahead
      <4>3. ~disturbed[r] => row[pk].under = None
        BY <2>2, <2>7, <2>9 DEF Linked, Items
      <4> QED
        BY <2>4, <2>6, <2>7, <3>2, <4>1, <4>2, <4>3 DEF Climbs
    <3>6. RequestInv(r)'
      BY <2>5, <3>3, <3>4, <3>5 DEF RequestInv
    <3>7. \A q \in Requests \ {r} :
             at'[q] = at[q] /\ visited'[q] = visited[q] /\ loads'[q] = loads[q]
      BY <2>1, <3>1 DEF TypeOK
    <3>8. at' \in [Requests -> AtType]
      BY <3>2 DEF TypeOK, AtType
    <3> QED
      BY <2>1, <2>4, <3>1, <3>6, <3>7, <3>8, ReadingHolds DEF Steps
  <2> QED
    BY <2>8, <2>9
<1> QED
  BY <1>1, <1>2

LEMMA ValidateHolds ==
  ASSUME IInv, NEW r \in Requests, Validate(r)
  PROVE  IInv'
<1> USE DEF IInv
<1>1. CASE ~SameStore(r)
  BY <1>1, RefuseHolds DEF Validate
<1>2. CASE SameStore(r)
  <2>1. /\ pc[r] = "validate" /\ Goto(r, "save")
        /\ UNCHANGED <<table, favourites, calls, call, seen, walk, disturbed>>
    BY <1>2 DEF Validate
  <2>2. /\ pc'[r] = "save" /\ call' = call /\ row' = row /\ created' = created /\ seen' = seen
        /\ at' = at /\ visited' = visited /\ loads' = loads /\ disturbed' = disturbed
    BY <2>1 DEF Goto, TypeOK, table, walk
  <2>3. RequestInv(r)'
    <3>1. Shape(r) /\ Fresh(r) /\ Fetched(r) /\ Climbs(r) /\ Counted(r)
      BY DEF RequestInv
    <3>2. Shape(r)'
      BY <2>1, <2>2, <3>1 DEF Shape, Fetches, Makes
    <3>3. Fresh(r)' /\ Counted(r)'
      BY <2>2, <3>1 DEF Fresh, Exists, Counted
    <3>4. Fetched(r)'
      BY <1>2, <2>1, <2>2, <3>1 DEF Fetched, SameStore, Merged, Exists
    <3>5. Climbs(r)'
      BY <2>1, <2>2, <3>1 DEF Climbs, Ahead, Exists
    <3> QED
      BY <3>2, <3>3, <3>4, <3>5 DEF RequestInv
  <2>4. /\ at' \in [Requests -> AtType] /\ visited' \in [Requests -> SUBSET Categories]
        /\ loads' \in [Requests -> Nat]
    BY <2>2 DEF TypeOK, AtType
  <2> QED
    BY <2>1, <2>2, <2>3, <2>4, ReadingHolds DEF Steps
<1> QED
  BY <1>1, <1>2

\* A request that writes a row and is done.
LEMMA WritingHolds ==
  ASSUME IInv, NEW r \in Requests, End(r, TRUE), UNCHANGED <<created, favourites, calls>>,
         NEW x \in Items, NEW new \in Row \cup {None}, row' = [row EXCEPT ![x] = new],
         new # None => x \in created /\ (new.under # None => Exists(new.under)),
         Exists(x) => new # None
  PROVE  IInv'
<1> USE DEF IInv
<1>1. TypeOK'
  <2>1. row' \in [Items -> Row \cup {None}]
    BY DEF TypeOK
  <2> QED
    BY <2>1, EndType DEF TypeOK, Steps, CallType, AtType
<1>2. \A q \in Requests : RequestInv(q)'
  BY EndHolds
<1>3. /\ row'[x] = new /\ \A y \in Items \ {x} : row'[y] = row[y]
      /\ \A y \in Items : Exists(y) => Exists(y)'
  BY DEF TypeOK, Exists
<1>4. Linked'
  <2> SUFFICES ASSUME NEW y \in Items, Exists(y)'
               PROVE  y \in created /\ (row'[y].under # None => row'[row'[y].under] # None)
    BY DEF Linked, Exists
  <2>1. y \in created /\ (row'[y].under # None => Exists(row'[y].under))
    BY <1>3 DEF Linked, Exists
  <2>2. row'[y].under \in Categories \cup {None}
    BY <1>1, RowType DEF TypeOK, Exists, Row
  <2> QED
    BY <1>3, <2>1, <2>2 DEF Items, Exists
<1>5. OneFavourite'
  <2> SUFFICES ASSUME NEW u \in Customers, NEW p \in Products
               PROVE  favourites[<<u, p>>] <= IF Exists(p)' THEN 1 ELSE 0
    BY DEF OneFavourite
  <2>1. favourites[<<u, p>>] <= IF Exists(p) THEN 1 ELSE 0
    BY DEF OneFavourite
  <2>2. favourites[<<u, p>>] \in Nat /\ (Exists(p) => Exists(p)')
    BY <1>3 DEF TypeOK, Items
  <2> QED
    BY <2>1, <2>2
<1> QED
  BY <1>1, <1>2, <1>4, <1>5

LEMMA SaveHolds ==
  ASSUME IInv, NEW r \in Requests, Save(r)
  PROVE  IInv'
<1> USE DEF IInv
<1> DEFINE new == Merged(r)
<1>1. CASE new.under # None /\ ~Exists(new.under)
  BY <1>1, RefuseHolds DEF Save
<1>2. CASE ~(new.under # None /\ ~Exists(new.under))
  <2>1. /\ pc[r] = "save" /\ row' = [row EXCEPT ![call[r].item] = new] /\ End(r, TRUE)
        /\ UNCHANGED <<created, favourites, calls>>
    BY <1>2 DEF Save, Stored
  <2>2. call[r].item \in Items /\ call[r].item \in created
    <3>1. Shape(r) /\ created \subseteq Items
      BY DEF RequestInv, TypeOK
    <3> QED
      BY <2>1, <3>1, CatalogueAssumption DEF Shape
  <2>3. new \in Row
    BY MergedType
  <2> HIDE DEF new
  <2> QED
    BY <1>2, <2>1, <2>2, <2>3, NoneIsNoRow, WritingHolds
<1> QED
  BY <1>1, <1>2

LEMMA ArrangeHolds ==
  ASSUME IInv, NEW r \in Requests, Arrange(r)
  PROVE  IInv'
<1> USE DEF IInv
<1> DEFINE x == call[r].item
           new == Arranged(r, x)
<1>1. /\ pc[r] = "arrange" /\ row' = [row EXCEPT ![x] = new] /\ End(r, TRUE)
      /\ UNCHANGED <<created, favourites, calls>>
  BY DEF Arrange
<1>2. /\ x \in Items /\ x \in created /\ call[r].op = "arrange"
      /\ call[r].body.place \in Places
  <2>1. Shape(r) /\ created \subseteq Items /\ call[r].body \in Body
    BY DEF RequestInv, TypeOK
  <2> QED
    BY <1>1, <2>1, CatalogueAssumption DEF Shape, Body
<1>3. CASE Exists(x)
  <2>1. row[x] \in Row
    BY <1>2, <1>3, RowType
  <2>2. new \in Row /\ new.under = row[x].under
    BY <1>1, <1>2, <1>3, <2>1, ArrangedRow
  <2>3. new.under # None => Exists(new.under)
    BY <1>2, <1>3, <2>2 DEF Linked
  <2> HIDE DEF x, new
  <2> QED
    BY <1>1, <1>2, <2>2, <2>3, NoneIsNoRow, WritingHolds
<1>4. CASE ~Exists(x)
  <2>1. new = None
    BY <1>4 DEF Arranged
  <2> HIDE DEF x, new
  <2> QED
    BY <1>1, <1>2, <1>4, <2>1, WritingHolds
<1> QED
  BY <1>3, <1>4

LEMMA InsertHolds ==
  ASSUME IInv, NEW r \in Requests, InsertFavourite(r)
  PROVE  IInv'
<1> USE DEF IInv
<1> DEFINE f == <<call[r].customer, call[r].item>>
<1>1. CASE FavouriteTaken(f) \/ ~Exists(call[r].item)
  BY <1>1, RefuseHolds DEF InsertFavourite
<1>2. CASE ~(FavouriteTaken(f) \/ ~Exists(call[r].item))
  <2>1. /\ pc[r] = "insert" /\ favourites' = [favourites EXCEPT ![f] = @ + 1]
        /\ End(r, FALSE) /\ row' = row /\ created' = created /\ calls' = calls
    BY <1>2 DEF InsertFavourite, table
  <2>2. Shape(r)
    BY DEF RequestInv
  <2>3. f \in Customers \X Products
    BY <2>1, <2>2 DEF Shape
  <2>4. favourites[f] = 0
    BY <1>2, <2>3 DEF FavouriteTaken, TypeOK
  <2>5. favourites' \in [Customers \X Products -> Nat]
    BY <2>1, <2>3 DEF TypeOK
  <2>6. TypeOK'
    BY <2>1, <2>5, EndType DEF TypeOK, Steps, CallType, AtType
  <2>7. \A q \in Requests : RequestInv(q)'
    BY <2>1, EndHolds
  <2>8. Linked'
    BY <2>1 DEF Linked, Exists
  <2>9. OneFavourite'
    <3> SUFFICES ASSUME NEW u \in Customers, NEW p \in Products
                 PROVE  favourites'[<<u, p>>] <= IF row[p] # None THEN 1 ELSE 0
      BY <2>1 DEF OneFavourite, Exists
    <3>1. favourites[<<u, p>>] <= IF row[p] # None THEN 1 ELSE 0
      BY DEF OneFavourite, Exists
    <3>2. CASE f = <<u, p>>
      <4>1. favourites'[<<u, p>>] = 1
        BY <2>1, <2>3, <2>4, <3>2 DEF TypeOK
      <4>2. row[p] # None
        BY <1>2, <3>2 DEF Exists
      <4> QED
        BY <4>1, <4>2
    <3>3. CASE f # <<u, p>>
      <4>1. favourites'[<<u, p>>] = favourites[<<u, p>>]
        BY <2>1, <3>3 DEF TypeOK
      <4> QED
        BY <3>1, <4>1
    <3> QED
      BY <3>2, <3>3
  <2> QED
    BY <2>6, <2>7, <2>8, <2>9
<1> QED
  BY <1>1, <1>2

LEMMA RemoveHolds ==
  ASSUME IInv, RemoveFavourite
  PROVE  IInv'
<1> USE DEF IInv
<1>1. PICK f \in Customers \X Products :
        /\ favourites[f] > 0
        /\ favourites' = [favourites EXCEPT ![f] = @ - 1]
        /\ UNCHANGED <<table, calls, pc, call, seen, walk, disturbed>>
  BY DEF RemoveFavourite
<1> USE DEF table, walk
<1>2. favourites' \in [Customers \X Products -> Nat]
  BY <1>1 DEF TypeOK
<1>3. TypeOK'
  BY <1>1, <1>2 DEF TypeOK
<1>4. \A q \in Requests : RequestInv(q)'
  <2> SUFFICES ASSUME NEW q \in Requests PROVE RequestInv(q)'
    OBVIOUS
  <2>1. Stays(q) /\ row' = row /\ created' = created /\ disturbed' = disturbed
    BY <1>1 DEF Stays
  <2> QED
    BY <2>1, OthersKeep
<1>5. Linked'
  BY <1>1 DEF Linked, Exists
<1>6. OneFavourite'
  <2> SUFFICES ASSUME NEW u \in Customers, NEW p \in Products
               PROVE  favourites'[<<u, p>>] <= IF row[p] # None THEN 1 ELSE 0
    BY <1>1 DEF OneFavourite, Exists
  <2>1. favourites[<<u, p>>] <= IF row[p] # None THEN 1 ELSE 0
    BY DEF OneFavourite, Exists
  <2>2. favourites[<<u, p>>] \in Nat
    BY DEF TypeOK
  <2>3. favourites'[<<u, p>>] <= favourites[<<u, p>>] /\ favourites'[<<u, p>>] \in Nat
    <3>1. CASE f = <<u, p>>
      <4>1. favourites'[<<u, p>>] = favourites[<<u, p>>] - 1 /\ favourites[<<u, p>>] > 0
        BY <1>1, <3>1 DEF TypeOK
      <4> QED
        BY <2>2, <4>1
    <3>2. CASE f # <<u, p>>
      <4>1. favourites'[<<u, p>>] = favourites[<<u, p>>]
        BY <1>1, <3>2 DEF TypeOK
      <4> QED
        BY <2>2, <4>1
    <3> QED
      BY <3>1, <3>2
  <2> QED
    BY <2>1, <2>2, <2>3
<1> QED
  BY <1>3, <1>4, <1>5, <1>6

\* What a deletion leaves: rows that were there, with their link or with none.
LEMMA DeleteLeaves ==
  ASSUME TypeOK, NEW X \in SUBSET Items, Delete(X)
  PROVE  \A y \in Items :
           /\ y \in X => ~Exists(y)'
           /\ y \notin X => (Exists(y)' <=> Exists(y))
           /\ Exists(y)' =>
                /\ row'[y] \in Row /\ row'[y].store = row[y].store /\ row'[y].place = row[y].place
                /\ row'[y].text = row[y].text
                /\ row'[y].under \notin X \/ row'[y].under = None
                /\ \/ row'[y].under = row[y].under
                   \/ row'[y].under = None /\ row'[row[y].under] = None
<1> SUFFICES ASSUME NEW y \in Items
             PROVE  /\ y \in X => ~Exists(y)'
                    /\ y \notin X => (Exists(y)' <=> Exists(y))
                    /\ Exists(y)' =>
                         /\ row'[y] \in Row /\ row'[y].store = row[y].store
                         /\ row'[y].place = row[y].place /\ row'[y].text = row[y].text
                         /\ row'[y].under \notin X \/ row'[y].under = None
                         /\ \/ row'[y].under = row[y].under
                            \/ row'[y].under = None /\ row'[row[y].under] = None
  OBVIOUS
<1>0. \A x \in X : row'[x] = None
  BY DEF Delete, Unlinked
<1>1. row'[y] = IF y \in X THEN None
                ELSE IF Exists(y) /\ row[y].under \in X
                     THEN [row[y] EXCEPT !.under = None] ELSE row[y]
  BY DEF Delete, Unlinked
<1>2. CASE y \in X
  BY <1>1, <1>2 DEF Exists
<1>3. CASE y \notin X /\ Exists(y) /\ row[y].under \in X
  <2>1. row'[y] = [row[y] EXCEPT !.under = None] /\ row[y] \in Row
    BY <1>1, <1>3, RowType
  <2>2. /\ row'[y] \in Row /\ row'[y].under = None
        /\ row'[y].store = row[y].store /\ row'[y].place = row[y].place
        /\ row'[y].text = row[y].text
    BY <2>1 DEF Row
  <2> QED
    BY <1>0, <1>3, <2>2, NoneIsNoRow DEF Exists
<1>4. CASE y \notin X /\ ~(Exists(y) /\ row[y].under \in X)
  <2>1. row'[y] = row[y]
    BY <1>1, <1>4
  <2> QED
    BY <1>4, <2>1, RowType DEF Exists
<1> QED
  BY <1>2, <1>3, <1>4

LEMMA DeleteHolds ==
  ASSUME IInv, NEW X \in SUBSET Items, Delete(X)
  PROVE  IInv'
<1> USE DEF IInv
<1>1. TypeOK'
  <2>1. row' \in [Items -> Row \cup {None}]
    <3>1. \A y \in Items : row'[y] \in Row \cup {None}
      BY DeleteLeaves DEF Exists
    <3> QED
      BY <3>1 DEF Delete, Unlinked
  <2>2. favourites' \in [Customers \X Products -> Nat]
    <3>1. \A f \in Customers \X Products : (IF f[2] \in X THEN 0 ELSE favourites[f]) \in Nat
      BY DEF TypeOK
    <3> QED
      BY <3>1 DEF Delete, Remaining
  <2>3. calls' \in 0..MaxCalls /\ disturbed' \in [Requests -> BOOLEAN]
    <3>1. \A r \in Requests : (disturbed[r] \/ pc[r] # "idle") \in BOOLEAN
      BY DEF TypeOK
    <3> QED
      BY <3>1, CatalogueAssumption DEF TypeOK, Delete, Called
  <2> QED
    BY <2>1, <2>2, <2>3 DEF TypeOK, Delete, walk
<1>2. \A q \in Requests : RequestInv(q)'
  <2> SUFFICES ASSUME NEW q \in Requests PROVE RequestInv(q)'
    OBVIOUS
  <2>1. Stays(q) /\ created' = created /\ disturbed'[q] = (disturbed[q] \/ pc[q] # "idle")
    BY DEF Stays, Delete, walk
  <2>2. disturbed[q] \in BOOLEAN /\ disturbed'[q] \in BOOLEAN
    BY <1>1 DEF TypeOK
  <2> QED
    BY <2>1, <2>2, OthersKeep
<1>3. Linked'
  <2> SUFFICES ASSUME NEW y \in Items, Exists(y)'
               PROVE  y \in created /\ (row'[y].under # None => row'[row'[y].under] # None)
    BY DEF Linked, Exists, Delete
  <2>1. Exists(y) /\ y \in created
    BY DeleteLeaves DEF Linked
  <2>2. ASSUME row'[y].under # None PROVE row'[row'[y].under] # None
    <3>1. row'[y].under = row[y].under /\ row[y].under \notin X
      BY <2>2, DeleteLeaves
    <3>2. row[y].under \in Items /\ Exists(row[y].under)
      BY <2>1, <2>2, <3>1, RowType DEF Linked, Items
    <3> QED
      BY <3>1, <3>2, DeleteLeaves DEF Exists
  <2> QED
    BY <2>1, <2>2
<1>4. OneFavourite'
  <2> SUFFICES ASSUME NEW u \in Customers, NEW p \in Products
               PROVE  favourites'[<<u, p>>] <= IF row'[p] # None THEN 1 ELSE 0
    BY DEF OneFavourite, Exists
  <2>1. favourites[<<u, p>>] <= IF row[p] # None THEN 1 ELSE 0
    BY DEF OneFavourite, Exists
  <2>2. favourites'[<<u, p>>] = IF p \in X THEN 0 ELSE favourites[<<u, p>>]
    BY DEF Delete, Remaining
  <2>3. p \notin X => (row'[p] # None <=> row[p] # None)
    BY DeleteLeaves DEF Exists, Items
  <2> QED
    BY <2>1, <2>2, <2>3
<1> QED
  BY <1>1, <1>2, <1>3, <1>4

-----------------------------------------------------------------------------
(* The invariant holds.                                                    *)

LEMMA NextHolds == IInv /\ [Next]_vars => IInv'
<1> SUFFICES ASSUME IInv, [Next]_vars PROVE IInv'
  OBVIOUS
<1>1. ASSUME NEW r \in Requests, Arrive(r) PROVE IInv'
  BY <1>1, ArriveHolds
<1>2. ASSUME NEW r \in Requests, Proceed(r) PROVE IInv'
  BY <1>2, FetchHolds, WalkHolds, ValidateHolds, SaveHolds, ArrangeHolds, InsertHolds
  DEF Proceed
<1>3. CASE DeleteCategories \/ DeleteProducts
  <2>1. PICK X \in SUBSET Items : Delete(X)
    BY <1>3 DEF DeleteCategories, DeleteProducts, Items
  <2> QED
    BY <2>1, DeleteHolds
<1>4. CASE RemoveFavourite
  BY <1>4, RemoveHolds
<1>5. CASE UNCHANGED vars
  <2> USE DEF vars, table, walk, IInv
  <2>1. TypeOK' /\ Linked' /\ OneFavourite'
    BY <1>5 DEF TypeOK, Linked, OneFavourite, Exists
  <2>2. \A q \in Requests : RequestInv(q)'
    <3> SUFFICES ASSUME NEW q \in Requests PROVE RequestInv(q)'
      OBVIOUS
    <3>1. Stays(q) /\ row' = row /\ created' = created /\ disturbed' = disturbed
      BY <1>5 DEF Stays
    <3> QED
      BY <3>1, OthersKeep
  <2> QED
    BY <2>1, <2>2
<1> QED
  BY <1>1, <1>2, <1>3, <1>4, <1>5 DEF Next

LEMMA InitHolds == Init => IInv
<1> SUFFICES ASSUME Init PROVE IInv
  OBVIOUS
<1> USE CatalogueAssumption, NoneIsNoRow DEF Init
<1>1. TypeOK
  BY NoCallType, NowhereType DEF TypeOK, CallType, AtType
<1>2. ASSUME NEW q \in Requests PROVE RequestInv(q)
  <2> USE DEF NoCall, Asks, Unchanged
  <2>1. Shape(q)
    BY DEF Shape, Makes, Fetches
  <2>2. Fresh(q) /\ Fetched(q) /\ Climbs(q)
    BY DEF Fresh, Fetched, Climbs, Makes
  <2>3. Counted(q)
    BY FS_EmptySet DEF Counted
  <2> QED
    BY <2>1, <2>2, <2>3 DEF RequestInv
<1>3. Linked
  BY DEF Linked, Exists, NoRow, Posted
<1>4. OneFavourite
  BY DEF OneFavourite
<1> QED
  BY <1>1, <1>2, <1>3, <1>4 DEF IInv

\* The inductive invariant holds of every behaviour of Catalogue.
THEOREM Invariance == Spec => []IInv
BY InitHolds, NextHolds, PTL DEF Spec

\* Every variable keeps its type whatever the clients of apps/products ask for.
THEOREM TypeCorrect == Spec => []TypeOK
<1>1. IInv => TypeOK
  BY DEF IInv
<1> QED
  BY <1>1, Invariance, PTL

\* Of a product a customer has one FavoriteProduct row at most, and none when the
\* product is gone, whoever adds, removes and deletes at the same time.
THEOREM OneFavouriteEach == Spec => []OneFavourite
<1>1. IInv => OneFavourite
  BY DEF IInv
<1> QED
  BY <1>1, Invariance, PTL

\* _has_ancestor_cycle() loads no more categories than there are, even on a tree with
\* a cycle in it and while others change the tree.
THEOREM WalksEnd == Spec => []WalksAreShort
<1>1. IInv => WalksAreShort
  <2> SUFFICES ASSUME IInv, NEW r \in Requests PROVE loads[r] <= Cardinality(Categories)
    BY DEF WalksAreShort
  <2>1. loads[r] = Cardinality(visited[r]) /\ visited[r] \in SUBSET Categories
    BY DEF IInv, RequestInv, Counted, TypeOK
  <2> QED
    BY <2>1, CatalogueAssumption, FS_Subset
<1> QED
  BY <1>1, Invariance, PTL

-----------------------------------------------------------------------------
(* What a step does to the rows. *)

\* The save of a request that is not refused.
Written(r) ==
  /\ Saves(r) /\ call[r].item \in Items /\ call[r].op \in Makes \cup {"edit"}
  /\ row' = [row EXCEPT ![call[r].item] = Merged(r)]
  /\ Merged(r).under # None => Exists(Merged(r).under)

\* A row of a change of many.
Placed(r) ==
  /\ pc[r] = "arrange" /\ pc'[r] = "idle"
  /\ call[r].item \in Items /\ call[r].body.place \in Places
  /\ row' = [row EXCEPT ![call[r].item] = Arranged(r, call[r].item)]

LEMMA SaveWrites ==
  ASSUME IInv, NEW r \in Requests, Save(r), row' # row
  PROVE  Written(r)
<1>1. Shape(r) /\ pc[r] = "save" /\ TypeOK
  BY DEF Save, IInv, RequestInv
<1>2. /\ End(r, TRUE) /\ row' = [row EXCEPT ![call[r].item] = Merged(r)]
      /\ Merged(r).under # None => Exists(Merged(r).under)
  BY DEF Save, Stored, Refuse, table
<1>3. pc'[r] = "idle"
  BY <1>1, <1>2 DEF End, Goto, TypeOK
<1> QED
  BY <1>1, <1>2, <1>3 DEF Written, Saves, Shape

LEMMA ArrangePlaces ==
  ASSUME IInv, NEW r \in Requests, Arrange(r)
  PROVE  Placed(r)
<1>1. Shape(r) /\ TypeOK /\ call[r].body \in Body
  BY DEF IInv, RequestInv, TypeOK
<1>2. call[r].item \in Items /\ call[r].body.place \in Places
  BY <1>1 DEF Arrange, Shape, Body
<1> QED
  BY <1>1, <1>2 DEF Arrange, Placed, End, Goto, TypeOK

\* Three kinds of steps change rows, and only these.
LEMMA RowSteps ==
  ASSUME IInv, [Next]_vars, row' # row
  PROVE  \/ \E r \in Requests : Written(r) \/ Placed(r)
         \/ \E X \in SUBSET Items : Delete(X)
<1>1. ASSUME NEW r \in Requests, Arrive(r) PROVE FALSE
  BY <1>1
  DEF Arrive, ReceiveCategory, ReceiveProduct, ReceiveNew, ReceiveEdit, ReceiveBulk, ReceiveCopy,
      ReceiveArrange, ReceiveFavourite, Receive
<1>2. ASSUME NEW r \in Requests, FetchLink(r) \/ Walk(r) \/ Validate(r) \/ InsertFavourite(r)
      PROVE  FALSE
  BY <1>2 DEF FetchLink, Walk, Validate, InsertFavourite, Refuse, table
<1>3. ~(RemoveFavourite \/ UNCHANGED vars)
  BY DEF RemoveFavourite, vars, table
<1>4. CASE DeleteCategories \/ DeleteProducts
  BY <1>4 DEF DeleteCategories, DeleteProducts, Items
<1> QED
  BY <1>1, <1>2, <1>3, <1>4, SaveWrites, ArrangePlaces DEF Next, Proceed

\* A change of places leaves the links and the stores.
LEMMA PlacedKeepsLinks ==
  ASSUME TypeOK, NEW r \in Requests, Placed(r)
  PROVE  \A y \in Items :
           /\ Exists(y)' <=> Exists(y)
           /\ Exists(y) => row'[y].under = row[y].under /\ row'[y].store = row[y].store
<1> SUFFICES ASSUME NEW y \in Items
             PROVE  /\ Exists(y)' <=> Exists(y)
                    /\ Exists(y) => row'[y].under = row[y].under /\ row'[y].store = row[y].store
  OBVIOUS
<1>1. row'[y] = row[y] \/ row'[y] = Arranged(r, y)
  BY DEF Placed, TypeOK
<1>2. CASE row'[y] = row[y]
  BY <1>2 DEF Exists
<1>3. CASE row'[y] = Arranged(r, y) /\ Exists(y)
  <2>1. /\ row'[y].under = row[y].under /\ row'[y].store = row[y].store
        /\ row'[y] \in Row
    BY <1>3, ArrangedRow
  <2> QED
    BY <1>3, <2>1, NoneIsNoRow DEF Exists
<1>4. CASE row'[y] = Arranged(r, y) /\ ~Exists(y)
  BY <1>4 DEF Arranged, Exists
<1> QED
  BY <1>1, <1>2, <1>3, <1>4

\* What a save that nothing has overlapped writes over what is there.
LEMMA FreshSave ==
  ASSUME IInv, NEW r \in Requests, Written(r), ~disturbed[r]
  PROVE  LET x == call[r].item
             b == call[r].body
         IN  /\ Exists(x) => call[r].op = "edit"
             /\ ~Exists(x) => call[r].op \in Makes
             /\ Exists(x) /\ b.store = Keep => Merged(r).store = row[x].store
             /\ Exists(x) /\ b.under = Keep => Merged(r).under = row[x].under
             /\ Exists(x) /\ b.place = Keep => Merged(r).place = row[x].place
             /\ Exists(x) /\ b.text = Keep => Merged(r).text = row[x].text
<1>1. Fresh(r)
  BY DEF IInv, RequestInv
<1> QED
  BY <1>1 DEF Fresh, Written, Merged

-----------------------------------------------------------------------------
(* What owners have undone comes back by stale writes only.                *)

\* The column k of x, in a step of r, as OnlyStaleWritesUndo has it.
Asked(r, x, k) ==
  \/ row'[x][k] \in {row[x][k], call[r].body[k]}
  \/ /\ k = "text" /\ x \in Products /\ call[r].body.text = Keep
     /\ pc[r] = "arrange" /\ disturbed[r]

\* An edit that nothing has overlapped writes what its body names over what is there.
LEMMA FreshSaveAsked ==
  ASSUME IInv, NEW r \in Requests, Written(r), ~disturbed[r], Exists(call[r].item)
  PROVE  \A k \in Columns : Asked(r, call[r].item, k)
<1> DEFINE x == call[r].item
<1>1. row'[x] = Merged(r) /\ x \in Items
  BY DEF Written, IInv, TypeOK
<1>2. /\ Merged(r).store \in {row[x].store, call[r].body.store}
      /\ Merged(r).under \in {row[x].under, call[r].body.under}
      /\ Merged(r).place \in {row[x].place, call[r].body.place}
      /\ Merged(r).text \in {row[x].text, call[r].body.text}
  BY FreshSave DEF Merged
<1> HIDE DEF x
<1>3. /\ Asked(r, x, "store") /\ Asked(r, x, "under") /\ Asked(r, x, "place")
      /\ Asked(r, x, "text")
  BY <1>1, <1>2 DEF Asked
<1> QED
  BY <1>3 DEF Columns, x

\* A change of many writes the place it names and, of a product, the text that it
\* names or has read.
LEMMA PlacedAsked ==
  ASSUME IInv, NEW r \in Requests, Placed(r), Exists(call[r].item)
  PROVE  \A k \in Columns : Asked(r, call[r].item, k)
<1> DEFINE x == call[r].item
<1>0. TypeOK /\ Fresh(r) /\ pc[r] = "arrange" /\ x \in Items /\ Exists(x)
      /\ call[r].op = "arrange" /\ call[r].body.place \in Places
  BY DEF IInv, RequestInv, Shape, Placed
<1>1. row'[x] = Arranged(r, x)
  BY <1>0 DEF Placed, TypeOK
<1> HIDE DEF x
<1>2. /\ row'[x].store = row[x].store /\ row'[x].under = row[x].under
      /\ row'[x].place = Merged(r).place
      /\ row'[x].text = IF x \in Products THEN Merged(r).text ELSE row[x].text
  BY <1>0, <1>1, ArrangedRow
<1>3. Merged(r).place = call[r].body.place
  BY <1>0, CatalogueAssumption DEF Merged
<1>4. /\ Merged(r).text \in {seen[r].text, call[r].body.text}
      /\ call[r].body.text # Keep => Merged(r).text = call[r].body.text
  BY DEF Merged
<1>5. ~disturbed[r] => seen[r].text = row[x].text
  BY <1>0 DEF Fresh, x
<1>6. Asked(r, x, "text")
  BY <1>0, <1>2, <1>4, <1>5 DEF Asked
<1>7. Asked(r, x, "store") /\ Asked(r, x, "under") /\ Asked(r, x, "place")
  BY <1>2, <1>3 DEF Asked
<1> QED
  BY <1>6, <1>7 DEF Columns, x

\* A deleted row is back, and a column has another value, only by the request that
\* names it, by an edit that another write has overlapped, or, of a description, by an
\* overlapped bulk update whose body has none: save() writes every column that was
\* read, bulk_update() eight columns of the rows that are left.
THEOREM WritesUndo == Spec => OnlyStaleWritesUndo
<1>1. IInv /\ [Next]_vars =>
        [\A x \in Items : Exists(x)' =>
           \/ Exists(x) /\ \A k \in Columns : row'[x][k] = row[x][k] \/ Loses(x, k)
           \/ \E r \in Requests :
                /\ pc'[r] = "idle" /\ call[r].item = x
                /\ \/ pc[r] = "save" /\ disturbed[r]
                   \/ pc[r] = "save" /\ ~Exists(x) /\ call[r].op \in {"create", "bulk", "copy"}
                   \/ /\ pc[r] \in {"save", "arrange"} /\ Exists(x)
                      /\ \A k \in Columns :
                           \/ row'[x][k] \in {row[x][k], call[r].body[k]}
                           \/ /\ k = "text" /\ x \in Products /\ call[r].body.text = Keep
                              /\ pc[r] = "arrange" /\ disturbed[r]]_vars
  <2> SUFFICES ASSUME IInv, [Next]_vars, NEW x \in Items, Exists(x)',
                      ~(Exists(x) /\ \A k \in Columns : row'[x][k] = row[x][k] \/ Loses(x, k))
               PROVE  \E r \in Requests :
                        /\ pc'[r] = "idle" /\ call[r].item = x
                        /\ \/ pc[r] = "save" /\ disturbed[r]
                           \/ pc[r] = "save" /\ ~Exists(x) /\ call[r].op \in Makes
                           \/ /\ pc[r] \in {"save", "arrange"} /\ Exists(x)
                              /\ \A k \in Columns : Asked(r, x, k)
    BY DEF Asked, Makes
  <2>0. TypeOK /\ row' # row /\ row'[x] # row[x]
    BY DEF Exists, IInv
  <2>1. ASSUME NEW r \in Requests, Written(r)
        PROVE  /\ pc'[r] = "idle" /\ call[r].item = x /\ pc[r] = "save"
               /\ \/ disturbed[r]
                  \/ ~Exists(x) /\ call[r].op \in Makes
                  \/ Exists(x) /\ \A k \in Columns : Asked(r, x, k)
    <3>1. Saves(r) /\ call[r].item = x
      BY <2>0, <2>1 DEF Written, TypeOK
    <3>2. CASE ~disturbed[r]
      BY <2>1, <3>1, <3>2, FreshSave, FreshSaveAsked DEF Saves
    <3> QED
      BY <3>1, <3>2 DEF Saves
  <2>2. ASSUME NEW r \in Requests, Placed(r)
        PROVE  /\ pc[r] = "arrange" /\ pc'[r] = "idle" /\ call[r].item = x
               /\ Exists(x) /\ \A k \in Columns : Asked(r, x, k)
    <3>1. pc[r] = "arrange" /\ pc'[r] = "idle" /\ call[r].item = x /\ row'[x] = Arranged(r, x)
      BY <2>0, <2>2 DEF Placed, TypeOK
    <3>2. Exists(x)
      BY <3>1 DEF Arranged, Exists
    <3> QED
      BY <2>2, <3>1, <3>2, PlacedAsked
  <2>3. ASSUME NEW X \in SUBSET Items, Delete(X) PROVE FALSE
    <3>1. /\ Exists(x) /\ row'[x].store = row[x].store /\ row'[x].place = row[x].place
          /\ row'[x].text = row[x].text
          /\ \/ row'[x].under = row[x].under
             \/ row'[x].under = None /\ row'[row[x].under] = None
      BY <2>0, <2>3, DeleteLeaves
    <3>2. \A k \in Columns : row'[x][k] = row[x][k] \/ Loses(x, k)
      BY <3>1 DEF Columns, Loses
    <3> QED
      BY <3>1, <3>2
  <2>4. \E r \in Requests : Written(r) \/ Placed(r)
    BY <2>0, <2>3, RowSteps
  <2> QED
    BY <2>1, <2>2, <2>4
<1> QED
  BY <1>1, Invariance, PTL DEF Spec, OnlyStaleWritesUndo

-----------------------------------------------------------------------------
(* The stores of a row and of the category it is under.                    *)

\* A link goes astray by the save of the row itself alone, if that was compared.
LEMMA CheckedSave ==
  ASSUME IInv, NEW r \in Requests, Written(r), ~disturbed[r], call[r].op \in Fetches,
         ~(call[r].body.under = Keep /\ call[r].body.store # Keep),
         NEW x \in Items, call[r].item = x, Astray(x)'
  PROVE  Astray(x)
<1> DEFINE b == call[r].body
           new == Merged(r)
<1>0. TypeOK /\ Fetched(r) /\ Shape(r) /\ Fresh(r) /\ pc[r] = "save"
  BY DEF IInv, RequestInv, Written, Saves
<1>1. row'[x] = new /\ \A y \in Items \ {x} : row'[y] = row[y]
  BY <1>0 DEF Written, TypeOK
<1>2. /\ new.under \in Categories /\ new.store \in Stores
      /\ row'[new.under].store # new.store
  <2>1. new \in Row /\ new.under # None /\ row'[new.under].store # new.store
    BY <1>0, <1>1, MergedType DEF Astray
  <2> QED
    BY <2>1 DEF Row
<1>3. CASE b.under \in Categories
  <2>1. new.under = b.under
    BY <1>3, CatalogueAssumption DEF Merged, Items
  <2>2. b.under # x /\ row[b.under].store = new.store
    BY <1>0, <1>3 DEF Fetched
  <2> QED
    BY <1>1, <1>2, <1>3, <2>1, <2>2 DEF Items
<1>4. CASE b.under \notin Categories
  <2>1. b.under \in {None, Keep}
    <3>1. b \in Body
      BY <1>0 DEF TypeOK
    <3> QED
      BY <1>4, <3>1 DEF Body
  <2>2. b.under = Keep /\ b.store = Keep
    BY <1>2, <2>1, CatalogueAssumption DEF Merged, Items
  <2>3. call[r].op = "edit"
    BY <1>0, <2>2 DEF Shape, Fetches
  <2>4. Exists(x) /\ new.under = row[x].under /\ new.store = row[x].store
    BY <1>0, <2>2, <2>3 DEF Fresh, Merged
  <2>5. row'[new.under].store = row[new.under].store
    BY <1>1, <1>2, <2>4 DEF Items
  <2> QED
    BY <1>2, <2>4, <2>5, NoneIsNoRow, CatalogueAssumption DEF Astray, Items
<1> QED
  BY <1>3, <1>4

\* A row gets a parent or category of another store only by a save that overlaps
\* another, a PATCH of the store alone, the move of a category that has rows under
\* it, a bulk create of products, or the copy of such a product (validate() of
\* CategorySerializer and ProductSerializer stops every other).
THEOREM LinksStayInTheStore == Spec => StoresAgree
<1>1. IInv /\ [Next]_vars =>
        [\A x \in Items : Astray(x)' =>
           \/ Astray(x)
           \/ \E r \in Requests :
                /\ Saves(r)
                /\ \/ disturbed[r] \/ call[r].op \in {"bulk", "copy"} \/ call[r].item # x
                   \/ call[r].body.under = Keep /\ call[r].body.store # Keep]_vars
  <2> SUFFICES ASSUME IInv, [Next]_vars, NEW x \in Items, Astray(x)', ~Astray(x)
               PROVE  \E r \in Requests :
                        /\ Saves(r)
                        /\ \/ disturbed[r] \/ call[r].op \in {"bulk", "copy"} \/ call[r].item # x
                           \/ call[r].body.under = Keep /\ call[r].body.store # Keep
    OBVIOUS
  <2>0. TypeOK /\ Linked /\ row' # row
    BY DEF Astray, Exists, IInv
  <2>1. ASSUME NEW r \in Requests, Written(r)
        PROVE  /\ Saves(r)
               /\ \/ disturbed[r] \/ call[r].op \in {"bulk", "copy"} \/ call[r].item # x
                  \/ call[r].body.under = Keep /\ call[r].body.store # Keep
    <3>1. Saves(r) /\ (call[r].op \notin {"bulk", "copy"} => call[r].op \in Fetches)
      BY <2>1 DEF Written, Makes, Fetches
    <3> QED
      BY <2>1, <3>1, CheckedSave
  <2>2. ASSUME NEW r \in Requests, Placed(r) PROVE FALSE
    <3>1. \A y \in Items : /\ Exists(y)' <=> Exists(y)
                           /\ Exists(y) => row'[y].under = row[y].under
                                           /\ row'[y].store = row[y].store
      BY <2>0, <2>2, PlacedKeepsLinks
    <3>2. Exists(x) /\ row[x].under \in Categories /\ row[x].under = row'[x].under
      BY <2>0, <3>1, RowType DEF Astray
    <3>3. Exists(row[x].under)
      BY <2>0, <3>2, CatalogueAssumption DEF Linked, Items
    <3>4. row'[row[x].under].store = row[row[x].under].store /\ row'[x].store = row[x].store
      BY <3>1, <3>2, <3>3 DEF Items
    <3> QED
      BY <3>2, <3>4 DEF Astray
  <2>3. ASSUME NEW X \in SUBSET Items, Delete(X) PROVE FALSE
    <3>1. /\ Exists(x)' /\ Exists(x) /\ row'[x].under # None /\ row'[x].under \notin X
          /\ row'[x].under = row[x].under /\ row'[x].store = row[x].store
      BY <2>0, <2>3, DeleteLeaves DEF Astray
    <3>2. row[x].under \in Items /\ Exists(row[x].under)
      BY <2>0, <3>1, RowType DEF Linked, Items
    <3>3. row'[row[x].under].store = row[row[x].under].store
      BY <2>0, <2>3, <3>1, <3>2, DeleteLeaves
    <3> QED
      BY <3>1, <3>3 DEF Astray
  <2>4. \E r \in Requests : Written(r)
    BY <2>0, <2>2, <2>3, RowSteps
  <2> QED
    BY <2>1, <2>4
<1> QED
  BY <1>1, Invariance, PTL DEF Spec, StoresAgree

-----------------------------------------------------------------------------
(* Cycles of categories.                                                   *)

\* A map of a finite set onto itself that keeps a part within itself leads from
\* nowhere else into that part.
LEMMA NoWayIn ==
  ASSUME NEW S, IsFiniteSet(S), NEW f, {f[c] : c \in S} = S,
         NEW T \in SUBSET S, \A t \in T : f[t] \in T, NEW x \in S, f[x] \in T
  PROVE  x \in T
<1> SUFFICES ASSUME x \notin T PROVE FALSE
  OBVIOUS
<1> DEFINE D == S \ T
           E == D \ {x}
           g == [c \in E |-> f[c]]
           I == {f[c] : c \in E}
<1>1. IsFiniteSet(D) /\ IsFiniteSet(E) /\ x \in D
  BY FS_Subset
<1>2. Cardinality(D) \in Nat /\ Cardinality(E) = Cardinality(D) - 1
  BY <1>1, FS_RemoveElement, FS_CardinalityType
<1>3. g \in Surjection(E, I)
  BY DEF Surjection
<1>4. IsFiniteSet(I) /\ Cardinality(I) <= Cardinality(E)
  <2> HIDE DEF E, g, I
  <2> QED
    BY <1>1, <1>3, FS_Surjection
<1>5. D \subseteq I
  <2> SUFFICES ASSUME NEW d \in D PROVE d \in I
    OBVIOUS
  <2>1. PICK c \in S : f[c] = d
    OBVIOUS
  <2>2. c \notin T /\ c # x
    BY <2>1
  <2> QED
    BY <2>1, <2>2
<1>6. Cardinality(D) <= Cardinality(I)
  <2> HIDE DEF D, I
  <2> QED
    BY <1>4, <1>5, FS_Subset
<1>7. Cardinality(I) \in Nat
  BY <1>4, FS_CardinalityType
<1> HIDE DEF D, E, I
<1> QED
  BY <1>2, <1>4, <1>6, <1>7

\* Categories that have the parent they had are in no new cycle.
LEMMA NoNewCircle ==
  ASSUME \A c \in Categories : row'[c] # None /\ row'[c].under \in Categories =>
                               row[c] # None /\ row[c].under = row'[c].under
  PROVE  Circular' \subseteq Circular
<1> SUFFICES ASSUME NEW c \in Circular' PROVE c \in Circular
  OBVIOUS
<1>1. PICK S \in SUBSET {d \in Categories : row'[d] # None} :
        {row'[d].under : d \in S} = S /\ c \in S
  BY DEF Circular, Exists
<1>2. \A d \in S : row[d] # None /\ row[d].under = row'[d].under
  BY <1>1
<1>3. S \in SUBSET {d \in Categories : row[d] # None} /\ {row[d].under : d \in S} = S
  BY <1>1, <1>2
<1> QED
  BY <1>1, <1>3 DEF Circular, Exists

\* A save that nothing has overlapped closes no cycle: the walk has met what is above
\* the new parent, and the row itself is not among it.
LEMMA SaveClosesNoCircle ==
  ASSUME IInv, NEW r \in Requests, Written(r), ~disturbed[r]
  PROVE  Circular' \subseteq Circular
<1> DEFINE x == call[r].item
           u == call[r].body.under
           new == Merged(r)
<1>0. /\ TypeOK /\ Shape(r) /\ Fresh(r) /\ Fetched(r) /\ Climbs(r) /\ Linked /\ pc[r] = "save"
      /\ x \in Items /\ call[r].op \in Makes \cup {"edit"}
  BY DEF IInv, RequestInv, Written, Saves
<1>1. row'[x] = new /\ \A y \in Items \ {x} : row'[y] = row[y]
  BY DEF Written, IInv, TypeOK
<1>2. CASE x \notin Categories
  BY <1>1, <1>2, NoNewCircle DEF Items
<1>3. CASE new.under \notin Categories
  BY <1>1, <1>3, NoNewCircle DEF Items
<1>4. CASE u = Keep
  <2>1. call[r].op = "edit" \/ x \in Products
    BY <1>0, <1>4 DEF Shape, Makes
  <2>2. x \in Products => x \notin Categories
    BY CatalogueAssumption
  <2>3. call[r].op = "edit" => row[x] # None /\ new.under = row[x].under
    BY <1>0, <1>4 DEF Fresh, Merged, Exists
  <2> HIDE DEF x, new
  <2> QED
    BY <1>1, <1>2, <2>1, <2>2, <2>3, NoNewCircle DEF Items
<1>5. CASE x \in Categories /\ new.under \in Categories /\ u # Keep
  <2>1. new.under = u /\ u \in Categories
    BY <1>5 DEF Merged
  <2>2. x \notin Products /\ call[r].op \in Fetches
    BY <1>0, <1>5, CatalogueAssumption DEF Shape, Makes, Fetches
  <2>3. u # x
    BY <1>0, <2>1, <2>2 DEF Fetched
  <2> SUFFICES ASSUME NEW c \in Circular' PROVE c \in Circular
    OBVIOUS
  <2>4. PICK S \in SUBSET {d \in Categories : row'[d] # None} :
          {row'[d].under : d \in S} = S /\ c \in S
    BY DEF Circular, Exists
  <2>5. x \notin S
    <3> SUFFICES ASSUME x \in S PROVE FALSE
      OBVIOUS
    <3>1. u \in S
      BY <1>1, <2>1, <2>4
    <3>2. CASE call[r].op = "create"
      <4>1. row[x] = None
        BY <1>0, <3>2 DEF Fresh, Makes, Exists
      <4>2. PICK d \in S : row'[d].under = x
        BY <2>4
      <4>3. d # x
        BY <1>1, <2>1, <2>3, <4>2
      <4>4. d \in Items /\ row[d] # None /\ row[d].under = x
        BY <1>1, <2>4, <4>2, <4>3 DEF Items
      <4> QED
        BY <1>0, <1>5, <4>1, <4>4, CatalogueAssumption DEF Linked, Exists, Items
    <3>3. CASE call[r].op = "edit"
      <4> DEFINE T == S \cap visited[r]
                 f == [d \in S |-> row'[d].under]
      <4>1. /\ x \notin visited[r] /\ u \in visited[r]
            /\ \A v \in visited[r] : row[v].under \in visited[r] \cup {None}
        BY <1>0, <1>5, <2>1, <3>3 DEF Climbs, Ahead
      <4>2. \A t \in T : f[t] \in T
        <5> SUFFICES ASSUME NEW t \in T PROVE f[t] \in T
          OBVIOUS
        <5>1. t \in S /\ t \in Categories /\ t # x /\ row'[t].under \in S
          BY <2>4, <4>1
        <5>2. row'[t].under = row[t].under
          BY <1>1, <5>1 DEF Items
        <5>3. row'[t].under # None
          BY <2>4, <5>1, CatalogueAssumption DEF Items
        <5> QED
          BY <4>1, <5>1, <5>2, <5>3
      <4>3. {f[d] : d \in S} = S
        BY <2>4
      <4>4. f[x] \in T
        BY <1>1, <2>1, <3>1, <4>1
      <4>5. IsFiniteSet(S)
        BY <2>4, CatalogueAssumption, FS_Subset
      <4>6. T \in SUBSET S
        OBVIOUS
      <4> HIDE DEF T, f
      <4>7. x \in T
        BY <4>2, <4>3, <4>4, <4>5, <4>6, NoWayIn
      <4> QED
        BY <4>1, <4>7 DEF T
    <3> QED
      BY <2>2, <3>2, <3>3 DEF Fetches
  <2>6. \A d \in S : row'[d] = row[d]
    BY <1>1, <2>4, <2>5 DEF Items
  <2>7. S \in SUBSET {d \in Categories : row[d] # None} /\ {row[d].under : d \in S} = S
    BY <2>4, <2>6
  <2> QED
    BY <2>4, <2>7 DEF Circular, Exists
<1> QED
  BY <1>2, <1>3, <1>4, <1>5

\* "Prevent circular parent references at any depth": no step makes a category its own
\* ancestor but the save of an edit that another write has overlapped, for
\* _has_ancestor_cycle() walks a tree that others change.
THEOREM CyclesByOverlapOnly == Spec => CyclesNeedOverlap
<1>1. IInv /\ [Next]_vars =>
        [Circular' \subseteq Circular \/ \E r \in Requests : Saves(r) /\ disturbed[r]]_vars
  <2> SUFFICES ASSUME IInv, [Next]_vars, ~(\E r \in Requests : Saves(r) /\ disturbed[r])
               PROVE  Circular' \subseteq Circular
    OBVIOUS
  <2>0. TypeOK
    BY DEF IInv
  <2>1. CASE row' = row
    BY <2>1, NoNewCircle
  <2>2. ASSUME NEW r \in Requests, Written(r) PROVE Circular' \subseteq Circular
    BY <2>2, SaveClosesNoCircle DEF Written
  <2>3. ASSUME NEW r \in Requests, Placed(r) PROVE Circular' \subseteq Circular
    BY <2>0, <2>3, PlacedKeepsLinks, NoNewCircle DEF Exists, Items
  <2>4. ASSUME NEW X \in SUBSET Items, Delete(X) PROVE Circular' \subseteq Circular
    <3>1. ASSUME NEW c \in Categories, row'[c] # None, row'[c].under \in Categories
          PROVE  row[c] # None /\ row[c].under = row'[c].under
      BY <2>0, <2>4, <3>1, DeleteLeaves, CatalogueAssumption DEF Exists, Items
    <3> QED
      BY <3>1, NoNewCircle
  <2> QED
    BY <2>1, <2>2, <2>3, <2>4, RowSteps
<1> QED
  BY <1>1, Invariance, PTL DEF Spec, CyclesNeedOverlap
=============================================================================
