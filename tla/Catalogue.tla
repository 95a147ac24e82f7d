------------------------------ MODULE Catalogue ------------------------------
(***************************************************************************)
(* The catalogue of one owner's stores (apps/products): the tree of        *)
(* categories, the products in it and the favourites of customers.         *)
(*                                                                         *)
(* Category.parent and Product.category are one column here, row[x].under, *)
(* since create, edit and delete treat them alike.  So are Category.order  *)
(* and Product.is_hidden, row[x].place, which one endpoint each sets in    *)
(* many rows; it stands for the seven columns of _BULK_UPDATE_FIELDS that  *)
(* a bulk update always has a value for, and row[x].text, which is         *)
(* Category.name or Product.description, for the eighth.  A parent is      *)
(* walked up to the root before it is saved, one SELECT per ancestor.  No  *)
(* endpoint takes a lock: a request reads its rows and then saves one,     *)
(* with every column it read.  The models that come with a new product are *)
(* part of its row.                                                        *)
(***************************************************************************)
EXTENDS Naturals, FiniteSets

CONSTANTS
  Requests,    \* the requests that may be in flight at the same time
  Categories, Products,
  Places,      \* the values of Category.order and Product.is_hidden
  Plain, Hidden,
  Texts, Blank,
  Initial,     \* the rows there are at the start, top-level in Home
  Stores, Home,
  Customers,
  MaxCalls,    \* bound: the calls clients make
  Operations,  \* bound: the endpoints the clients of an instance call
  None, Keep   \* no row; a column that is not in the body

Items == Categories \cup Products

AllOperations == {"create", "edit", "bulk", "copy", "arrange", "favour"}

Row == [store : Stores, under : Categories \cup {None}, place : Places,
        text : Texts]

ASSUME CatalogueAssumption ==
  /\ IsFiniteSet(Categories)
  /\ Categories \cap Products = {} /\ Initial \subseteq Items /\ Home \in Stores
  /\ {Plain, Hidden} \subseteq Places /\ Blank \in Texts
  /\ MaxCalls \in Nat /\ Operations \subseteq AllOperations
  /\ {None, Keep} \cap (Items \cup Stores \cup Customers \cup Places \cup Texts) = {}
  /\ None \notin Row \cup {Keep}

VARIABLES
  row,        \* row[x]: the columns of x, None without a row
  created,    \* the ids handed out so far
  favourites, \* favourites[f]: the FavoriteProduct rows of a customer and product
  calls,      \* the calls made so far
  pc, call,
  seen,       \* seen[r]: the row that r has in memory
  at,         \* at[r]: the ancestor that r has loaded, and the store of the first
  visited,    \* visited[r]: the visited set of _has_ancestor_cycle()
  loads,      \* history: loads[r], the categories that the walk of r has loaded
  disturbed   \* history: a row was written by another request since r began

table == <<row, created>>
walk  == <<at, visited, loads>>
vars  == <<table, favourites, calls, pc, call, seen, walk, disturbed>>

Body == [store : Stores \cup {Keep}, under : Categories \cup {None, Keep},
         place : Places \cup {Keep}, text : Texts \cup {Keep}]
Unchanged == [store |-> Keep, under |-> Keep, place |-> Keep, text |-> Keep]

\* The body of a POST; a description is added by an edit.
Posted(s, c) == [store |-> s, under |-> c, place |-> Plain, text |-> Blank]

Asks(op, x, b, u) == [op |-> op, item |-> x, body |-> b, customer |-> u]
NoCall == Asks("none", None, Unchanged, None)

NoRow == Posted(Home, None)

Loaded(c, first) == [pk |-> c, up |-> row[c].under, store |-> first]
Nowhere == [pk |-> None, up |-> None, store |-> None]

TypeOK ==
  /\ row \in [Items -> Row \cup {None}] /\ created \subseteq Items
  /\ favourites \in [Customers \X Products -> Nat] /\ calls \in 0..MaxCalls
  /\ pc \in [Requests -> {"idle", "fetch", "walk", "validate", "save", "arrange", "insert"}]
  /\ call \in [Requests -> [op : AllOperations \cup {"none"}, item : Items \cup {None},
                            body : Body, customer : Customers \cup {None}]]
  /\ seen \in [Requests -> Row]
  /\ at \in [Requests -> [pk : Categories \cup {None}, up : Categories \cup {None},
                          store : Stores \cup {None}]]
  /\ visited \in [Requests -> SUBSET Categories] /\ disturbed \in [Requests -> BOOLEAN]
  /\ loads \in [Requests -> Nat]

Init ==
  /\ row = [x \in Items |-> IF x \in Initial THEN NoRow ELSE None] /\ created = Initial
  /\ favourites = [f \in Customers \X Products |-> 0] /\ calls = 0
  /\ pc = [r \in Requests |-> "idle"] /\ call = [r \in Requests |-> NoCall]
  /\ seen = [r \in Requests |-> NoRow] /\ at = [r \in Requests |-> Nowhere]
  /\ visited = [r \in Requests |-> {}] /\ loads = [r \in Requests |-> 0]
  /\ disturbed = [r \in Requests |-> FALSE]

-----------------------------------------------------------------------------
Exists(x) == row[x] # None

Goto(r, to) == pc' = [pc EXCEPT ![r] = to]

Called == calls < MaxCalls /\ calls' = calls + 1

Receive(r, c, read, to) ==
  /\ pc[r] = "idle" /\ c.op \in Operations
  /\ Called
  /\ Goto(r, to)
  /\ call' = [call EXCEPT ![r] = c]
  /\ seen' = [seen EXCEPT ![r] = read]
  /\ UNCHANGED <<row, favourites, walk, disturbed>>

\* The end of a request; in a step that has written rows the others are disturbed.
End(r, wrote) ==
  /\ Goto(r, "idle")
  /\ call' = [call EXCEPT ![r] = NoCall]
  /\ seen' = [seen EXCEPT ![r] = NoRow]
  /\ at' = [at EXCEPT ![r] = Nowhere]
  /\ visited' = [visited EXCEPT ![r] = {}]
  /\ loads' = [loads EXCEPT ![r] = 0]
  /\ disturbed' = [q \in Requests |-> q # r /\ (disturbed[q] \/ (wrote /\ pc[q] # "idle"))]

\* A 400, a 404, or an error that ends the request.
Refuse(r) == End(r, FALSE) /\ UNCHANGED <<table, favourites, calls>>

-----------------------------------------------------------------------------
(* Create and edit.                                                        *)

Links == Categories \cup {None}

\* A link that is named is fetched before anything is saved.
FirstStep(b) == IF b.under \in Categories THEN "fetch" ELSE "save"

ReceiveNew(r, X) ==
  \E x \in X \ created, s \in Stores, c \in Links :
    /\ Receive(r, Asks("create", x, Posted(s, c), None), NoRow, FirstStep(Posted(s, c)))
    /\ created' = created \cup {x}

\* POST of one, or a row of a bulk create.
ReceiveCategory(r) == ReceiveNew(r, Categories)
ReceiveProduct(r) == ReceiveNew(r, Products)

\* Bound: an edit names the place alone, the text alone, or the store and the link.
Edits == {b \in Body : \/ b.place = Keep /\ b.text = Keep
                       \/ b.store = Keep /\ b.under = Keep /\ Keep \in {b.place, b.text}}

\* get_object() of the detail views.
ReceiveEdit(r) ==
  \E x \in Items, b \in Edits :
    /\ Exists(x)
    /\ Receive(r, Asks("edit", x, b, None), row[x], FirstStep(b))
    /\ UNCHANGED created

\* One row of POST /products/my/bulk-create/: a category that is not there is
\* left out, and its store is not compared.
ReceiveBulk(r) ==
  \E x \in Products \ created, s \in Stores, c \in Links :
    /\ Receive(r, Asks("bulk", x, Posted(s, IF c # None /\ Exists(c) THEN c ELSE None), None),
               NoRow, "save")
    /\ created' = created \cup {x}

ReceiveCopy(r) ==
  \E x \in Products \ created, original \in Products :
    /\ Exists(original)
    /\ Receive(r, Asks("copy", x, [Unchanged EXCEPT !.place = Hidden], None), row[original], "save")
    /\ created' = created \cup {x}

\* A row of POST /categories/set-ordering/ or of PATCH /products/my/bulk-update/;
\* is_hidden has a default, so that a body always has it, the description has none.
ReceiveArrange(r) ==
  \E x \in Items, p \in Places, t \in Texts \cup {Keep} :
    /\ Exists(x)
    /\ t # Keep => x \in Products
    /\ Receive(r, Asks("arrange", x, [Unchanged EXCEPT !.place = p, !.text = t], None),
               row[x], "arrange")
    /\ UNCHANGED created

\* The primary-key field of the serializer loads the category; only the edit of a
\* category has a cycle to fear.
FetchLink(r) ==
  LET c == call[r].body.under
      walks == call[r].op = "edit" /\ call[r].item \in Categories
  IN  /\ pc[r] = "fetch"
      /\ IF ~Exists(c) \/ c = call[r].item
         THEN Refuse(r)
         ELSE /\ at' = [at EXCEPT ![r] = Loaded(c, row[c].store)]
              /\ Goto(r, IF walks THEN "walk" ELSE "validate")
              /\ UNCHANGED <<table, favourites, calls, call, seen, visited, loads, disturbed>>

\* Faulty variant: the direct parent alone is compared.
DirectParent(r) == at[r].pk = call[r].body.under /\ at[r].up = call[r].item

\* The target, or a category the walk has met before, closes a cycle.
ClosesCycle(r) == at[r].pk \in visited[r] \cup {call[r].item}

\* Faulty variant: the walk keeps no visited set.
Forgets(r) == {}

Visits(r) == visited[r] \cup {at[r].pk}

\* One iteration of _has_ancestor_cycle(); an ancestor is read anew each time,
\* since the one that was loaded with it is not in __dict__.
Walk(r) ==
  LET up == at[r].up
  IN  /\ pc[r] = "walk"
      /\ IF ClosesCycle(r)
         THEN Refuse(r)
         ELSE /\ visited' = [visited EXCEPT ![r] = Visits(r)]
              /\ loads' = [loads EXCEPT ![r] = @ + 1]
              /\ IF up # None /\ Exists(up)
                 THEN at' = [at EXCEPT ![r] = Loaded(up, @.store)] /\ UNCHANGED pc
                 ELSE Goto(r, "validate") /\ UNCHANGED at
              /\ UNCHANGED <<table, favourites, calls, call, seen, disturbed>>

\* Columns of the body over the columns that were read.
Merged(r) ==
  LET b == call[r].body
  IN  [store |-> IF b.store = Keep THEN seen[r].store ELSE b.store,
       under |-> IF b.under = Keep THEN seen[r].under ELSE b.under,
       place |-> IF b.place = Keep THEN seen[r].place ELSE b.place,
       text  |-> IF b.text = Keep THEN seen[r].text ELSE b.text]

\* Faulty variant: no comparison of the stores.
AnyStore(r) == TRUE

\* The store of the category as it was loaded.
SameStore(r) == at[r].store = Merged(r).store

\* validate() of the serializers.
Validate(r) ==
  /\ pc[r] = "validate"
  /\ IF SameStore(r)
     THEN /\ Goto(r, "save")
          /\ UNCHANGED <<table, favourites, calls, call, seen, walk, disturbed>>
     ELSE Refuse(r)

\* Faulty variant: the store of the row for its parent.
Crossed(new) == [new EXCEPT !.store = new.under]

Stored(new) == new

\* save(): an UPDATE of all columns, or an INSERT when no row is left.  The foreign
\* key refuses a category that is gone.
Save(r) ==
  LET new == Merged(r)
  IN  /\ pc[r] = "save"
      /\ IF new.under # None /\ ~Exists(new.under)
         THEN Refuse(r)
         ELSE /\ row' = [row EXCEPT ![call[r].item] = Stored(new)]
              /\ End(r, TRUE)
              /\ UNCHANGED <<created, favourites, calls>>

\* Faulty variant: the instance is saved.
Inserted(r, x) == Merged(r)

\* An UPDATE by primary key of the rows that are left: of the order of a category; of
\* all _BULK_UPDATE_FIELDS of a product, where the body is silent as they were read.
Arranged(r, x) ==
  IF Exists(x)
  THEN [row[x] EXCEPT !.place = Merged(r).place,
                      !.text = IF x \in Products THEN Merged(r).text ELSE @]
  ELSE None

\* bulk_update().
Arrange(r) ==
  LET x == call[r].item
  IN  /\ pc[r] = "arrange"
      /\ row' = [row EXCEPT ![x] = Arranged(r, x)]
      /\ End(r, TRUE)
      /\ UNCHANGED <<created, favourites, calls>>

\* on_delete: what is under a category loses its link (SET_NULL) ...
Unlinked(X) ==
  [x \in Items |-> IF x \in X THEN None
                   ELSE IF Exists(x) /\ row[x].under \in X
                        THEN [row[x] EXCEPT !.under = None] ELSE row[x]]

\* ... and the favourites go with their product (CASCADE).
Remaining(X) == [f \in Customers \X Products |-> IF f[2] \in X THEN 0 ELSE favourites[f]]

Delete(X) ==
  /\ X # {} /\ \A x \in X : Exists(x)
  /\ Called
  /\ row' = Unlinked(X)
  /\ favourites' = Remaining(X)
  /\ disturbed' = [r \in Requests |-> disturbed[r] \/ pc[r] # "idle"]
  /\ UNCHANGED <<created, pc, call, seen, walk>>

\* DELETE of one, or of many in one statement.
DeleteCategories == \E X \in SUBSET Categories : Delete(X)
DeleteProducts == \E X \in SUBSET Products : Delete(X)

-----------------------------------------------------------------------------
(* Favourites.                                                             *)

\* validate_product().
NotYetFavourite(u, p) == favourites[<<u, p>>] = 0

ReceiveFavourite(r) ==
  \E u \in Customers, p \in Products :
    /\ Exists(p) /\ NotYetFavourite(u, p)
    /\ Receive(r, Asks("favour", p, Unchanged, u), NoRow, "insert")
    /\ UNCHANGED created

\* Faulty variant: no constraint.
NeverTaken(f) == FALSE

\* unique_together of FavoriteProduct.
FavouriteTaken(f) == favourites[f] > 0

\* An IntegrityError, of the constraint or of the product's key, is a 400.
InsertFavourite(r) ==
  LET f == <<call[r].customer, call[r].item>>
  IN  /\ pc[r] = "insert"
      /\ IF FavouriteTaken(f) \/ ~Exists(call[r].item)
         THEN Refuse(r)
         ELSE /\ favourites' = [favourites EXCEPT ![f] = @ + 1]
              /\ End(r, FALSE)
              /\ UNCHANGED <<table, calls>>

RemoveFavourite ==
  \E f \in Customers \X Products :
    /\ favourites[f] > 0
    /\ favourites' = [favourites EXCEPT ![f] = @ - 1]
    /\ UNCHANGED <<table, calls, pc, call, seen, walk, disturbed>>

-----------------------------------------------------------------------------
Arrive(r) == \/ ReceiveCategory(r) \/ ReceiveProduct(r) \/ ReceiveEdit(r) \/ ReceiveBulk(r)
             \/ ReceiveCopy(r) \/ ReceiveArrange(r) \/ ReceiveFavourite(r)

Proceed(r) == FetchLink(r) \/ Walk(r) \/ Validate(r) \/ Save(r) \/ Arrange(r)
              \/ InsertFavourite(r)

Next == \/ \E r \in Requests : Arrive(r) \/ Proceed(r)
        \/ DeleteCategories \/ DeleteProducts \/ RemoveFavourite

Spec == Init /\ [][Next]_vars

-----------------------------------------------------------------------------
(* Properties.                                                             *)

\* The categories that are their own ancestors.
Circular ==
  UNION {S \in SUBSET {c \in Categories : Exists(c)} : {row[c].under : c \in S} = S}

Saves(r) == pc[r] = "save" /\ pc'[r] = "idle"

\* "Prevent circular parent references at any depth": no category becomes its
\* own ancestor by an edit that nothing was written during; overlapping edits do it.
CyclesNeedOverlap ==
  [][Circular' \subseteq Circular \/ \E r \in Requests : Saves(r) /\ disturbed[r]]_vars

\* The check of a parent ends: on a tree that has a cycle already, and while others
\* change the tree under it, no walk goes on for longer than there are categories.
WalksAreShort == \A r \in Requests : loads[r] <= Cardinality(Categories)

Astray(x) ==
  Exists(x) /\ row[x].under # None /\ row[row[x].under].store # row[x].store

\* A row gets a parent or category of another store only by a save that overlaps
\* another, a PATCH of the store alone, the move of a category that has rows under
\* it, a bulk create of products, or the copy of such a product.
StoresAgree ==
  [][\A x \in Items : Astray(x)' =>
       \/ Astray(x)
       \/ \E r \in Requests :
            /\ Saves(r)
            /\ \/ disturbed[r] \/ call[r].op \in {"bulk", "copy"} \/ call[r].item # x
               \/ call[r].body.under = Keep /\ call[r].body.store # Keep]_vars

Columns == {"store", "under", "place", "text"}

\* A row loses its link with the category.
Loses(x, k) == k = "under" /\ row'[x].under = None /\ row'[row[x].under] = None

\* What an owner has deleted, moved, hidden or written stays so: a deleted row is
\* back, and a column has another value than the request that writes it names, only
\* after an edit that another write has overlapped.  A change of many rows at once
\* brings no row back; overlapped, it undoes the description of a product, and no
\* other column, and this when its body has no description.
OnlyStaleWritesUndo ==
  [][\A x \in Items : Exists(x)' =>
       \/ Exists(x) /\ \A k \in Columns : row'[x][k] = row[x][k] \/ Loses(x, k)
       \/ \E r \in Requests :
            /\ pc'[r] = "idle" /\ call[r].item = x
            /\ \/ pc[r] = "save" /\ disturbed[r]
               \/ pc[r] = "save" /\ ~Exists(x) /\ call[r].op \in {"create", "bulk", "copy"}
               \/ /\ pc[r] \in {"save", "arrange"} /\ Exists(x)
                  /\ \A k \in Columns :
                       \/ row'[x][k] \in {row[x][k], call[r].body[k]}
                       \/ /\ k = "text" /\ x \in Products /\ call[r].body.text = Keep
                          /\ pc[r] = "arrange" /\ disturbed[r]]_vars

\* Customers who add and remove a product twice at a time, while it is deleted, are
\* left with one favourite at most, and with none of a product that is gone.
OneFavourite ==
  \A u \in Customers, p \in Products :
    favourites[<<u, p>>] <= IF Exists(p) THEN 1 ELSE 0
=============================================================================
