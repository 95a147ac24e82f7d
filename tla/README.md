# Dukon in TLA+

Dukon is the backend of a marketplace: a Django REST application in which store
owners sell products, buyers place orders, and operators manage both. It runs as
several gunicorn workers of several threads each, on one PostgreSQL database at
READ COMMITTED, with Redis as cache and Celery broker. Nothing is kept in a
worker's memory between two requests, so all that can go wrong between requests
goes wrong in the database: a value read without a lock and used later, rows
locked in different orders, a transaction that fails half-way, a client that
retries.

This directory holds TLA+ modules of the parts where that matters most, TLC
configurations that check them on small instances, and proofs for TLAPS that the
safety properties hold of every instance.

Contents: 1 the system, 2 the modules, 3 from code to model, 4 the runs,
5 bounds, 6 fairness and deadlock, 7 where code and documentation disagree,
8 the proofs, 9 what is not modelled, 10 the plan.


## 1. The system

### 1.1 Components

| component | state | operations that change it |
| --- | --- | --- |
| Orders (`apps/orders`) | `Order` with three status columns, buyer, idempotency key; `OrderItem` | create, PATCH of statuses and items, DELETE (cancel), bulk cancel, upload of a payment photo |
| Stock (`apps/products`, `ProductModel.quantity`) | one counter per product model | debited and restored by the orders app; written by the edit of a product model; removed by its deletion |
| Stores (`apps/stores`) | `Store` with balance and tariff, `Promocode`, `StoreTariffPlan`, `StoreBalanceTransaction` (the ledger), `Slide` | activate a promocode, buy a plan, create, edit, order and delete slides, edit and delete stores |
| Catalogue (`apps/products`) | `Category` (a tree), `Product`, photos, `FavoriteProduct` | create, edit, order, bulk create and update, copy, delete; add and remove favourites |
| Verification codes (`apps/accounts`) | `VerificationCode`, hashed, with purpose, expiry, use flag, key | issue (voids the earlier ones), redeem (one UPDATE), clean up; delivery by a Celery task with retries |
| Login (`apps/accounts`) | 2FA session and attempt counter in Redis, outstanding and blacklisted refresh tokens, `last_activity` | login, confirm and resend 2FA, change and reset of the password, change of phone, deactivation, logout, edit of the profile |
| Employees (`apps/employees`) | one session token per employee with its time, a failure counter in Redis | login (reuses a valid token), logout (rotates it), create, edit, delete |
| Notifications, countries (`apps/notifications`, `apps/countryapi`) | read flags; a catalogue | mark as read; none |
| Common, configuration | none | none |

### 1.2 How they interact

There are no events and no internal messages. Components meet in rows:

* Orders and the catalogue share the `ProductModel` rows. An order takes
  `quantity` from the row and gives it back; the owner of the product edits the
  same row, or deletes it, in which case the items of old orders stay with
  `product` NULL.
* Orders and stores meet through the owner: `_store_owner_qs()` shows an order to
  the owner of a store as long as the order has an item the store still sells.
* Promocodes, tariffs, the ledger and the slides of a store meet in the `Store`
  row, whose lock (`SELECT ... FOR UPDATE`) serialises them.
* The deletion of a store takes its products, and by them the items of orders.
* Accounts hands a code to Celery by `send_whatsapp_code_task.delay()` after the
  transaction that created it. Login, reset of the password and change of phone
  issue and redeem codes.

### 1.3 What is hard

* *Checks on unlocked rows.* Serializers validate (stock, status transitions,
  ownership, idempotency key) before the transaction opens. The code repeats the
  checks that matter under the lock; the properties say that it repeats enough.
* *Several rows per transaction.* A create or a PATCH locks many product rows. The
  code sorts its locking query; it does not sort every statement that locks.
* *Retries.* Clients repeat a create, a promocode or a purchase with an
  Idempotency-Key; the look-up on arrival races with the first request.
* *Writers that do not take part.* A `ModelSerializer` saves every column of an
  instance it read without a lock. The edit of a store, a slide, a product, a
  product model, a category, an employee or a profile and the upload of a payment
  photo are such writers; when the row is gone, `save()` inserts it again.
* *Two keys in a cache.* A session and its counter of wrong guesses are separate
  keys of Redis with a time to live each, and every command is a step.
* *Time.* Codes, sessions, counters and tokens expire between two steps, and a
  Celery task may run late, twice or never.
* *Failure.* A worker may die at any statement: gunicorn kills it after its
  timeout, and deployments restart it. PostgreSQL rolls back.

### 1.4 What makes each component correct

| component | properties |
| --- | --- |
| Orders and stock | stock never negative (`StockNonNegative`); what is in stock and what open orders hold add up (`StockConserved`); closed orders stay closed (`TerminalIsFinal`); statuses follow the maps (`StatusFollowsMap`); one order per key (`OneOrderPerKey`); requests end (`RequestsEnd`); every commit is one whole operation (`ImplementsOrderBook`) |
| Stores | balance never negative (`BalanceNonNegative`); a promocode is credited once (`CodeCreditedOnce`); one transaction per key (`OneEntryPerKey`); every row of the ledger is what the balance did (`LedgerRecordsBalance`), and what moves the balance apart from it is a stale edit (`OnlyStaleEditsLoseMoney`); the limit and the order of slides (`OnlyStaleEditsUndoSlides`); no store with active orders is deleted (`NoActiveOrderAtDeletion`, violated) |
| Unlocked writers | closed orders reopen, and stock moves without an order, by stale saves alone or into a row that such a save brought back (`OnlyStaleUploadsReopen`, `OnlyStaleEditsMoveStock`) |
| Catalogue | the tree gets a cycle by overlapping writes alone (`CyclesNeedOverlap`); the walk to the root ends on any tree (`WalksAreShort`); parent and store agree, but for five named ways (`StoresAgree`); deleted rows stay deleted and a column has the value last asked for (`OnlyStaleWritesUndo`), but for overlapped edits and the description in an overlapped bulk update; one favourite per customer and product (`OneFavourite`) |
| Verification codes | a code is redeemed once, in time, and verifies the user of its phone or moves one who asked for it (`ImplementsOneTimeCodes`); two codes are valid together only if their issues overlapped (`OnlyOverlappingIssuesCoexist`); every message is for a committed code (`NoPhantomMessage`); a registration issues a code (`RegistrationIssuesCode`, violated) |
| Login | guesses per counter are bounded by the limit, the requests in flight and the times that the counter is overwritten (`GuessesBounded`); a session is not there again after its deletion (`DroppedSessionsStayGone`); no refresh token survives a change of the account (`EarlierTokensEnd`); passwords and deactivations are not undone (`OnlyProfileEditsRevert`) |
| Employees | the lockout holds (`FailuresBounded`); logins share a token (`LoginsShareToken`); an ended token is never handed out (`NoEndedTokenHandedOut`); what brings one back is a stale edit (`OnlyStaleEditsRevive`) |


## 2. The modules

| module | what it is |
| --- | --- |
| `OrderStatus` | the three status columns, the transition maps, the effect of a patch; constants only |
| `Orders` | the orders app and the stock under concurrent requests, lock by lock |
| `OrderBook` | the abstract specification of `Orders`: each operation happens at once, no locks, no requests |
| `StaleSavers` | `Orders` together with the writers of its rows that take no part in its locking: photo upload, edit of a product model, deletion of stores |
| `Stores` | the account of a store: promocodes, plans, ledger, slides, edits |
| `VerificationCodes` | issue, delivery, confirmation and clean-up of the codes, with clock, crashes and Celery |
| `OneTimeCodes` | the abstract specification of `VerificationCodes`: a code is live until it is accepted or void, counts its uses, and its redemption alone changes an account |
| `Login` | 2FA sessions and counters in the cache, refresh tokens, changes of the account |
| `Employees` | login with lockout, logout and edits of the staff |
| `Catalogue` | the tree of categories, products, favourites |
| `MCOrders`, `MCStaleSavers`, `MCStores`, `MCCodes`, `MCLogin`, `MCEmployees`, `MCCatalogue` | instances for TLC |
| `OrdersProofs`, `SaversProofs`, `StoresProofs`, `CodesProofs`, `LoginProofs`, `EmployeesProofs`, `CatalogueProofs` | theorems about the module of that name and their proofs; `SaversProofs` is about `StaleSavers`, `CodesProofs` about `VerificationCodes` |
| `SetLemmas` | lemmas on finite sets that several of them use |

`Orders` extends `OrderStatus`; `StaleSavers` extends `Orders` and adds its own
actions to `Next`; `Orders` instantiates `OrderBook` under the same variable names: the refinement mapping is the identity on the committed tables and hides
locks, program counters and uncommitted writes. `VerificationCodes` instantiates
`OneTimeCodes` with a mapping of its own: whether a row is live, accepted or void
is computed from the flags, the clock and the statements under way (`Over`), and
what it was issued for from the columns of its row (`About`).

`Login` meets `VerificationCodes` at the codes of the second factor. It is not
composed with it: it keeps of a code only whether it is still live, which is what
`OneTimeCodes` promises of it. The rest of the modules share no state that the
code reads in two of them; what they share, `StaleSavers` composes.

Definitions marked "Faulty variant" are not part of any specification. Each is a
mutation of the definition that follows it (a dropped lock, a forgotten
constraint, the guard of an earlier version of the code); substituted for it, it
breaks the property it is paired with in `PROJECT.json`.


## 3. From code to model

### 3.1 A request

In every module a request `r` is one HTTP call served by one thread.
`pc[r]` says where it stands, `call[r]` what it asks for. Its life is:

1. *Arrival* (`Receive...`): the look-ups of the view and the checks of the
   serializer, all on committed rows and without locks. They are one step: what
   they read is only used to refuse the request. What is used later without being
   read again is kept in `seen[r]` (`Stores`, `Login`, `Employees`, `Catalogue`), in
   `todo[r]` (`Orders`) or in the state of the writer (`StaleSavers`).
2. *Locks*, one row per step, waiting while another transaction has the row.
3. *Writes* to rows nobody else sees until the commit. `Orders` keeps them in
   `pending[r]`, because a transaction stands for several steps between its first
   stock UPDATE and its commit and others read the committed value meanwhile.
   `VerificationCodes` keeps the rows it has voided locked until the commit. In
   `Stores` and `Employees` all writes of a transaction happen under one lock and
   are one step with the commit. Outside a transaction each statement is a commit.
4. *Commit* or *rollback*, which releases all locks. `Fail(r)` ends a request at
   any point: a worker that dies, a connection that is lost, any exception. What
   was committed before stays. `Catalogue` needs no such action: each of its
   requests writes once, so one that fails is one that was refused.

The transactions end where `@transaction.atomic` or `with transaction.atomic()`
ends; `ATOMIC_REQUESTS` is not set, so the views' own look-ups are outside.

### 3.2 Orders

| code | model |
| --- | --- |
| `OrderListCreateView.post`: key look-up, serializer | `ReceiveCreate` (`Existing`, `PassesPreflight`) |
| `create_order()`: sorted `SELECT ... FOR UPDATE` of the product rows | `LockProduct`, one row at a time in `Meta.ordering` (`NameRank`) |
| its stock check and debits | `CheckStock` |
| INSERT of order and items, commit | `CommitCreate`; `DuplicateKey` on an IntegrityError |
| `OrderDetailView.destroy`, `cancel_order()` | `ReceiveDelete`, `LockForCancel`, `UpdateStock` per item, `CommitCancel` |
| `OrderMultipleDeleteView.post` | `ReceiveBulk`, `UpdateStock` per item, `CommitCancel` |
| `OrderUpdateSerializer` validation | `ReceivePatch` (`Legal`, `PassesPreflight`) |
| `update()`: lock of the order, `_recheck_status_transitions_locked()`, closing or not | `LockForPatch` |
| `update()`: query for new and increased products, check | `LockProduct`, `CheckStock` |
| `update()`: stock UPDATE per changed or removed item | `UpdateStock` |
| the quantities those UPDATEs add, fetched with the items | `todo[r]`: `ItemRows`, `ChangedRows` |
| `update()`: saves, commit | `CommitPatch` |
| deletion of a product model (`SET_NULL` on its items) | `DeleteProduct` |
| PostgreSQL's deadlock detector | `WaitCycle`, `DeadlockVictim` |

Abstractions, each with its reason:

* The items of an order are a function from products to quantities, 0 for none:
  the serializer refuses two items for one product and quantities below 1. Stock
  UPDATEs of one transaction run in any order: the code follows the order of the
  client's list or of the query, which the model does not fix. Each adds the
  quantity that was fetched with the items, whatever has become of them since.
* `update()` also locks the item rows (folded into `LockForPatch`; other requests
  reach them only by way of the order row, product deletion checks them in
  `HoldsItemRow`) and, because of `select_related`, the parent `Product` rows.
  The latter are only ever locked there; leaving them out removes waits and adds
  interleavings, so it hides no bad state.
* A concurrent insert of the same key waits for the first to commit or roll back.
  The model decides at the commit: the one waited for needs no further lock, so no
  wait is lost, and the outcome is the same.
* `skip_locked` is one statement, hence one step. A store owner who is not staff
  gets nowhere in the bulk view: `FOR UPDATE` on a `DISTINCT` query is an error in
  PostgreSQL; therefore `u \in Staff` in `ReceiveBulk`.
* The database's CHECK constraints (quantity and balance not negative) are left
  out on purpose: the properties must hold by the code's own checks.
* `DeleteProduct` is one step: Django collects, nulls the items and deletes in
  one transaction. It takes part in no cycle of the detector.
* Payment type, address, prices, photos and `notifications_sent` are left out.

### 3.3 Unlocked writers and the deletion of stores

`OrderUploadCheckView.patch` and the PATCH or PUT of a product model are two
steps: read (`ReadOrder`, `ReadProduct`), then `save()` (`SaveOrder`,
`SaveProduct`), which writes every column. The UPDATE itself waits for the row
lock. When the row is gone, `save()` inserts it again; `relisted` remembers it, for
a cancel that had fetched its items before the deletion then finds a row to pay
into. The body is one that names
no modelled column: a PATCH that sets `quantity` on purpose is an owner's
decision, of which there is nothing to say.

The bulk deletion of stores locks the stores and looks for active orders
(`CheckStore`), then deletes (`DeleteChecked`); the DELETE of one store
(`DeleteStore`) has no such guard. The cascade takes the products of the store and
sets the items of orders to no product: it is `DeleteProduct` for all of them in
one step, and waits for the same rows.

### 3.4 Stores

| code | model |
| --- | --- |
| `ActivatePromocodeView.post`, `activate_promocode()` | `ReceivePromo`, `LockStore`, `LockCode`, `Credit` or `Refuse` |
| `SetTariffPlanView.post`, `get_tariff_price()`, `purchase_tariff()` | `ReceiveTariff` (`Plans`, `Handled`, `HasPlan`), `LockStore`, `Purchase` or `Refuse` |
| `StoreSlideListCreateView`, `create_slide_locked()` | `ReceiveSlide`, `LockStore`, `CountSlides`, `InsertSlide` |
| `StoreDetailView` PATCH | `ReceiveStoreEdit`, `SaveStore` |
| `StoreSlideDetailView` PATCH | `ReceiveSlideEdit`, `SaveSlide` |
| `reorder_slides()` | `ReceiveOrdering`, `Reorder` |
| DELETE and bulk deletion of slides | `DeleteSlide` |

Abstractions: a plan is a tariff with a duration, and what is on offer is the
domain of `Price`; a ledger row of a purchase stands for its `StoreTariffPlan` as
well, as both are inserted together; ids of slides are never used again
(`issued`), as a sequence of the database. The amount of a promocode may be any
integer, since the column is unconstrained and the code tests it (`Redeemable`).
`tariff_plan` is a writable field of the store's PATCH, and the model lets a client
write it. An ordering of several slides is one row of it: the rows are independent.
The body of a POST may name the place of a slide. `save()` of a slide whose row is
gone is an UPDATE of nothing and an INSERT, one step here: the UPDATE that matches
no row changes nothing, and an INSERT that meets a row is an error, which is `Fail`.

### 3.5 Verification codes

| code | model |
| --- | --- |
| registration: the user's row; `create_bonus_card()` | `Register`; `CreateCard`, `CardsCollide` |
| resend, forgotten password, request to change the phone | `ReceiveResend`, `ReceiveForgot`, `ReceiveChange` |
| `create_verification_code()` up to the transaction | `BeginIssue`; `Unissued` for an unbound name or a code that exists |
| its UPDATE of the earlier codes; its INSERT and commit | `Void`; `CommitIssue` (`KeyTaken`) |
| `send_whatsapp_code_task.delay()`; the task | `Send`; `SendMessage` |
| verify, reset, confirmation of the change | `ReceiveVerify`, `ReceiveReset`, `ReceiveMove` |
| `validate_verification_code()` and its effect | `LookForCode`, `LookForPending`, `LockPending`, `Redeem` |
| `cleanup_expired_codes_task` | `CleanUp` |

A statement of PostgreSQL at READ COMMITTED selects its rows from the snapshot of
its start, waits for those that another transaction has changed, and tests them
again. That is two steps here: the first fills `snap[r]`, the second acts on what
is left of it. The value of a code is an element of a small set, and any value may
be submitted: a guess may be right. A task may be run at any time after it was
queued, in any order, more than once, or never, as retries, several workers and a
full retry count allow. The effect of a reset, a new hash, is left out: `Login` has
it. `uses` counts, row by row, the confirmations that redeemed it.
`OneTimeCodes` lets it rise from 0 alone, in a step `Verify`, `Reset` or `Move`, of
which the first changes no account but that of the user who has the phone and the
last none but that of a user for whom a code of the phone was issued and is unused.
The code matches a change of phone by phone and value, not by user: two users who
ask for one phone and draw one value redeem each other's rows. Hence `Move` asks for
an unused code of the user, not that only this one is redeemed. `Unissued` is the issue of a request that came without a key, which is always
possible, or with a key that has its code.

### 3.6 Login

| code | model |
| --- | --- |
| login, resend and confirmation on arrival | `ReceiveLogin`, `ReceiveResend`, `ReceiveConfirm` |
| `cache.set()` of the session, the code | `OpenSession`, `IssueCode`, `NoCode`; `SetSession` after a resend |
| the counter: `get`, `add`, `incr`, `delete` | `CheckAttempts`, `AddCounter`, `IncrCounter`, `ClearCounter` |
| its fallback when `incr` finds no counter: `get`, `set` | `GetCounter`, `PutCounter` |
| comparison of the code | `RightGuess`, `WrongGuess` |
| deletion of the session | `DropSession` |
| `last_activity`, `get_tokens_for_user()` | `SaveActivity`, `Answer` |
| change and reset of the password, change of phone, deactivation | `ReceiveRevoking`, `SaveColumn` |
| `blacklist_all_user_tokens()` | `ListTokens`, `BlacklistTokens` |
| logout; switch of 2FA; edit of the profile | `Logout`; `SwitchTwoFA`; `ReceiveProfile`, `SaveProfile` |
| times to live in Redis and of a code | `ExpireSession`, `ExpireCounter`, `ExpireCode` |

A password is the number of its changes. The counter is compared with the limit
alone, so values above it are kept as the limit (`Capped`). `wrong[s]` counts the
wrong guesses of one life of the counter and `restarts[s]` how often `PutCounter`
has overwritten a counter that was there. Access tokens are stateless and left out,
and so is the rotation of refresh tokens, which is the library's.

### 3.7 Employees

| code | model |
| --- | --- |
| `EmployeeLoginView`: lockout, unlocked read, counter | `ReceiveLogin`, `CheckLockout`, `RightPassword`, `WrongPassword`, `AddCounter`, `IncrCounter`, `ClearCounter` |
| its `select_for_update()`, `is_token_valid()`, `refresh_token()` | `LockEmployee`, `EmployeeGone`, `CommitLogin` |
| logout | `ReceiveLogout`, `Rotate` |
| create, edit, delete | `CreateEmployee`, `ReceiveEdit`, `SaveEdit`, `DeleteEmployees` |
| age of a token; time to live of the counter | `ExpireToken`, `ExpireCounter` |

A token and the time of its creation are written together, so the model keeps
whether a token has expired with the token and not with the row; the exception,
`auto_now_add` when `SaveEdit` inserts a deleted row again, makes that token young
again. A logout ends the token it has read and the one it replaces (`Ends`), which a
login may have generated in between. A login whose counting fails (the counter has
gone, or the worker) is not held against the name.

### 3.8 Catalogue

| code | model |
| --- | --- |
| create of a category or product; bulk create; copy | `ReceiveCategory`, `ReceiveProduct`; `ReceiveBulk`; `ReceiveCopy` |
| PUT and PATCH of either | `ReceiveEdit` |
| the primary-key field of the serializer | `FetchLink` |
| `_has_ancestor_cycle()` | `Walk`, one ancestor per step |
| the comparison of the stores | `Validate` |
| `save()` | `Save` |
| `CategorySetOrderingView`, `MyProductBulkUpdateView` | `ReceiveArrange`, `Arrange` |
| DELETE of one or many, with SET_NULL and CASCADE | `DeleteCategories`, `DeleteProducts` |
| favourites | `ReceiveFavourite`, `InsertFavourite`, `RemoveFavourite` |

`Category.parent` and `Product.category` are one column of the model, and
`Category.order` and `Product.is_hidden` another (`place`): the endpoints treat
each pair alike. A row of a bulk operation is a request of its own, since the rows
are independent. An ordering writes one column by primary key, a bulk update the
eight of `_BULK_UPDATE_FIELDS`, from rows it has read without a lock. A body always
has a value for seven of them: the name is required, and the others have a default
in the serializer, so that an item that leaves `is_hidden` out shows its product
again. They are `place`. The eighth, `description`, has no default: it is `text`, and
without one in the body it is written back as it was read. A copy is created hidden.


## 4. The runs

| run | question | result |
| --- | --- | --- |
| `orders_customers` | Three overlapping requests create, cancel and bulk-cancel orders over two products, with keys, failures and deleted products: is anything oversold, leaked, restored twice, ordered twice? | no |
| `orders_patch` | Create, DELETE, bulk cancel and PATCH of items and of every order status: do closed orders stay closed, do changes follow the map of the *locked* row, is every commit one operation of `OrderBook`? | yes |
| `orders_live` | Two creates or patches that lock in opposite orders: does every request end, and does a victim leave no trace in the book? | yes, because the detector cancels one |
| `orders_deadlock` | Do they wait for each other at all? The comment in the code says they cannot. | violated, see 7 |
| `stale_savers` | With the unlocked writers and deletions of stores present: is stock never negative, and is there a loss that a stale save of that very row does not explain? | yes; no |
| `store_deletion` | Has a store that the bulk view deletes no active order? | violated, see 7 |
| `stores` | Two requests over two stores of one owner, all operations: overdraft, double credit, double key, a ledger that lies, money or slides lost by anything but a stale edit? | none |
| `codes` | Two requests of any of seven endpoints with crashes, retries, late messages and expiry: is every step one of `OneTimeCodes`, what may be valid together, is a message ever for nothing? | yes; overlapping issues; no |
| `register_without_key` | Does every registration issue a code? | violated, see 7 |
| `login` | Two requests with cache keys that expire and workers that die: are the guesses bounded, do sessions and tokens end, is a password ever reverted? | yes; yes; by a profile edit alone |
| `employees` | Three logins, logouts and edits of one employee: does the lockout hold, do logins agree on the token, is one that has ended handed out? | yes; yes; no |
| `catalogue` | Two requests over three categories and two products of two stores: cycles, endless walks, products in another store's category, lost edits and descriptions? | only in the ways the properties name |

Several properties have the form "this loss happens only by that step". They are
there because the step exists: the code has unlocked writers, so the plain property
("closed orders stay closed") is false of the composition. The form pins down the
cause, and any other way to the same loss is a violation of the property.

The abstract specifications are checked as PROPERTY (`ImplementsOrderBook`,
`ImplementsOneTimeCodes`). They are stronger than the other properties in one
respect: they say that nothing *else* changes in a step, and they exclude steps
that are half an operation.


## 5. Bounds

| bound | value | why it is enough |
| --- | --- | --- |
| requests in flight | 3 in `orders_customers` and `employees`, 2 elsewhere | races and deadlocks of this code are between two transactions; the third lets a second winner meet a waiting loser, two cancels meet a create, a login meet a logout and an edit |
| orders, products | up to 3 and 2 | two products give two lock orders; three orders a bulk cancel of two with one being created |
| `MaxQty`, stock | 2, and stock of 2 and 1 | one basket fits once, one twice, one takes all |
| `Baskets`, `StatusPatches`, `Operations` | per instance | the item lists, status changes and endpoints that a run is about; `orders_patch` uses every order status, a step of the delivery and one that no map allows |
| keys | 1 or none | two requests contend for one key; a request without a key is always possible |
| savers | 2, each served once | one writer of an order and one of a product, two of the same row, or an edit and the deletion of the store |
| `Galleries`, `Slides`, `MaxSlides`, `MaxEdits` | one store, 2, 1 (code: 20), 2 | the race is at the limit, whatever it is; a slide is read, deleted, replaced and saved; slides of two stores never meet |
| `MaxLedger` | 2 | a key used twice, a code credited twice, two purchases on one balance |
| plans, promocodes | free; paid for a month and for a year; one code, and one with a negative amount | a balance of 1 affords neither, and either of them after the credit, but not both; 0 never does; the free year is not on offer, so that there is a plan to refuse |
| codes: users, phones, keys, values | 2 each | a new and an existing account contend for a phone; a guess may be right or wrong |
| `TTL`, `Retention`, `MaxTime`, `MaxCodes` | 1, 0, 2, 2 | a code is live, then expired, then cleaned up; two codes replace each other or coexist |
| `Calls` | seven endpoint and phone pairs | each endpoint, for a phone its look-up lets through |
| login: users, sessions, codes, tokens | 1, 1, 1, 2 | sessions and tokens of different users share nothing; whether a guess is right is a choice as long as a code is live, and a resend that gets none (`NoCode`) ends there; a second token comes of a second login |
| `MaxAttempts`, `FailMax`, `MaxPassword` | 2, 2, 1 (code: 5 guesses, 10 failures) | one guess below the limit, one at it, one beyond it in flight |
| `Operations` of `login` | a reset and a deactivation for the four that revoke | change and reset save the same column; a change of phone saves none of the model's |
| tokens of an employee | 3 | at creation, after a logout, after an expiry |
| `MaxCalls`, `Edits` of `Catalogue` | 3; place alone, text alone, or store and link | two moves that close a cycle and a walk that meets it; an edit between them; an edit of a description that a bulk update overlaps |

The ids of orders are a finite set: `IdLeft` stops creates when it is used up, as
`LedgerRoom`, `RowLeft` and the sets of tokens, sessions and codes do elsewhere.
Ids, keys and values that no constant treats apart are symmetric and their
symmetry is used, except in the liveness run.


## 6. Fairness and deadlock

`FairSpec` of `Orders` assumes for each request strong fairness of `Proceed(r)`,
the steps of its own thread, and weak fairness of `DeadlockVictim(r)`. A thread
that is not blocked is scheduled. A thread that waits for a row is blocked while
others hold it, so its step is enabled only from time to time; PostgreSQL queues
the waiters of a row first come, first served, so it is not overtaken for ever:
that is strong fairness. The detector runs after `deadlock_timeout` in every
waiter: weak fairness. Nothing is assumed of arrivals, of failures or of the
deletion of products, and nothing in the model needs a timeout to make progress.

The other modules state no fairness and no liveness. Their requests hold one lock
at a time, or two in one order (`Stores`), so nothing there waits in a circle; the
exception is `VerificationCodes`, where the detector's victim is `Fail`. That a
walk up the tree ends is stated as the invariant `WalksAreShort`, which bounds it.
That a code arrives is no property of the code: when the retries of the task are
used up, it does not.

All configurations have `CHECK_DEADLOCK FALSE`. The system has no duty to go on:
when the bounded ids, tokens or calls are used up there is nothing left to ask
for and the model stops. That no request of `Orders` is stuck is what `RequestsEnd`
says, and `NoWaitCycle` is the statement about locks that would be called a
deadlock.


## 7. Where code and documentation disagree

Each of the first three is the counterexample of one run; `PROJECT.json` quotes
the lines.

1. *Sorted locks do not cover all locks* (`orders_deadlock`, `serializers.py:539`).
   The comment at `serializers.py:465` says the sorted query "eliminates the
   deadlock". A PATCH that lowers one item and raises another locks the raised
   product by the query and the lowered one later by its UPDATE. A create that
   locks them in sorted order waits for it and is waited for. PostgreSQL cancels
   one of the two and the client gets a 500; no data is lost. What is true of the
   comment is proved in 8.2.
2. *An order slips in while its store is deleted* (`store_deletion`,
   `stores/views.py:124`). The comment says it cannot, "because the store rows are
   now locked". Creation of an order locks product models and never the store.
3. *A registration without Idempotency-Key issues no code* (`register_without_key`,
   `accounts/services.py:172`). An import inside `if idempotency_key` makes
   `timezone` local to the function; without a key the name is unbound. The account
   is committed, the request ends in an error. The tests post without a key.

The other losses are what the passing "only" properties name:

4. A photo upload that overlaps a cancel reopens the order, which can then be
   canceled, and its stock restored, once more (`orders/views.py:323`).
5. An edit of a product model writes `quantity` as it was read and loses a debit
   (`products/views.py:303`); an edit of a deleted one inserts it again, and a cancel
   under way pays units into it that no order has any more; an edit of a store does it with `balance` and
   `tariff_plan` (`stores/views.py:162`).
6. An edit of a deleted slide inserts it again, past the limit that
   `create_slide_locked()` calls authoritative (`stores/views.py:504`); an edit of
   a deleted product, category or employee does the same without a limit.
7. An edit of a profile writes back an old password hash and an old `is_active`
   (`accounts/views.py:190`).
8. An edit of an employee writes back a token that a logout has ended
   (`employees/serializers.py:51`).
9. Two overlapping edits make two categories each other's parent
   (`products/serializers.py:187`); bulk create and copy of products compare no
   stores at all.
10. `blacklist_all_user_tokens()` says that its "race window is eliminated". A token
    handed out between its SELECT and its INSERT survives it. `EarlierTokensEnd`
    says what is left of the claim: every token older than the saved password ends.

11. The counter of wrong guesses is overwritten by its fallback. `cache.incr()` raises
    ValueError for a key that has expired, not only in a backend without it, as the
    comment at `accounts/views.py:576` has it; the `set()` after it takes back what
    others have counted meanwhile. With the limit of 5 and two requests ten guesses may
    fall into one life of a counter, not six: four are counted, a stalled `set()`
    starts again at 1, three more are counted and two pass the check together.
    `GuessesBounded` says how far this can go.
12. A bulk update of products writes the description it has read over one that an
    edit has saved meanwhile (`products/views.py:730`).

Numbers 4 to 8 have one cause: `instance.save()` without `update_fields` on an
instance read outside a transaction.


## 8. The proofs

Every invariant, every action property and both refinements that the passing runs
check are proved, for every value of the constants that the module's named
assumption allows. What stays with TLC alone is `RequestsEnd`, a liveness property,
and the three counterexamples of section 7.

| module | theorem | what it states of the specification |
| --- | --- | --- |
| `OrdersProofs` | `TypeCorrect`, `StockNeverNegative`, `OneOrderPerIdempotencyKey` | `[]TypeOK`, `[]StockNonNegative`, `[]OneOrderPerKey` |
| | `StatusesFollowTheMap`, `ClosedOrdersStayClosed` | `StatusFollowsMap`, `TerminalIsFinal` |
| | `StockAddsUp`, `OrdersKeepTheBook` | `[]StockConserved`; the refinement `ImplementsOrderBook` |
| | `SortedQueriesDoNotDeadlock` | `[]CirclesNeedUpdates` |
| `SaversProofs` | `SaversTypeCorrect`, `StockNeverNegativeForAll` | `[]SaverTypeOK`, `[]StockNonNegative` of `SaverSpec` |
| | `UploadsReopen`, `EditsMoveStock` | `OnlyStaleUploadsReopen`, `OnlyStaleEditsMoveStock` |
| `StoresProofs` | `TypeCorrect`, `NeverOverdrawn`, `CreditedOnce`, `KeysOnce` | `[]TypeOK`, `[]BalanceNonNegative`, `[]CodeCreditedOnce`, `[]OneEntryPerKey` |
| | `LedgerSpeaksTrue`, `MoneyIsLostByStaleEdits`, `SlidesAreUndoneByStaleEdits` | `LedgerRecordsBalance`, `OnlyStaleEditsLoseMoney`, `OnlyStaleEditsUndoSlides` |
| `CodesProofs` | `TypeCorrect`, `OneCodeAtATime`, `MessagesAreForCodes` | `[]TypeOK`, `[]OnlyOverlappingIssuesCoexist`, `[]NoPhantomMessage` |
| | `CodesKeepTheirPromise` | the refinement `ImplementsOneTimeCodes` |
| `LoginProofs` | `TypeCorrect`, `GuessesLimited`, `SessionsStayGone`, `TokensEnd` | `[]TypeOK`, `[]GuessesBounded`, `[]DroppedSessionsStayGone`, `[]EarlierTokensEnd` |
| | `ProfileEditsRevert` | `OnlyProfileEditsRevert` |
| `EmployeesProofs` | `TypeCorrect`, `LockoutHolds` | `[]TypeOK`, `[]FailuresBounded` |
| | `LoginsShare`, `NoEndedToken`, `EditsRevive` | `LoginsShareToken`, `NoEndedTokenHandedOut`, `OnlyStaleEditsRevive` |
| `CatalogueProofs` | `TypeCorrect`, `OneFavouriteEach`, `WalksEnd` | `[]TypeOK`, `[]OneFavourite`, `[]WalksAreShort` |
| | `WritesUndo`, `LinksStayInTheStore`, `CyclesByOverlapOnly` | `OnlyStaleWritesUndo`, `StoresAgree`, `CyclesNeedOverlap` |

All proofs have one shape. The invariant of a module is `TypeOK`, one `RequestInv(r)`
for each request, and what the tables satisfy; it was checked by TLC on the module's
run before it was proved. A step of `r` keeps `RequestInv(r)` by its guards and
`RequestInv` of every other request because of the rows that one has locked: a
frame lemma says what a step may do to a request that it does not move, and each
action is shown to do no more. A property then follows from the invariant, or from
the invariant in the state before a step.

The assumptions are those of the modules: types of the constants, `None` is no id
or value. Where a proof counts, the set counted is finite: requests (one per thread)
in `Orders`, `VerificationCodes`, `Login` and `Employees`, the ids of orders in
`Orders`, the categories in `Catalogue`. No bound has a value in a proof.

### 8.1 Orders: locks

`IInv` of `OrdersProofs` carries `StockNonNegative`, the statuses and the closed
orders. None of them is inductive: a commit adds `pending[r]` to the stock, and that
this leaves it non-negative depends on a check some steps earlier, and on nobody
having moved the row since. For each request:

* `Shape`: which operation may stand at which `pc`; a DELETE or PATCH has exactly
  one order; every order a request works on exists; only a request at "update"
  has uncommitted stock;
* `OwnsOrders`: beyond its first lock it holds the row of every order it works on,
  and what it checked under the lock (still open, transition legal) is still so;
* `OwnTodo`: the stock UPDATEs it has to run are for its own orders;
* `PendingCovered`: uncommitted stock is on rows it has locked, and can be
  committed;
* `TodoCovered`: an increase it has still to write is on a row it has locked, and
  can be written and committed.

The deletion of a product waits for its row, so it takes nothing from under a
transaction. Status changes are commits, at which `OwnsOrders` gives the legality
(PATCH) or openness (cancels) of the very status that is replaced. `OneOrderPerKey`
is inductive with types alone, by `KeyTaken` at the commit.

### 8.2 Orders: accounts and the order book

That nothing leaks needs an exact account of `pending[r]`, not a bound: `BookInv`
says that at "update" it is, product by product, minus the basket of a create
(`TakesAll`), what those orders hold whose UPDATE is no longer in `todo[r]`
(`GivesBack`: a cancel, a bulk cancel, a PATCH that closes), the difference of the
item lists for the items done (`TakesDifference`: a PATCH that revises), or nothing.
At the commit `todo[r]` is empty and the account is that of the whole operation, so
the step is a `Place`, `Close`, `Revise` or `Restate` of `OrderBook`; the deletion of
a product is `Delist`, and every other step changes none of the book's variables.
`Delisted` is needed as well: a deleted product is in no stock and in no order.

`StockConserved` is then proved of the book: each of its operations keeps the sum,
and by the refinement so does each step of `Orders`. A sum over a set of orders is
the number of its units (`Units`, `Held` of `OrderBook`), so that it is a
cardinality, of which the library proves what is needed (`HeldApart`, `HeldMore`,
`HeldRevised`); a sum by recursion could not be reasoned about.

The comment at `serializers.py:465` is right of the sorted queries alone
(`CirclesNeedUpdates`): in every circle of waits some request is past its query, at
the UPDATE of a stock, or two products share a name, since `Meta.ordering` is by
name and a name is not unique. No run checks it as a property; TLC checked it on
`OrdersDeadlock.cfg` before it was proved. `LockInv` is its invariant: a request
holds no row before it begins to lock (`HoldsLate`), and what a query has locked
comes before what it has still to lock (`LocksInOrder`; the list of the latter only
shrinks). Along a circle of queries the names of the awaited products would
therefore rise for ever, which a finite set of requests does not allow
(`NoClimbForEver`).

### 8.3 Unlocked writers

`OnlyStaleEditsMoveStock` speaks of steps in which stock moves with no item for it.
`SaversInv` adds to `IInv` of `OrdersProofs` the reason for each entry of `todo[r]`
and `pending[r]`: an order of the request that it closes or revises (`Takes`,
`Made`), or the basket of a create. What was fetched is what the items hold as long
as no product of theirs has been deleted and listed again (`relisted`); the units
that a cancel fetched of such a product are the fourth way of the property
(`PaysRelisted`), in which the row is back by a stale edit and the items are gone. A
PATCH that revises has no share in it, since it holds the item rows. It assumes nothing of what the writers have
read, except that an edit read a stock that was not negative (`SaverInv`): that is
why stock stays non-negative although it becomes wrong. `StockConserved` and
`TerminalIsFinal` are false here, as section 7 says.

### 8.4 Stores

A request past its first lock holds the store's row, and the balance it has seen is
the row's (`HoldsStore`); at its write the promocode it has locked is still
redeemable and the gallery still has room (`StillChecked`). `SawMoney`, that no
request has an overdrawn balance in memory, makes `BalanceNonNegative` survive the
stale edits. For the slides, `OneGallery` follows an id through the tables and the
memory of the edits that may insert it again: it is of one store for ever.

### 8.5 Verification codes

An issue has two statements that matter: the UPDATE that voids and the INSERT.
`Voids` says what the first still has to cover and has covered: of the codes that
were there when the issue began, those that are still valid are in its snapshot,
and later locked by it. Hence two valid codes have overlapping issues.
`Sends` ties a message to the row it is about, `Selects` and `Locks` tie what a
statement is about to change to the phone of its request, and `Room` counts the
rows still to be inserted, so that the bound on the table refuses no INSERT that was
begun. In the refinement the state of a row is computed from flags, clock, locks and
statements under way; the proof goes action by action and shows that only `Redeem`
accepts, at a time when the row is valid, and that what a statement finds no longer
matching has been taken by another step before. `uses` shows that no row is redeemed
twice: the rows of a `Redeem` are live, so their state is not yet "accepted", and
`LiveFor` of `OneTimeCodes` has no other. That the effect is on the right account
needs a second invariant, `ActsInv`: a change of phone under way is by a verified
user and has locked a live row of that user, which nobody else can use up, and a
confirmation of a phone is for the user who has that phone or is verified already
(`Acts`). It rests on `AccountsKept`: roles are only given, and a user who is not
verified keeps the phone.

### 8.6 Login and employees

The commands on a counter in the cache are not atomic, so the bound on guesses is
not the limit. `Guesses` counts: below the limit, all wrong guesses are in the
counter, and who has passed the check may still guess (`InFlight`); the sum exceeds
the limit by the number of the other requests at most (`Most`). A `set()` of the
fallback over a counter that is there begins another such round (`Allowed`). Who is
about to do so found no counter, and each does it once: as long as there is a
counter nobody can join them (`FallingBack`), and one of the requests is the one
that made it, so there are fewer of these rounds than requests. The step
that moves one request is an exchange between two finite sets (`OneMoves`,
`RoomForOne` of `SetLemmas`).

`Revokes` follows the tokens that were there at the save of a change: in the table,
then in the list read by `blacklist_all_user_tokens()`, then in the blacklist.
`SessionInv`: of a session that is gone for good no resend is left. For employees,
`HoldsRow` says that a login about to commit holds the row and has read its token;
`Lineage` that a token is of one employee for ever, in whatever memory it is;
`Rows` that no row has an ended token unless an edit has written it back.

### 8.7 Catalogue

As long as no other write overlaps (`disturbed`), what a request has read is what is
there (`Fresh`), and the link it has fetched leads to a row of the store it has
compared (`Fetched`). `WritesUndo` goes column by column: a save that nothing
overlapped writes what the body names or what is there (`FreshSaveAsked`), and a
change of many rows touches two columns, of which a body always names the first
(`PlacedAsked`). `Climbs` is the reason why the check for cycles is right: the
set of categories met is closed under "parent", up to the one about to be visited,
has the new parent and not the category itself. If the save closed a cycle, it would
lead from the category through its new parent back to itself, and so leave that set.
In place of an induction along that path, `NoWayIn` counts: on a cycle "parent" is a
map of a finite set onto itself, and such a map, when it keeps a part within itself,
leads from nowhere else into that part. `Counted` bounds the walk: each
load adds a category to `visited[r]`.

### 8.8 What is only model-checked

`RequestsEnd`: liveness under fairness is beyond the prover, as is `ENABLED`. The
induction theorems of the library take an operator as a parameter, which the
installed provers cannot instantiate; nothing here depends on one, because sums are
cardinalities and walks are sets. No module declares a RECURSIVE operator. The three
runs that expect a violation show states, which TLC finds and no proof is about.


## 9. What is not modelled

* Reads: lists, filters, tracking, exports, the viewers of a product. They change
  nothing that another operation reads. Import and export of products are stubs.
* Input validation, permissions and serialisation, beyond what decides whether a
  modelled operation starts.
* Django's admin, in which operators write any column; no application logic runs.
* Deletion of users. The cascade of a category to its products sets a link to
  NULL; that of a product to its product models is several `DeleteProduct`.
* A PATCH that sets `quantity`, as said in 3.3.
* Photos and bank details: rows of one parent, written by single statements.
* Creation of a store, and the expiry of plans, which nothing in the code acts on
  but reads.
* Access tokens and the rotation of refresh tokens, which belong to the library.
* Notifications and the country catalogue: single idempotent statements, or none.
* Deployment: it gives the assumptions (processes, isolation level), not state.

Two responses are not part of the models: the 400 about stock that the duplicate of
a create gets when the first took the last units, and the permanent error of
`select_for_update()` on a DISTINCT query, which is modelled as the absence of the
call. `PROJECT.json` lists them among the hazards.


## 10. The plan

Done: all modules of section 2, the runs of section 4, the theorems of section 8.

What could be proved next, in this order:

1. What the order book still promises when the unlocked writers are there: every
   step of `SaverSpec` but the two saves is a step of `OrderBook` with the products
   of a store removed at once. It needs the accounts of 8.2 without the claim that
   a locked row is unchanged, since a save of a product waits for the row but a
   reopened order may be closed again by a second transaction.
2. That two promises compose: `Login` keeps of a code only whether it is live, which
   `OneTimeCodes` should be shown to allow for each of its steps.
