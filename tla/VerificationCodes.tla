-------------------------- MODULE VerificationCodes --------------------------
(***************************************************************************)
(* The verification codes of apps/accounts: registration, the requests for *)
(* a code, its delivery by Celery, and the confirmations that redeem it.   *)
(*                                                                         *)
(* A code is a row that holds a hash; rows are matched by phone, purpose   *)
(* and value.  A statement of PostgreSQL selects its rows when it starts   *)
(* (snap[r]), waits for the ones that other transactions have changed or   *)
(* locked, and leaves out those that no longer match.                      *)
(***************************************************************************)
EXTENDS Naturals, FiniteSets, Sequences

CONSTANTS
  Requests,      \* the requests that may be in flight at the same time
  Users, Phones,
  InitialPhone,  \* the accounts that exist, None for a user without one
  Keys,          \* the Idempotency-Key values clients use
  Values,        \* the values a code may have
  TTL,           \* VERIFY_CODE_TTL
  Retention,     \* how long an expired row is kept
  MaxCodes,      \* bound: the rows that may be issued
  MaxTime,       \* bound: the clock
  Calls,         \* bound: the endpoints clients call, and for which phones
  Crashes,       \* bound: whether a worker may die
  None

Issuing == {"register", "resend", "forgot", "change"}
Confirming == {"verify", "reset", "move"}
AllOperations == Issuing \cup Confirming

ASSUME CodesAssumption ==
  /\ IsFiniteSet(Requests)
  /\ InitialPhone \in [Users -> Phones \cup {None}]
  /\ \A u, v \in Users : InitialPhone[u] = InitialPhone[v] /\ u # v
                           => InitialPhone[u] = None
  /\ TTL \in Nat /\ Retention \in Nat /\ MaxCodes \in Nat /\ MaxTime \in Nat
  /\ Calls \subseteq AllOperations \X (Phones \cup {None})
  /\ Crashes \in BOOLEAN
  /\ None \notin Requests \cup Users \cup Phones \cup Keys \cup Values

VARIABLES
  phone,     \* phone[u]: User.phone, None without an account
  verified,  \* the users whose role is not NOTVERIFY
  cards,     \* the users with a bonus card
  codes,     \* the VerificationCode rows in the order of their commits
  used,      \* the rows with is_used
  purged,    \* the rows the clean-up has deleted
  tasks,     \* the deliveries handed to Celery
  inbox,     \* the messages that reached their phone
  now,
  rowLock,   \* rowLock[c]: the transaction that has row c
  pc, call,
  seen,      \* what a request has read or drawn: user, role, time, value
  snap,      \* the rows its current statement selected
  uses,      \* history: uses[c], how many confirmations have redeemed row c
  before     \* history: before[c], how many rows there were when c's issue began

accounts == <<phone, verified, cards>>
table    == <<codes, used, purged, before>>
delivery == <<tasks, inbox>>
threads  == <<pc, call, seen, snap>>
vars == <<accounts, table, delivery, now, rowLock, threads, uses>>

\* Key and value of a call are picked where they are first used.
Asks(op, u, p) == [op |-> op, user |-> u, phone |-> p, key |-> None]
NoCall == Asks("none", None, None)

Purpose == [register |-> "REGISTER", resend |-> "REGISTER", verify |-> "REGISTER",
            forgot |-> "RESET_PASSWORD", reset |-> "RESET_PASSWORD",
            change |-> "PHONE_CHANGE", move |-> "PHONE_CHANGE"]

Drew(u, t, v, n) == [user |-> u, unverified |-> FALSE, at |-> t, value |-> v, rows |-> n]
Saw(u, old) == [Drew(u, 0, None, 0) EXCEPT !.unverified = old]
NothingSeen == Saw(None, FALSE)

\* Faulty variant: phone and user of the row exchanged.
RowSwapped(r) ==
  [phone |-> seen[r].user, user |-> call[r].phone, purpose |-> Purpose[call[r].op],
   key |-> call[r].key, value |-> seen[r].value, expires |-> seen[r].at + TTL]

\* The row that a request inserts; expires_at is reckoned before the transaction.
Row(r) ==
  [phone |-> call[r].phone, user |-> seen[r].user, purpose |-> Purpose[call[r].op],
   key |-> call[r].key, value |-> seen[r].value, expires |-> seen[r].at + TTL]

Rows == [phone : Phones, user : Users, key : Keys, value : Values, expires : Nat,
         purpose : {"REGISTER", "RESET_PASSWORD", "PHONE_CHANGE"}]

Ids == 1..MaxCodes

\* The rows that a confirmation has redeemed.
Accepted == {c \in Ids : uses[c] > 0}

TypeOK ==
  /\ phone \in [Users -> Phones \cup {None}] /\ verified \subseteq Users
  /\ cards \subseteq Users
  /\ codes \in Seq(Rows) /\ used \subseteq DOMAIN codes /\ purged \subseteq DOMAIN codes
  /\ tasks \subseteq Phones \X Values /\ inbox \subseteq tasks
  /\ now \in 0..MaxTime /\ rowLock \in [Ids -> Requests \cup {None}]
  /\ pc \in [Requests -> {"idle", "card", "issue", "void", "insert", "send",
                          "look", "pending", "redeem"}]
  /\ call \in [Requests -> [op : AllOperations \cup {"none"}, user : Users \cup {None},
                            phone : Phones \cup {None}, key : Keys \cup {None}]]
  /\ seen \in [Requests -> [user : Users \cup {None}, unverified : BOOLEAN,
                            at : 0..MaxTime, value : Values \cup {None}, rows : Nat]]
  /\ snap \in [Requests -> SUBSET DOMAIN codes]
  /\ uses \in [Ids -> Nat] /\ Accepted \subseteq used /\ before \in [DOMAIN codes -> Nat]

Init ==
  /\ phone = InitialPhone
  /\ verified = {u \in Users : InitialPhone[u] # None} /\ cards = verified
  /\ codes = <<>> /\ used = {} /\ purged = {} /\ before = <<>>
  /\ tasks = {} /\ inbox = {} /\ now = 0
  /\ rowLock = [c \in Ids |-> None]
  /\ pc = [r \in Requests |-> "idle"] /\ call = [r \in Requests |-> NoCall]
  /\ seen = [r \in Requests |-> NothingSeen] /\ snap = [r \in Requests |-> {}]
  /\ uses = [c \in Ids |-> 0]

-----------------------------------------------------------------------------
(* Rows, locks and the end of a request.                                   *)

Live == DOMAIN codes \ (used \cup purged)

LiveFor(p, purpose) == {c \in Live : codes[c].phone = p /\ codes[c].purpose = purpose}

RowsFree(C, r) == \A c \in C : rowLock[c] \in {None, r}

Taken(p) == \E u \in Users : phone[u] = p

Goto(r, at) == pc' = [pc EXCEPT ![r] = at]

\* Bound: rows are left for the requests that may still insert one.
RowLeft ==
  Len(codes) + Cardinality({r \in Requests : pc[r] \in {"card", "issue", "void", "insert"}})
    < MaxCodes

Finish(r) ==
  /\ Goto(r, "idle")
  /\ call' = [call EXCEPT ![r] = NoCall]
  /\ seen' = [seen EXCEPT ![r] = NothingSeen]
  /\ snap' = [snap EXCEPT ![r] = {}]
  /\ rowLock' = [c \in Ids |-> IF rowLock[c] = r THEN None ELSE rowLock[c]]

\* A refusal, a rollback, an error.
Stop(r) == Finish(r) /\ UNCHANGED <<accounts, table, delivery, now, uses>>

Receive(r, c, u, at) ==
  /\ pc[r] = "idle" /\ <<c.op, c.phone>> \in Calls
  /\ c.op \in Issuing => RowLeft
  /\ Goto(r, at)
  /\ call' = [call EXCEPT ![r] = c]
  /\ seen' = [seen EXCEPT ![r] = Saw(u, u # None /\ u \notin verified)]
  /\ UNCHANGED <<table, delivery, now, rowLock, snap, uses>>

-----------------------------------------------------------------------------
(* Registration and the requests for a code.                               *)

\* User.phone is UNIQUE: a second account is refused.
Register(r) ==
  \E u \in Users, p \in Phones :
    /\ phone[u] = None
    /\ ~Taken(p)
    /\ Receive(r, Asks("register", u, p), u, "card")
    /\ phone' = [phone EXCEPT ![u] = p]
    /\ UNCHANGED <<verified, cards>>

CreateCard(r) ==
  /\ pc[r] = "card"
  /\ cards' = cards \cup {call[r].user}
  /\ Goto(r, "issue")
  /\ UNCHANGED <<phone, verified, table, delivery, now, rowLock, call, seen, snap, uses>>

\* Five numbers in a row are taken: the account stays, without card and code.
CardsCollide(r) == pc[r] = "card" /\ cards # {} /\ Stop(r)

ReceiveResend(r) ==
  \E u \in Users \ verified :
    /\ phone[u] # None
    /\ Receive(r, Asks("resend", None, phone[u]), u, "issue")
    /\ UNCHANGED accounts

ReceiveForgot(r) ==
  \E u \in Users :
    /\ phone[u] # None
    /\ Receive(r, Asks("forgot", None, phone[u]), u, "issue")
    /\ UNCHANGED accounts

\* Only verified users have tokens.
ReceiveChange(r) ==
  \E u \in verified, p \in Phones :
    /\ ~Taken(p)
    /\ Receive(r, Asks("change", u, p), u, "issue")
    /\ UNCHANGED accounts

Existing(r, k) ==
  {c \in DOMAIN codes \ purged : /\ codes[c].key = k
                                 /\ codes[c].phone = call[r].phone
                                 /\ codes[c].purpose = Purpose[call[r].op]}

\* create_verification_code(): without a key the name timezone is unbound; a key
\* that has its code is answered with it, and nothing is sent.
Unissued(r) ==
  /\ pc[r] = "issue"
  /\ Stop(r)

BeginIssue(r) ==
  \E k \in Keys, v \in Values :
    /\ pc[r] = "issue"
    /\ Existing(r, k) = {}
    /\ call' = [call EXCEPT ![r].key = k]
    /\ seen' = [seen EXCEPT ![r] = Drew(seen[r].user, now, v, Len(codes))]
    /\ snap' = [snap EXCEPT ![r] = LiveFor(call[r].phone, Purpose[call[r].op])]
    /\ Goto(r, "void")
    /\ UNCHANGED <<accounts, table, delivery, now, rowLock, uses>>

\* Faulty variant: an issue leaves the earlier codes as they are.
NothingToVoid(r) == {}

StillUnused(r) == snap[r] \ (used \cup purged)

\* UPDATE ... SET is_used: the rows are this transaction's until it ends.
Void(r) ==
  /\ pc[r] = "void"
  /\ RowsFree(StillUnused(r), r)
  /\ rowLock' = [c \in Ids |-> IF c \in StillUnused(r) THEN r ELSE rowLock[c]]
  /\ snap' = [snap EXCEPT ![r] = {}]
  /\ Goto(r, "insert")
  /\ UNCHANGED <<accounts, table, delivery, now, call, seen, uses>>

\* The UNIQUE constraint on VerificationCode.idempotency_key.
KeyTaken(k) == \E c \in DOMAIN codes \ purged : codes[c].key = k

Mine(r) == {c \in Ids : rowLock[c] = r}

\* INSERT and commit.
CommitIssue(r) ==
  /\ pc[r] = "insert"
  /\ IF KeyTaken(call[r].key)
     THEN Stop(r)
     ELSE /\ codes' = Append(codes, Row(r))
          /\ used' = used \cup Mine(r)
          /\ before' = Append(before, seen[r].rows)
          /\ rowLock' = [c \in Ids |-> IF rowLock[c] = r THEN None ELSE rowLock[c]]
          /\ seen' = [seen EXCEPT ![r] = Drew(None, 0, seen[r].value, 0)]
          /\ call' = [call EXCEPT ![r].key = None]
          /\ Goto(r, "send")
          /\ UNCHANGED <<accounts, purged, delivery, now, snap, uses>>

Deliver(r) == tasks' = tasks \cup {<<call[r].phone, seen[r].value>>}

\* Faulty variant: the delivery is ordered inside the transaction.
SendEarly(r) ==
  /\ pc[r] \in {"insert", "send"}
  /\ Deliver(r)
  /\ IF pc[r] = "send" THEN Finish(r) ELSE UNCHANGED <<threads, rowLock>>
  /\ UNCHANGED <<accounts, table, inbox, now, uses>>

\* send_whatsapp_code_task.delay(), after the transaction.
Send(r) ==
  /\ pc[r] = "send"
  /\ Deliver(r)
  /\ Finish(r)
  /\ UNCHANGED <<accounts, table, inbox, now, uses>>

\* A task may run late, out of order, again or, when its retries are used up,
\* never: it stays among the tasks.
SendMessage ==
  \E m \in tasks :
    /\ inbox' = inbox \cup {m}
    /\ UNCHANGED <<accounts, table, tasks, now, rowLock, threads, uses>>

-----------------------------------------------------------------------------
(* Confirmations.                                                          *)

\* The user is looked up before the transaction.
ReceiveVerify(r) ==
  \E u \in Users :
    /\ phone[u] # None
    /\ Receive(r, Asks("verify", None, phone[u]), u, "look")
    /\ UNCHANGED accounts

\* The new password is not part of the model, and neither is whose it is.
ReceiveReset(r) ==
  \E p \in Phones :
    /\ Taken(p)
    /\ Receive(r, Asks("reset", None, p), None, "look")
    /\ UNCHANGED accounts

ReceiveMove(r) ==
  \E u \in verified :
    /\ Receive(r, Asks("move", u, None), None, "look")
    /\ UNCHANGED accounts

\* The filter of validate_verification_code().
Matching(p, purpose, v) ==
  {c \in LiveFor(p, purpose) : codes[c].value = v /\ codes[c].expires > now}

Pending(u) == {c \in Live : /\ codes[c].user = u /\ codes[c].purpose = "PHONE_CHANGE"
                            /\ codes[c].expires > now}

\* The first statement of the transaction starts; any value may be submitted.
LookForCode(r) ==
  \E v \in Values :
    /\ pc[r] = "look" /\ call[r].op \in {"verify", "reset"}
    /\ snap' = [snap EXCEPT ![r] = Matching(call[r].phone, Purpose[call[r].op], v)]
    /\ Goto(r, "redeem")
    /\ UNCHANGED <<accounts, table, delivery, now, rowLock, call, seen, uses>>

LookForPending(r) ==
  /\ pc[r] = "look" /\ call[r].op = "move"
  /\ snap' = [snap EXCEPT ![r] = Pending(call[r].user)]
  /\ Goto(r, "pending")
  /\ UNCHANGED <<accounts, table, delivery, now, rowLock, call, seen, uses>>

Newest(C) == CHOOSE c \in C : \A d \in C : d <= c

\* The newest pending change is locked; its phone and the value are looked up.
LockPending(r) ==
  LET c == Newest(StillUnused(r))
      p == codes[c].phone
  IN  /\ pc[r] = "pending" /\ StillUnused(r) # {}
      /\ rowLock[c] = None
      /\ rowLock' = [rowLock EXCEPT ![c] = r]
      /\ call' = [call EXCEPT ![r].phone = p]
      /\ \E v \in Values : snap' = [snap EXCEPT ![r] = Matching(p, "PHONE_CHANGE", v)]
      /\ Goto(r, "redeem")
      /\ UNCHANGED <<accounts, table, delivery, now, seen, uses>>

NothingPending(r) == pc[r] = "pending" /\ StillUnused(r) = {} /\ Stop(r)

\* Another user took the phone: the UNIQUE constraint rolls the transaction back.
PhoneLost(r) ==
  call[r].op = "move" /\ \E u \in Users \ {call[r].user} : phone[u] = call[r].phone

Effect(r) ==
  CASE call[r].op = "verify" ->
         /\ verified' = IF seen[r].unverified THEN verified \cup {seen[r].user} ELSE verified
         /\ UNCHANGED <<phone, cards>>
    [] call[r].op = "reset" -> UNCHANGED accounts
    [] call[r].op = "move" ->
         phone' = [phone EXCEPT ![call[r].user] = call[r].phone] /\ UNCHANGED <<verified, cards>>

\* Faulty variant: the rows that another confirmation has redeemed during the wait
\* for them are not left out.
SelectedBefore(r) == snap[r] \ ((used \ Accepted) \cup purged)

ToRedeem(r) == StillUnused(r)

\* The UPDATE of the codes, the effect on the user, and the commit.
Redeem(r) ==
  /\ pc[r] = "redeem"
  /\ RowsFree(ToRedeem(r), r)
  /\ IF ToRedeem(r) = {} \/ PhoneLost(r)
     THEN Stop(r)
     ELSE /\ used' = used \cup ToRedeem(r)
          /\ uses' = [c \in Ids |-> uses[c] + (IF c \in ToRedeem(r) THEN 1 ELSE 0)]
          /\ Effect(r)
          /\ Finish(r)
          /\ UNCHANGED <<codes, purged, before, delivery, now>>

-----------------------------------------------------------------------------
\* cleanup_expired_codes_task: one DELETE.
CleanUp ==
  LET old == {c \in DOMAIN codes \ purged : codes[c].expires + Retention < now}
  IN  /\ old # {}
      /\ \A c \in old : rowLock[c] = None
      /\ purged' = purged \cup old
      /\ UNCHANGED <<accounts, codes, used, before, delivery, now, rowLock, threads, uses>>

Tick ==
  /\ now < MaxTime
  /\ now' = now + 1
  /\ UNCHANGED <<accounts, table, delivery, rowLock, threads, uses>>

\* The worker dies, or a statement, the broker or the deadlock detector ends it.
Fail(r) == Crashes /\ pc[r] # "idle" /\ Stop(r)

Arrive(r) == \/ Register(r) \/ ReceiveResend(r) \/ ReceiveForgot(r) \/ ReceiveChange(r)
             \/ ReceiveVerify(r) \/ ReceiveReset(r) \/ ReceiveMove(r)

Proceed(r) == \/ CreateCard(r) \/ CardsCollide(r) \/ Unissued(r) \/ BeginIssue(r) \/ Void(r)
              \/ CommitIssue(r) \/ Send(r) \/ LookForCode(r) \/ LookForPending(r)
              \/ LockPending(r) \/ NothingPending(r) \/ Redeem(r)

Next == \/ \E r \in Requests : Arrive(r) \/ Proceed(r) \/ Fail(r)
        \/ SendMessage \/ CleanUp \/ Tick

Spec == Init /\ [][Next]_vars

-----------------------------------------------------------------------------
(* Properties.                                                             *)

\* Of two codes that are valid for one phone and purpose, the later one was being
\* issued when the earlier one was committed: issues that do not overlap leave
\* one valid code ("Invalidate previous codes").
OnlyOverlappingIssuesCoexist ==
  \A c, d \in Live :
    c < d /\ codes[c].phone = codes[d].phone /\ codes[c].purpose = codes[d].purpose
      => c > before[d]

\* No phone is sent a value that was rolled back: each message, however late, is
\* for a code that was committed for this phone.
NoPhantomMessage ==
  \A m \in tasks : \E c \in DOMAIN codes : <<codes[c].phone, codes[c].value>> = m

\* An account whose registration has ended has been issued a code.
RegistrationIssuesCode ==
  \A u \in Users :
    \/ phone[u] = InitialPhone[u]
    \/ \E r \in Requests : call[r].op = "register" /\ call[r].user = u
    \/ \E c \in DOMAIN codes : codes[c].user = u

\* A code is over when it is used, deleted, or expired and no confirmation under
\* way has found it in time.
Over(c) ==
  \/ c \in used \cup purged
  \/ /\ codes[c].expires <= now
     /\ \A r \in Requests : c \in snap[r] => pc[r] \notin {"pending", "redeem"}

\* What has become of a code, and what it was issued for.
State == [c \in Ids |-> CASE c \notin DOMAIN codes -> "unissued"
                          [] c \in Accepted -> "accepted"
                          [] c \in DOMAIN codes \ Accepted ->
                               IF Over(c) THEN "void" ELSE "live"]

Asked(row) == [phone |-> row.phone, purpose |-> row.purpose, user |-> row.user]

About == [c \in Ids |-> IF c \in DOMAIN codes THEN Asked(codes[c]) ELSE None]

Promise == INSTANCE OneTimeCodes WITH state <- State, about <- About

\* Every step keeps the promise of OneTimeCodes: a code is redeemed at most once, not
\* after its expiry, for what it was issued for; the step that redeems it verifies
\* the user who has its phone, or moves one who has asked for the phone and has not
\* been moved for that yet, and nothing else changes a phone or a role.
ImplementsOneTimeCodes == Promise!Spec
=============================================================================
