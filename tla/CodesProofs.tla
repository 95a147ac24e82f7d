----------------------------- MODULE CodesProofs -----------------------------
(***************************************************************************)
(* Theorems about VerificationCodes, for every finite set of requests,     *)
(* every set of users, phones, keys and values, and every bound.           *)
(***************************************************************************)
EXTENDS VerificationCodes, SetLemmas, SequenceTheorems

(***************************************************************************)
(* The inductive invariant.                                                *)
(***************************************************************************)

Inserting == {r \in Requests : pc[r] \in {"card", "issue", "void", "insert"}}

\* Each request that will insert a row has room for it.
Room == Len(codes) + Cardinality(Inserting) <= MaxCodes

\* What a request has received, read and drawn, by where it stands.
Shape(r) ==
  /\ pc[r] \in {"card", "issue", "void", "insert", "send"} =>
       call[r].op \in Issuing /\ call[r].phone \in Phones
  /\ pc[r] \in {"card", "issue", "void", "insert"} => seen[r].user \in Users
  /\ pc[r] = "card" => call[r].user \in Users
  /\ pc[r] \in {"void", "insert"} =>
       call[r].key \in Keys /\ seen[r].value \in Values /\ seen[r].rows <= Len(codes)
  /\ pc[r] \in {"look", "pending", "redeem"} => call[r].op \in Confirming
  /\ pc[r] \in {"look", "pending", "redeem"} /\ call[r].op # "move" => call[r].phone \in Phones
  /\ pc[r] = "pending" => call[r].op = "move"
  /\ pc[r] = "redeem" => call[r].phone \in Phones
  /\ pc[r] \in {"look", "pending", "redeem"} /\ call[r].op = "verify" => seen[r].user \in Users
  /\ pc[r] \in {"look", "pending", "redeem"} /\ call[r].op = "move" => call[r].user \in Users

\* What a request is about to send is in a row that was committed.
Sends(r) ==
  pc[r] = "send" =>
    \E c \in DOMAIN codes : codes[c].phone = call[r].phone /\ codes[c].value = seen[r].value

\* The rows that were valid when the issue began and still are: before an UPDATE
\* has them in its snapshot, the INSERT after it has locked them.
Outdated(r) ==
  {c \in LiveFor(call[r].phone, Purpose[call[r].op]) : c <= seen[r].rows}

Voids(r) == /\ pc[r] = "void" => Outdated(r) \subseteq snap[r]
            /\ pc[r] = "insert" => Outdated(r) \subseteq Mine(r)

\* A row is of the phone and for the purpose of a request.
Fits(c, r) == codes[c].phone = call[r].phone /\ codes[c].purpose = Purpose[call[r].op]

\* The rows that a statement has selected to change fit its request.
Selects(r) == pc[r] \in {"void", "redeem"} => \A c \in snap[r] : Fits(c, r)

\* The phone changes that a confirmation has found are its user's.
Finds(r) ==
  pc[r] = "pending" =>
    \A c \in snap[r] : codes[c].user = call[r].user /\ codes[c].purpose = "PHONE_CHANGE"

RequestInv(r) == Shape(r) /\ Sends(r) /\ Voids(r) /\ Selects(r) /\ Finds(r)

\* A row is locked only by a request that is about to change rows of its kind.
Locks ==
  \A c \in Ids, r \in Requests : rowLock[c] = r =>
    pc[r] \in {"insert", "redeem"} /\ c \in DOMAIN codes /\ Fits(c, r)

IInv == /\ TypeOK /\ Room /\ (\A r \in Requests : RequestInv(r)) /\ Locks
        /\ OnlyOverlappingIssuesCoexist /\ NoPhantomMessage

-----------------------------------------------------------------------------
(* Facts about the state. *)

Steps == {"idle", "card", "issue", "void", "insert", "send", "look", "pending", "redeem"}

CallType == [op : AllOperations \cup {"none"}, user : Users \cup {None},
             phone : Phones \cup {None}, key : Keys \cup {None}]

SeenType == [user : Users \cup {None}, unverified : BOOLEAN,
             at : 0..MaxTime, value : Values \cup {None}, rows : Nat]

LEMMA PurposeType == \A op \in Issuing : Purpose[op] \in {"REGISTER", "RESET_PASSWORD", "PHONE_CHANGE"}
BY DEF Issuing, Purpose

\* The rows are numbered from 1.
LEMMA Numbered ==
  ASSUME TypeOK
  PROVE  /\ Len(codes) \in Nat /\ DOMAIN codes = 1..Len(codes)
         /\ \A c \in 1..Len(codes) : codes[c] \in Rows
BY DEF TypeOK

LEMMA NoCallType == NoCall \in CallType
BY DEF NoCall, Asks, CallType

LEMMA SawType ==
  ASSUME NEW u \in Users \cup {None}, NEW b \in BOOLEAN
  PROVE  Saw(u, b) \in SeenType
<1>1. Saw(u, b) = [user |-> u, unverified |-> b, at |-> 0, value |-> None, rows |-> 0]
  BY DEF Saw, Drew
<1>2. 0 \in 0..MaxTime /\ 0 \in Nat
  BY CodesAssumption DEF CodesAssumption
<1> QED
  BY <1>1, <1>2 DEF SeenType

LEMMA NothingSeenType == NothingSeen \in SeenType
BY SawType DEF NothingSeen

\* What the steps of a request preserve when they leave the rows alone.
LEMMA ThreadTypes ==
  ASSUME TypeOK,
         UNCHANGED <<table, delivery, now, uses>>,
         phone' \in [Users -> Phones \cup {None}], verified' \subseteq Users, cards' \subseteq Users,
         pc' \in [Requests -> Steps], call' \in [Requests -> CallType],
         seen' \in [Requests -> SeenType], snap' \in [Requests -> SUBSET DOMAIN codes],
         rowLock' \in [Ids -> Requests \cup {None}]
  PROVE  TypeOK'
BY DEF TypeOK, table, delivery, Steps, CallType, SeenType, Accepted

LEMMA ThreadsTyped ==
  ASSUME TypeOK
  PROVE  /\ pc \in [Requests -> Steps] /\ call \in [Requests -> CallType]
         /\ seen \in [Requests -> SeenType] /\ snap \in [Requests -> SUBSET DOMAIN codes]
         /\ rowLock \in [Ids -> Requests \cup {None}]
         /\ phone \in [Users -> Phones \cup {None}] /\ verified \subseteq Users /\ cards \subseteq Users
BY DEF TypeOK, Steps, CallType, SeenType

LEMMA FinishTypes ==
  ASSUME TypeOK, NEW r \in Requests, Finish(r)
  PROVE  /\ pc' \in [Requests -> Steps] /\ call' \in [Requests -> CallType]
         /\ seen' \in [Requests -> SeenType] /\ snap' \in [Requests -> SUBSET DOMAIN codes]
         /\ rowLock' \in [Ids -> Requests \cup {None}]
BY ThreadsTyped, NoCallType, NothingSeenType DEF Finish, Goto, Steps

LEMMA StopTypes ==
  ASSUME TypeOK, NEW r \in Requests, Stop(r)
  PROVE  TypeOK'
<1>1. UNCHANGED <<table, delivery, now, uses, phone, verified, cards>>
  BY DEF Stop, accounts
<1> QED
  BY <1>1, FinishTypes, ThreadTypes, ThreadsTyped DEF Stop

LEMMA ReceiveTypes ==
  ASSUME TypeOK, NEW r \in Requests, NEW op \in AllOperations, NEW u \in Users \cup {None},
         NEW p \in Phones \cup {None}, NEW w \in Users \cup {None}, NEW at \in Steps,
         Receive(r, Asks(op, u, p), w, at),
         phone' \in [Users -> Phones \cup {None}], UNCHANGED <<verified, cards>>
  PROVE  TypeOK'
<1>1. Asks(op, u, p) \in CallType
  BY DEF Asks, CallType
<1>2. Saw(w, w # None /\ w \notin verified) \in SeenType
  <2>1. (w # None /\ w \notin verified) \in BOOLEAN
    OBVIOUS
  <2> QED
    BY <2>1, SawType, Zenon
<1>3. pc' \in [Requests -> Steps] /\ call' \in [Requests -> CallType]
  BY <1>1, ThreadsTyped DEF Receive, Goto
<1>4. seen' \in [Requests -> SeenType]
  BY <1>2, ThreadsTyped DEF Receive
<1>5. UNCHANGED <<table, delivery, now, rowLock, snap, uses>>
  BY DEF Receive
<1> QED
  BY <1>3, <1>4, <1>5, ThreadTypes, ThreadsTyped

LEMMA ArriveTypes ==
  ASSUME TypeOK, NEW r \in Requests, Arrive(r)
  PROVE  TypeOK'
<1> USE DEF AllOperations, Issuing, Confirming, Steps, accounts
<1>1. CASE Register(r)
  <2>1. PICK u \in Users, p \in Phones : Receive(r, Asks("register", u, p), u, "card")
                                    /\ phone' = [phone EXCEPT ![u] = p] /\ UNCHANGED <<verified, cards>>
    BY <1>1 DEF Register
  <2>2. phone' \in [Users -> Phones \cup {None}]
    BY <2>1, ThreadsTyped
  <2> QED
    BY <2>1, <2>2, ReceiveTypes
<1>2. CASE ReceiveResend(r)
  BY <1>2, ThreadsTyped, ReceiveTypes DEF ReceiveResend
<1>3. CASE ReceiveForgot(r)
  BY <1>3, ThreadsTyped, ReceiveTypes DEF ReceiveForgot
<1>4. CASE ReceiveChange(r)
  BY <1>4, ThreadsTyped, ReceiveTypes DEF ReceiveChange
<1>5. CASE ReceiveVerify(r)
  BY <1>5, ThreadsTyped, ReceiveTypes DEF ReceiveVerify
<1>6. CASE ReceiveReset(r)
  BY <1>6, ThreadsTyped, ReceiveTypes DEF ReceiveReset
<1>7. CASE ReceiveMove(r)
  BY <1>7, ThreadsTyped, ReceiveTypes DEF ReceiveMove
<1> QED
  BY <1>1, <1>2, <1>3, <1>4, <1>5, <1>6, <1>7 DEF Arrive

\* A number at the end of a sequence.
LEMMA Appended ==
  ASSUME NEW n \in Nat, NEW f \in [1..n -> Nat], NEW x \in Nat
  PROVE  /\ Append(f, x) \in [1..(n + 1) -> Nat]
         /\ \A i \in 1..n : Append(f, x)[i] = f[i]
         /\ Append(f, x)[n + 1] = x
<1>1. f \in Seq(Nat)
  BY SeqDef
<1>2. Len(f) = n
  OBVIOUS
<1>3. Append(f, x) \in Seq(Nat) /\ Len(Append(f, x)) = n + 1
  BY <1>1, <1>2, AppendProperties
<1>4. Append(f, x) \in [1..(n + 1) -> Nat]
  BY <1>3, LenProperties
<1>5. /\ \A i \in 1..n : Append(f, x)[i] = f[i]
      /\ Append(f, x)[n + 1] = x
  BY <1>1, <1>2, AppendProperties
<1> QED
  BY <1>4, <1>5

\* The row that is inserted.
LEMMA RowType ==
  ASSUME TypeOK, NEW r \in Requests, Shape(r), pc[r] = "insert"
  PROVE  Row(r) \in Rows
<1>1. /\ call[r].phone \in Phones /\ seen[r].user \in Users /\ call[r].op \in Issuing
      /\ call[r].key \in Keys /\ seen[r].value \in Values
  BY DEF Shape
<1>2. seen[r].at + TTL \in Nat
  BY ThreadsTyped, CodesAssumption DEF SeenType, CodesAssumption
<1> QED
  BY <1>1, <1>2, PurposeType DEF Row, Rows

\* The rows that a request has locked are rows, while there is a request that inserts.
LEMMA MineAreRows ==
  ASSUME Locks, NEW r \in Requests
  PROVE  Mine(r) \subseteq DOMAIN codes
BY DEF Locks, Mine

\* What the commit of an issue does, when its key is free.
Commits(r) ==
  /\ pc[r] = "insert"
  /\ codes' = Append(codes, Row(r)) /\ used' = used \cup Mine(r)
  /\ before' = Append(before, seen[r].rows)
  /\ rowLock' = [c \in Ids |-> IF rowLock[c] = r THEN None ELSE rowLock[c]]
  /\ seen' = [seen EXCEPT ![r] = Drew(None, 0, seen[r].value, 0)]
  /\ call' = [call EXCEPT ![r].key = None]
  /\ pc' = [pc EXCEPT ![r] = "send"]
  /\ UNCHANGED <<accounts, purged, delivery, now, snap, uses>>

LEMMA CommitOrStop ==
  ASSUME NEW r \in Requests, CommitIssue(r)
  PROVE  Stop(r) \/ Commits(r)
BY DEF CommitIssue, Commits, Goto

\* The table after the commit.
LEMMA OneMoreRow ==
  ASSUME TypeOK, NEW r \in Requests, Shape(r), Commits(r)
  PROVE  /\ Len(codes)' = Len(codes) + 1 /\ Len(codes) \in Nat
         /\ DOMAIN codes = 1..Len(codes) /\ DOMAIN codes' = 1..(Len(codes) + 1)
         /\ \A c \in 1..Len(codes) : codes'[c] = codes[c]
         /\ codes'[Len(codes) + 1] = Row(r) /\ codes' \in Seq(Rows)
         /\ before' \in [1..(Len(codes) + 1) -> Nat]
         /\ \A c \in 1..Len(codes) : before'[c] = before[c]
         /\ before'[Len(codes) + 1] = seen[r].rows
<1>1. Row(r) \in Rows
  BY RowType DEF Commits
<1>2. codes \in Seq(Rows) /\ Len(codes) \in Nat /\ DOMAIN codes = 1..Len(codes)
  BY Numbered DEF TypeOK
<1>3. /\ codes' \in Seq(Rows) /\ Len(codes') = Len(codes) + 1
      /\ \A c \in 1..Len(codes) : codes'[c] = codes[c]
      /\ codes'[Len(codes) + 1] = Row(r)
  BY <1>1, <1>2, AppendProperties DEF Commits
<1>4. DOMAIN codes' = 1..(Len(codes) + 1)
  BY <1>3, LenProperties
<1>5. before \in [1..Len(codes) -> Nat] /\ seen[r].rows \in Nat
  BY <1>2, ThreadsTyped DEF TypeOK, SeenType
<1>6. /\ before' \in [1..(Len(codes) + 1) -> Nat]
      /\ \A c \in 1..Len(codes) : before'[c] = before[c]
      /\ before'[Len(codes) + 1] = seen[r].rows
  <2>1. before' = Append(before, seen[r].rows)
    BY DEF Commits
  <2> QED
    BY <1>2, <1>5, <2>1, Appended
<1> QED
  BY <1>2, <1>3, <1>4, <1>6

LEMMA CommitTypes ==
  ASSUME TypeOK, Locks, NEW r \in Requests, Shape(r), Commits(r)
  PROVE  TypeOK'
<1>1. DOMAIN codes \subseteq DOMAIN codes' /\ codes' \in Seq(Rows) /\ before' \in [DOMAIN codes' -> Nat]
  BY OneMoreRow
<1>2. used' \subseteq DOMAIN codes' /\ purged' \subseteq DOMAIN codes' /\ Accepted' \subseteq used'
  BY <1>1, MineAreRows DEF Commits, TypeOK, Accepted
<1>3. snap' \in [Requests -> SUBSET DOMAIN codes']
  BY <1>1, ThreadsTyped DEF Commits
<1>4. Drew(None, 0, seen[r].value, 0) \in SeenType
  BY ThreadsTyped, CodesAssumption DEF Drew, SeenType, CodesAssumption
<1>5. seen' \in [Requests -> SeenType]
  BY <1>4, ThreadsTyped DEF Commits
<1>6. call' \in [Requests -> CallType]
  BY ThreadsTyped DEF Commits, CallType
<1>7. pc' \in [Requests -> Steps]
  BY ThreadsTyped DEF Commits, Steps
<1>8. rowLock' \in [Ids -> Requests \cup {None}]
  BY ThreadsTyped DEF Commits
<1>9. UNCHANGED <<phone, verified, cards, purged, tasks, inbox, now, snap, uses>>
  BY DEF Commits, accounts, delivery
<1> QED
  BY <1>1, <1>2, <1>3, <1>5, <1>6, <1>7, <1>8, <1>9 DEF TypeOK, SeenType, CallType, Steps

LEMMA SendTypes ==
  ASSUME TypeOK, NEW r \in Requests, Shape(r), Send(r), Sends(r)
  PROVE  TypeOK'
<1>1. PICK c \in DOMAIN codes : codes[c].phone = call[r].phone /\ codes[c].value = seen[r].value
  BY DEF Send, Sends
<1>2. call[r].phone \in Phones /\ seen[r].value \in Values
  BY <1>1, Numbered DEF Rows
<1>3. tasks' \subseteq Phones \X Values /\ inbox' \subseteq tasks'
  BY <1>2 DEF Send, Deliver, TypeOK
<1>4. Finish(r) /\ UNCHANGED <<phone, verified, cards, codes, used, purged, before, now, uses>>
  BY DEF Send, accounts, table
<1> QED
  BY <1>3, <1>4, FinishTypes DEF TypeOK, Accepted, SeenType, CallType, Steps

LEMMA LiveRows ==
  ASSUME NEW p, NEW purpose
  PROVE  LiveFor(p, purpose) \subseteq DOMAIN codes
BY DEF LiveFor, Live

\* The newest of some rows is one of them.
LEMMA NewestIsOne ==
  ASSUME TypeOK, NEW C \in SUBSET DOMAIN codes, C # {}
  PROVE  Newest(C) \in C
<1>1. Len(codes) \in Nat /\ C \in SUBSET (1..Len(codes))
  BY Numbered
<1>2. PICK m \in C : \A k \in C : k <= m
  BY <1>1, LargestExists
<1> QED
  BY <1>2 DEF Newest

LEMMA IssueTypes ==
  ASSUME TypeOK, NEW r \in Requests, Shape(r),
         CreateCard(r) \/ BeginIssue(r) \/ Void(r)
  PROVE  TypeOK'
<1>1. CASE CreateCard(r)
  <2>1. cards' \subseteq Users
    BY <1>1, ThreadsTyped DEF CreateCard, Shape
  <2>2. pc' \in [Requests -> Steps]
    BY <1>1, ThreadsTyped DEF CreateCard, Goto, Steps
  <2> QED
    BY <1>1, <2>1, <2>2, ThreadTypes, ThreadsTyped DEF CreateCard
<1>2. CASE BeginIssue(r)
  <2>1. PICK k \in Keys, v \in Values :
          /\ call' = [call EXCEPT ![r].key = k]
          /\ seen' = [seen EXCEPT ![r] = Drew(seen[r].user, now, v, Len(codes))]
    BY <1>2 DEF BeginIssue
  <2>2. call' \in [Requests -> CallType]
    BY <2>1, ThreadsTyped DEF CallType
  <2>3. Drew(seen[r].user, now, v, Len(codes)) \in SeenType
    <3>1. now \in 0..MaxTime /\ Len(codes) \in Nat /\ seen[r].user \in Users \cup {None}
      BY Numbered, ThreadsTyped DEF TypeOK
    <3> QED
      BY <3>1 DEF Drew, SeenType
  <2>4. seen' \in [Requests -> SeenType]
    BY <2>1, <2>3, ThreadsTyped
  <2>5. snap' \in [Requests -> SUBSET DOMAIN codes]
    BY <1>2, LiveRows, ThreadsTyped DEF BeginIssue
  <2>6. pc' \in [Requests -> Steps]
    BY <1>2, ThreadsTyped DEF BeginIssue, Goto, Steps
  <2>7. UNCHANGED <<accounts, table, delivery, now, rowLock, uses>>
    BY <1>2 DEF BeginIssue
  <2> QED
    BY <2>2, <2>4, <2>5, <2>6, <2>7, ThreadTypes, ThreadsTyped DEF accounts
<1>3. CASE Void(r)
  <2>1. rowLock' \in [Ids -> Requests \cup {None}]
    BY <1>3, ThreadsTyped DEF Void
  <2>2. snap' \in [Requests -> SUBSET DOMAIN codes]
    BY <1>3, ThreadsTyped DEF Void
  <2>3. pc' \in [Requests -> Steps]
    BY <1>3, ThreadsTyped DEF Void, Goto, Steps
  <2> QED
    BY <1>3, <2>1, <2>2, <2>3, ThreadTypes, ThreadsTyped DEF Void, accounts
<1> QED
  BY <1>1, <1>2, <1>3

LEMMA LookTypes ==
  ASSUME TypeOK, NEW r \in Requests, LookForCode(r) \/ LookForPending(r) \/ LockPending(r)
  PROVE  TypeOK'
<1>1. CASE LookForCode(r)
  <2>1. snap' \in [Requests -> SUBSET DOMAIN codes]
    BY <1>1, LiveRows, ThreadsTyped DEF LookForCode, Matching
  <2>2. pc' \in [Requests -> Steps]
    BY <1>1, ThreadsTyped DEF LookForCode, Goto, Steps
  <2> QED
    BY <1>1, <2>1, <2>2, ThreadTypes, ThreadsTyped DEF LookForCode, accounts
<1>2. CASE LookForPending(r)
  <2>1. snap' \in [Requests -> SUBSET DOMAIN codes]
    BY <1>2, ThreadsTyped DEF LookForPending, Pending, Live
  <2>2. pc' \in [Requests -> Steps]
    BY <1>2, ThreadsTyped DEF LookForPending, Goto, Steps
  <2> QED
    BY <1>2, <2>1, <2>2, ThreadTypes, ThreadsTyped DEF LookForPending, accounts
<1>3. CASE LockPending(r)
  <2> DEFINE c == Newest(StillUnused(r))
  <2>1. c \in DOMAIN codes
    <3>1. StillUnused(r) \in SUBSET DOMAIN codes
      BY ThreadsTyped DEF StillUnused
    <3> QED
      BY <1>3, <3>1, NewestIsOne DEF LockPending
  <2>2. codes[c].phone \in Phones
    BY <2>1, Numbered DEF Rows
  <2> HIDE DEF c
  <2>3. /\ rowLock' = [rowLock EXCEPT ![c] = r]
        /\ call' = [call EXCEPT ![r].phone = codes[c].phone]
        /\ \E v \in Values : snap' = [snap EXCEPT ![r] = Matching(codes[c].phone, "PHONE_CHANGE", v)]
        /\ pc' = [pc EXCEPT ![r] = "redeem"]
        /\ UNCHANGED <<accounts, table, delivery, now, seen, uses>>
    BY <1>3 DEF LockPending, c, Goto
  <2>4. call' \in [Requests -> CallType]
    BY <2>2, <2>3, ThreadsTyped DEF CallType
  <2>5. snap' \in [Requests -> SUBSET DOMAIN codes]
    BY <2>3, LiveRows, ThreadsTyped DEF Matching
  <2>6. pc' \in [Requests -> Steps] /\ rowLock' \in [Ids -> Requests \cup {None}]
    BY <2>3, ThreadsTyped DEF Steps
  <2> QED
    BY <2>3, <2>4, <2>5, <2>6, ThreadTypes, ThreadsTyped DEF accounts
<1> QED
  BY <1>1, <1>2, <1>3

\* What the redemption of codes does.
Redeems(r) ==
  /\ pc[r] = "redeem" /\ RowsFree(ToRedeem(r), r)
  /\ ToRedeem(r) # {} /\ ~PhoneLost(r)
  /\ used' = used \cup ToRedeem(r)
  /\ uses' = [c \in Ids |-> uses[c] + (IF c \in ToRedeem(r) THEN 1 ELSE 0)]
  /\ Effect(r) /\ Finish(r)
  /\ UNCHANGED <<codes, purged, before, delivery, now>>

LEMMA RedeemOrStop ==
  ASSUME NEW r \in Requests, Redeem(r)
  PROVE  Stop(r) \/ Redeems(r)
BY DEF Redeem, Redeems

\* The three effects of a confirmation.
LEMMA Effects ==
  ASSUME TypeOK, NEW r \in Requests, Shape(r), Redeems(r)
  PROVE  /\ cards' = cards
         /\ \/ UNCHANGED <<phone, verified>>
            \/ /\ seen[r].user \in Users /\ verified' = verified \cup {seen[r].user}
               /\ UNCHANGED phone
            \/ /\ call[r].op = "move" /\ call[r].user \in Users /\ call[r].phone \in Phones
               /\ phone' = [phone EXCEPT ![call[r].user] = call[r].phone]
               /\ UNCHANGED verified
<1>1. call[r].op \in {"verify", "reset", "move"} /\ call[r].phone \in Phones
  BY DEF Shape, Redeems, Confirming
<1>2. CASE call[r].op = "verify"
  BY <1>2 DEF Shape, Redeems, Effect
<1>3. CASE call[r].op = "reset"
  BY <1>3 DEF Redeems, Effect, accounts
<1>4. CASE call[r].op = "move"
  BY <1>1, <1>4 DEF Shape, Redeems, Effect
<1> QED
  BY <1>1, <1>2, <1>3, <1>4

\* A redemption adds its rows to the ones that are redeemed.
LEMMA RedeemCounts ==
  ASSUME TypeOK, NEW r \in Requests, Redeems(r)
  PROVE  uses' \in [Ids -> Nat] /\ Accepted' = Accepted \cup (ToRedeem(r) \cap Ids)
<1>1. uses' = [c \in Ids |-> uses[c] + (IF c \in ToRedeem(r) THEN 1 ELSE 0)]
  BY DEF Redeems
<1>2. \A c \in Ids : uses[c] \in Nat
  BY DEF TypeOK
<1>3. \A c \in Ids : /\ uses'[c] \in Nat
                     /\ uses'[c] > 0 <=> uses[c] > 0 \/ c \in ToRedeem(r)
  <2> SUFFICES ASSUME NEW c \in Ids
               PROVE  uses'[c] \in Nat /\ (uses'[c] > 0 <=> uses[c] > 0 \/ c \in ToRedeem(r))
    OBVIOUS
  <2>1. CASE c \in ToRedeem(r)
    BY <1>1, <1>2, <2>1
  <2>2. CASE c \notin ToRedeem(r)
    BY <1>1, <1>2, <2>2
  <2> QED
    BY <2>1, <2>2
<1> QED
  BY <1>1, <1>3 DEF Accepted

LEMMA RedeemTypes ==
  ASSUME TypeOK, NEW r \in Requests, Shape(r), Redeems(r)
  PROVE  TypeOK'
<1>1. phone' \in [Users -> Phones \cup {None}] /\ verified' \subseteq Users /\ cards' \subseteq Users
  BY Effects, ThreadsTyped
<1>2. used' \subseteq DOMAIN codes /\ Accepted' \subseteq used' /\ uses' \in [Ids -> Nat]
  BY ThreadsTyped, RedeemCounts DEF Redeems, ToRedeem, StillUnused, TypeOK
<1>3. Finish(r) /\ UNCHANGED <<codes, purged, before, tasks, inbox, now>>
  BY DEF Redeems, delivery
<1> QED
  BY <1>1, <1>2, <1>3, FinishTypes DEF TypeOK, SeenType, CallType, Steps

LEMMA BackgroundTypes ==
  ASSUME TypeOK, SendMessage \/ CleanUp \/ Tick
  PROVE  TypeOK'
<1>1. UNCHANGED <<phone, verified, cards, codes, used, before, tasks, rowLock, pc, call, seen, snap, uses>>
  BY DEF SendMessage, CleanUp, Tick, accounts, table, delivery, threads
<1>2. inbox' \subseteq tasks /\ purged' \subseteq DOMAIN codes /\ now' \in 0..MaxTime
  BY CodesAssumption
  DEF SendMessage, CleanUp, Tick, TypeOK, accounts, table, delivery, threads, CodesAssumption
<1> QED
  BY <1>1, <1>2 DEF TypeOK, Accepted

-----------------------------------------------------------------------------
(* What one request's step leaves as it is.                                *)

\* Rows are only added, and used or deleted.
Grows ==
  /\ Len(codes) <= Len(codes)'
  /\ \A c \in DOMAIN codes : c \in DOMAIN codes' /\ codes'[c] = codes[c]
  /\ used \subseteq used' /\ purged \subseteq purged'

\* A step of r, seen by the request q.
Stays(q) ==
  /\ pc'[q] = pc[q] /\ call'[q] = call[q] /\ seen'[q] = seen[q] /\ snap'[q] = snap[q]
  /\ \A c \in Ids : rowLock[c] = q => rowLock'[c] = q

LEMMA SameTableGrows ==
  ASSUME TypeOK, UNCHANGED codes, used \subseteq used', purged \subseteq purged'
  PROVE  Grows
BY Numbered DEF Grows

LEMMA FewerLive ==
  ASSUME TypeOK, Grows, NEW p, NEW purpose, NEW c \in LiveFor(p, purpose)', c \in DOMAIN codes
  PROVE  c \in LiveFor(p, purpose)
BY DEF Grows, LiveFor, Live

LEMMA OthersKeep ==
  ASSUME TypeOK, TypeOK', Grows, NEW q \in Requests, RequestInv(q), Stays(q)
  PROVE  RequestInv(q)'
<1>1. Len(codes) \in Nat /\ DOMAIN codes = 1..Len(codes)
      /\ Len(codes)' \in Nat /\ DOMAIN codes' = 1..Len(codes)'
  <2>1. codes' \in Seq(Rows)
    BY DEF TypeOK
  <2> QED
    BY <2>1, Numbered
<1>2. Shape(q)'
  <2>1. pc[q] \in {"void", "insert"} => seen[q].rows <= Len(codes)'
    BY <1>1, ThreadsTyped DEF RequestInv, Shape, Grows, SeenType
  <2> QED
    BY <2>1 DEF RequestInv, Shape, Stays
<1>3. Sends(q)'
  BY DEF RequestInv, Sends, Stays, Grows
<1>4. pc[q] \in {"void", "insert"} => Outdated(q)' \subseteq Outdated(q)
  <2> SUFFICES ASSUME pc[q] \in {"void", "insert"}, NEW c \in Outdated(q)'
               PROVE  c \in Outdated(q)
    OBVIOUS
  <2>1. c \in LiveFor(call[q].phone, Purpose[call[q].op])' /\ c <= seen[q].rows
    BY DEF Outdated, Stays
  <2>2. c \in DOMAIN codes'
    BY <2>1 DEF LiveFor, Live
  <2>3. seen[q].rows <= Len(codes) /\ seen[q].rows \in Nat
    BY ThreadsTyped DEF RequestInv, Shape, SeenType
  <2>4. c \in DOMAIN codes
    BY <1>1, <2>1, <2>2, <2>3
  <2>5. c \in LiveFor(call[q].phone, Purpose[call[q].op])
    BY <2>1, <2>4, FewerLive DEF LiveFor, Live, Grows, Stays
  <2> QED
    BY <2>1, <2>5 DEF Outdated
<1>5. Mine(q) \subseteq Mine(q)'
  BY DEF Mine, Stays
<1>6. Voids(q)'
  BY <1>4, <1>5 DEF RequestInv, Voids, Stays
<1>8. Finds(q)'
  BY ThreadsTyped DEF RequestInv, Finds, Stays, Grows
<1>7. Selects(q)'
  BY ThreadsTyped DEF RequestInv, Selects, Fits, Stays, Grows
<1> QED
  BY <1>2, <1>3, <1>6, <1>7, <1>8 DEF RequestInv

LEMMA LocksKept ==
  ASSUME Locks, Grows,
         \A c \in Ids, q \in Requests :
           rowLock'[c] = q => rowLock[c] = q /\ pc'[q] = pc[q] /\ call'[q] = call[q]
  PROVE  Locks'
BY DEF Locks, Fits, Grows

LEMMA InsertingCounts ==
  Cardinality(Inserting) \in Nat /\ IsFiniteSet(Inserting)
<1>1. IsFiniteSet(Requests) /\ Inserting \subseteq Requests
  BY CodesAssumption DEF CodesAssumption, Inserting
<1> QED
  BY <1>1, FS_Subset, FS_CardinalityType

LEMMA InsertingCountsAfter ==
  Cardinality(Inserting)' \in Nat /\ IsFiniteSet(Inserting')
<1>1. IsFiniteSet(Requests) /\ Inserting' \subseteq Requests
  BY CodesAssumption DEF CodesAssumption, Inserting
<1> QED
  BY <1>1, FS_Subset, FS_CardinalityType

LEMMA RoomKept ==
  ASSUME TypeOK, Room, UNCHANGED codes, Inserting' \subseteq Inserting
  PROVE  Room'
<1>1. Cardinality(Inserting)' <= Cardinality(Inserting)
  BY InsertingCounts, FS_Subset
<1> QED
  BY <1>1, InsertingCounts, InsertingCountsAfter, Numbered, CodesAssumption
  DEF Room, CodesAssumption

LEMMA CoexistenceKept ==
  ASSUME TypeOK, OnlyOverlappingIssuesCoexist, UNCHANGED <<codes, before>>,
         used \subseteq used', purged \subseteq purged'
  PROVE  OnlyOverlappingIssuesCoexist'
BY DEF OnlyOverlappingIssuesCoexist, Live

LEMMA MessagesKept ==
  ASSUME NoPhantomMessage, Grows, UNCHANGED tasks
  PROVE  NoPhantomMessage'
BY DEF NoPhantomMessage, Grows

\* A step of r that adds no row and sends nothing.
LEMMA ThreadStep ==
  ASSUME IInv, TypeOK', NEW r \in Requests,
         UNCHANGED <<codes, before, tasks>>, used \subseteq used', purged \subseteq purged',
         \A q \in Requests \ {r} : Stays(q),
         RequestInv(r)', Locks', Room'
  PROVE  IInv'
<1>1. Grows
  BY SameTableGrows DEF IInv
<1>2. \A q \in Requests : RequestInv(q)'
  BY <1>1, OthersKeep DEF IInv
<1>3. OnlyOverlappingIssuesCoexist' /\ NoPhantomMessage'
  BY <1>1, CoexistenceKept, MessagesKept DEF IInv
<1> QED
  BY <1>2, <1>3 DEF IInv

-----------------------------------------------------------------------------
(* The steps, one by one.                                                  *)

LEMMA FinishFacts ==
  ASSUME TypeOK, NEW r \in Requests, Finish(r)
  PROVE  /\ RequestInv(r)' /\ \A q \in Requests \ {r} : Stays(q)
         /\ \A c \in Ids, q \in Requests : rowLock'[c] = q => rowLock[c] = q /\ q # r
         /\ Inserting' \subseteq Inserting
<1>1. pc' = [pc EXCEPT ![r] = "idle"] /\ pc'[r] = "idle"
  BY ThreadsTyped DEF Finish, Goto
<1>2. RequestInv(r)'
  BY <1>1 DEF RequestInv, Shape, Sends, Voids, Selects, Finds
<1>3. \A c \in Ids : rowLock'[c] = IF rowLock[c] = r THEN None ELSE rowLock[c]
  BY DEF Finish
<1>4. None \notin Requests
  BY CodesAssumption DEF CodesAssumption
<1>5. \A q \in Requests \ {r} : Stays(q)
  BY <1>3, ThreadsTyped DEF Finish, Goto, Stays
<1>6. Inserting' \subseteq Inserting
  BY <1>1, ThreadsTyped DEF Inserting
<1> QED
  BY <1>2, <1>3, <1>4, <1>5, <1>6

LEMMA LocksAfterFinish ==
  ASSUME TypeOK, Locks, Grows, NEW r \in Requests, Finish(r)
  PROVE  Locks'
<1>1. \A c \in Ids, q \in Requests : rowLock'[c] = q => rowLock[c] = q /\ q # r
  BY FinishFacts
<1>2. \A q \in Requests \ {r} : pc'[q] = pc[q] /\ call'[q] = call[q]
  BY FinishFacts DEF Stays
<1> QED
  BY <1>1, <1>2, LocksKept

LEMMA StopKeeps ==
  ASSUME IInv, NEW r \in Requests, Stop(r)
  PROVE  IInv'
<1>1. UNCHANGED <<codes, used, purged, before, tasks>> /\ Finish(r) /\ TypeOK
  BY DEF Stop, table, delivery, IInv
<1>2. TypeOK'
  BY StopTypes DEF IInv
<1>3. Grows
  BY <1>1, SameTableGrows
<1>4. Locks' /\ Room'
  BY <1>1, <1>3, LocksAfterFinish, FinishFacts, RoomKept DEF IInv
<1> QED
  BY <1>1, <1>2, <1>4, FinishFacts, ThreadStep

LEMMA ReceiveKeeps ==
  ASSUME IInv, TypeOK', NEW r \in Requests, NEW op \in AllOperations, NEW u \in Users \cup {None},
         NEW p \in Phones \cup {None}, NEW w \in Users \cup {None},
         NEW at \in {"card", "issue", "look"},
         Receive(r, Asks(op, u, p), w, at),
         at \in {"card", "issue"} => op \in Issuing /\ p \in Phones /\ w \in Users,
         at = "card" => u \in Users,
         at = "look" => /\ op \in Confirming
                        /\ op # "move" => p \in Phones
                        /\ op = "move" => u \in Users
                        /\ op = "verify" => w \in Users
  PROVE  IInv'
<1>1. /\ pc' = [pc EXCEPT ![r] = at] /\ pc[r] = "idle"
      /\ call' = [call EXCEPT ![r] = Asks(op, u, p)]
      /\ seen' = [seen EXCEPT ![r] = Saw(w, w # None /\ w \notin verified)]
      /\ UNCHANGED <<codes, used, purged, before, tasks, rowLock, snap>>
      /\ op \in Issuing => RowLeft
  BY DEF Receive, Goto, table, delivery, Asks
<1> HIDE DEF Asks
<1>2. pc'[r] = at /\ call'[r] = Asks(op, u, p) /\ seen'[r].user = w
  BY <1>1, ThreadsTyped DEF Saw, Drew, IInv
<1>3. RequestInv(r)'
  <2>1. Shape(r)'
    BY <1>2 DEF Shape, Asks
  <2> QED
    BY <1>2, <2>1 DEF RequestInv, Sends, Voids, Selects, Finds
<1>4. \A q \in Requests \ {r} : Stays(q)
  BY <1>1, ThreadsTyped DEF Stays, IInv
<1>5. Locks'
  <2>1. \A c \in Ids : rowLock[c] # r
    BY <1>1 DEF IInv, Locks
  <2>2. Grows
    BY <1>1, SameTableGrows DEF IInv
  <2> QED
    BY <1>1, <1>4, <2>1, <2>2, LocksKept DEF Stays, IInv
<1>6. Room'
  <2>1. CASE at = "look"
    <3>1. Inserting' \subseteq Inserting
      BY <1>1, <2>1, ThreadsTyped DEF Inserting, IInv
    <3> QED
      BY <1>1, <3>1, RoomKept DEF IInv
  <2>2. CASE at # "look"
    <3>1. Len(codes) + Cardinality(Inserting) < MaxCodes
      BY <1>1, <2>2 DEF RowLeft, Inserting
    <3>2. r \notin Inserting /\ Inserting' = Inserting \cup {r}
      BY <1>1, <2>2, ThreadsTyped DEF Inserting, IInv
    <3>3. Cardinality(Inserting)' = Cardinality(Inserting) + 1
      BY <3>2, InsertingCounts, FS_AddElement
    <3>4. Len(codes)' = Len(codes)
      BY <1>1
    <3> QED
      BY <3>1, <3>3, <3>4, InsertingCounts, Numbered, CodesAssumption DEF Room, IInv, CodesAssumption
  <2> QED
    BY <2>1, <2>2
<1> QED
  BY <1>1, <1>3, <1>4, <1>5, <1>6, ThreadStep

LEMMA ArriveKeeps ==
  ASSUME IInv, NEW r \in Requests, Arrive(r)
  PROVE  IInv'
<1> USE DEF AllOperations, Issuing, Confirming
<1>0. TypeOK' /\ TypeOK
  BY ArriveTypes DEF IInv
<1>n. None \notin Users \cup Phones
  BY CodesAssumption DEF CodesAssumption
<1>1. CASE Register(r)
  BY <1>0, <1>1, ReceiveKeeps DEF Register
<1>2. CASE ReceiveResend(r)
  BY <1>0, <1>2, ThreadsTyped, ReceiveKeeps DEF ReceiveResend
<1>3. CASE ReceiveForgot(r)
  BY <1>0, <1>3, ThreadsTyped, ReceiveKeeps DEF ReceiveForgot
<1>4. CASE ReceiveChange(r)
  BY <1>0, <1>4, ThreadsTyped, ReceiveKeeps DEF ReceiveChange
<1>5. CASE ReceiveVerify(r)
  BY <1>0, <1>5, ThreadsTyped, ReceiveKeeps DEF ReceiveVerify
<1>6. CASE ReceiveReset(r)
  BY <1>0, <1>6, ThreadsTyped, ReceiveKeeps DEF ReceiveReset
<1>7. CASE ReceiveMove(r)
  BY <1>0, <1>7, ThreadsTyped, ReceiveKeeps DEF ReceiveMove
<1> QED
  BY <1>1, <1>2, <1>3, <1>4, <1>5, <1>6, <1>7 DEF Arrive

\* A step of r that leaves the table and the locks alone, and r without a lock.
LEMMA UnlockedStep ==
  ASSUME IInv, TypeOK', NEW r \in Requests, pc[r] \notin {"insert", "redeem"},
         UNCHANGED <<codes, used, purged, before, tasks, rowLock>>,
         \A q \in Requests \ {r} : Stays(q), RequestInv(r)', Inserting' \subseteq Inserting
  PROVE  IInv'
<1>1. \A c \in Ids : rowLock[c] # r
  BY DEF IInv, Locks
<1>2. Grows
  BY SameTableGrows DEF IInv
<1>3. Locks'
  BY <1>1, <1>2, LocksKept DEF Stays, IInv
<1>4. Room'
  BY RoomKept DEF IInv
<1> QED
  BY <1>3, <1>4, ThreadStep

LEMMA CreateCardKeeps ==
  ASSUME IInv, NEW r \in Requests, CreateCard(r)
  PROVE  IInv'
<1>1. TypeOK' /\ TypeOK /\ RequestInv(r)
  BY IssueTypes DEF IInv, RequestInv
<1>2. /\ pc[r] = "card" /\ pc' = [pc EXCEPT ![r] = "issue"]
      /\ UNCHANGED <<codes, used, purged, before, tasks, rowLock, call, seen, snap>>
  BY DEF CreateCard, Goto, table, delivery
<1>3. RequestInv(r)'
  <2>1. pc'[r] = "issue"
    BY <1>1, <1>2, ThreadsTyped
  <2>2. Shape(r)'
    BY <1>1, <1>2, <2>1 DEF RequestInv, Shape
  <2> QED
    BY <2>1, <2>2 DEF RequestInv, Sends, Voids, Selects, Finds
<1>4. \A q \in Requests \ {r} : Stays(q)
  BY <1>1, <1>2, ThreadsTyped DEF Stays
<1>5. Inserting' \subseteq Inserting
  BY <1>1, <1>2, ThreadsTyped DEF Inserting
<1> QED
  BY <1>1, <1>2, <1>3, <1>4, <1>5, UnlockedStep

LEMMA BeginIssueKeeps ==
  ASSUME IInv, NEW r \in Requests, BeginIssue(r)
  PROVE  IInv'
<1>1. TypeOK' /\ TypeOK /\ RequestInv(r)
  BY IssueTypes DEF IInv, RequestInv
<1>2. PICK k \in Keys, v \in Values :
        /\ pc[r] = "issue" /\ pc' = [pc EXCEPT ![r] = "void"]
        /\ call' = [call EXCEPT ![r].key = k]
        /\ seen' = [seen EXCEPT ![r] = Drew(seen[r].user, now, v, Len(codes))]
        /\ snap' = [snap EXCEPT ![r] = LiveFor(call[r].phone, Purpose[call[r].op])]
        /\ UNCHANGED <<codes, used, purged, before, tasks, rowLock>>
  BY DEF BeginIssue, Goto, table, delivery
<1>3. /\ pc'[r] = "void" /\ call'[r].key = k /\ call'[r].phone = call[r].phone
      /\ call'[r].op = call[r].op /\ call'[r].user = call[r].user
      /\ seen'[r].user = seen[r].user /\ seen'[r].value = v /\ seen'[r].rows = Len(codes)
      /\ snap'[r] = LiveFor(call[r].phone, Purpose[call[r].op])
  BY <1>1, <1>2, ThreadsTyped DEF CallType, Drew
<1>4. RequestInv(r)'
  <2>1. Shape(r)'
    BY <1>1, <1>2, <1>3, Numbered DEF RequestInv, Shape
  <2>2. Outdated(r)' \subseteq snap'[r]
    BY <1>2, <1>3 DEF Outdated, LiveFor, Live
  <2>3. Selects(r)'
    BY <1>2, <1>3 DEF Selects, Fits, LiveFor
  <2> QED
    BY <1>3, <2>1, <2>2, <2>3 DEF RequestInv, Sends, Voids, Finds
<1>5. \A q \in Requests \ {r} : Stays(q)
  BY <1>1, <1>2, ThreadsTyped DEF Stays
<1>6. Inserting' \subseteq Inserting
  BY <1>1, <1>2, ThreadsTyped DEF Inserting
<1> QED
  BY <1>1, <1>2, <1>4, <1>5, <1>6, UnlockedStep

LEMMA VoidKeeps ==
  ASSUME IInv, NEW r \in Requests, Void(r)
  PROVE  IInv'
<1>1. TypeOK' /\ TypeOK /\ RequestInv(r) /\ Locks /\ Room
  BY IssueTypes DEF IInv, RequestInv
<1>2. /\ pc[r] = "void" /\ pc' = [pc EXCEPT ![r] = "insert"]
      /\ rowLock' = [c \in Ids |-> IF c \in StillUnused(r) THEN r ELSE rowLock[c]]
      /\ snap' = [snap EXCEPT ![r] = {}]
      /\ RowsFree(StillUnused(r), r)
      /\ UNCHANGED <<codes, used, purged, before, tasks, call, seen>>
  BY DEF Void, Goto, table, delivery
<1>3. pc'[r] = "insert"
  BY <1>1, <1>2, ThreadsTyped
<1>4. StillUnused(r) \subseteq DOMAIN codes /\ StillUnused(r) \subseteq snap[r]
  BY <1>1, ThreadsTyped DEF StillUnused
<1>5. DOMAIN codes \subseteq Ids
  <2>1. Len(codes) \in Nat /\ MaxCodes \in Nat /\ Len(codes) <= MaxCodes
    BY <1>1, InsertingCounts, Numbered, CodesAssumption DEF Room, CodesAssumption
  <2> QED
    BY <1>1, <2>1, Numbered DEF Ids
<1>6. RequestInv(r)'
  <2>1. Shape(r)'
    BY <1>1, <1>2, <1>3 DEF RequestInv, Shape
  <2>2. Outdated(r)' \subseteq StillUnused(r)
    BY <1>1, <1>2 DEF RequestInv, Voids, Outdated, LiveFor, Live, StillUnused
  <2>3. StillUnused(r) \subseteq Mine(r)'
    BY <1>2, <1>4, <1>5 DEF Mine
  <2> QED
    BY <1>3, <2>1, <2>2, <2>3 DEF RequestInv, Sends, Voids, Selects, Finds
<1>7. \A q \in Requests \ {r} : Stays(q)
  <2>1. \A c \in Ids : rowLock[c] \in Requests \ {r} => rowLock'[c] = rowLock[c]
    <3>1. \A c \in StillUnused(r) : rowLock[c] \notin Requests \ {r}
      BY <1>2, CodesAssumption DEF RowsFree, CodesAssumption
    <3> QED
      BY <1>2, <3>1
  <2> QED
    BY <1>1, <1>2, <2>1, ThreadsTyped DEF Stays
<1>8. Locks'
  <2> SUFFICES ASSUME NEW c \in Ids, NEW q \in Requests, rowLock'[c] = q
               PROVE  pc'[q] \in {"insert", "redeem"} /\ c \in DOMAIN codes /\ Fits(c, q)
    BY <1>2 DEF Locks, Fits
  <2>1. CASE c \in StillUnused(r)
    <3>1. q = r /\ c \in DOMAIN codes /\ c \in snap[r]
      BY <1>2, <1>4, <2>1
    <3> QED
      BY <1>1, <1>2, <1>3, <3>1 DEF RequestInv, Selects
  <2>2. CASE c \notin StillUnused(r)
    <3>1. rowLock[c] = q
      BY <1>2, <2>2
    <3>2. q # r
      BY <1>1, <1>2, <3>1 DEF Locks
    <3> QED
      BY <1>1, <1>7, <3>1, <3>2 DEF Locks, Stays
  <2> QED
    BY <2>1, <2>2
<1>9. Room'
  <2>1. Inserting' \subseteq Inserting
    BY <1>1, <1>2, ThreadsTyped DEF Inserting
  <2> QED
    BY <1>1, <1>2, <2>1, RoomKept
<1> QED
  BY <1>1, <1>2, <1>6, <1>7, <1>8, <1>9, ThreadStep

LEMMA CommitKeeps ==
  ASSUME IInv, NEW r \in Requests, Commits(r)
  PROVE  IInv'
<1>1. TypeOK /\ RequestInv(r) /\ Shape(r) /\ Locks /\ Room
  BY DEF IInv, RequestInv
<1>2. TypeOK'
  BY <1>1, CommitTypes
<1> DEFINE n == Len(codes)
<1>3. /\ n \in Nat /\ Len(codes)' = n + 1
      /\ DOMAIN codes = 1..n /\ DOMAIN codes' = 1..(n + 1)
      /\ \A c \in 1..n : codes'[c] = codes[c] /\ before'[c] = before[c]
      /\ codes'[n + 1] = Row(r) /\ before'[n + 1] = seen[r].rows
  BY <1>1, OneMoreRow
<1> HIDE DEF n
<1>4. /\ used' = used \cup Mine(r) /\ purged' = purged /\ tasks' = tasks
      /\ pc[r] = "insert" /\ pc' = [pc EXCEPT ![r] = "send"]
      /\ call' = [call EXCEPT ![r].key = None] /\ snap' = snap
      /\ seen' = [seen EXCEPT ![r] = Drew(None, 0, seen[r].value, 0)]
      /\ rowLock' = [c \in Ids |-> IF rowLock[c] = r THEN None ELSE rowLock[c]]
  BY DEF Commits, delivery
<1>5. Grows
  BY <1>3, <1>4 DEF Grows
<1>6. \A q \in Requests \ {r} : Stays(q)
  BY <1>1, <1>4, ThreadsTyped DEF Stays
<1>7. /\ pc'[r] = "send" /\ call'[r].phone = call[r].phone /\ call'[r].op = call[r].op
      /\ seen'[r].value = seen[r].value
  BY <1>1, <1>4, ThreadsTyped DEF CallType, Drew
<1>8. RequestInv(r)'
  <2>1. Shape(r)'
    BY <1>1, <1>4, <1>7 DEF Shape
  <2>2. n + 1 \in DOMAIN codes' /\ codes'[n + 1].phone = call[r].phone
        /\ codes'[n + 1].value = seen[r].value
    BY <1>3 DEF Row
  <2>3. Sends(r)'
    BY <1>7, <2>2 DEF Sends
  <2> QED
    BY <1>7, <2>1, <2>3 DEF RequestInv, Voids, Selects, Finds
<1>9. \A q \in Requests : RequestInv(q)'
  BY <1>1, <1>2, <1>5, <1>6, <1>8, OthersKeep DEF IInv
<1>10. Locks'
  <2>1. \A c \in Ids, q \in Requests : rowLock'[c] = q => rowLock[c] = q /\ q # r
    BY <1>4, CodesAssumption DEF CodesAssumption
  <2> QED
    BY <1>1, <1>5, <1>6, <2>1, LocksKept DEF Stays
<1>11. Room'
  <2>1. r \in Inserting /\ Inserting' = Inserting \ {r}
    BY <1>1, <1>4, ThreadsTyped DEF Inserting
  <2>2. Cardinality(Inserting)' = Cardinality(Inserting) - 1
    BY <2>1, InsertingCounts, FS_RemoveElement
  <2>3. n + Cardinality(Inserting) <= MaxCodes
    BY <1>1 DEF Room, n
  <2>4. (n + 1) + (Cardinality(Inserting) - 1) <= MaxCodes
    BY <1>3, <2>3, InsertingCounts, CodesAssumption DEF CodesAssumption
  <2> QED
    BY <1>3, <2>2, <2>4 DEF Room
<1>12. OnlyOverlappingIssuesCoexist'
  <2> SUFFICES ASSUME NEW c \in Live', NEW d \in Live', c < d,
                      codes'[c].phone = codes'[d].phone, codes'[c].purpose = codes'[d].purpose
               PROVE  c > before'[d]
    BY DEF OnlyOverlappingIssuesCoexist
  <2>1. c \in 1..(n + 1) /\ d \in 1..(n + 1) /\ c \in 1..n
    BY <1>3 DEF Live
  <2>2. c \in Live
    BY <1>3, <1>4, <2>1 DEF Live
  <2>3. CASE d \in 1..n
    <3>1. d \in Live /\ codes[c].phone = codes[d].phone /\ codes[c].purpose = codes[d].purpose
      BY <1>3, <1>4, <2>1, <2>3 DEF Live
    <3> QED
      BY <1>3, <2>2, <2>3, <3>1 DEF IInv, OnlyOverlappingIssuesCoexist
  <2>4. CASE d = n + 1
    <3>1. codes[c].phone = call[r].phone /\ codes[c].purpose = Purpose[call[r].op]
      BY <1>3, <2>1, <2>4 DEF Row
    <3>2. c \notin Mine(r)
      BY <1>4 DEF Live
    <3>3. c \notin Outdated(r)
      BY <1>1, <1>4, <3>2 DEF RequestInv, Voids
    <3>4. ~(c <= seen[r].rows)
      BY <2>2, <3>1, <3>3 DEF Outdated, LiveFor
    <3>5. seen[r].rows \in Nat
      BY <1>1, ThreadsTyped DEF SeenType
    <3> QED
      BY <1>3, <2>1, <2>4, <3>4, <3>5
  <2> QED
    BY <1>3, <2>1, <2>3, <2>4
<1>13. NoPhantomMessage'
  BY <1>4, <1>5, MessagesKept DEF IInv
<1> QED
  BY <1>2, <1>9, <1>10, <1>11, <1>12, <1>13 DEF IInv

LEMMA SendKeeps ==
  ASSUME IInv, NEW r \in Requests, Send(r)
  PROVE  IInv'
<1>1. TypeOK /\ RequestInv(r) /\ Shape(r) /\ Sends(r) /\ Locks /\ Room
  BY DEF IInv, RequestInv
<1>2. TypeOK'
  BY <1>1, SendTypes
<1>3. /\ pc[r] = "send" /\ Finish(r) /\ UNCHANGED <<codes, used, purged, before>>
      /\ tasks' = tasks \cup {<<call[r].phone, seen[r].value>>}
  BY DEF Send, Deliver, table
<1>4. Grows
  BY <1>1, <1>3, SameTableGrows
<1>5. \A q \in Requests : RequestInv(q)'
  BY <1>1, <1>2, <1>3, <1>4, FinishFacts, OthersKeep DEF IInv
<1>6. Locks' /\ Room'
  BY <1>1, <1>3, <1>4, FinishFacts, LocksAfterFinish, RoomKept
<1>7. OnlyOverlappingIssuesCoexist'
  BY <1>1, <1>3, CoexistenceKept DEF IInv
<1>8. NoPhantomMessage'
  <2>1. \E c \in DOMAIN codes : <<codes[c].phone, codes[c].value>> = <<call[r].phone, seen[r].value>>
    BY <1>1, <1>3 DEF Sends
  <2> QED
    BY <1>3, <2>1 DEF IInv, NoPhantomMessage
<1> QED
  BY <1>2, <1>5, <1>6, <1>7, <1>8 DEF IInv

LEMMA LookKeeps ==
  ASSUME IInv, NEW r \in Requests, LookForCode(r) \/ LookForPending(r)
  PROVE  IInv'
<1>1. TypeOK' /\ TypeOK /\ RequestInv(r)
  BY LookTypes DEF IInv, RequestInv
<1>2. PICK C \in SUBSET DOMAIN codes, at \in {"redeem", "pending"} :
        /\ pc[r] = "look" /\ pc' = [pc EXCEPT ![r] = at]
        /\ at = "pending" <=> call[r].op = "move"
        /\ at = "pending" => \A c \in C : /\ codes[c].user = call[r].user
                                         /\ codes[c].purpose = "PHONE_CHANGE"
        /\ at = "redeem" => call[r].op # "move" /\ \A c \in C : Fits(c, r)
        /\ snap' = [snap EXCEPT ![r] = C]
        /\ UNCHANGED <<codes, used, purged, before, tasks, rowLock, call, seen>>
  <2>1. CASE LookForCode(r)
    <3>1. PICK v \in Values :
            snap' = [snap EXCEPT ![r] = Matching(call[r].phone, Purpose[call[r].op], v)]
      BY <2>1 DEF LookForCode
    <3>2. \A c \in Matching(call[r].phone, Purpose[call[r].op], v) :
            c \in DOMAIN codes /\ Fits(c, r)
      BY DEF Matching, LiveFor, Live, Fits
    <3>3. Matching(call[r].phone, Purpose[call[r].op], v) \in SUBSET DOMAIN codes
      BY <3>2
    <3>4. /\ pc[r] = "look" /\ pc' = [pc EXCEPT ![r] = "redeem"] /\ call[r].op # "move"
          /\ UNCHANGED <<codes, used, purged, before, tasks, rowLock, call, seen>>
      BY <2>1 DEF LookForCode, Goto, table, delivery
    <3> QED
      BY <3>1, <3>2, <3>3, <3>4
  <2>2. CASE LookForPending(r)
    <3>1. /\ Pending(call[r].user) \in SUBSET DOMAIN codes
          /\ \A c \in Pending(call[r].user) : /\ codes[c].user = call[r].user
                                              /\ codes[c].purpose = "PHONE_CHANGE"
      BY DEF Pending, Live
    <3>2. /\ pc[r] = "look" /\ pc' = [pc EXCEPT ![r] = "pending"] /\ call[r].op = "move"
          /\ snap' = [snap EXCEPT ![r] = Pending(call[r].user)]
          /\ UNCHANGED <<codes, used, purged, before, tasks, rowLock, call, seen>>
      BY <2>2 DEF LookForPending, Goto, table, delivery
    <3> QED
      BY <3>1, <3>2
  <2> QED
    BY <2>1, <2>2
<1>3. pc'[r] = at /\ snap'[r] = C
  BY <1>1, <1>2, ThreadsTyped
<1>4. RequestInv(r)'
  <2>1. Shape(r)'
    BY <1>1, <1>2, <1>3 DEF RequestInv, Shape
  <2>2. Selects(r)'
    BY <1>2, <1>3 DEF Selects, Fits
  <2>3. Finds(r)'
    BY <1>2, <1>3 DEF Finds
  <2> QED
    BY <1>3, <2>1, <2>2, <2>3 DEF RequestInv, Sends, Voids
<1>5. \A q \in Requests \ {r} : Stays(q)
  BY <1>1, <1>2, ThreadsTyped DEF Stays
<1>6. Inserting' \subseteq Inserting
  BY <1>1, <1>2, ThreadsTyped DEF Inserting
<1> QED
  BY <1>1, <1>2, <1>4, <1>5, <1>6, UnlockedStep

LEMMA LockPendingKeeps ==
  ASSUME IInv, NEW r \in Requests, LockPending(r)
  PROVE  IInv'
<1>1. TypeOK' /\ TypeOK /\ RequestInv(r) /\ Locks /\ Room
  BY LookTypes DEF IInv, RequestInv
<1> DEFINE c == Newest(StillUnused(r))
<1>2. c \in DOMAIN codes
  <2>1. StillUnused(r) \in SUBSET DOMAIN codes
    BY <1>1, ThreadsTyped DEF StillUnused
  <2> QED
    BY <1>1, <2>1, NewestIsOne DEF LockPending
<1>3. codes[c].phone \in Phones
  BY <1>1, <1>2, Numbered DEF Rows
<1>p. codes[c].purpose = "PHONE_CHANGE" /\ call[r].op = "move" /\ Purpose["move"] = "PHONE_CHANGE"
  <2>1. StillUnused(r) \in SUBSET DOMAIN codes /\ StillUnused(r) \subseteq snap[r]
    BY <1>1, ThreadsTyped DEF StillUnused
  <2>2. c \in snap[r]
    BY <1>1, <2>1, NewestIsOne DEF LockPending
  <2> QED
    BY <1>1, <2>2 DEF LockPending, RequestInv, Finds, Shape, Purpose
<1>4. /\ pc[r] = "pending" /\ pc' = [pc EXCEPT ![r] = "redeem"]
      /\ rowLock[c] = None /\ rowLock' = [rowLock EXCEPT ![c] = r]
      /\ call' = [call EXCEPT ![r].phone = codes[c].phone]
      /\ \E v \in Values : snap' = [snap EXCEPT ![r] = Matching(codes[c].phone, "PHONE_CHANGE", v)]
      /\ UNCHANGED <<codes, used, purged, before, tasks, seen>>
  BY DEF LockPending, c, Goto, table, delivery
<1> HIDE DEF c
<1>5. PICK v \in Values : snap' = [snap EXCEPT ![r] = Matching(codes[c].phone, "PHONE_CHANGE", v)]
  BY <1>4
<1>6. /\ pc'[r] = "redeem" /\ call'[r].phone = codes[c].phone /\ call'[r].op = call[r].op
      /\ call'[r].user = call[r].user /\ snap'[r] = Matching(codes[c].phone, "PHONE_CHANGE", v)
  BY <1>1, <1>4, <1>5, ThreadsTyped DEF CallType
<1>7. RequestInv(r)'
  <2>1. Shape(r)'
    BY <1>1, <1>3, <1>4, <1>6 DEF RequestInv, Shape
  <2>2. Selects(r)'
    BY <1>4, <1>6, <1>p DEF Selects, Fits, Matching, LiveFor
  <2> QED
    BY <1>6, <2>1, <2>2 DEF RequestInv, Sends, Voids, Finds
<1>8. \A q \in Requests \ {r} : Stays(q)
  <2>1. \A d \in Ids : rowLock[d] \in Requests \ {r} => rowLock'[d] = rowLock[d]
    BY <1>1, <1>4, ThreadsTyped, CodesAssumption DEF CodesAssumption
  <2> QED
    BY <1>1, <1>4, <1>5, <2>1, ThreadsTyped DEF Stays
<1>9. Locks'
  <2> SUFFICES ASSUME NEW d \in Ids, NEW q \in Requests, rowLock'[d] = q
               PROVE  /\ pc'[q] \in {"insert", "redeem"} /\ d \in DOMAIN codes
                      /\ codes[d].phone = call'[q].phone
                      /\ codes[d].purpose = Purpose[call'[q].op]
    BY <1>4 DEF Locks, Fits
  <2>1. CASE d = c
    <3>1. q = r
      BY <1>1, <1>4, <2>1, ThreadsTyped
    <3> QED
      BY <1>2, <1>6, <1>p, <2>1, <3>1
  <2>2. CASE d # c
    <3>1. rowLock[d] = q
      BY <1>1, <1>4, <2>2, ThreadsTyped
    <3>2. q # r
      BY <1>1, <1>4, <3>1 DEF Locks
    <3> QED
      BY <1>1, <1>8, <3>1, <3>2 DEF Locks, Fits, Stays
  <2> QED
    BY <2>1, <2>2
<1>10. Room'
  <2>1. Inserting' \subseteq Inserting
    BY <1>1, <1>4, ThreadsTyped DEF Inserting
  <2> QED
    BY <1>1, <1>4, <2>1, RoomKept
<1> QED
  BY <1>1, <1>4, <1>7, <1>8, <1>9, <1>10, ThreadStep

LEMMA RedeemKeeps ==
  ASSUME IInv, NEW r \in Requests, Redeems(r)
  PROVE  IInv'
<1>1. TypeOK' /\ TypeOK /\ Locks /\ Room
  BY RedeemTypes DEF IInv, RequestInv
<1>2. /\ Finish(r) /\ UNCHANGED <<codes, before, tasks>>
      /\ used \subseteq used' /\ purged \subseteq purged'
  BY DEF Redeems, delivery
<1>3. Grows
  BY <1>1, <1>2, SameTableGrows
<1>4. Locks' /\ Room'
  BY <1>1, <1>2, <1>3, LocksAfterFinish, FinishFacts, RoomKept
<1> QED
  BY <1>1, <1>2, <1>4, FinishFacts, ThreadStep

LEMMA BackgroundKeeps ==
  ASSUME IInv, SendMessage \/ CleanUp \/ Tick
  PROVE  IInv'
<1>1. TypeOK' /\ TypeOK /\ Locks /\ Room
  BY BackgroundTypes DEF IInv
<1>2. /\ UNCHANGED <<codes, used, before, tasks, rowLock, pc, call, seen, snap>>
      /\ purged \subseteq purged'
  BY DEF SendMessage, CleanUp, Tick, table, delivery, threads
<1>3. Grows
  BY <1>1, <1>2, SameTableGrows
<1>4. \A q \in Requests : Stays(q)
  BY <1>2 DEF Stays
<1>5. \A q \in Requests : RequestInv(q)'
  BY <1>1, <1>3, <1>4, OthersKeep DEF IInv
<1>6. Locks'
  BY <1>1, <1>2, <1>3, LocksKept
<1>7. Room'
  BY <1>1, <1>2, RoomKept DEF Inserting
<1>8. OnlyOverlappingIssuesCoexist' /\ NoPhantomMessage'
  BY <1>1, <1>2, <1>3, CoexistenceKept, MessagesKept DEF IInv
<1> QED
  BY <1>1, <1>5, <1>6, <1>7, <1>8 DEF IInv

-----------------------------------------------------------------------------
(* The invariant holds.                                                    *)

LEMMA InitEstablishes == Init => IInv
<1> SUFFICES ASSUME Init PROVE IInv
  OBVIOUS
<1>1. codes = <<>> /\ Len(codes) = 0 /\ DOMAIN codes = {}
  BY DEF Init
<1>2. TypeOK
  <2>1. call \in [Requests -> CallType] /\ seen \in [Requests -> SeenType]
    BY NoCallType, NothingSeenType DEF Init
  <2>2. codes \in Seq(Rows) /\ before \in [DOMAIN codes -> Nat]
    BY <1>1 DEF Init
  <2>3. /\ phone \in [Users -> Phones \cup {None}] /\ verified \subseteq Users /\ cards \subseteq Users
        /\ now \in 0..MaxTime /\ rowLock \in [Ids -> Requests \cup {None}]
        /\ pc \in [Requests -> Steps] /\ snap \in [Requests -> SUBSET DOMAIN codes]
    BY CodesAssumption DEF Init, CodesAssumption, Steps
  <2>4. used = {} /\ purged = {} /\ tasks = {} /\ inbox = {}
        /\ uses \in [Ids -> Nat] /\ Accepted = {}
    BY DEF Init, Accepted
  <2> QED
    BY <2>1, <2>2, <2>3, <2>4 DEF TypeOK, CallType, SeenType, Steps
<1>3. \A r \in Requests : pc[r] = "idle"
  BY DEF Init
<1>4. Room
  <2>1. Inserting = {}
    BY <1>3 DEF Inserting
  <2>2. Cardinality(Inserting) = 0
    BY <2>1, FS_EmptySet
  <2> QED
    BY <1>1, <2>2, CodesAssumption DEF Room, CodesAssumption
<1>5. \A r \in Requests : RequestInv(r)
  BY <1>3 DEF RequestInv, Shape, Sends, Voids, Selects, Finds
<1>6. Locks
  BY CodesAssumption DEF Init, Locks, CodesAssumption
<1>7. OnlyOverlappingIssuesCoexist /\ NoPhantomMessage
  BY <1>1 DEF Init, OnlyOverlappingIssuesCoexist, NoPhantomMessage, Live
<1> QED
  BY <1>2, <1>4, <1>5, <1>6, <1>7 DEF IInv

LEMMA ProceedKeeps ==
  ASSUME IInv, NEW r \in Requests, Proceed(r)
  PROVE  IInv'
<1>1. CASE CardsCollide(r) \/ Unissued(r) \/ NothingPending(r)
  BY <1>1, StopKeeps DEF CardsCollide, Unissued, NothingPending
<1>2. CASE CommitIssue(r)
  BY <1>2, CommitOrStop, StopKeeps, CommitKeeps
<1>3. CASE Redeem(r)
  BY <1>3, RedeemOrStop, StopKeeps, RedeemKeeps
<1> QED
  BY <1>1, <1>2, <1>3, CreateCardKeeps, BeginIssueKeeps, VoidKeeps, SendKeeps, LookKeeps,
     LockPendingKeeps DEF Proceed

LEMMA NextKeeps == IInv /\ [Next]_vars => IInv'
<1> SUFFICES ASSUME IInv, [Next]_vars PROVE IInv'
  OBVIOUS
<1>1. CASE UNCHANGED vars
  <2>1. UNCHANGED <<phone, verified, cards, codes, used, purged, before, tasks, inbox, now,
                    rowLock, pc, call, seen, snap, uses>>
    BY <1>1 DEF vars, accounts, table, delivery, threads
  <2>2. TypeOK'
    BY <2>1 DEF IInv, TypeOK, Accepted
  <2>3. Grows /\ \A q \in Requests : Stays(q)
    BY <2>1, SameTableGrows DEF IInv, Stays
  <2>4. \A q \in Requests : RequestInv(q)'
    BY <2>2, <2>3, OthersKeep DEF IInv
  <2>5. Room' /\ Locks' /\ OnlyOverlappingIssuesCoexist' /\ NoPhantomMessage'
    BY <2>1, <2>3, RoomKept, LocksKept, CoexistenceKept, MessagesKept DEF IInv, Inserting
  <2> QED
    BY <2>2, <2>4, <2>5 DEF IInv
<1>2. CASE \E r \in Requests : Arrive(r)
  BY <1>2, ArriveKeeps
<1>3. CASE \E r \in Requests : Proceed(r)
  BY <1>3, ProceedKeeps
<1>4. CASE \E r \in Requests : Fail(r)
  BY <1>4, StopKeeps DEF Fail
<1>5. CASE SendMessage \/ CleanUp \/ Tick
  BY <1>5, BackgroundKeeps
<1> QED
  BY <1>1, <1>2, <1>3, <1>4, <1>5 DEF Next

THEOREM Invariance == Spec => []IInv
BY InitEstablishes, NextKeeps, PTL DEF Spec

\* Types: a code's row, what a request carries and the messages are what they are
\* said to be in every reachable state.
THEOREM TypeCorrect == Spec => []TypeOK
<1>1. IInv => TypeOK
  BY DEF IInv
<1> QED
  BY Invariance, <1>1, PTL

\* Two codes are valid for one phone and purpose only when their issues overlapped:
\* create_verification_code() voids what it finds.
THEOREM OneCodeAtATime == Spec => []OnlyOverlappingIssuesCoexist
<1>1. IInv => OnlyOverlappingIssuesCoexist
  BY DEF IInv
<1> QED
  BY Invariance, <1>1, PTL

\* Every message handed to Celery is for a code that was committed for its phone.
THEOREM MessagesAreForCodes == Spec => []NoPhantomMessage
<1>1. IInv => NoPhantomMessage
  BY DEF IInv
<1> QED
  BY Invariance, <1>1, PTL

-----------------------------------------------------------------------------
(* Whom a confirmation acts upon.                                          *)

\* One that moves a user to a phone is by a verified user and has locked a row of that
\* user that is not redeemed; one that verifies a user is for the phone that this
\* user had when it was received, and still has while the role is what it was.
Acts(r) ==
  /\ pc[r] \in {"look", "pending", "redeem"} /\ call[r].op = "move" => call[r].user \in verified
  /\ pc[r] = "redeem" /\ call[r].op = "move" =>
       \E c \in Live \cap Ids : rowLock[c] = r /\ codes[c].user = call[r].user
  /\ pc[r] \in {"look", "redeem"} /\ call[r].op = "verify" /\ seen[r].unverified =>
       seen[r].user \in verified \/ phone[seen[r].user] = call[r].phone

ActsInv == IInv /\ \A r \in Requests : Acts(r)

\* A row that a request has locked stays live until the request is over.
KeepsLive(q) == \A c \in Live \cap Ids : rowLock[c] = q => c \in Live'

\* Roles are only given, and a user who is not verified keeps the phone.
Accounts ==
  /\ verified \subseteq verified'
  /\ \A u \in Users \ verified : phone[u] # None => phone'[u] = phone[u]

LEMMA SameTableKeepsLive ==
  ASSUME UNCHANGED <<codes, used, purged>>, NEW q
  PROVE  KeepsLive(q)
BY DEF KeepsLive, Live

\* The rows of the others stay as they are when r changes the ones it has or gets.
LEMMA OthersUntouched ==
  ASSUME IInv, NEW r \in Requests, Arrive(r) \/ Proceed(r) \/ Fail(r), NEW q \in Requests \ {r}
  PROVE  Stays(q) /\ KeepsLive(q)
<1>1. TypeOK /\ q \in Requests /\ q # r
  BY DEF IInv
<1>2. CASE Stop(r) \/ Send(r)
  <2>1. Finish(r) /\ UNCHANGED <<codes, used, purged>>
    BY <1>2 DEF Stop, Send, table
  <2> QED
    BY <1>1, <2>1, FinishFacts, SameTableKeepsLive
<1>3. CASE Arrive(r)
  <2>1. PICK c, s, at : /\ pc' = [pc EXCEPT ![r] = at] /\ call' = [call EXCEPT ![r] = c]
                        /\ seen' = [seen EXCEPT ![r] = s]
                        /\ UNCHANGED <<codes, used, purged, rowLock, snap>>
    BY <1>3 DEF Arrive, Register, ReceiveResend, ReceiveForgot, ReceiveChange, ReceiveVerify,
           ReceiveReset, ReceiveMove, Receive, Goto, table
  <2>2. Stays(q)
    BY <1>1, <2>1, ThreadsTyped DEF Stays
  <2> QED
    BY <2>1, <2>2, SameTableKeepsLive
<1>4. CASE CreateCard(r) \/ BeginIssue(r) \/ LookForCode(r) \/ LookForPending(r)
  <2>1. UNCHANGED <<codes, used, purged, rowLock>>
    BY <1>4 DEF CreateCard, BeginIssue, LookForCode, LookForPending, table
  <2>2. Stays(q)
    BY <1>1, <1>4, <2>1, ThreadsTyped
    DEF CreateCard, BeginIssue, LookForCode, LookForPending, Goto, Stays
  <2> QED
    BY <2>1, <2>2, SameTableKeepsLive
<1>5. CASE Void(r)
  <2>1. \A c \in Ids : rowLock[c] = q => rowLock'[c] = q
    <3>1. \A c \in StillUnused(r) : rowLock[c] # q
      BY <1>1, <1>5, CodesAssumption DEF Void, RowsFree, CodesAssumption
    <3> QED
      BY <1>5, <3>1 DEF Void
  <2>2. Stays(q)
    BY <1>1, <1>5, <2>1, ThreadsTyped DEF Void, Goto, Stays
  <2> QED
    BY <1>5, <2>2, SameTableKeepsLive DEF Void, table
<1>6. CASE LockPending(r)
  <2>1. PICK c, p, C : /\ rowLock[c] = None /\ rowLock' = [rowLock EXCEPT ![c] = r]
                       /\ call' = [call EXCEPT ![r].phone = p]
                       /\ snap' = [snap EXCEPT ![r] = C]
                       /\ pc' = [pc EXCEPT ![r] = "redeem"]
                       /\ UNCHANGED <<codes, used, purged, seen>>
    BY <1>6 DEF LockPending, Goto, table
  <2>2. \A d \in Ids : rowLock[d] = q => rowLock'[d] = q
    BY <1>1, <2>1, ThreadsTyped, CodesAssumption DEF CodesAssumption
  <2>3. Stays(q)
    BY <1>1, <2>1, <2>2, ThreadsTyped DEF Stays
  <2> QED
    BY <2>1, <2>3, SameTableKeepsLive
<1>7. CASE Commits(r)
  <2>1. /\ used' = used \cup Mine(r) /\ UNCHANGED <<purged, snap>>
        /\ pc' = [pc EXCEPT ![r] = "send"] /\ call' = [call EXCEPT ![r].key = None]
        /\ seen' = [seen EXCEPT ![r] = Drew(None, 0, seen[r].value, 0)]
        /\ rowLock' = [c \in Ids |-> IF rowLock[c] = r THEN None ELSE rowLock[c]]
    BY <1>7 DEF Commits
  <2>2. Stays(q)
    BY <1>1, <2>1, ThreadsTyped DEF Stays
  <2>3. DOMAIN codes \subseteq DOMAIN codes'
    <3>1. Shape(r)
      BY DEF IInv, RequestInv
    <3> QED
      BY <1>1, <1>7, <3>1, OneMoreRow
  <2>4. KeepsLive(q)
    BY <1>1, <2>1, <2>3 DEF KeepsLive, Live, Mine
  <2> QED
    BY <2>2, <2>4
<1>8. CASE Redeems(r)
  <2>1. Finish(r) /\ UNCHANGED <<codes, purged>> /\ used' = used \cup ToRedeem(r)
        /\ RowsFree(ToRedeem(r), r)
    BY <1>8 DEF Redeems
  <2>2. \A c \in ToRedeem(r) : rowLock[c] # q
    BY <1>1, <2>1, CodesAssumption DEF RowsFree, CodesAssumption
  <2>3. KeepsLive(q)
    BY <2>1, <2>2 DEF KeepsLive, Live
  <2> QED
    BY <1>1, <2>1, <2>3, FinishFacts
<1>9. CASE CardsCollide(r) \/ Unissued(r) \/ NothingPending(r) \/ Fail(r)
  BY <1>2, <1>9 DEF CardsCollide, Unissued, NothingPending, Fail
<1>10. CASE CommitIssue(r)
  BY <1>2, <1>7, <1>10, CommitOrStop
<1>11. CASE Redeem(r)
  BY <1>2, <1>8, <1>11, RedeemOrStop
<1> QED
  BY <1>2, <1>3, <1>4, <1>5, <1>6, <1>9, <1>10, <1>11 DEF Proceed

\* What only the steps of a confirmation's end do to the accounts.
LEMMA AccountsKept ==
  ASSUME ActsInv, NEW r \in Requests, Arrive(r) \/ Proceed(r) \/ Fail(r)
  PROVE  Accounts
<1>1. TypeOK /\ Shape(r) /\ Acts(r)
  BY DEF ActsInv, IInv, RequestInv
<1>2. CASE Redeems(r)
  <2>1. CASE UNCHANGED <<phone, verified>>
    BY <2>1 DEF Accounts
  <2>2. CASE verified' = verified \cup {seen[r].user} /\ UNCHANGED phone
    BY <2>2 DEF Accounts
  <2>3. CASE /\ call[r].op = "move"
             /\ phone' = [phone EXCEPT ![call[r].user] = call[r].phone] /\ UNCHANGED verified
    <3>1. call[r].user \in verified
      BY <1>1, <1>2, <2>3 DEF Acts, Redeems
    <3> QED
      BY <1>1, <2>3, <3>1, ThreadsTyped DEF Accounts
  <2> QED
    BY <1>1, <1>2, <2>1, <2>2, <2>3, Effects
<1>3. CASE Register(r)
  <2>1. PICK u \in Users, p \in Phones :
          phone[u] = None /\ phone' = [phone EXCEPT ![u] = p] /\ UNCHANGED verified
    BY <1>3 DEF Register
  <2> QED
    BY <1>1, <2>1, ThreadsTyped DEF Accounts
<1>4. CASE UNCHANGED <<phone, verified>>
  BY <1>4 DEF Accounts
<1>5. CASE Stop(r)
  BY <1>4, <1>5 DEF Stop, accounts
<1>6. CASE Arrive(r)
  BY <1>3, <1>4, <1>6 DEF Arrive, ReceiveResend, ReceiveForgot, ReceiveChange, ReceiveVerify,
                          ReceiveReset, ReceiveMove, accounts
<1>7. CASE Fail(r)
  BY <1>5, <1>7 DEF Fail
<1>8. CASE Proceed(r)
  <2>1. CASE CardsCollide(r) \/ Unissued(r) \/ NothingPending(r)
    BY <1>5, <2>1 DEF CardsCollide, Unissued, NothingPending
  <2>2. CASE CommitIssue(r)
    BY <1>4, <1>5, <2>2, CommitOrStop DEF Commits, accounts
  <2>3. CASE Redeem(r)
    BY <1>2, <1>5, <2>3, RedeemOrStop
  <2>4. CASE \/ CreateCard(r) \/ BeginIssue(r) \/ Void(r) \/ Send(r)
             \/ LookForCode(r) \/ LookForPending(r) \/ LockPending(r)
    BY <1>4, <2>4
    DEF CreateCard, BeginIssue, Void, Send, LookForCode, LookForPending, LockPending, accounts
  <2> QED
    BY <1>8, <2>1, <2>2, <2>3, <2>4 DEF Proceed
<1> QED
  BY <1>6, <1>7, <1>8

\* What is known of a request stays known in the steps that are not its own.
LEMMA OthersAct ==
  ASSUME TypeOK, Grows, Accounts, NEW q \in Requests, Acts(q), Shape(q), Stays(q), KeepsLive(q)
  PROVE  Acts(q)'
<1>1. pc'[q] = pc[q] /\ call'[q] = call[q] /\ seen'[q] = seen[q] /\ verified \subseteq verified'
  BY DEF Stays, Accounts
<1>2. ASSUME pc[q] = "redeem", call[q].op = "move"
      PROVE  \E c \in Live' \cap Ids : rowLock'[c] = q /\ codes'[c].user = call[q].user
  <2>1. PICK c \in Live \cap Ids : rowLock[c] = q /\ codes[c].user = call[q].user
    BY <1>2 DEF Acts
  <2>2. c \in Live' /\ rowLock'[c] = q
    BY <2>1 DEF KeepsLive, Stays
  <2>3. codes'[c] = codes[c]
    BY <2>1 DEF Grows, Live
  <2> QED
    BY <2>1, <2>2, <2>3
<1>3. ASSUME pc[q] \in {"look", "redeem"}, call[q].op = "verify", seen[q].unverified,
             seen[q].user \notin verified'
      PROVE  phone'[seen[q].user] = call[q].phone
  <2>1. phone[seen[q].user] = call[q].phone /\ seen[q].user \in Users \ verified
    BY <1>1, <1>3 DEF Acts, Shape
  <2>2. call[q].phone \in Phones /\ None \notin Phones
    BY <1>3, CodesAssumption DEF Shape, CodesAssumption
  <2> QED
    BY <2>1, <2>2 DEF Accounts
<1> QED
  BY <1>1, <1>2, <1>3 DEF Acts

\* The step that makes it known.
LEMMA ArriveActs ==
  ASSUME TypeOK, NEW r \in Requests, Arrive(r)
  PROVE  Acts(r)'
<1>1. CASE Register(r) \/ ReceiveResend(r) \/ ReceiveForgot(r) \/ ReceiveChange(r)
  <2>1. PICK at \in {"card", "issue"} : pc' = [pc EXCEPT ![r] = at]
    BY <1>1 DEF Register, ReceiveResend, ReceiveForgot, ReceiveChange, Receive, Goto
  <2>2. pc'[r] \in {"card", "issue"}
    BY <2>1, ThreadsTyped
  <2> QED
    BY <2>2 DEF Acts
<1>2. CASE ReceiveVerify(r)
  <2>1. PICK u \in Users : /\ call' = [call EXCEPT ![r] = Asks("verify", None, phone[u])]
                           /\ seen' = [seen EXCEPT ![r] = Saw(u, u # None /\ u \notin verified)]
                           /\ pc' = [pc EXCEPT ![r] = "look"]
                           /\ UNCHANGED <<phone, verified>>
    BY <1>2 DEF ReceiveVerify, Receive, Goto, accounts
  <2>2. /\ pc'[r] = "look" /\ call'[r].op = "verify" /\ call'[r].phone = phone[u]
        /\ seen'[r].user = u /\ phone' = phone
    BY <2>1, ThreadsTyped DEF Asks, Saw, Drew
  <2> QED
    BY <2>2 DEF Acts
<1>3. CASE ReceiveReset(r)
  <2>1. PICK p : /\ call' = [call EXCEPT ![r] = Asks("reset", None, p)]
                 /\ pc' = [pc EXCEPT ![r] = "look"]
    BY <1>3 DEF ReceiveReset, Receive, Goto
  <2>2. call'[r].op = "reset"
    BY <2>1, ThreadsTyped DEF Asks
  <2> QED
    BY <2>2 DEF Acts
<1>4. CASE ReceiveMove(r)
  <2>1. PICK u \in verified : /\ call' = [call EXCEPT ![r] = Asks("move", u, None)]
                              /\ pc' = [pc EXCEPT ![r] = "look"] /\ UNCHANGED verified
    BY <1>4 DEF ReceiveMove, Receive, Goto, accounts
  <2>2. pc'[r] = "look" /\ call'[r].op = "move" /\ call'[r].user = u
    BY <2>1, ThreadsTyped DEF Asks
  <2> QED
    BY <2>1, <2>2 DEF Acts
<1> QED
  BY <1>1, <1>2, <1>3, <1>4 DEF Arrive

LEMMA LookActs ==
  ASSUME ActsInv, NEW r \in Requests, LookForCode(r) \/ LookForPending(r) \/ LockPending(r)
  PROVE  Acts(r)'
<1>1. TypeOK /\ RequestInv(r) /\ Acts(r) /\ Room
  BY DEF ActsInv, IInv
<1>2. CASE LookForCode(r)
  <2>1. pc[r] = "look" /\ call[r].op # "move" /\ UNCHANGED <<call, seen, phone, verified>>
    BY <1>2 DEF LookForCode, accounts
  <2> QED
    BY <1>1, <2>1 DEF Acts
<1>3. CASE LookForPending(r)
  <2>1. /\ pc[r] = "look" /\ call[r].op = "move" /\ pc' = [pc EXCEPT ![r] = "pending"]
        /\ UNCHANGED <<call, seen, phone, verified>>
    BY <1>3 DEF LookForPending, Goto, accounts
  <2>2. pc'[r] = "pending"
    BY <1>1, <2>1, ThreadsTyped
  <2> QED
    BY <1>1, <2>1, <2>2 DEF Acts
<1>4. CASE LockPending(r)
  <2> DEFINE c == Newest(StillUnused(r))
  <2>1. c \in DOMAIN codes /\ c \in snap[r] /\ c \notin used \cup purged
    <3>1. StillUnused(r) \in SUBSET DOMAIN codes
      BY <1>1, ThreadsTyped DEF StillUnused
    <3>2. c \in StillUnused(r)
      BY <1>1, <1>4, <3>1, NewestIsOne DEF LockPending
    <3> QED
      BY <3>1, <3>2 DEF StillUnused
  <2>2. /\ pc[r] = "pending" /\ rowLock' = [rowLock EXCEPT ![c] = r]
        /\ call' = [call EXCEPT ![r].phone = codes[c].phone]
        /\ UNCHANGED <<codes, used, purged, verified>>
    BY <1>4 DEF LockPending, table, accounts
  <2> HIDE DEF c
  <2>3. call[r].op = "move" /\ codes[c].user = call[r].user /\ call[r].user \in verified
    BY <1>1, <2>1, <2>2 DEF RequestInv, Shape, Finds, Acts
  <2>4. call'[r].op = "move" /\ call'[r].user = call[r].user
    BY <1>1, <2>2, <2>3, ThreadsTyped DEF CallType
  <2>5. c \in Ids
    <3>1. Len(codes) \in Nat /\ MaxCodes \in Nat /\ Len(codes) <= MaxCodes
      BY <1>1, InsertingCounts, Numbered, CodesAssumption DEF Room, CodesAssumption
    <3> QED
      BY <1>1, <2>1, <3>1, Numbered DEF Ids
  <2>6. c \in Live' /\ rowLock'[c] = r /\ codes'[c].user = call'[r].user
    BY <1>1, <2>1, <2>2, <2>3, <2>4, <2>5, ThreadsTyped DEF Live
  <2> QED
    BY <2>2, <2>3, <2>4, <2>5, <2>6 DEF Acts
<1> QED
  BY <1>2, <1>3, <1>4

LEMMA OwnStepActs ==
  ASSUME ActsInv, NEW r \in Requests, Arrive(r) \/ Proceed(r) \/ Fail(r)
  PROVE  Acts(r)'
<1>1. TypeOK
  BY DEF ActsInv, IInv
<1>2. CASE Finish(r)
  <2>1. pc'[r] = "idle"
    BY <1>1, <1>2, ThreadsTyped DEF Finish, Goto
  <2> QED
    BY <2>1 DEF Acts
<1>3. CASE CreateCard(r) \/ BeginIssue(r) \/ Void(r) \/ Commits(r)
  <2>1. PICK at \in {"issue", "void", "insert", "send"} : pc' = [pc EXCEPT ![r] = at]
    BY <1>3 DEF CreateCard, BeginIssue, Void, Commits, Goto
  <2>2. pc'[r] \in {"issue", "void", "insert", "send"}
    BY <1>1, <2>1, ThreadsTyped
  <2> QED
    BY <2>2 DEF Acts
<1>4. CASE CommitIssue(r)
  BY <1>2, <1>3, <1>4, CommitOrStop DEF Stop
<1>5. CASE Redeem(r)
  BY <1>2, <1>5, RedeemOrStop DEF Stop, Redeems
<1>6. CASE CardsCollide(r) \/ Unissued(r) \/ NothingPending(r) \/ Fail(r) \/ Send(r)
  BY <1>2, <1>6 DEF CardsCollide, Unissued, NothingPending, Fail, Send, Stop
<1>7. CASE Arrive(r)
  BY <1>1, <1>7, ArriveActs
<1> QED
  BY <1>3, <1>4, <1>5, <1>6, <1>7, LookActs DEF Proceed

\* The table only grows.
LEMMA NextGrows ==
  ASSUME IInv, [Next]_vars
  PROVE  Grows
<1>1. TypeOK /\ \A r \in Requests : Shape(r)
  BY DEF IInv, RequestInv
<1>2. CASE UNCHANGED codes /\ used \subseteq used' /\ purged \subseteq purged'
  BY <1>1, <1>2, SameTableGrows
<1>3. ASSUME NEW r \in Requests, Commits(r)
      PROVE  Grows
  BY <1>1, <1>3, OneMoreRow DEF Grows, Commits
<1>4. CASE UNCHANGED vars
  BY <1>2, <1>4 DEF vars, table
<1>5. CASE SendMessage \/ CleanUp \/ Tick
  BY <1>2, <1>5 DEF SendMessage, CleanUp, Tick, table
<1>6. ASSUME NEW r \in Requests, Stop(r)
      PROVE  Grows
  BY <1>2, <1>6 DEF Stop, table
<1>7. ASSUME NEW r \in Requests, Arrive(r)
      PROVE  Grows
  BY <1>2, <1>7 DEF Arrive, Register, ReceiveResend, ReceiveForgot, ReceiveChange,
                    ReceiveVerify, ReceiveReset, ReceiveMove, Receive, table
<1>8. ASSUME NEW r \in Requests, Proceed(r)
      PROVE  Grows
  <2>1. CASE CardsCollide(r) \/ Unissued(r) \/ NothingPending(r)
    BY <1>6, <2>1 DEF CardsCollide, Unissued, NothingPending
  <2>2. CASE CommitIssue(r)
    BY <1>3, <1>6, <2>2, CommitOrStop
  <2>3. CASE Redeem(r)
    <3>1. CASE Redeems(r)
      BY <1>2, <3>1 DEF Redeems
    <3> QED
      BY <1>6, <2>3, <3>1, RedeemOrStop
  <2>4. CASE \/ CreateCard(r) \/ BeginIssue(r) \/ Void(r) \/ Send(r)
             \/ LookForCode(r) \/ LookForPending(r) \/ LockPending(r)
    BY <1>2, <2>4
    DEF CreateCard, BeginIssue, Void, Send, LookForCode, LookForPending, LockPending, table
  <2> QED
    BY <1>8, <2>1, <2>2, <2>3, <2>4 DEF Proceed
<1>9. ASSUME NEW r \in Requests, Fail(r)
      PROVE  Grows
  BY <1>6, <1>9 DEF Fail
<1> QED
  BY <1>4, <1>5, <1>7, <1>8, <1>9 DEF Next

LEMMA NextKeepsActs == ActsInv /\ [Next]_vars => ActsInv'
<1> SUFFICES ASSUME ActsInv, [Next]_vars PROVE ActsInv'
  OBVIOUS
<1>1. IInv /\ TypeOK /\ IInv' /\ Grows
  BY NextKeeps, NextGrows DEF ActsInv, IInv
<1>2. \A q \in Requests : Acts(q) /\ Shape(q)
  BY DEF ActsInv, IInv, RequestInv
<1>3. ASSUME NEW r \in Requests, Arrive(r) \/ Proceed(r) \/ Fail(r)
      PROVE  \A q \in Requests : Acts(q)'
  <2>1. Accounts
    BY <1>3, AccountsKept
  <2>2. \A q \in Requests \ {r} : Acts(q)'
    BY <1>1, <1>2, <1>3, <2>1, OthersUntouched, OthersAct
  <2> QED
    BY <1>3, <2>2, OwnStepActs
<1>4. CASE UNCHANGED vars \/ SendMessage \/ CleanUp \/ Tick
  <2>1. UNCHANGED <<phone, verified, codes, used, rowLock, pc, call, seen, snap>>
    BY <1>4 DEF vars, SendMessage, CleanUp, Tick, accounts, table, delivery, threads
  <2>2. \A q \in Requests : Stays(q)
    BY <2>1 DEF Stays
  <2>3. Accounts
    BY <2>1 DEF Accounts
  <2>4. \A c \in purged' \ purged : rowLock[c] = None
    BY <1>4 DEF vars, SendMessage, CleanUp, Tick, table
  <2>5. \A q \in Requests : KeepsLive(q)
    BY <2>1, <2>4, CodesAssumption DEF KeepsLive, Live, CodesAssumption
  <2>6. \A q \in Requests : Acts(q)'
    BY <1>1, <1>2, <2>2, <2>3, <2>5, OthersAct
  <2> QED
    BY <1>1, <2>6 DEF ActsInv
<1> QED
  BY <1>1, <1>3, <1>4 DEF Next, ActsInv

LEMMA InitActs == Init => ActsInv
BY InitEstablishes DEF Init, ActsInv, Acts

THEOREM ActsInvariance == Spec => []ActsInv
BY InitActs, NextKeepsActs, PTL DEF Spec

-----------------------------------------------------------------------------
(* Every step is a step of OneTimeCodes, or a stutter.                     *)

\* What has become of the codes, before and after a step.
LEMMA States ==
  ASSUME TypeOK
  PROVE  /\ DOMAIN State = Ids /\ DOMAIN About = Ids
         /\ \A c \in Ids : /\ c \notin DOMAIN codes => State[c] = "unissued" /\ About[c] = None
                           /\ c \in Accepted => State[c] = "accepted"
                           /\ c \in DOMAIN codes => About[c] = Asked(codes[c])
                           /\ c \in DOMAIN codes \ Accepted =>
                                State[c] = IF Over(c) THEN "void" ELSE "live"
<1>1. Accepted \subseteq DOMAIN codes
  BY DEF TypeOK
<1> QED
  BY <1>1 DEF State, About

LEMMA StatesAfter ==
  ASSUME TypeOK'
  PROVE  /\ DOMAIN State' = Ids /\ DOMAIN About' = Ids
         /\ \A c \in Ids : /\ c \notin DOMAIN codes' => State'[c] = "unissued" /\ About'[c] = None
                           /\ c \in Accepted' => State'[c] = "accepted"
                           /\ c \in DOMAIN codes' => About'[c] = Asked(codes'[c])
                           /\ c \in DOMAIN codes' \ Accepted' =>
                                State'[c] = IF Over(c)' THEN "void" ELSE "live"
<1>1. Accepted' \subseteq DOMAIN codes'
  BY DEF TypeOK
<1> QED
  BY <1>1 DEF State, About

\* What a step does to the codes it leaves alone: a code that is over stays so.
OverStays == \A c \in DOMAIN codes : Over(c) => Over(c)'

\* What a confirmation finds in a step has not expired.
FindsInTime(q) ==
  \A c \in DOMAIN codes :
    c \in snap'[q] /\ pc'[q] \in {"pending", "redeem"} =>
      \/ c \in snap[q] /\ pc[q] \in {"pending", "redeem"}
      \/ codes[c].expires > now

\* A code stays over unless a confirmation finds it, which takes one that has not
\* expired and is neither used nor deleted.
LEMMA OverForEver ==
  ASSUME TypeOK, used \subseteq used', purged \subseteq purged', now \in Nat,
         now' \in Nat, now <= now',
         \A c \in DOMAIN codes : codes'[c] = codes[c],
         \A q \in Requests : FindsInTime(q)
  PROVE  OverStays
<1> SUFFICES ASSUME NEW c \in DOMAIN codes, Over(c) PROVE Over(c)'
  BY DEF OverStays
<1>1. CASE c \in used \cup purged
  BY <1>1 DEF Over
<1>2. CASE codes[c].expires <= now /\ \A q \in Requests : c \in snap[q] => pc[q] \notin {"pending", "redeem"}
  <2>1. codes[c].expires \in Nat
    BY Numbered DEF Rows
  <2>2. codes'[c].expires <= now'
    BY <1>2, <2>1
  <2>3. \A q \in Requests : c \in snap'[q] => pc'[q] \notin {"pending", "redeem"}
    BY <1>2, <2>1 DEF FindsInTime
  <2> QED
    BY <2>2, <2>3 DEF Over
<1> QED
  BY <1>1, <1>2 DEF Over

LEMMA QuietStep ==
  ASSUME TypeOK, TypeOK', OverStays, UNCHANGED <<codes, uses, phone, verified>>
  PROVE  Promise!Lapse
<1> DEFINE C == {c \in Ids : State[c] = "live" /\ State'[c] = "void"}
<1>1. About' = About
  BY DEF About
<1>2. C \in SUBSET {c \in Ids : State[c] = "live"}
  OBVIOUS
<1>3. \A c \in Ids : State'[c] = IF c \in C THEN "void" ELSE State[c]
  BY States, StatesAfter DEF OverStays, Accepted
<1>4. State' = [c \in Ids |-> IF c \in C THEN "void" ELSE State[c]]
  BY <1>3, StatesAfter DEF State
<1> HIDE DEF C
<1> QED
  BY <1>1, <1>2, <1>4 DEF Promise!Lapse, Promise!Moved

LEMMA FinishFinds ==
  ASSUME TypeOK, NEW r \in Requests, Finish(r)
  PROVE  \A q \in Requests : FindsInTime(q)
BY ThreadsTyped DEF Finish, Goto, FindsInTime

\* A step of r that does not start a statement.
LEMMA MovesFind ==
  ASSUME TypeOK, NEW r \in Requests, NEW at \in Steps \ {"pending", "redeem"},
         pc' = [pc EXCEPT ![r] = at],
         \A q \in Requests \ {r} : snap'[q] = snap[q]
  PROVE  \A q \in Requests : FindsInTime(q)
BY ThreadsTyped DEF FindsInTime

LEMMA StopIsQuiet ==
  ASSUME IInv, NEW r \in Requests, Stop(r)
  PROVE  Promise!Lapse
<1>1. TypeOK /\ TypeOK' /\ Finish(r)
  BY StopTypes DEF IInv, Stop
<1>2. UNCHANGED <<codes, used, purged, uses, phone, verified, now>>
  BY DEF Stop, table, accounts
<1>3. now \in Nat
  BY <1>1, CodesAssumption DEF TypeOK, CodesAssumption
<1> QED
  BY <1>1, <1>2, <1>3, FinishFinds, OverForEver, QuietStep

LEMMA IssueIsQuiet ==
  ASSUME IInv, NEW r \in Requests, CreateCard(r) \/ BeginIssue(r) \/ Void(r) \/ Send(r)
  PROVE  Promise!Lapse
<1>1. TypeOK /\ TypeOK'
  BY IssueTypes, SendTypes DEF IInv, RequestInv
<1>2. UNCHANGED <<codes, used, purged, uses, phone, verified, now>>
  BY DEF CreateCard, BeginIssue, Void, Send, table, accounts
<1>3. now \in Nat
  BY <1>1, CodesAssumption DEF TypeOK, CodesAssumption
<1>4. \A q \in Requests : FindsInTime(q)
  <2>1. CASE Send(r)
    BY <1>1, <2>1, FinishFinds DEF Send
  <2>2. CASE CreateCard(r) \/ BeginIssue(r) \/ Void(r)
    <3>1. PICK at \in Steps \ {"pending", "redeem"} : pc' = [pc EXCEPT ![r] = at]
      BY <2>2 DEF CreateCard, BeginIssue, Void, Goto, Steps
    <3>2. \A q \in Requests \ {r} : snap'[q] = snap[q]
      BY <1>1, <2>2, ThreadsTyped DEF CreateCard, BeginIssue, Void
    <3> QED
      BY <1>1, <3>1, <3>2, MovesFind
  <2> QED
    BY <2>1, <2>2
<1> QED
  BY <1>1, <1>2, <1>3, <1>4, OverForEver, QuietStep

LEMMA LookIsQuiet ==
  ASSUME IInv, NEW r \in Requests, LookForCode(r) \/ LookForPending(r) \/ LockPending(r)
  PROVE  Promise!Lapse
<1>1. TypeOK /\ TypeOK'
  BY LookTypes DEF IInv
<1>2. UNCHANGED <<codes, used, purged, uses, phone, verified, now>>
  BY DEF LookForCode, LookForPending, LockPending, table, accounts
<1>3. now \in Nat
  BY <1>1, CodesAssumption DEF TypeOK, CodesAssumption
<1>4. PICK C : snap' = [snap EXCEPT ![r] = C] /\ \A c \in C : codes[c].expires > now
  <2>1. CASE LookForCode(r)
    <3>1. PICK v \in Values :
            snap' = [snap EXCEPT ![r] = Matching(call[r].phone, Purpose[call[r].op], v)]
      BY <2>1 DEF LookForCode
    <3>2. \A c \in Matching(call[r].phone, Purpose[call[r].op], v) : codes[c].expires > now
      BY DEF Matching
    <3> QED
      BY <3>1, <3>2
  <2>2. CASE LookForPending(r)
    <3>1. snap' = [snap EXCEPT ![r] = Pending(call[r].user)]
      BY <2>2 DEF LookForPending
    <3>2. \A c \in Pending(call[r].user) : codes[c].expires > now
      BY DEF Pending
    <3> QED
      BY <3>1, <3>2
  <2>3. CASE LockPending(r)
    BY <2>3 DEF LockPending, Matching
  <2> QED
    BY <2>1, <2>2, <2>3
<1>5. \A q \in Requests \ {r} : pc'[q] = pc[q] /\ snap'[q] = snap[q]
  BY <1>1, <1>4, ThreadsTyped DEF LookForCode, LookForPending, LockPending, Goto
<1>6. snap'[r] = C
  BY <1>1, <1>4, ThreadsTyped
<1>7. \A q \in Requests : FindsInTime(q)
  BY <1>4, <1>5, <1>6 DEF FindsInTime
<1> QED
  BY <1>1, <1>2, <1>3, <1>7, OverForEver, QuietStep

LEMMA BackgroundIsQuiet ==
  ASSUME IInv, SendMessage \/ CleanUp \/ Tick
  PROVE  Promise!Lapse
<1>1. TypeOK /\ TypeOK'
  BY BackgroundTypes DEF IInv
<1>2. /\ UNCHANGED <<codes, used, uses, phone, verified, pc, snap>>
      /\ purged \subseteq purged'
  BY DEF SendMessage, CleanUp, Tick, table, accounts, threads
<1>3. now \in Nat /\ now' \in Nat /\ now <= now'
  BY <1>1, CodesAssumption DEF TypeOK, CodesAssumption, SendMessage, CleanUp, Tick
<1>4. \A q \in Requests : FindsInTime(q)
  BY <1>2 DEF FindsInTime
<1> QED
  BY <1>1, <1>2, <1>3, <1>4, OverForEver, QuietStep

LEMMA StutterIsQuiet ==
  ASSUME IInv, UNCHANGED vars
  PROVE  Promise!Lapse
<1>1. UNCHANGED <<phone, verified, cards, codes, used, purged, before, tasks, inbox, now,
                  rowLock, pc, call, seen, snap, uses>>
  BY DEF vars, accounts, table, delivery, threads
<1>2. TypeOK /\ TypeOK'
  BY <1>1 DEF IInv, TypeOK, Accepted
<1>3. OverStays
  BY <1>1 DEF OverStays, Over
<1> QED
  BY <1>1, <1>2, <1>3, QuietStep

LEMMA ArriveIsAllowed ==
  ASSUME IInv, NEW r \in Requests, Arrive(r)
  PROVE  Promise!Next
<1>1. TypeOK /\ TypeOK'
  BY ArriveTypes DEF IInv
<1>2. UNCHANGED <<codes, used, purged, uses, now, snap>>
  BY DEF Arrive, Register, ReceiveResend, ReceiveForgot, ReceiveChange, ReceiveVerify,
         ReceiveReset, ReceiveMove, Receive, table
<1>3. PICK at \in Steps \ {"pending", "redeem"} : pc' = [pc EXCEPT ![r] = at]
  BY DEF Arrive, Register, ReceiveResend, ReceiveForgot, ReceiveChange, ReceiveVerify,
         ReceiveReset, ReceiveMove, Receive, Goto, Steps
<1>4. \A q \in Requests : FindsInTime(q)
  BY <1>1, <1>2, <1>3, MovesFind
<1>5. OverStays
  <2>1. now \in Nat
    BY <1>1, CodesAssumption DEF TypeOK, CodesAssumption
  <2> QED
    BY <1>1, <1>2, <1>4, <2>1, OverForEver
<1>6. CASE Register(r)
  <2>1. PICK u \in Users, p \in Phones : /\ phone[u] = None /\ ~Taken(p)
                                    /\ phone' = [phone EXCEPT ![u] = p]
                                    /\ UNCHANGED verified
    BY <1>6 DEF Register
  <2>2. State' = State
    <3>1. \A c \in DOMAIN codes : Over(c)' => Over(c)
      <4>1. pc[r] \notin {"pending", "redeem"}
        BY <1>6 DEF Register, Receive
      <4>2. \A q \in Requests : pc[q] \in {"pending", "redeem"} => pc'[q] \in {"pending", "redeem"}
        BY <1>1, <1>3, <4>1, ThreadsTyped
      <4> QED
        BY <1>2, <4>2 DEF Over
    <3>2. \A c \in Ids : State'[c] = State[c]
      BY <1>1, <1>2, <1>5, <3>1, States, StatesAfter DEF OverStays, Accepted
    <3> QED
      BY <3>2 DEF State
  <2>3. About' = About
    BY <1>2 DEF About
  <2>4. Promise!Register(u, p)
    BY <1>2, <2>1, <2>2, <2>3 DEF Promise!Register, Promise!Taken, Taken
  <2> QED
    BY <2>4 DEF Promise!Next
<1>7. CASE ~Register(r)
  <2>1. UNCHANGED <<phone, verified>>
    BY <1>7 DEF Arrive, ReceiveResend, ReceiveForgot, ReceiveChange, ReceiveVerify,
                ReceiveReset, ReceiveMove, accounts
  <2> QED
    BY <1>1, <1>2, <1>5, <2>1, QuietStep DEF Promise!Next
<1> QED
  BY <1>6, <1>7

LEMMA CommitIsIssue ==
  ASSUME IInv, NEW r \in Requests, Commits(r)
  PROVE  Promise!Next
<1> DEFINE n == Len(codes)
           p == call[r].phone
           purpose == Purpose[call[r].op]
           u == seen[r].user
           replaced == {c \in Ids : State[c] = "live" /\ c \in Mine(r)}
<1>1. TypeOK /\ TypeOK' /\ Room' /\ Shape(r) /\ Locks
  BY CommitKeeps DEF IInv, RequestInv
<1>2. /\ n \in Nat /\ DOMAIN codes = 1..n /\ DOMAIN codes' = 1..(n + 1)
      /\ \A c \in 1..n : codes'[c] = codes[c]
      /\ codes'[n + 1] = Row(r) /\ Len(codes)' = n + 1
  BY <1>1, OneMoreRow
<1>3. n + 1 \in Ids
  <2>1. Len(codes)' <= MaxCodes
    BY <1>1, <1>2, InsertingCountsAfter, CodesAssumption DEF Room, CodesAssumption
  <2> QED
    BY <1>2, <2>1, CodesAssumption DEF Ids, CodesAssumption
<1> HIDE DEF n
<1>4. /\ used' = used \cup Mine(r) /\ pc' = [pc EXCEPT ![r] = "send"] /\ pc[r] = "insert"
      /\ UNCHANGED <<purged, now, snap, uses, phone, verified>>
  BY DEF Commits, accounts
<1>5. p \in Phones /\ u \in Users /\ purpose \in Promise!Purposes
  BY <1>1, <1>4, PurposeType DEF Shape, Promise!Purposes
<1>6. \A c \in 1..n : Over(c)' <=> Over(c) \/ c \in Mine(r)
  <2>1. \A q \in Requests : pc'[q] \in {"pending", "redeem"} <=> pc[q] \in {"pending", "redeem"}
    BY <1>1, <1>4, ThreadsTyped
  <2> QED
    BY <1>2, <1>4, <2>1 DEF Over
<1>7. \A c \in Mine(r) : c \in 1..n /\ codes[c].phone = p /\ codes[c].purpose = purpose
  BY <1>1, <1>2 DEF Locks, Mine, Fits
<1>8. State[n + 1] = "unissued"
  BY <1>1, <1>2, <1>3, States
<1>n. Accepted' = Accepted /\ Accepted \subseteq DOMAIN codes
  BY <1>1, <1>4 DEF TypeOK, Accepted
<1>9. n + 1 \notin Accepted'
  BY <1>2, <1>n
<1>10. State'[n + 1] \in {"live", "void"}
  BY <1>1, <1>2, <1>3, <1>9, StatesAfter
<1>11. replaced \in SUBSET Promise!LiveFor(p, purpose)
  BY <1>1, <1>2, <1>7, States DEF Promise!LiveFor, Asked
<1>12. \A c \in Ids \ {n + 1} : State'[c] = IF c \in replaced THEN "void" ELSE State[c]
  <2> SUFFICES ASSUME NEW c \in Ids \ {n + 1}
               PROVE  State'[c] = IF c \in replaced THEN "void" ELSE State[c]
    OBVIOUS
  <2>1. CASE c \notin 1..n
    <3>1. c \notin DOMAIN codes /\ c \notin DOMAIN codes'
      BY <1>2, <2>1 DEF Ids
    <3> QED
      BY <1>1, <3>1, States, StatesAfter
  <2>2. CASE c \in Accepted
    BY <1>1, <1>n, <2>2, States, StatesAfter
  <2>3. CASE c \in (1..n) \ Accepted
    <3>1. c \in DOMAIN codes \ Accepted /\ c \in DOMAIN codes' \ Accepted'
      BY <1>2, <1>n, <2>3
    <3>2. State[c] = IF Over(c) THEN "void" ELSE "live"
      BY <1>1, <3>1, States
    <3>3. State'[c] = IF Over(c)' THEN "void" ELSE "live"
      BY <1>1, <3>1, StatesAfter
    <3>4. Over(c)' <=> Over(c) \/ c \in Mine(r)
      BY <1>6, <2>3
    <3> QED
      BY <3>2, <3>3, <3>4
  <2> QED
    BY <2>1, <2>2, <2>3
<1>13. \A c \in Ids : About'[c] = IF c = n + 1 THEN Promise!For(p, purpose, u) ELSE About[c]
  <2> SUFFICES ASSUME NEW c \in Ids
               PROVE  About'[c] = IF c = n + 1 THEN Promise!For(p, purpose, u) ELSE About[c]
    OBVIOUS
  <2>1. CASE c \in 1..n
    BY <1>1, <1>2, <2>1, States, StatesAfter
  <2>2. CASE c = n + 1
    BY <1>1, <1>2, <2>2, StatesAfter DEF Row, Asked, Promise!For
  <2>3. CASE c \notin 1..(n + 1)
    BY <1>1, <1>2, <2>3, States, StatesAfter
  <2> QED
    BY <1>2, <2>1, <2>2, <2>3
<1>14. About' = [About EXCEPT ![n + 1] = Promise!For(p, purpose, u)]
  BY <1>3, <1>13 DEF About
<1>15. State' = [Promise!Moved(replaced, "void") EXCEPT ![n + 1] = State'[n + 1]]
  <2> DEFINE M == [c \in Ids |-> IF c \in replaced THEN "void" ELSE State[c]]
  <2>1. \A c \in Ids : State'[c] = IF c = n + 1 THEN State'[n + 1] ELSE M[c]
    BY <1>12
  <2>2. State' = [c \in Ids |-> State'[c]]
    BY DEF State
  <2>3. State' = [M EXCEPT ![n + 1] = State'[n + 1]]
    BY <1>3, <2>1, <2>2
  <2> QED
    BY <2>3 DEF Promise!Moved
<1> HIDE DEF replaced, p, purpose, u
<1>16. Promise!Issue(n + 1, p, purpose, u)
  BY <1>4, <1>8, <1>10, <1>11, <1>14, <1>15 DEF Promise!Issue
<1> QED
  BY <1>3, <1>5, <1>16 DEF Promise!Next

\* What a redemption does to the codes.
LEMMA RedemptionEndsCodes ==
  ASSUME IInv, NEW r \in Requests, Redeems(r)
  PROVE  Promise!Redeemed(call[r].phone, Purpose[call[r].op])
<1> DEFINE p == call[r].phone
           C == ToRedeem(r)
<1>1. TypeOK /\ TypeOK' /\ Shape(r) /\ Selects(r) /\ Room
  BY RedeemTypes DEF IInv, RequestInv
<1>2. /\ pc[r] = "redeem" /\ C # {} /\ Finish(r)
      /\ used' = used \cup C
      /\ uses' = [c \in Ids |-> uses[c] + (IF c \in C THEN 1 ELSE 0)]
      /\ UNCHANGED <<codes, purged, now>>
  BY DEF Redeems
<1>3. Accepted' = Accepted \cup (C \cap Ids)
  BY <1>1, RedeemCounts
<1>4. \A c \in C : c \in DOMAIN codes /\ c \in snap[r] /\ Fits(c, r) /\ c \notin used \cup purged
  BY <1>1, <1>2, ThreadsTyped DEF Selects, ToRedeem, StillUnused
<1>5. DOMAIN codes \subseteq Ids
  <2>1. Len(codes) \in Nat /\ MaxCodes \in Nat /\ Len(codes) <= MaxCodes
    BY <1>1, InsertingCounts, Numbered, CodesAssumption DEF Room, CodesAssumption
  <2> QED
    BY <1>1, <2>1, Numbered DEF Ids
<1>6. \A c \in C : c \in Promise!LiveFor(p, Purpose[call[r].op])
  <2> SUFFICES ASSUME NEW c \in C PROVE c \in Promise!LiveFor(p, Purpose[call[r].op])
    OBVIOUS
  <2>1. c \in DOMAIN codes \ Accepted
    BY <1>1, <1>4 DEF TypeOK
  <2>2. ~Over(c)
    BY <1>2, <1>4 DEF Over
  <2>3. State[c] = "live" /\ About[c] = Asked(codes[c]) /\ c \in Ids
    BY <1>1, <1>5, <2>1, <2>2, States
  <2>4. About[c].phone = p /\ About[c].purpose = Purpose[call[r].op]
    BY <1>4, <2>3 DEF Asked, Fits
  <2> QED
    BY <2>3, <2>4 DEF Promise!LiveFor
<1>7. \A c \in DOMAIN codes \ C : Over(c)' <=> Over(c)
  <2> SUFFICES ASSUME NEW c \in DOMAIN codes \ C PROVE Over(c)' <=> Over(c)
    OBVIOUS
  <2>1. c \in used' \cup purged' <=> c \in used \cup purged
    BY <1>2
  <2>2. c \in snap[r] => c \in used \cup purged
    BY DEF ToRedeem, StillUnused
  <2>3. /\ \A q \in Requests \ {r} : pc'[q] = pc[q] /\ snap'[q] = snap[q]
        /\ snap'[r] = {}
    BY <1>1, <1>2, ThreadsTyped DEF Finish, Goto
  <2> QED
    BY <1>2, <2>1, <2>2, <2>3 DEF Over
<1>8. \A c \in Ids : State'[c] = IF c \in C THEN "accepted" ELSE State[c]
  <2> SUFFICES ASSUME NEW c \in Ids PROVE State'[c] = IF c \in C THEN "accepted" ELSE State[c]
    OBVIOUS
  <2>1. CASE c \in C \cup Accepted
    BY <1>1, <1>3, <2>1, States, StatesAfter
  <2>2. CASE c \notin DOMAIN codes
    BY <1>1, <1>2, <1>4, <2>2, States, StatesAfter
  <2>3. CASE c \in DOMAIN codes \ (C \cup Accepted)
    <3>1. c \in DOMAIN codes \ Accepted /\ c \in DOMAIN codes' \ Accepted'
      BY <1>2, <1>3, <2>3
    <3>2. State[c] = (IF Over(c) THEN "void" ELSE "live")
      BY <1>1, <3>1, States
    <3>3. State'[c] = (IF Over(c)' THEN "void" ELSE "live")
      BY <1>1, <3>1, StatesAfter
    <3> QED
      BY <1>7, <2>3, <3>2, <3>3
  <2> QED
    BY <2>1, <2>2, <2>3
<1>9. State' = [c \in Ids |-> IF c \in C THEN "accepted" ELSE State[c]]
  BY <1>8, StatesAfter DEF State
<1>10. About' = About
  BY <1>2 DEF About
<1> HIDE DEF C, p
<1>11. C \in SUBSET Promise!LiveFor(p, Purpose[call[r].op])
  BY <1>6
<1> QED
  BY <1>2, <1>9, <1>10, <1>11 DEF Promise!Redeemed, Promise!Moved, p

LEMMA RedeemIsAllowed ==
  ASSUME ActsInv, NEW r \in Requests, Redeems(r)
  PROVE  Promise!Next
<1> DEFINE p == call[r].phone
           u == call[r].user
<1>1. TypeOK /\ Shape(r) /\ Acts(r) /\ Locks /\ IInv
  BY DEF ActsInv, IInv, RequestInv
<1>2. pc[r] = "redeem" /\ ~PhoneLost(r) /\ Effect(r)
  BY DEF Redeems
<1>3. p \in Phones /\ call[r].op \in {"verify", "reset", "move"}
  BY <1>1, <1>2 DEF Shape, Confirming
<1>4. Promise!Redeemed(p, Purpose[call[r].op])
  BY <1>1, RedemptionEndsCodes
<1>5. CASE call[r].op = "verify"
  <2>1. seen[r].user \in Users
    BY <1>1, <1>2, <1>5 DEF Shape
  <2>2. /\ verified' = IF seen[r].unverified THEN verified \cup {seen[r].user} ELSE verified
        /\ UNCHANGED phone
    BY <1>2, <1>5 DEF Effect
  <2>3. \/ UNCHANGED verified
        \/ phone[seen[r].user] = p /\ verified' = verified \cup {seen[r].user}
    BY <1>1, <1>2, <1>5, <2>2 DEF Acts
  <2>4. Promise!Verify(p)
    BY <1>4, <1>5, <2>1, <2>2, <2>3 DEF Promise!Verify, Purpose
  <2> QED
    BY <1>3, <2>4 DEF Promise!Next
<1>6. CASE call[r].op = "reset"
  <2>1. Promise!Reset(p)
    BY <1>2, <1>4, <1>6 DEF Promise!Reset, Purpose, Effect, accounts
  <2> QED
    BY <1>3, <2>1 DEF Promise!Next
<1>7. CASE call[r].op = "move"
  <2>1. u \in Users /\ u \in verified
    BY <1>1, <1>2, <1>7 DEF Shape, Acts
  <2>2. PICK c \in Live \cap Ids : rowLock[c] = r /\ codes[c].user = u
    BY <1>1, <1>2, <1>7 DEF Acts
  <2>3. c \in DOMAIN codes /\ codes[c].phone = p /\ codes[c].purpose = "PHONE_CHANGE"
    BY <1>1, <1>7, <2>2 DEF Locks, Fits, Purpose
  <2>4. About[c] = Promise!For(p, "PHONE_CHANGE", u)
    BY <1>1, <2>2, <2>3, States DEF Asked, Promise!For
  <2>5. uses[c] = 0
    BY <1>1, <2>2 DEF TypeOK, Live, Accepted
  <2>6. \A w \in Users \ {u} : phone[w] # p
    BY <1>2, <1>7 DEF PhoneLost
  <2>7. phone' = [phone EXCEPT ![u] = p] /\ UNCHANGED verified
    BY <1>2, <1>7 DEF Effect
  <2>8. Promise!Redeemed(p, "PHONE_CHANGE")
    BY <1>4, <1>7 DEF Purpose
  <2> HIDE DEF u, p
  <2>9. Promise!Move(u, p)
    BY <2>1, <2>2, <2>4, <2>5, <2>6, <2>7, <2>8 DEF Promise!Move
  <2> QED
    BY <1>3, <2>1, <2>9 DEF Promise!Next
<1> QED
  BY <1>3, <1>5, <1>6, <1>7

LEMMA ProceedIsAllowed ==
  ASSUME ActsInv, NEW r \in Requests, Proceed(r)
  PROVE  Promise!Next
<1>0. IInv
  BY DEF ActsInv
<1>1. CASE CardsCollide(r) \/ Unissued(r) \/ NothingPending(r)
  BY <1>0, <1>1, StopIsQuiet DEF CardsCollide, Unissued, NothingPending, Promise!Next
<1>2. CASE CommitIssue(r)
  BY <1>0, <1>2, CommitOrStop, StopIsQuiet, CommitIsIssue DEF Promise!Next
<1>3. CASE Redeem(r)
  BY <1>0, <1>3, RedeemOrStop, StopIsQuiet, RedeemIsAllowed DEF Promise!Next
<1> QED
  BY <1>0, <1>1, <1>2, <1>3, IssueIsQuiet, LookIsQuiet DEF Proceed, Promise!Next

LEMMA InitIsAllowed == Init => Promise!Init
<1> SUFFICES ASSUME Init PROVE Promise!Init
  OBVIOUS
<1>1. codes = <<>> /\ DOMAIN codes = {}
  BY DEF Init
<1>2. TypeOK
  BY InitEstablishes DEF IInv
<1>3. \A c \in Ids : State[c] = "unissued" /\ About[c] = None
  BY <1>1, <1>2, States
<1>4. State = [c \in Ids |-> "unissued"] /\ About = [c \in Ids |-> None]
  BY <1>3 DEF State, About
<1> QED
  BY <1>2, <1>4 DEF Promise!Init, TypeOK, Init

LEMMA NextIsAllowed == ActsInv /\ [Next]_vars => Promise!Next
<1> SUFFICES ASSUME ActsInv, [Next]_vars PROVE Promise!Next
  OBVIOUS
<1>0. IInv
  BY DEF ActsInv
<1>1. CASE UNCHANGED vars
  BY <1>0, <1>1, StutterIsQuiet DEF Promise!Next
<1>2. CASE \E r \in Requests : Arrive(r)
  BY <1>0, <1>2, ArriveIsAllowed
<1>3. CASE \E r \in Requests : Proceed(r)
  BY <1>3, ProceedIsAllowed
<1>4. CASE \E r \in Requests : Fail(r)
  BY <1>0, <1>4, StopIsQuiet DEF Fail, Promise!Next
<1>5. CASE SendMessage \/ CleanUp \/ Tick
  BY <1>0, <1>5, BackgroundIsQuiet DEF Promise!Next
<1> QED
  BY <1>1, <1>2, <1>3, <1>4, <1>5 DEF Next

\* The code keeps the promise of OneTimeCodes: a code is redeemed at most once, while it
\* is valid and for what it was issued for; a role changes only in the step that
\* redeems a code for the phone of the user who gets it, and a phone only at a
\* registration or in the step that redeems a code for the new phone, for a user who
\* has asked for it and has not been moved for that before.
THEOREM CodesKeepTheirPromise == Spec => ImplementsOneTimeCodes
<1>1. ActsInv /\ [Next]_vars => [Promise!Next]_(Promise!vars)
  BY NextIsAllowed
<1> QED
  BY InitIsAllowed, ActsInvariance, <1>1, PTL DEF Spec, ImplementsOneTimeCodes, Promise!Spec
=============================================================================
