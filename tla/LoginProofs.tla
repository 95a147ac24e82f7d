----------------------------- MODULE LoginProofs -----------------------------
(***************************************************************************)
(* Theorems about Login, for every finite set of requests, every set of    *)
(* users, sessions, codes and tokens, and every limit of attempts.         *)
(***************************************************************************)
EXTENDS Login, SetLemmas

(***************************************************************************)
(* The inductive invariant.                                                *)
(***************************************************************************)

OfSession == {"confirm", "confirmed", "resend"}

\* Where a request may stand, by its operation.
Shape(r) ==
  /\ pc[r] = "idle" <=> call[r].op = "none"
  /\ pc[r] # "idle" => call[r].user \in Users
  /\ pc[r] = "session" => call[r].op = "login"
  /\ pc[r] = "issue" => call[r].op \in {"login", "resend"}
  /\ pc[r] = "set" => call[r].op = "resend"
  /\ pc[r] \in {"attempts", "validate", "add", "incr", "get", "put"} => call[r].op = "confirm"
  /\ pc[r] \in {"drop", "clear"} => call[r].op \in {"confirm", "confirmed"}
  /\ pc[r] = "activity" => call[r].op \in {"login", "confirmed"}
  /\ pc[r] = "save" => call[r].op \in Revoking \cup {"profile"}
  /\ pc[r] \in {"list", "blacklist"} => call[r].op \in Revoking
  /\ call[r].op \in OfSession => call[r].session \in opened

\* A request that revokes has the tokens it must end in the table, then in its
\* list, and then in the blacklist.
Revokes(r) ==
  /\ pc[r] = "list" => mark[r] \subseteq Outstanding(call[r].user)
  /\ pc[r] = "blacklist" => /\ mark[r] \subseteq listed[r]
                            /\ listed[r] \subseteq Outstanding(call[r].user)
  /\ pc[r] = "answer" /\ call[r].op \in Revoking => mark[r] \subseteq blacklisted

RequestInv(r) == Shape(r) /\ Revokes(r)

\* A session that is gone for good has no resend left that might set it again.
SessionInv(s) ==
  /\ session[s] # None => s \in opened
  /\ s \in dropped \ crossed => session[s] = None /\ ~Resending(s)

\* Those that have found the counter gone and are to set it.
FallingBack(s) == {r \in Requests : pc[r] \in {"get", "put"} /\ call[r].session = s}

\* What the limit allows for one life of a counter that nobody overwrites, and what it
\* allows for k of them.
Most == MaxAttempts + Cardinality(Requests) - 1

Allowed(k) == k * Most

\* Below the limit the counter lacks no guess but those from before it was overwritten;
\* who has passed the check may still guess.  Only who had found no counter at all can
\* overwrite the one there is.
Guesses(s) ==
  /\ attempts[s] = None => wrong[s] = 0 /\ restarts[s] = 0
  /\ attempts[s] # None => restarts[s] + Cardinality(FallingBack(s)) < Cardinality(Requests)
  /\ attempts[s] # None /\ attempts[s] < MaxAttempts =>
       wrong[s] <= attempts[s] + Allowed(restarts[s])
  /\ wrong[s] + Cardinality(InFlight(s)) <= Allowed(restarts[s]) + Most

IInv == /\ TypeOK /\ (\A r \in Requests : RequestInv(r))
        /\ (\A s \in Sessions : SessionInv(s) /\ Guesses(s))

-----------------------------------------------------------------------------
(* Types. *)

Steps == {"idle", "session", "issue", "set", "attempts", "validate", "add", "incr", "get",
          "put", "drop", "clear", "activity", "save", "list", "blacklist", "answer"}

CallType == [op : AllOperations \cup {"none", "confirmed"}, user : Users \cup {None},
             session : Sessions \cup {None}]

ThreadsTypeOK ==
  /\ pc \in [Requests -> Steps] /\ call \in [Requests -> CallType]
  /\ seen \in [Requests -> Columns]
  /\ listed \in [Requests -> SUBSET Tokens] /\ mark \in [Requests -> SUBSET Tokens]
  /\ fetched \in [Requests -> Nat]

CacheTypeOK ==
  /\ session \in [Sessions -> Users \cup {None}]
  /\ attempts \in [Sessions -> Nat \cup {None}]
  /\ opened \subseteq Sessions /\ dropped \subseteq opened /\ crossed \subseteq dropped
  /\ wrong \in [Sessions -> Nat] /\ restarts \in [Sessions -> Nat]

TablesTypeOK ==
  /\ account \in [Users -> Columns]
  /\ codeFor \in [Codes -> Users \cup {None}] /\ issued \subseteq Codes
  /\ owner \in [Tokens -> Users \cup {None}]
  /\ blacklisted \subseteq {t \in Tokens : owner[t] # None}

LEMMA TypeParts ==
  /\ TypeOK <=> ThreadsTypeOK /\ CacheTypeOK /\ TablesTypeOK
  /\ TypeOK' <=> ThreadsTypeOK' /\ CacheTypeOK' /\ TablesTypeOK'
BY DEF TypeOK, ThreadsTypeOK, CacheTypeOK, TablesTypeOK, Steps, CallType

LEMMA FreshType == NoCall \in CallType /\ Fresh \in Columns
BY LoginAssumption DEF NoCall, Asks, CallType, Fresh, Columns

LEMMA FinishType ==
  ASSUME ThreadsTypeOK, NEW r \in Requests, Finish(r)
  PROVE  ThreadsTypeOK'
BY FreshType DEF Finish, Goto, ThreadsTypeOK, Steps

LEMMA MoveType ==
  ASSUME ThreadsTypeOK, NEW r \in Requests, NEW at \in Steps, Goto(r, at),
         UNCHANGED <<call, seen, listed, mark, fetched>>
  PROVE  ThreadsTypeOK'
BY DEF Goto, ThreadsTypeOK

\* Where a request is, and what it works on.
LEMMA Subjects ==
  ASSUME IInv, NEW r \in Requests
  PROVE  /\ pc[r] # "idle" => call[r].user \in Users
         /\ pc[r] \in {"set", "attempts", "validate", "add", "incr", "get", "put", "drop", "clear"} =>
              call[r].session \in opened /\ call[r].session \in Sessions
         /\ None \notin Users /\ seen[r] \in Columns
BY LoginAssumption DEF IInv, RequestInv, Shape, TypeOK, OfSession

LEMMA ArriveType ==
  ASSUME IInv, NEW r \in Requests, Arrive(r)
  PROVE  TypeOK'
<1>0. ThreadsTypeOK /\ CacheTypeOK /\ TablesTypeOK
  BY TypeParts DEF IInv
<1>1. ASSUME NEW op \in AllOperations, NEW u \in Users, NEW s \in Sessions \cup {None},
             NEW at \in Steps, Receive(r, Asks(op, u, s), at)
      PROVE  TypeOK'
  <2>1. Asks(op, u, s) \in CallType /\ Asks(op, u, s).user = u
    BY DEF Asks, CallType
  <2>2. call' \in [Requests -> CallType] /\ pc' \in [Requests -> Steps]
    BY <1>0, <1>1, <2>1 DEF Receive, Goto, ThreadsTypeOK
  <2>3. seen' \in [Requests -> Columns]
    BY <1>0, <1>1, <2>1, FreshType DEF Receive, ThreadsTypeOK, TablesTypeOK
  <2>4. ThreadsTypeOK'
    BY <1>0, <1>1, <2>2, <2>3 DEF Receive, ThreadsTypeOK
  <2>5. CacheTypeOK' /\ TablesTypeOK'
    BY <1>0, <1>1 DEF Receive, CacheTypeOK, TablesTypeOK, cache, codes, tokens
  <2> QED
    BY <2>4, <2>5, TypeParts
<1>2. \A s \in Sessions : session[s] # None => session[s] \in Users
  BY <1>0 DEF CacheTypeOK
<1>3. CASE ReceiveLogin(r)
  BY <1>1, <1>3 DEF ReceiveLogin, AllOperations, Steps
<1>4. CASE ReceiveResend(r)
  BY <1>1, <1>2, <1>4 DEF ReceiveResend, AllOperations, Steps
<1>5. CASE ReceiveConfirm(r)
  BY <1>1, <1>2, <1>5 DEF ReceiveConfirm, AllOperations, Steps
<1>6. CASE ReceiveRevoking(r) \/ ReceiveProfile(r)
  BY <1>1, <1>6 DEF ReceiveRevoking, ReceiveProfile, AllOperations, Revoking, Steps
<1> QED
  BY <1>3, <1>4, <1>5, <1>6 DEF Arrive

LEMMA Numbers ==
  ASSUME IInv, NEW r \in Requests, pc[r] \in {"validate", "add", "incr", "get", "put"}
  PROVE  /\ call[r].session \in Sessions /\ Count(call[r].session) \in Nat
         /\ fetched[r] \in Nat /\ \A n \in Nat : Capped(n) \in Nat
BY LoginAssumption, Subjects DEF IInv, TypeOK, Count, Capped

LEMMA ThreadsType ==
  ASSUME IInv, NEW r \in Requests, Proceed(r) \/ Fail(r)
  PROVE  ThreadsTypeOK'
<1>0. ThreadsTypeOK
  BY TypeParts DEF IInv
<1>1. CASE Finish(r)
  BY <1>0, <1>1, FinishType
<1>2. CASE \E at \in Steps : Goto(r, at) /\ UNCHANGED <<call, seen, listed, mark, fetched>>
  BY <1>0, <1>2, MoveType
<1>3. CASE RightGuess(r)
  <2>1. call' \in [Requests -> CallType]
    BY <1>0, <1>3 DEF RightGuess, ThreadsTypeOK, CallType
  <2> QED
    BY <1>0, <1>3, <2>1 DEF RightGuess, Goto, ThreadsTypeOK, Steps
<1>4. CASE SaveColumn(r) \/ ListTokens(r) \/ BlacklistTokens(r)
  <2>1. Outstanding(call[r].user) \subseteq Tokens
    BY DEF Outstanding
  <2> QED
    BY <1>0, <1>4, <2>1
    DEF SaveColumn, ListTokens, BlacklistTokens, Goto, ThreadsTypeOK, Steps
<1>5. CASE GetCounter(r)
  BY <1>0, <1>5, Numbers DEF GetCounter, Goto, ThreadsTypeOK, Steps
<1> QED
  BY <1>1, <1>2, <1>3, <1>4, <1>5
  DEF Proceed, Fail, OpenSession, IssueCode, NoCode, SetSession, CheckAttempts, WrongGuess,
      AddCounter, IncrCounter, PutCounter, CountGuess, DropSession, ClearCounter,
      SaveActivity, Answer, SaveProfile, Move, Steps

LEMMA CacheType ==
  ASSUME IInv, NEW r \in Requests, Proceed(r) \/ Fail(r)
  PROVE  CacheTypeOK'
<1> USE Subjects DEF CacheTypeOK
<1>0. CacheTypeOK
  BY TypeParts DEF IInv
<1>1. CASE OpenSession(r)
  BY <1>0, <1>1 DEF OpenSession, Move, SessionValue
<1>2. CASE SetSession(r)
  BY <1>0, <1>2 DEF SetSession, SessionValue
<1>3. CASE AddCounter(r)
  BY <1>0, <1>3, Numbers DEF AddCounter, Move, Added
<1>4. CASE IncrCounter(r) \/ PutCounter(r)
  <2>1. pc[r] \in {"incr", "put"}
    BY <1>4 DEF IncrCounter, PutCounter
  <2>2. /\ call[r].session \in Sessions
        /\ Capped(Count(call[r].session) + 1) \in Nat /\ Capped(fetched[r] + 1) \in Nat
    BY <2>1, Numbers
  <2>3. CASE UNCHANGED cache
    BY <1>0, <2>3 DEF cache
  <2>4. ASSUME NEW n, CountGuess(r, n), Capped(n) \in Nat,
               restarts' = restarts \/ PutCounter(r)
        PROVE  CacheTypeOK'
    <3>1. restarts' \in [Sessions -> Nat]
      BY <1>0, <2>2, <2>4 DEF PutCounter
    <3>2. /\ attempts' = [attempts EXCEPT ![call[r].session] = Capped(n)]
          /\ wrong' = [wrong EXCEPT ![call[r].session] = @ + 1]
          /\ UNCHANGED <<session, opened, dropped, crossed>>
      BY <2>4 DEF CountGuess
    <3>3. attempts' \in [Sessions -> Nat \cup {None}] /\ wrong' \in [Sessions -> Nat]
      BY <1>0, <2>2, <2>4, <3>2
    <3> QED
      BY <1>0, <3>1, <3>2, <3>3
  <2> QED
    BY <1>4, <2>2, <2>3, <2>4 DEF IncrCounter, PutCounter
<1>5. CASE DropSession(r)
  BY <1>0, <1>5 DEF DropSession, Move, Deleted
<1>6. CASE ClearCounter(r)
  BY <1>0, <1>6 DEF ClearCounter
<1>7. CASE UNCHANGED cache
  BY <1>0, <1>7 DEF cache
<1> QED
  BY <1>1, <1>2, <1>3, <1>4, <1>5, <1>6, <1>7
  DEF Proceed, Fail, IssueCode, NoCode, CheckAttempts, RightGuess, WrongGuess, GetCounter,
      SaveActivity, Answer, SaveColumn, ListTokens, BlacklistTokens, SaveProfile

LEMMA TablesType ==
  ASSUME IInv, NEW r \in Requests, Proceed(r) \/ Fail(r)
  PROVE  TablesTypeOK'
<1> USE Subjects DEF TablesTypeOK
<1>0. TablesTypeOK
  BY TypeParts DEF IInv
<1>1. CASE IssueCode(r)
  <2>1. PICK c \in Codes \ issued :
          /\ pc[r] = "issue" /\ issued' = issued \cup {c}
          /\ codeFor' = [Replaced(call[r].user) EXCEPT ![c] = call[r].user]
          /\ UNCHANGED <<account, tokens>>
    BY <1>1 DEF IssueCode
  <2>2. Replaced(call[r].user) \in [Codes -> Users \cup {None}]
    BY <1>0 DEF Replaced
  <2> QED
    BY <1>0, <2>1, <2>2 DEF tokens
<1>2. CASE RightGuess(r)
  BY <1>0, <1>2 DEF RightGuess, tokens
<1>3. CASE SaveActivity(r)
  BY <1>0, <1>3 DEF SaveActivity, Move, ActivityOnly, codes, tokens
<1>4. CASE Answer(r)
  BY <1>0, <1>4 DEF Answer, Unused, codes
<1>5. CASE SaveColumn(r)
  <2>1. Updated(r, account[call[r].user]) \in Columns
    <3>1. account[call[r].user] \in Columns /\ call[r].op \in Revoking
          /\ (call[r].op \in {"change", "reset"} => account[call[r].user].password < MaxPassword)
      BY <1>0, <1>5 DEF SaveColumn
    <3> QED
      <4>1. CASE call[r].op \in {"change", "reset"}
        <5>1. account[call[r].user].password + 1 \in 0..MaxPassword
          BY <3>1, <4>1, LoginAssumption DEF Columns
        <5> QED
          BY <3>1, <4>1, <5>1 DEF Updated, Columns
      <4>2. CASE call[r].op = "deactivate"
        BY <3>1, <4>2 DEF Updated, Columns
      <4>3. CASE call[r].op = "move"
        BY <3>1, <4>3 DEF Updated
      <4> QED
        BY <3>1, <4>1, <4>2, <4>3 DEF Revoking
  <2> QED
    BY <1>0, <1>5, <2>1 DEF SaveColumn, codes, tokens
<1>6. CASE BlacklistTokens(r)
  <2>1. listed[r] \subseteq {t \in Tokens : owner[t] # None}
    BY <1>6 DEF BlacklistTokens, IInv, RequestInv, Revokes, Outstanding
  <2> QED
    BY <1>0, <1>6, <2>1 DEF BlacklistTokens, Inserted, codes
<1>7. CASE SaveProfile(r)
  BY <1>0, <1>7 DEF SaveProfile, codes, tokens
<1>8. CASE UNCHANGED <<account, codes, tokens>>
  BY <1>0, <1>8 DEF codes, tokens
<1> QED
  BY <1>1, <1>2, <1>3, <1>4, <1>5, <1>6, <1>7, <1>8
  DEF Proceed, Fail, OpenSession, NoCode, SetSession, CheckAttempts, WrongGuess, AddCounter,
      IncrCounter, GetCounter, PutCounter, CountGuess, DropSession, ClearCounter, ListTokens

LEMMA NextType == IInv /\ [Next]_vars => TypeOK'
<1> SUFFICES ASSUME IInv, [Next]_vars PROVE TypeOK'
  OBVIOUS
<1>0. ThreadsTypeOK /\ CacheTypeOK /\ TablesTypeOK
  BY TypeParts DEF IInv
<1>1. ASSUME NEW r \in Requests, Arrive(r) PROVE TypeOK'
  BY <1>1, ArriveType
<1>2. ASSUME NEW r \in Requests, Proceed(r) \/ Fail(r) PROVE TypeOK'
  BY <1>2, ThreadsType, CacheType, TablesType, TypeParts
<1>3. CASE UNCHANGED threads /\ (Logout \/ SwitchTwoFA \/ ExpireSession \/ ExpireCounter
                                 \/ ExpireCode \/ UNCHANGED vars)
  <2>1. ThreadsTypeOK'
    BY <1>0, <1>3 DEF threads, ThreadsTypeOK
  <2>2. CacheTypeOK'
    BY <1>0, <1>3
    DEF Logout, SwitchTwoFA, ExpireSession, ExpireCounter, ExpireCode, vars, cache, CacheTypeOK
  <2>3. TablesTypeOK'
    <3>1. CASE Logout
      BY <1>0, <3>1 DEF Logout, Unused, codes, TablesTypeOK
    <3>2. CASE SwitchTwoFA
      <4>1. PICK u \in Users : /\ account' = [account EXCEPT ![u].twofa = ~@]
                               /\ UNCHANGED <<codes, tokens>>
        BY <3>2 DEF SwitchTwoFA
      <4>2. (~account[u].twofa) \in BOOLEAN /\ account[u] \in Columns
        BY <1>0 DEF TablesTypeOK
      <4>3. [account[u] EXCEPT !.twofa = ~@] \in Columns
        BY <4>2 DEF Columns
      <4> QED
        BY <1>0, <4>1, <4>3 DEF codes, tokens, TablesTypeOK
    <3>3. CASE ExpireCode
      BY <1>0, <3>3 DEF ExpireCode, tokens, TablesTypeOK
    <3>4. CASE UNCHANGED <<account, codes, tokens>>
      BY <1>0, <3>4 DEF codes, tokens, TablesTypeOK
    <3> QED
      BY <1>3, <3>1, <3>2, <3>3, <3>4 DEF ExpireSession, ExpireCounter, vars
  <2> QED
    BY <2>1, <2>2, <2>3, TypeParts
<1> QED
  BY <1>1, <1>2, <1>3
  DEF Next, Logout, SwitchTwoFA, ExpireSession, ExpireCounter, ExpireCode, vars

-----------------------------------------------------------------------------
(* What a step leaves alone, and what only grows.                          *)

\* A step of r moves no other request.
StepOf(r) ==
  \A q \in Requests \ {r} : /\ pc'[q] = pc[q] /\ call'[q] = call[q]
                            /\ listed'[q] = listed[q] /\ mark'[q] = mark[q]

LEMMA StepMoves ==
  ASSUME IInv, NEW r \in Requests, Arrive(r) \/ Proceed(r) \/ Fail(r)
  PROVE  StepOf(r)
<1> USE DEF StepOf, Goto, IInv, TypeOK
<1>1. CASE Finish(r)
  BY <1>1 DEF Finish
<1>2. CASE (\E at : Goto(r, at)) /\ UNCHANGED <<call, listed, mark>>
  BY <1>2
<1>3. CASE Arrive(r)
  <2>1. PICK c, at : Receive(r, c, at)
    BY <1>3
    DEF Arrive, ReceiveLogin, ReceiveResend, ReceiveConfirm, ReceiveRevoking, ReceiveProfile
  <2> QED
    BY <2>1 DEF Receive
<1>4. CASE RightGuess(r) \/ SaveColumn(r) \/ ListTokens(r) \/ BlacklistTokens(r)
  BY <1>4 DEF RightGuess, SaveColumn, ListTokens, BlacklistTokens
<1> QED
  BY <1>1, <1>2, <1>3, <1>4
  DEF Proceed, Fail, OpenSession, IssueCode, NoCode, SetSession, CheckAttempts, WrongGuess,
      AddCounter, IncrCounter, GetCounter, PutCounter, CountGuess, DropSession, ClearCounter,
      SaveActivity, Answer, SaveProfile, Move

\* Sessions, blacklisted tokens and those of a user are never fewer.
LEMMA Growth ==
  ASSUME IInv, [Next]_vars
  PROVE  /\ opened \subseteq opened' /\ blacklisted \subseteq blacklisted'
         /\ \A u \in Users : Outstanding(u) \subseteq Outstanding(u)'
<1>1. \/ UNCHANGED owner
      \/ \E r \in Requests : Answer(r)
  BY DEF Next, Arrive, ReceiveLogin, ReceiveResend, ReceiveConfirm, ReceiveRevoking,
         ReceiveProfile, Receive, Proceed, OpenSession, IssueCode, NoCode, SetSession,
         CheckAttempts, RightGuess, WrongGuess, AddCounter, IncrCounter, GetCounter,
         PutCounter, CountGuess, DropSession, ClearCounter, SaveActivity, SaveColumn, ListTokens, BlacklistTokens, SaveProfile,
         Fail, Logout, SwitchTwoFA, ExpireSession, ExpireCounter, ExpireCode, vars, tokens
<1>2. \A u \in Users : Outstanding(u) \subseteq Outstanding(u)'
  <2>1. None \notin Users
    BY LoginAssumption
  <2> QED
    BY <1>1, <2>1 DEF Answer, Unused, Outstanding, IInv, TypeOK
<1>3. \/ UNCHANGED blacklisted
      \/ \E r \in Requests : BlacklistTokens(r)
      \/ Logout
  BY DEF Next, Arrive, ReceiveLogin, ReceiveResend, ReceiveConfirm, ReceiveRevoking,
         ReceiveProfile, Receive, Proceed, OpenSession, IssueCode, NoCode, SetSession,
         CheckAttempts, RightGuess, WrongGuess, AddCounter, IncrCounter, GetCounter,
         PutCounter, CountGuess, DropSession, ClearCounter, SaveActivity, Answer, SaveColumn, ListTokens, SaveProfile,
         Fail, SwitchTwoFA, ExpireSession, ExpireCounter, ExpireCode, vars, tokens
<1>4. opened \subseteq opened'
  BY DEF Next, Arrive, ReceiveLogin, ReceiveResend, ReceiveConfirm, ReceiveRevoking,
         ReceiveProfile, Receive, Proceed, OpenSession, IssueCode, NoCode, SetSession,
         CheckAttempts, RightGuess, WrongGuess, AddCounter, IncrCounter, GetCounter,
         PutCounter, CountGuess, DropSession, ClearCounter, SaveActivity, Answer, SaveColumn, ListTokens, BlacklistTokens,
         SaveProfile, Fail, Logout, SwitchTwoFA, ExpireSession, ExpireCounter, ExpireCode,
         vars, cache
<1> QED
  BY <1>2, <1>3, <1>4 DEF BlacklistTokens, Logout

-----------------------------------------------------------------------------
(* The requests. *)

LEMMA Frame ==
  ASSUME IInv, [Next]_vars, NEW q \in Requests,
         pc'[q] = pc[q], call'[q] = call[q], listed'[q] = listed[q], mark'[q] = mark[q]
  PROVE  RequestInv(q)'
<1>1. Shape(q)'
  BY Growth DEF IInv, RequestInv, Shape
<1>2. pc[q] # "idle" => call[q].user \in Users
  BY Subjects
<1>3. Revokes(q)'
  BY <1>2, Growth DEF IInv, RequestInv, Revokes
<1> QED
  BY <1>1, <1>3 DEF RequestInv

LEMMA FinishSelf ==
  ASSUME TypeOK, NEW r \in Requests, Finish(r)
  PROVE  pc'[r] = "idle" /\ call'[r] = NoCall /\ RequestInv(r)'
<1>1. pc'[r] = "idle" /\ call'[r] = NoCall
  BY DEF Finish, Goto, TypeOK
<1> QED
  BY <1>1 DEF RequestInv, Shape, Revokes, NoCall, Asks, OfSession

LEMMA ArriveKeepsRequest ==
  ASSUME IInv, NEW r \in Requests, Arrive(r)
  PROVE  RequestInv(r)'
<1>1. ASSUME NEW c, NEW at, Receive(r, c, at)
      PROVE  pc'[r] = at /\ call'[r] = c /\ opened' = opened
  BY <1>1 DEF Receive, Goto, IInv, TypeOK, cache
<1>2. \A s \in Sessions : session[s] # None => s \in opened /\ session[s] \in Users
  BY DEF IInv, SessionInv, TypeOK
<1> USE DEF RequestInv, Shape, Revokes, Asks, OfSession, Revoking
<1>3. CASE ReceiveLogin(r)
  BY <1>1, <1>3 DEF ReceiveLogin
<1>4. CASE ReceiveResend(r)
  BY <1>1, <1>2, <1>4 DEF ReceiveResend
<1>5. CASE ReceiveConfirm(r)
  BY <1>1, <1>2, <1>5 DEF ReceiveConfirm
<1>6. CASE ReceiveRevoking(r)
  <2>1. PICK op \in Revoking, u \in Users : Receive(r, Asks(op, u, None), "save")
    BY <1>6 DEF ReceiveRevoking
  <2>2. pc'[r] = "save" /\ call'[r].op = op /\ call'[r].user = u
    BY <1>1, <2>1
  <2> QED
    BY <2>2
<1>7. CASE ReceiveProfile(r)
  BY <1>1, <1>7 DEF ReceiveProfile
<1> QED
  BY <1>3, <1>4, <1>5, <1>6, <1>7 DEF Arrive

LEMMA ProceedKeepsRequest ==
  ASSUME IInv, NEW r \in Requests, Proceed(r)
  PROVE  RequestInv(r)'
<1>0. RequestInv(r) /\ TypeOK /\ (pc[r] # "idle" => call[r].user \in Users)
  BY Subjects DEF IInv
<1>1. CASE Finish(r)
  BY <1>0, <1>1, FinishSelf
<1>2. ASSUME NEW from, NEW to, Move(r, from, to)
      PROVE  /\ pc[r] = from /\ pc'[r] = to /\ call'[r] = call[r]
             /\ mark'[r] = mark[r] /\ listed'[r] = listed[r]
  BY <1>0, <1>2 DEF Move, Goto, TypeOK
<1>3. CASE OpenSession(r)
  BY <1>0, <1>2, <1>3 DEF OpenSession, RequestInv, Shape, Revokes, OfSession
<1>4. CASE (\E to \in {"set", "drop", "validate", "add", "incr", "get", "clear", "activity"} :
              \E from \in {"issue", "attempts", "validate", "add", "incr", "put", "drop", "clear"} :
                Move(r, from, to)) /\ opened' = opened /\ UNCHANGED tokens
           /\ Proceed(r) /\ ~Finish(r) /\ ~RightGuess(r)
  <2>1. /\ pc'[r] = "set" => call[r].op = "resend"
        /\ pc'[r] = "activity" => call[r].op = "confirmed"
        /\ pc'[r] \in {"add", "incr", "get", "validate"} => call[r].op = "confirm"
        /\ pc'[r] = "drop" => call[r].op = "confirm"
        /\ pc'[r] = "clear" => call[r].op \in {"confirm", "confirmed"}
    BY <1>0, <1>2, <1>4
    DEF Proceed, OpenSession, IssueCode, NoCode, SetSession, CheckAttempts, WrongGuess,
        AddCounter, IncrCounter, GetCounter, PutCounter, CountGuess, DropSession,
        ClearCounter, SaveActivity, Answer, SaveColumn, ListTokens, BlacklistTokens,
        SaveProfile, RequestInv, Shape
  <2> QED
    BY <1>0, <1>2, <1>4, <2>1 DEF RequestInv, Shape, Revokes, OfSession
<1>5. CASE RightGuess(r)
  <2>1. /\ pc[r] = "validate" /\ pc'[r] = "drop" /\ call'[r] = [call[r] EXCEPT !.op = "confirmed"]
        /\ opened' = opened
    BY <1>0, <1>5 DEF RightGuess, Goto, TypeOK, cache
  <2>2. /\ call[r].op = "confirm" /\ call'[r].op = "confirmed" /\ call'[r].user = call[r].user
        /\ call'[r].session = call[r].session
    BY <1>0, <2>1 DEF RequestInv, Shape, TypeOK
  <2> QED
    BY <1>0, <2>1, <2>2 DEF RequestInv, Shape, Revokes, OfSession, Revoking
<1>6. CASE SaveActivity(r)
  BY <1>0, <1>2, <1>6 DEF SaveActivity, RequestInv, Shape, Revokes, OfSession, Revoking, cache
<1>7. CASE SaveColumn(r)
  <2>1. /\ pc'[r] = "list" /\ call'[r] = call[r] /\ mark'[r] = Outstanding(call[r].user)
        /\ owner' = owner /\ opened' = opened /\ pc[r] = "save" /\ call[r].op \in Revoking
    BY <1>0, <1>7 DEF SaveColumn, Goto, TypeOK, tokens, cache
  <2> QED
    BY <1>0, <2>1 DEF RequestInv, Shape, Revokes, OfSession, Outstanding
<1>8. CASE ListTokens(r)
  <2>1. /\ pc[r] = "list" /\ pc'[r] = "blacklist" /\ call'[r] = call[r] /\ mark'[r] = mark[r]
        /\ listed'[r] = Outstanding(call[r].user) /\ owner' = owner /\ opened' = opened
    BY <1>0, <1>8 DEF ListTokens, Goto, TypeOK, tokens, cache
  <2> QED
    BY <1>0, <2>1 DEF RequestInv, Shape, Revokes, OfSession, Outstanding
<1>9. CASE BlacklistTokens(r)
  <2>1. /\ pc[r] = "blacklist" /\ pc'[r] = "answer" /\ call'[r] = call[r] /\ mark'[r] = mark[r]
        /\ listed[r] \subseteq blacklisted' /\ opened' = opened
    BY <1>0, <1>9 DEF BlacklistTokens, Inserted, Goto, TypeOK, cache
  <2> QED
    BY <1>0, <2>1 DEF RequestInv, Shape, Revokes, OfSession
<1>10. CASE GetCounter(r)
  <2>1. /\ pc[r] = "get" /\ pc'[r] = "put" /\ call'[r] = call[r] /\ opened' = opened
    BY <1>0, <1>10 DEF GetCounter, Goto, TypeOK, cache
  <2> QED
    BY <1>0, <2>1 DEF RequestInv, Shape, Revokes, OfSession
<1>11. CASE IncrCounter(r) \/ PutCounter(r)
  <2>1. pc[r] \in {"incr", "put"} /\ opened' = opened /\ UNCHANGED tokens
    BY <1>11 DEF IncrCounter, PutCounter, CountGuess, cache
  <2>2. Finish(r) \/ Move(r, pc[r], "drop") \/ Move(r, pc[r], "get")
    BY <1>11, <2>1 DEF IncrCounter, PutCounter, CountGuess
  <2> QED
    BY <1>1, <1>4, <1>5, <1>11, <2>1, <2>2 DEF Proceed, RightGuess
<1> QED
  BY <1>1, <1>3, <1>4, <1>5, <1>6, <1>7, <1>8, <1>9, <1>10, <1>11
  DEF Proceed, IssueCode, NoCode, SetSession, CheckAttempts, WrongGuess, AddCounter,
      DropSession, ClearCounter, Answer, SaveProfile, cache

LEMMA RequestsKept == IInv /\ [Next]_vars => \A q \in Requests : RequestInv(q)'
<1> SUFFICES ASSUME IInv, [Next]_vars, NEW q \in Requests PROVE RequestInv(q)'
  OBVIOUS
<1>1. ASSUME NEW r \in Requests, Arrive(r) \/ Proceed(r) \/ Fail(r) PROVE RequestInv(q)'
  <2>1. CASE q # r
    BY <1>1, <2>1, StepMoves, Frame DEF StepOf
  <2>2. CASE q = r
    BY <1>1, <2>2, ArriveKeepsRequest, ProceedKeepsRequest, FinishSelf DEF Fail, IInv
  <2> QED
    BY <2>1, <2>2
<1>2. CASE UNCHANGED threads
  BY <1>2, Frame DEF threads
<1> QED
  BY <1>1, <1>2
  DEF Next, Logout, SwitchTwoFA, ExpireSession, ExpireCounter, ExpireCode, vars

-----------------------------------------------------------------------------
(* The sessions. *)

\* The requests that resend the code of a session.
LEMMA ResendsEnd ==
  ASSUME IInv, NEW r \in Requests, Proceed(r) \/ Fail(r), NEW s \in Sessions
  PROVE  Resending(s)' => Resending(s)
<1>1. call' = call \/ call'[r] = NoCall \/ call'[r].op = "confirmed"
  <2>1. CASE Finish(r)
    BY <2>1, FinishSelf DEF IInv
  <2>2. CASE RightGuess(r)
    BY <2>2 DEF RightGuess, IInv, TypeOK
  <2> QED
    BY <2>1, <2>2
    DEF Proceed, Fail, OpenSession, IssueCode, NoCode, SetSession, CheckAttempts, WrongGuess,
        AddCounter, IncrCounter, GetCounter, PutCounter, CountGuess, DropSession,
        ClearCounter, SaveActivity, Answer, SaveProfile, SaveColumn, ListTokens,
        BlacklistTokens, Move
<1> QED
  BY <1>1, StepMoves DEF StepOf, Resending, NoCall, Asks

LEMMA SessionsKept == IInv /\ [Next]_vars => \A s \in Sessions : SessionInv(s)'
<1> SUFFICES ASSUME IInv, [Next]_vars, NEW s \in Sessions PROVE SessionInv(s)'
  OBVIOUS
<1>0. SessionInv(s) /\ TypeOK
  BY DEF IInv
<1>1. ASSUME NEW r \in Requests, Arrive(r) PROVE SessionInv(s)'
  <2>1. UNCHANGED cache
    BY <1>1
    DEF Arrive, ReceiveLogin, ReceiveResend, ReceiveConfirm, ReceiveRevoking, ReceiveProfile,
        Receive
  <2>2. Resending(s)' => Resending(s) \/ session[s] # None
    <3>1. call'[r].op # "resend" \/ session[call'[r].session] # None
      <4>1. ASSUME NEW c, NEW at, Receive(r, c, at) PROVE call'[r] = c
        BY <4>1, <1>0 DEF Receive, TypeOK
      <4>2. CASE ReceiveResend(r)
        BY <4>1, <4>2 DEF ReceiveResend, Asks
      <4>3. ASSUME NEW op \in AllOperations \ {"resend"}, NEW u, NEW x, NEW at,
                   Receive(r, Asks(op, u, x), at)
            PROVE  call'[r].op # "resend"
        BY <4>1, <4>3 DEF Asks
      <4>4. CASE ReceiveLogin(r)
        <5>1. PICK u \in Users, at \in {"session", "activity"} :
                Receive(r, Asks("login", u, None), at)
          BY <4>4 DEF ReceiveLogin
        <5> QED
          BY <4>3, <5>1 DEF AllOperations
      <4>5. CASE ReceiveConfirm(r)
        BY <4>3, <4>5 DEF ReceiveConfirm, AllOperations
      <4>6. CASE ReceiveRevoking(r) \/ ReceiveProfile(r)
        BY <4>3, <4>6 DEF ReceiveRevoking, ReceiveProfile, AllOperations, Revoking
      <4> QED
        BY <1>1, <4>2, <4>4, <4>5, <4>6 DEF Arrive
    <3> QED
      BY <1>1, <3>1, StepMoves DEF StepOf, Resending
  <2> QED
    BY <1>0, <2>1, <2>2 DEF SessionInv, cache
<1>2. ASSUME NEW r \in Requests, Proceed(r) \/ Fail(r) PROVE SessionInv(s)'
  <2>0. Resending(s)' => Resending(s)
    BY <1>2, ResendsEnd
  <2>1. CASE OpenSession(r)
    BY <1>0, <2>0, <2>1 DEF OpenSession, SessionInv, TypeOK
  <2>2. CASE SetSession(r)
    <3>1. /\ session' = [session EXCEPT ![call[r].session] = call[r].user]
          /\ Resending(call[r].session) /\ UNCHANGED <<opened, dropped, crossed>>
          /\ call[r].session \in opened
      BY <2>2, Subjects DEF SetSession, SessionValue, Resending, IInv, RequestInv, Shape
    <3> QED
      BY <1>0, <2>0, <3>1 DEF SessionInv, TypeOK
  <2>3. CASE DropSession(r)
    <3>1. /\ session' = [session EXCEPT ![call[r].session] = None]
          /\ dropped' = dropped \cup {call[r].session} /\ opened' = opened
          /\ crossed' = IF Resending(call[r].session)
                        THEN crossed \cup {call[r].session} ELSE crossed
      BY <2>3 DEF DropSession, Deleted
    <3> QED
      BY <1>0, <2>0, <3>1 DEF SessionInv, TypeOK
  <2>4. CASE UNCHANGED <<session, opened, dropped, crossed>>
    BY <1>0, <2>0, <2>4 DEF SessionInv
  <2> QED
    BY <1>2, <2>1, <2>2, <2>3, <2>4
    DEF Proceed, Fail, IssueCode, NoCode, CheckAttempts, RightGuess, WrongGuess, AddCounter,
        IncrCounter, GetCounter, PutCounter, CountGuess, ClearCounter, SaveActivity, Answer,
        SaveColumn, ListTokens, BlacklistTokens, SaveProfile, cache
<1>3. CASE UNCHANGED threads /\ UNCHANGED <<opened, dropped, crossed>>
           /\ (session'[s] = session[s] \/ session'[s] = None)
  BY <1>0, <1>3 DEF SessionInv, Resending, threads
<1> QED
  BY <1>0, <1>1, <1>2, <1>3
  DEF Next, Logout, SwitchTwoFA, ExpireSession, ExpireCounter, ExpireCode, vars, cache, TypeOK

-----------------------------------------------------------------------------
(* The guesses of a session. *)

LEMMA Allowance ==
  /\ Cardinality(Requests) \in Nat /\ Cardinality(Requests) > 0
  /\ MaxAttempts \in Nat /\ MaxAttempts > 0 /\ Most \in Nat
  /\ Most = MaxAttempts + Cardinality(Requests) - 1
  /\ Allowed(0) = 0
  /\ \A k \in Nat : Allowed(k) \in Nat /\ Allowed(k + 1) = Allowed(k) + Most
<1>1. Cardinality(Requests) \in Nat /\ Cardinality(Requests) # 0 /\ MaxAttempts \in Nat \ {0}
  BY LoginAssumption, FS_CardinalityType, FS_EmptySet
<1>2. Most \in Nat /\ Most = MaxAttempts + Cardinality(Requests) - 1
  BY <1>1 DEF Most
<1> HIDE DEF Most
<1> QED
  BY <1>1, <1>2 DEF Allowed

\* How a step of r changes the numbers of guesses.
LEMMA Counting ==
  ASSUME NEW r \in Requests, StepOf(r), NEW s \in Sessions
  PROVE  /\ Cardinality(InFlight(s)) \in Nat /\ Cardinality(InFlight(s)') \in Nat
         /\ Cardinality(FallingBack(s)) \in Nat /\ Cardinality(FallingBack(s)') \in Nat
         /\ Cardinality(InFlight(s)) <= Cardinality(Requests)
         /\ Cardinality(InFlight(s)') <= Cardinality(Requests)
         /\ Cardinality(InFlight(s)') + One(r \in InFlight(s))
              = Cardinality(InFlight(s)) + One(r \in InFlight(s)')
         /\ Cardinality(FallingBack(s)') + One(r \in FallingBack(s))
              = Cardinality(FallingBack(s)) + One(r \in FallingBack(s)')
         /\ r \notin InFlight(s) => Cardinality(InFlight(s)) + 1 <= Cardinality(Requests)
         /\ r \notin FallingBack(s)' =>
              Cardinality(FallingBack(s)') + 1 <= Cardinality(Requests)
<1>1. /\ InFlight(s) \in SUBSET Requests /\ InFlight(s)' \in SUBSET Requests
      /\ InFlight(s) \ {r} = InFlight(s)' \ {r}
  BY DEF InFlight, StepOf
<1>2. /\ FallingBack(s) \in SUBSET Requests /\ FallingBack(s)' \in SUBSET Requests
      /\ FallingBack(s) \ {r} = FallingBack(s)' \ {r}
  BY DEF FallingBack, StepOf
<1>3. /\ IsFiniteSet(Requests) /\ Cardinality(Requests) \in Nat
      /\ {} \in SUBSET Requests /\ Cardinality({}) = 0
  BY LoginAssumption, FS_CardinalityType, FS_EmptySet
<1>4. /\ Cardinality(InFlight(s)) \in Nat /\ Cardinality(InFlight(s)') \in Nat
      /\ Cardinality(InFlight(s)') + One(r \in InFlight(s))
           = Cardinality(InFlight(s)) + One(r \in InFlight(s)')
  BY <1>1, <1>3, OneMoves
<1>5. /\ Cardinality(FallingBack(s)) \in Nat /\ Cardinality(FallingBack(s)') \in Nat
      /\ Cardinality(FallingBack(s)') + One(r \in FallingBack(s))
           = Cardinality(FallingBack(s)) + One(r \in FallingBack(s)')
  BY <1>2, <1>3, OneMoves
<1>6. ASSUME NEW S \in SUBSET Requests, r \notin S, Cardinality(S) \in Nat
      PROVE  Cardinality(S) + 1 <= Cardinality(Requests)
  <2>1. Cardinality(S) + Cardinality({}) + 1 <= Cardinality(Requests)
    BY <1>3, <1>6, RoomForOne
  <2> QED
    BY <1>3, <1>6, <2>1
<1>7. /\ Cardinality(InFlight(s)) <= Cardinality(Requests)
      /\ Cardinality(InFlight(s)') <= Cardinality(Requests)
  BY <1>1, <1>3, FS_Subset
<1> QED
  BY <1>1, <1>2, <1>4, <1>5, <1>6, <1>7

\* Where r is counted, before and after a step.
LEMMA Places ==
  ASSUME NEW r \in Requests, NEW s
  PROVE  /\ r \in InFlight(s) <=>
              pc[r] \in {"validate", "add", "incr", "get", "put"} /\ call[r].session = s
         /\ r \in FallingBack(s) <=> pc[r] \in {"get", "put"} /\ call[r].session = s
         /\ r \in InFlight(s)' <=>
              pc'[r] \in {"validate", "add", "incr", "get", "put"} /\ call'[r].session = s
         /\ r \in FallingBack(s)' <=> pc'[r] \in {"get", "put"} /\ call'[r].session = s
BY DEF InFlight, FallingBack

LEMMA Histories ==
  ASSUME IInv, NEW s \in Sessions
  PROVE  /\ attempts[s] \in Nat \cup {None} /\ wrong[s] \in Nat /\ restarts[s] \in Nat
         /\ None \notin Nat /\ Guesses(s)
         /\ Allowed(restarts[s]) \in Nat /\ Most \in Nat
BY LoginAssumption, Allowance DEF IInv, TypeOK

\* The counter of s keeps its value and its histories.
SameCounter(s) == attempts'[s] = attempts[s] /\ wrong'[s] = wrong[s] /\ restarts'[s] = restarts[s]

CounterGone(s) == attempts'[s] = None /\ wrong'[s] = 0 /\ restarts'[s] = 0

\* A step that takes no guess from r and lets it make none.
LEMMA GuessesQuiet ==
  ASSUME IInv, NEW r \in Requests, StepOf(r), NEW s \in Sessions,
         SameCounter(s) \/ CounterGone(s),
         r \in InFlight(s)' => r \in InFlight(s),
         r \in FallingBack(s)' => r \in FallingBack(s) \/ attempts'[s] = None
  PROVE  Guesses(s)'
<1>1. Cardinality(InFlight(s)') <= Cardinality(InFlight(s))
  BY Counting DEF One
<1>2. CASE SameCounter(s) /\ attempts[s] = None
  BY <1>1, <1>2, Histories, Counting DEF Guesses, SameCounter
<1>3. CASE SameCounter(s) /\ attempts[s] # None
  <2>1. Cardinality(FallingBack(s)') <= Cardinality(FallingBack(s))
    BY <1>3, Counting DEF One, SameCounter
  <2>2. Cardinality(Requests) \in Nat
    BY Allowance
  <2> QED
    BY <1>1, <1>3, <2>1, <2>2, Histories, Counting DEF Guesses, SameCounter
<1>4. CASE CounterGone(s)
  BY <1>4, Histories, Counting, Allowance DEF Guesses, CounterGone
<1> QED
  BY <1>2, <1>3, <1>4

\* One that has passed the check while the counter was below the limit.
LEMMA GuessesAllowed ==
  ASSUME IInv, NEW r \in Requests, StepOf(r), NEW s \in Sessions,
         SameCounter(s), attempts[s] = None \/ attempts[s] < MaxAttempts,
         r \notin InFlight(s), r \notin FallingBack(s)'
  PROVE  Guesses(s)'
<1>1. Cardinality(InFlight(s)') <= Cardinality(Requests)
  BY Counting
<1>2. CASE attempts[s] = None
  <2>1. wrong'[s] = 0 /\ restarts'[s] = 0 /\ attempts'[s] = None
    BY <1>2, Histories DEF Guesses, SameCounter
  <2>2. Cardinality(InFlight(s)') \in Nat /\ Cardinality(InFlight(s)') <= Most
    BY <1>1, Counting, Allowance
  <2> QED
    BY <2>1, <2>2, Allowance DEF Guesses
<1>3. CASE attempts[s] # None /\ attempts[s] < MaxAttempts
  <2>1. Cardinality(FallingBack(s)') <= Cardinality(FallingBack(s))
    BY Counting DEF One
  <2>2. wrong[s] + Cardinality(InFlight(s)') <= Allowed(restarts[s]) + Most
    BY <1>1, <1>3, Histories, Counting, Allowance DEF Guesses
  <2> QED
    BY <1>3, <2>1, <2>2, Histories, Counting, Allowance DEF Guesses, SameCounter
<1> QED
  BY <1>2, <1>3

\* The counter of a first guess.
LEMMA GuessesBegun ==
  ASSUME IInv, NEW r \in Requests, StepOf(r), NEW s \in Sessions,
         attempts[s] = None, attempts'[s] = 0, wrong'[s] = wrong[s], restarts'[s] = restarts[s],
         r \in InFlight(s), r \notin FallingBack(s)'
  PROVE  Guesses(s)'
<1>1. Cardinality(InFlight(s)') <= Cardinality(InFlight(s))
  BY Counting DEF One
<1>2. restarts'[s] = 0 /\ wrong'[s] = 0 /\ attempts'[s] # None
  BY Histories DEF Guesses
<1>3. /\ Cardinality(InFlight(s)') \in Nat /\ Cardinality(InFlight(s)') <= Most
      /\ Cardinality(FallingBack(s)') \in Nat
      /\ Cardinality(FallingBack(s)') < Cardinality(Requests)
  BY Counting, Allowance
<1> QED
  BY <1>2, <1>3, Allowance DEF Guesses

\* A guess that cache.incr() counts.
LEMMA GuessesCounted ==
  ASSUME IInv, NEW r \in Requests, StepOf(r), NEW s \in Sessions,
         attempts[s] # None, attempts'[s] = Capped(attempts[s] + 1),
         wrong'[s] = wrong[s] + 1, restarts'[s] = restarts[s],
         r \in InFlight(s), r \notin InFlight(s)', r \notin FallingBack(s)'
  PROVE  Guesses(s)'
<1>1. attempts'[s] \in Nat /\ (attempts'[s] < MaxAttempts =>
                                 attempts[s] < MaxAttempts /\ attempts'[s] = attempts[s] + 1)
  BY Histories, Allowance DEF Capped
<1> QED
  BY <1>1, Histories, Counting, Allowance DEF One, Guesses

\* A guess that the fallback counts, alone or over the others.
LEMMA GuessesPut ==
  ASSUME IInv, NEW r \in Requests, StepOf(r), NEW s \in Sessions, NEW k \in Nat,
         attempts'[s] = Capped(k + 1), wrong'[s] = wrong[s] + 1,
         restarts'[s] = IF attempts[s] = None THEN restarts[s] ELSE restarts[s] + 1,
         r \in InFlight(s), r \notin InFlight(s)', r \in FallingBack(s), r \notin FallingBack(s)'
  PROVE  Guesses(s)'
<1>1. attempts'[s] \in Nat /\ attempts'[s] >= 1
  BY Allowance DEF Capped
<1>2. CASE attempts[s] = None
  <2>1. restarts'[s] = 0 /\ wrong'[s] = 1 /\ attempts'[s] # None
    BY <1>1, <1>2, Histories DEF Guesses
  <2>2. /\ Cardinality(InFlight(s)') \in Nat /\ Cardinality(InFlight(s)') + 1 <= Most
        /\ Cardinality(FallingBack(s)') \in Nat
        /\ Cardinality(FallingBack(s)') < Cardinality(Requests)
    <3>1. Cardinality(InFlight(s)') + 1 = Cardinality(InFlight(s))
      BY Counting DEF One
    <3> QED
      BY <3>1, Counting, Allowance
  <2> QED
    BY <1>1, <2>1, <2>2, Allowance DEF Guesses
<1>3. CASE attempts[s] # None
  BY <1>1, <1>3, Histories, Counting, Allowance DEF One, Guesses
<1> QED
  BY <1>2, <1>3

\* The steps outside the confirmation of a guess.
LEMMA GuessesAside ==
  ASSUME IInv, NEW r \in Requests, StepOf(r), UNCHANGED <<attempts, wrong, restarts>>,
         pc'[r] \notin {"validate", "add", "incr", "get", "put"}
  PROVE  \A s \in Sessions : Guesses(s)'
BY GuessesQuiet, Places DEF SameCounter

LEMMA GuessesOfCheck ==
  ASSUME IInv, NEW r \in Requests, NEW s \in Sessions,
         CheckAttempts(r) \/ WrongGuess(r) \/ AddCounter(r) \/ GetCounter(r)
  PROVE  Guesses(s)'
<1>0. TypeOK /\ StepOf(r) /\ attempts[s] \in Nat \cup {None} /\ None \notin Nat
  BY StepMoves, Histories DEF Proceed, IInv
<1>1. ASSUME NEW from, NEW to, Move(r, from, to)
      PROVE  pc[r] = from /\ pc'[r] = to /\ call' = call
  BY <1>0, <1>1 DEF Move, Goto, TypeOK
<1>2. CASE CheckAttempts(r)
  <2>1. /\ pc[r] = "attempts" /\ call' = call /\ SameCounter(s)
        /\ \/ pc'[r] = "drop"
           \/ pc'[r] = "validate" /\ ~(Count(call[r].session) >= MaxAttempts)
    BY <1>0, <1>1, <1>2 DEF CheckAttempts, cache, SameCounter
  <2>2. CASE pc'[r] = "validate" /\ s = call[r].session
    <3>1. attempts[s] = None \/ attempts[s] < MaxAttempts
      BY <1>0, <2>1, <2>2, Allowance DEF Count
    <3> QED
      BY <1>0, <2>1, <2>2, <3>1, GuessesAllowed, Places
  <2>3. CASE ~(pc'[r] = "validate" /\ s = call[r].session)
    BY <1>0, <2>1, <2>3, GuessesQuiet, Places
  <2> QED
    BY <2>2, <2>3
<1>3. CASE WrongGuess(r)
  <2>1. pc[r] = "validate" /\ pc'[r] = "add" /\ call' = call /\ SameCounter(s)
    BY <1>0, <1>1, <1>3 DEF WrongGuess, cache, SameCounter
  <2> QED
    BY <1>0, <2>1, GuessesQuiet, Places
<1>4. CASE AddCounter(r)
  <2>1. /\ pc[r] = "add" /\ pc'[r] = "incr" /\ call' = call /\ UNCHANGED <<wrong, restarts>>
        /\ attempts' = [attempts EXCEPT ![call[r].session] = Count(call[r].session)]
    BY <1>0, <1>1, <1>4 DEF AddCounter, Added
  <2>2. CASE s = call[r].session /\ attempts[s] = None
    <3>1. attempts'[s] = 0
      BY <1>0, <2>1, <2>2 DEF Count, TypeOK
    <3> QED
      BY <1>0, <2>1, <2>2, <3>1, GuessesBegun, Places
  <2>3. CASE ~(s = call[r].session /\ attempts[s] = None)
    <3>1. SameCounter(s)
      BY <1>0, <2>1, <2>3 DEF Count, TypeOK, SameCounter
    <3> QED
      BY <1>0, <2>1, <3>1, GuessesQuiet, Places
  <2> QED
    BY <2>2, <2>3
<1>5. CASE GetCounter(r)
  <2>1. pc[r] = "get" /\ pc'[r] = "put" /\ call' = call /\ SameCounter(s)
    BY <1>0, <1>5 DEF GetCounter, Goto, TypeOK, cache, SameCounter
  <2> QED
    BY <1>0, <2>1, GuessesQuiet, Places
<1> QED
  BY <1>2, <1>3, <1>4, <1>5

LEMMA GuessesOfCounter ==
  ASSUME IInv, NEW r \in Requests, NEW s \in Sessions, IncrCounter(r) \/ PutCounter(r)
  PROVE  Guesses(s)'
<1>0. /\ TypeOK /\ StepOf(r) /\ pc[r] \in {"incr", "put"}
      /\ attempts[s] \in Nat \cup {None} /\ None \notin Nat
      /\ call[r].session \in Sessions /\ fetched[r] \in Nat
  <2>1. pc[r] \in {"incr", "put"}
    BY DEF IncrCounter, PutCounter
  <2> QED
    BY <2>1, StepMoves, Histories, Numbers DEF Proceed, IInv
<1>1. ASSUME NEW n, CountGuess(r, n)
      PROVE  /\ pc'[r] \in {"idle", "drop"}
             /\ attempts' = [attempts EXCEPT ![call[r].session] = Capped(n)]
             /\ wrong' = [wrong EXCEPT ![call[r].session] = @ + 1]
  BY <1>0, <1>1, FinishSelf DEF CountGuess, Move, Goto, TypeOK
<1>2. CASE IncrCounter(r) /\ attempts[call[r].session] = None
  <2>1. pc[r] = "incr" /\ pc'[r] = "get" /\ call' = call /\ SameCounter(s)
    BY <1>0, <1>2 DEF IncrCounter, Move, Goto, TypeOK, cache, SameCounter
  <2> QED
    BY <1>0, <1>2, <2>1, GuessesQuiet, Places DEF SameCounter
<1>3. CASE IncrCounter(r) /\ attempts[call[r].session] # None
  <2>1. CountGuess(r, attempts[call[r].session] + 1) /\ restarts' = restarts
    BY <1>3 DEF IncrCounter, Count
  <2>2. CASE s = call[r].session
    <3>1. attempts'[s] = Capped(attempts[s] + 1) /\ wrong'[s] = wrong[s] + 1
      BY <1>0, <1>1, <2>1, <2>2 DEF TypeOK
    <3>2. r \in InFlight(s) /\ r \notin InFlight(s)' /\ r \notin FallingBack(s)'
      BY <1>0, <1>1, <2>1, <2>2, Places
    <3> QED
      BY <1>0, <1>3, <2>1, <2>2, <3>1, <3>2, GuessesCounted
  <2>3. CASE s # call[r].session
    <3>1. SameCounter(s)
      BY <1>0, <1>1, <2>1, <2>3 DEF SameCounter, TypeOK
    <3> QED
      BY <1>0, <1>1, <2>1, <3>1, GuessesQuiet, Places
  <2> QED
    BY <2>2, <2>3
<1>4. CASE PutCounter(r)
  <2>1. /\ pc[r] = "put" /\ CountGuess(r, fetched[r] + 1)
        /\ restarts' = IF attempts[call[r].session] = None
                       THEN restarts ELSE [restarts EXCEPT ![call[r].session] = @ + 1]
    BY <1>4 DEF PutCounter
  <2>2. CASE s = call[r].session
    <3>1. attempts'[s] = Capped(fetched[r] + 1) /\ wrong'[s] = wrong[s] + 1
      BY <1>0, <1>1, <2>1, <2>2 DEF TypeOK
    <3>2. restarts'[s] = IF attempts[s] = None THEN restarts[s] ELSE restarts[s] + 1
      BY <1>0, <2>1, <2>2 DEF TypeOK
    <3>3. /\ r \in InFlight(s) /\ r \notin InFlight(s)'
          /\ r \in FallingBack(s) /\ r \notin FallingBack(s)'
      BY <1>0, <1>1, <2>1, <2>2, Places
    <3> QED
      BY <1>0, <3>1, <3>2, <3>3, GuessesPut
  <2>3. CASE s # call[r].session
    <3>1. SameCounter(s)
      BY <1>0, <1>1, <2>1, <2>3 DEF SameCounter, TypeOK
    <3> QED
      BY <1>0, <1>1, <2>1, <3>1, GuessesQuiet, Places
  <2> QED
    BY <2>2, <2>3
<1> QED
  BY <1>2, <1>3, <1>4

LEMMA GuessesOfEnds ==
  ASSUME IInv, NEW r \in Requests, NEW s \in Sessions, ClearCounter(r)
  PROVE  Guesses(s)'
<1>1. TypeOK /\ StepOf(r) /\ (Finish(r) => pc'[r] = "idle")
  BY StepMoves, FinishSelf DEF Proceed, IInv
<1>2. /\ pc'[r] \in {"idle", "activity"}
      /\ attempts' = [attempts EXCEPT ![call[r].session] = None]
      /\ wrong' = [wrong EXCEPT ![call[r].session] = 0]
      /\ restarts' = [restarts EXCEPT ![call[r].session] = 0]
  BY <1>1 DEF ClearCounter, Move, Goto, TypeOK
<1>3. SameCounter(s) \/ CounterGone(s)
  BY <1>1, <1>2 DEF SameCounter, CounterGone, TypeOK
<1> QED
  BY <1>1, <1>2, <1>3, GuessesQuiet, Places

LEMMA GuessesKept == IInv /\ [Next]_vars => \A s \in Sessions : Guesses(s)'
<1> SUFFICES ASSUME IInv, [Next]_vars, NEW s \in Sessions PROVE Guesses(s)'
  OBVIOUS
<1>1. ASSUME NEW r \in Requests, Arrive(r) PROVE Guesses(s)'
  <2>1. UNCHANGED cache /\ pc'[r] \notin {"validate", "add", "incr", "get", "put"}
    <3>1. ASSUME NEW c, NEW at, Receive(r, c, at)
          PROVE  UNCHANGED cache /\ pc'[r] = at
      BY <3>1 DEF Receive, Goto, IInv, TypeOK
    <3> QED
      BY <1>1, <3>1
      DEF Arrive, ReceiveLogin, ReceiveResend, ReceiveConfirm, ReceiveRevoking, ReceiveProfile
  <2> QED
    BY <1>1, <2>1, StepMoves, GuessesAside DEF cache
<1>2. ASSUME NEW r \in Requests, Proceed(r) \/ Fail(r) PROVE Guesses(s)'
  <2>1. CASE CheckAttempts(r) \/ WrongGuess(r) \/ AddCounter(r) \/ GetCounter(r)
    BY <2>1, GuessesOfCheck
  <2>2. CASE IncrCounter(r) \/ PutCounter(r)
    BY <2>2, GuessesOfCounter
  <2>3. CASE ClearCounter(r)
    BY <2>3, GuessesOfEnds
  <2>4. CASE RightGuess(r)
    <3>1. pc'[r] = "drop" /\ UNCHANGED cache
      BY <2>4 DEF RightGuess, Goto, IInv, TypeOK
    <3> QED
      BY <1>2, <3>1, StepMoves, GuessesAside DEF cache
  <2>5. ASSUME OpenSession(r) \/ IssueCode(r) \/ NoCode(r) \/ SetSession(r) \/ DropSession(r)
               \/ SaveActivity(r) \/ Answer(r) \/ SaveProfile(r) \/ Fail(r)
        PROVE  Guesses(s)'
    <3>1. pc'[r] \notin {"validate", "add", "incr", "get", "put"}
          /\ UNCHANGED <<attempts, wrong, restarts>>
      BY <2>5, FinishSelf
      DEF OpenSession, IssueCode, NoCode, SetSession, DropSession, SaveActivity, Answer,
          SaveProfile, Fail, Move, Goto, IInv, TypeOK, cache
    <3> QED
      BY <1>2, <3>1, StepMoves, GuessesAside
  <2>6. CASE SaveColumn(r) \/ ListTokens(r) \/ BlacklistTokens(r)
    <3>1. pc'[r] \notin {"validate", "add", "incr", "get", "put"} /\ UNCHANGED cache
      BY <2>6 DEF SaveColumn, ListTokens, BlacklistTokens, Goto, IInv, TypeOK
    <3> QED
      BY <1>2, <3>1, StepMoves, GuessesAside DEF cache
  <2> QED
    BY <1>2, <2>1, <2>2, <2>3, <2>4, <2>5, <2>6 DEF Proceed
<1>3. CASE UNCHANGED threads /\ (SameCounter(s) \/ CounterGone(s))
  <2>1. PICK r \in Requests : TRUE
    BY LoginAssumption
  <2>2. StepOf(r) /\ InFlight(s)' = InFlight(s) /\ FallingBack(s)' = FallingBack(s)
    BY <1>3 DEF InFlight, FallingBack, StepOf, threads
  <2> QED
    BY <1>3, <2>2, GuessesQuiet
<1> QED
  BY <1>1, <1>2, <1>3
  DEF Next, Logout, SwitchTwoFA, ExpireSession, ExpireCounter, ExpireCode, vars, cache,
      IInv, TypeOK, SameCounter, CounterGone

-----------------------------------------------------------------------------
(* The theorems. *)

LEMMA InitIInv == Init => IInv
<1> SUFFICES ASSUME Init PROVE IInv
  OBVIOUS
<1>1. TypeOK
  BY FreshType, TypeParts
  DEF Init, ThreadsTypeOK, CacheTypeOK, TablesTypeOK, Steps
<1>2. \A r \in Requests : RequestInv(r)
  BY DEF Init, RequestInv, Shape, Revokes, NoCall, Asks, OfSession
<1>3. ASSUME NEW s \in Sessions PROVE SessionInv(s) /\ Guesses(s)
  <2>1. InFlight(s) = {} /\ Cardinality(InFlight(s)) = 0
    BY FS_EmptySet DEF Init, InFlight
  <2>2. wrong[s] = 0 /\ restarts[s] = 0 /\ attempts[s] = None
    BY <1>3 DEF Init
  <2> QED
    BY <2>1, <2>2, Allowance DEF Guesses, SessionInv, Init
<1> QED
  BY <1>1, <1>2, <1>3 DEF IInv

LEMMA NextIInv == IInv /\ [Next]_vars => IInv'
BY NextType, RequestsKept, SessionsKept, GuessesKept DEF IInv

LEMMA Invariance == Spec => []IInv
BY InitIInv, NextIInv, PTL DEF Spec

\* Every variable keeps its type.
THEOREM TypeCorrect == Spec => []TypeOK
<1>1. IInv => TypeOK
  BY DEF IInv
<1> QED
  BY <1>1, Invariance, PTL

\* In one life of a session's counter the guesses counted and those under way exceed
\* the limit by the other requests in flight at most (the cache.get(), cache.add() and
\* cache.incr() of the confirmation are not atomic together), and once more for each
\* time the fallback of cache.incr() overwrites the counter, which the other requests
\* do at most once each.
THEOREM GuessesLimited == Spec => []GuessesBounded
<1>1. IInv => GuessesBounded
  <2> SUFFICES ASSUME IInv, NEW s \in Sessions
               PROVE  /\ restarts[s] < Cardinality(Requests)
                      /\ wrong[s] + Cardinality(InFlight(s)) <=
                           (restarts[s] + 1) * (MaxAttempts + Cardinality(Requests) - 1)
    BY DEF GuessesBounded
  <2>1. Cardinality(FallingBack(s)) \in Nat
    <3>1. FallingBack(s) \in SUBSET Requests
      BY DEF FallingBack
    <3> QED
      BY <3>1, LoginAssumption, FS_Subset, FS_CardinalityType
  <2>2. Allowed(restarts[s] + 1) = Allowed(restarts[s]) + Most
    BY Histories, Allowance
  <2>3. wrong[s] + Cardinality(InFlight(s)) <= Allowed(restarts[s] + 1)
    BY <2>2, Histories DEF Guesses
  <2>4. restarts[s] < Cardinality(Requests)
    <3>1. CASE attempts[s] = None
      BY <3>1, Histories, Allowance DEF Guesses
    <3>2. CASE attempts[s] # None
      BY <2>1, <3>2, Histories, Allowance DEF Guesses
    <3> QED
      BY <3>1, <3>2
  <2> QED
    BY <2>3, <2>4 DEF Allowed, Most
<1> QED
  BY <1>1, Invariance, PTL

\* A session that a confirmation has deleted is not set again, but by a resend that
\* was under way (the cache.set() of the resend, which does not look again).
THEOREM SessionsStayGone == Spec => []DroppedSessionsStayGone
<1>1. IInv => DroppedSessionsStayGone
  BY DEF IInv, TypeOK, SessionInv, DroppedSessionsStayGone
<1> QED
  BY <1>1, Invariance, PTL

\* The refresh tokens that were there when a change of the account was saved are
\* blacklisted when it is answered (blacklist_all_user_tokens() lists them after
\* the save, and ignores those that others blacklist meanwhile).
THEOREM TokensEnd == Spec => []EarlierTokensEnd
<1>1. IInv => EarlierTokensEnd
  BY DEF IInv, RequestInv, Revokes, EarlierTokensEnd
<1> QED
  BY <1>1, Invariance, PTL

\* Only the edit of a profile brings an old password or a deactivated account back
\* (the other saves name the columns they mean, update_fields).
THEOREM ProfileEditsRevert == Spec => OnlyProfileEditsRevert
<1>1. IInv /\ [Next]_vars =>
        [\A u \in Users :
           \/ account'[u].password >= account[u].password
              /\ (account'[u].active => account[u].active)
           \/ \E r \in Requests : /\ pc[r] = "save" /\ pc'[r] = "idle"
                                  /\ call[r].op = "profile" /\ call[r].user = u]_vars
  <2> SUFFICES ASSUME IInv, [Next]_vars, NEW u \in Users
               PROVE  \/ account'[u].password >= account[u].password
                         /\ (account'[u].active => account[u].active)
                      \/ \E r \in Requests : /\ pc[r] = "save" /\ pc'[r] = "idle"
                                             /\ call[r].op = "profile" /\ call[r].user = u
    OBVIOUS
  <2>0. TypeOK /\ account[u] \in Columns /\ account[u].password \in Nat
    BY LoginAssumption DEF IInv, TypeOK, Columns
  <2>1. CASE account'[u] = account[u]
    BY <2>0, <2>1
  <2>2. ASSUME NEW r \in Requests, SaveColumn(r)
        PROVE  account'[u].password >= account[u].password
               /\ (account'[u].active => account[u].active)
    <3>1. /\ call[r].op \in Revoking
          /\ account' = [account EXCEPT ![call[r].user] = Updated(r, @)]
      BY <2>2 DEF SaveColumn
    <3>2. CASE call[r].op \in {"change", "reset"}
      BY <2>0, <3>1, <3>2 DEF Updated, TypeOK, Columns
    <3>3. CASE call[r].op = "deactivate"
      BY <2>0, <3>1, <3>3 DEF Updated, TypeOK, Columns
    <3>4. CASE call[r].op = "move"
      BY <2>0, <3>1, <3>4 DEF Updated, TypeOK
    <3> QED
      BY <3>1, <3>2, <3>3, <3>4 DEF Revoking
  <2>3. ASSUME NEW r \in Requests, SaveProfile(r), account'[u] # account[u]
        PROVE  /\ pc[r] = "save" /\ pc'[r] = "idle" /\ call[r].op = "profile"
               /\ call[r].user = u
    BY <2>0, <2>3, FinishSelf DEF SaveProfile, TypeOK
  <2>4. ASSUME SwitchTwoFA
        PROVE  account'[u].password >= account[u].password
               /\ (account'[u].active => account[u].active)
    BY <2>0, <2>4 DEF SwitchTwoFA, TypeOK, Columns
  <2>5. \/ account'[u] = account[u]
        \/ \E r \in Requests : SaveColumn(r) \/ SaveProfile(r)
        \/ SwitchTwoFA
    BY <2>0
    DEF Next, Arrive, ReceiveLogin, ReceiveResend, ReceiveConfirm, ReceiveRevoking,
        ReceiveProfile, Receive, Proceed, OpenSession, IssueCode, NoCode, SetSession,
        CheckAttempts, RightGuess, WrongGuess, AddCounter, IncrCounter, GetCounter,
        PutCounter, CountGuess, DropSession, ClearCounter, SaveActivity, ActivityOnly, Answer, ListTokens, BlacklistTokens,
        Fail, Logout, ExpireSession, ExpireCounter, ExpireCode, vars, TypeOK
  <2> QED
    BY <2>1, <2>2, <2>3, <2>4, <2>5
<1> QED
  BY <1>1, Invariance, PTL DEF Spec, OnlyProfileEditsRevert
=============================================================================
