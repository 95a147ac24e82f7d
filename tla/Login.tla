-------------------------------- MODULE Login --------------------------------
(***************************************************************************)
(* Login, second factor and refresh tokens of apps/accounts.               *)
(*                                                                         *)
(* A 2FA session and its counter of wrong guesses are two keys of the      *)
(* cache with a time to live each; every cache command is a step.  A       *)
(* change or reset of the password, a change of phone and a deactivation   *)
(* save one column, then list the refresh tokens of the user, blacklist    *)
(* the listed ones and answer with new tokens: four separate commits.      *)
(*                                                                         *)
(* A password is the number of its change.  The 2FA codes are those of     *)
(* VerificationCodes, reduced to: live until they are redeemed or expire.  *)
(***************************************************************************)
EXTENDS Integers, FiniteSets

CONSTANTS
  Requests,     \* the requests that may be in flight at the same time
  Users,
  Sessions,     \* bound: the 2FA tokens the service may hand out
  Codes,        \* bound: the 2FA codes it may issue
  Tokens,       \* bound: the refresh tokens it may hand out
  MaxAttempts,  \* _2FA_MAX_ATTEMPTS
  MaxPassword,  \* bound: the changes of a password
  Operations,   \* bound: the endpoints the clients of an instance call
  Crashes,      \* bound: whether a worker may die
  None

Revoking == {"change", "reset", "move", "deactivate"}
AllOperations == Revoking \cup {"login", "confirm", "resend", "profile"}

ASSUME LoginAssumption ==
  /\ IsFiniteSet(Requests) /\ Requests # {} /\ MaxAttempts \in Nat \ {0} /\ MaxPassword \in Nat
  /\ Operations \subseteq AllOperations /\ Crashes \in BOOLEAN
  /\ None \notin Users \cup Sessions \cup Codes \cup Tokens \cup Nat

VARIABLES
  account,      \* account[u]: the columns password, active, twofa of User
  session,      \* session[s]: the user of a 2FA session in the cache
  attempts,     \* attempts[s]: its counter in the cache
  opened,       \* the sessions handed out so far
  codeFor,      \* codeFor[c]: the user of a live code
  issued,       \* the codes issued so far
  owner,        \* owner[t]: the user of an outstanding refresh token
  blacklisted,  \* the refresh tokens that are blacklisted
  pc, call,
  seen,         \* seen[r]: the User row that a request has in memory
  listed,       \* listed[r]: the tokens that a request means to blacklist
  fetched,      \* fetched[r]: the counter that a request has in memory
  wrong,        \* history: wrong guesses counted since the counter of s was last deleted
  restarts,     \* history: how often a cache.set() has overwritten the counter since
  mark,         \* history: the tokens there were when r saved its column
  dropped,      \* history: the sessions a confirmation has deleted
  crossed       \* history: those deleted while a resend of them was under way

cache   == <<session, attempts, opened, wrong, restarts, dropped, crossed>>
codes   == <<codeFor, issued>>
tokens  == <<owner, blacklisted>>
threads == <<pc, call, seen, listed, mark, fetched>>
vars == <<account, cache, codes, tokens, threads>>

Asks(op, u, s) == [op |-> op, user |-> u, session |-> s]
NoCall == Asks("none", None, None)

Columns == [password : 0..MaxPassword, active : BOOLEAN, twofa : BOOLEAN]
Fresh == [password |-> 0, active |-> TRUE, twofa |-> FALSE]

TypeOK ==
  /\ account \in [Users -> Columns]
  /\ session \in [Sessions -> Users \cup {None}]
  /\ attempts \in [Sessions -> Nat \cup {None}]
  /\ opened \subseteq Sessions /\ dropped \subseteq opened /\ crossed \subseteq dropped
  /\ codeFor \in [Codes -> Users \cup {None}] /\ issued \subseteq Codes
  /\ owner \in [Tokens -> Users \cup {None}]
  /\ blacklisted \subseteq {t \in Tokens : owner[t] # None}
  /\ pc \in [Requests -> {"idle", "session", "issue", "set", "attempts", "validate", "add",
                          "incr", "get", "put", "drop", "clear", "activity", "save",
                          "list", "blacklist", "answer"}]
  /\ call \in [Requests -> [op : AllOperations \cup {"none", "confirmed"}, user : Users \cup {None},
                            session : Sessions \cup {None}]]
  /\ seen \in [Requests -> Columns]
  /\ listed \in [Requests -> SUBSET Tokens] /\ mark \in [Requests -> SUBSET Tokens]
  /\ fetched \in [Requests -> Nat]
  /\ wrong \in [Sessions -> Nat] /\ restarts \in [Sessions -> Nat]

Init ==
  /\ account = [u \in Users |-> Fresh]
  /\ session = [s \in Sessions |-> None] /\ attempts = [s \in Sessions |-> None]
  /\ opened = {} /\ dropped = {} /\ crossed = {}
  /\ codeFor = [c \in Codes |-> None] /\ issued = {}
  /\ owner = [t \in Tokens |-> None] /\ blacklisted = {}
  /\ pc = [r \in Requests |-> "idle"] /\ call = [r \in Requests |-> NoCall]
  /\ seen = [r \in Requests |-> Fresh]
  /\ listed = [r \in Requests |-> {}] /\ mark = [r \in Requests |-> {}]
  /\ fetched = [r \in Requests |-> 0]
  /\ wrong = [s \in Sessions |-> 0] /\ restarts = [s \in Sessions |-> 0]

-----------------------------------------------------------------------------
(* The life of a request.                                                  *)

Goto(r, at) == pc' = [pc EXCEPT ![r] = at]

Outstanding(u) == {t \in Tokens : owner[t] = u}

Unused == {t \in Tokens : owner[t] = None}

Receive(r, c, at) ==
  /\ pc[r] = "idle" /\ c.op \in Operations
  /\ Goto(r, at)
  /\ call' = [call EXCEPT ![r] = c]
  /\ seen' = [seen EXCEPT ![r] = IF c.op \in {"login", "profile"} THEN account[c.user] ELSE Fresh]
  /\ UNCHANGED <<account, cache, codes, tokens, listed, mark, fetched>>

Finish(r) ==
  /\ Goto(r, "idle")
  /\ call' = [call EXCEPT ![r] = NoCall]
  /\ seen' = [seen EXCEPT ![r] = Fresh]
  /\ listed' = [listed EXCEPT ![r] = {}]
  /\ mark' = [mark EXCEPT ![r] = {}]
  /\ fetched' = [fetched EXCEPT ![r] = 0]

\* Step of r from one program counter to another.
Move(r, from, to) ==
  /\ pc[r] = from
  /\ Goto(r, to)
  /\ UNCHANGED <<call, seen, listed, mark, fetched>>

-----------------------------------------------------------------------------
(* Login and the second factor.                                            *)

\* authenticate() with the right password.
MayLogIn(u) == account[u].active

ReceiveLogin(r) ==
  \E u \in Users :
    /\ MayLogIn(u)
    /\ Receive(r, Asks("login", u, None), IF account[u].twofa THEN "session" ELSE "activity")

\* Faulty variant: the entry holds its own key.
KeyForValue(u, s) == s

SessionValue(u, s) == u

\* cache.set() of a new session, before there is a code.
OpenSession(r) ==
  \E s \in Sessions \ opened :
    /\ Move(r, "session", "issue")
    /\ session' = [session EXCEPT ![s] = SessionValue(call[r].user, s)]
    /\ opened' = opened \cup {s}
    /\ UNCHANGED <<account, attempts, wrong, restarts, dropped, crossed, codes, tokens>>

Replaced(u) == [c \in Codes |-> IF codeFor[c] = u THEN None ELSE codeFor[c]]

\* create_verification_code(); an error leaves the session as it is.
IssueCode(r) ==
  \E c \in Codes \ issued :
    /\ pc[r] = "issue"
    /\ codeFor' = [Replaced(call[r].user) EXCEPT ![c] = call[r].user]
    /\ issued' = issued \cup {c}
    /\ IF call[r].op = "resend" THEN Move(r, "issue", "set") ELSE Finish(r)
    /\ UNCHANGED <<account, cache, tokens>>

NoCode(r) == pc[r] = "issue" /\ Finish(r) /\ UNCHANGED <<account, cache, codes, tokens>>

ReceiveResend(r) ==
  \E s \in Sessions :
    /\ session[s] # None
    /\ Receive(r, Asks("resend", session[s], s), "issue")

\* cache.set() of the session once more, whatever became of it meanwhile.
SetSession(r) ==
  LET s == call[r].session
  IN  /\ pc[r] = "set"
      /\ session' = [session EXCEPT ![s] = SessionValue(call[r].user, s)]
      /\ Finish(r)
      /\ UNCHANGED <<account, attempts, opened, wrong, restarts, dropped, crossed, codes, tokens>>

ReceiveConfirm(r) ==
  \E s \in Sessions :
    /\ session[s] # None
    /\ Receive(r, Asks("confirm", session[s], s), "attempts")

Count(s) == IF attempts[s] = None THEN 0 ELSE attempts[s]

\* cache.get() of the counter.
CheckAttempts(r) ==
  /\ Move(r, "attempts", IF Count(call[r].session) >= MaxAttempts THEN "drop" ELSE "validate")
  /\ UNCHANGED <<account, cache, codes, tokens>>

\* validate_verification_code() with a live code.
RightGuess(r) ==
  \E c \in Codes :
    /\ codeFor[c] = call[r].user
    /\ pc[r] = "validate"
    /\ codeFor' = [codeFor EXCEPT ![c] = None]
    /\ Goto(r, "drop")
    /\ call' = [call EXCEPT ![r].op = "confirmed"]
    /\ UNCHANGED <<account, cache, issued, tokens, seen, listed, mark, fetched>>

WrongGuess(r) ==
  /\ Move(r, "validate", "add")
  /\ UNCHANGED <<account, cache, codes, tokens>>

\* Faulty variant: cache.set() in place of cache.add().
Restarted(s) == 0

Added(s) == Count(s)

\* cache.add(): sets the counter to 0 if it is absent.
AddCounter(r) ==
  /\ Move(r, "add", "incr")
  /\ attempts' = [attempts EXCEPT ![call[r].session] = Added(call[r].session)]
  /\ UNCHANGED <<account, session, opened, wrong, restarts, dropped, crossed, codes, tokens>>

\* Bound: the counter is compared with the limit alone, and every value above it is
\* as good as the limit.
Capped(n) == IF n > MaxAttempts THEN MaxAttempts ELSE n

\* The new value of the counter, and what it means for the session.
CountGuess(r, n) ==
  LET s == call[r].session
  IN  /\ attempts' = [attempts EXCEPT ![s] = Capped(n)]
      /\ wrong' = [wrong EXCEPT ![s] = @ + 1]
      /\ IF n >= MaxAttempts THEN Move(r, pc[r], "drop") ELSE Finish(r)
      /\ UNCHANGED <<account, session, opened, dropped, crossed, codes, tokens>>

\* cache.incr(); a counter that has gone since is a ValueError.
IncrCounter(r) ==
  LET s == call[r].session
  IN  /\ pc[r] = "incr"
      /\ IF attempts[s] = None
         THEN Move(r, "incr", "get") /\ UNCHANGED <<account, cache, codes, tokens>>
         ELSE CountGuess(r, Count(s) + 1) /\ UNCHANGED restarts

\* The fallback: cache.get() ...
GetCounter(r) ==
  /\ pc[r] = "get"
  /\ Goto(r, "put")
  /\ fetched' = [fetched EXCEPT ![r] = Count(call[r].session)]
  /\ UNCHANGED <<account, cache, codes, tokens, call, seen, listed, mark>>

\* ... and cache.set() of one more, whatever the counter is by now.
PutCounter(r) ==
  LET s == call[r].session
  IN  /\ pc[r] = "put"
      /\ restarts' = IF attempts[s] = None THEN restarts ELSE [restarts EXCEPT ![s] = @ + 1]
      /\ CountGuess(r, fetched[r] + 1)

Resending(s) == \E r \in Requests : call[r].op = "resend" /\ call[r].session = s

\* Faulty variant: a session is deleted with its last attempt only.
KeptOnSuccess(r) == IF call[r].op = "confirmed" THEN session[call[r].session] ELSE None

Deleted(r) == None

\* cache.delete() of the session ...
DropSession(r) ==
  LET s == call[r].session
  IN  /\ Move(r, "drop", "clear")
      /\ session' = [session EXCEPT ![s] = Deleted(r)]
      /\ dropped' = dropped \cup {s}
      /\ crossed' = IF Resending(s) THEN crossed \cup {s} ELSE crossed
      /\ UNCHANGED <<account, attempts, opened, wrong, restarts, codes, tokens>>

\* ... and of its counter.
ClearCounter(r) ==
  /\ pc[r] = "clear"
  /\ attempts' = [attempts EXCEPT ![call[r].session] = None]
  /\ wrong' = [wrong EXCEPT ![call[r].session] = 0]
  /\ restarts' = [restarts EXCEPT ![call[r].session] = 0]
  /\ IF call[r].op = "confirmed" THEN Move(r, "clear", "activity") ELSE Finish(r)
  /\ UNCHANGED <<account, session, opened, dropped, crossed, codes, tokens>>

\* Faulty variant: save() without update_fields.
WholeRow(r) == seen[r]

\* save(update_fields=['last_activity']).
ActivityOnly(r) == account[call[r].user]

SaveActivity(r) ==
  /\ Move(r, "activity", "answer")
  /\ account' = [account EXCEPT ![call[r].user] = ActivityOnly(r)]
  /\ UNCHANGED <<cache, codes, tokens>>

\* get_tokens_for_user(), while the bound on tokens lasts; a deactivation is
\* answered without tokens.
Answer(r) ==
  /\ pc[r] = "answer"
  /\ IF call[r].op = "deactivate"
     THEN UNCHANGED owner
     ELSE \E t \in Unused : owner' = [owner EXCEPT ![t] = call[r].user]
  /\ Finish(r)
  /\ UNCHANGED <<account, cache, codes, blacklisted>>

Logout ==
  \E t \in Tokens \ (blacklisted \cup Unused) :
    /\ blacklisted' = blacklisted \cup {t}
    /\ UNCHANGED <<account, cache, codes, owner, threads>>

-----------------------------------------------------------------------------
(* Changes of the account.                                                 *)

\* A reset and a change of phone save when they redeem their code, which is
\* VerificationCodes; a change and a deactivation have checked the password of
\* the row they read.
ReceiveRevoking(r) ==
  \E op \in Revoking, u \in Users :
    /\ op # "reset" => account[u].active
    /\ Receive(r, Asks(op, u, None), "save")

\* The columns that an operation saves.
Updated(r, row) ==
  CASE call[r].op \in {"change", "reset"} -> [row EXCEPT !.password = @ + 1]
    [] call[r].op = "deactivate" -> [row EXCEPT !.active = FALSE]
    [] call[r].op = "move" -> row

\* save(update_fields=...).
SaveColumn(r) ==
  LET u == call[r].user
  IN  /\ pc[r] = "save"
      /\ call[r].op \in Revoking
      /\ call[r].op \in {"change", "reset"} => account[u].password < MaxPassword
      /\ account' = [account EXCEPT ![u] = Updated(r, @)]
      /\ mark' = [mark EXCEPT ![r] = Outstanding(u)]
      /\ Goto(r, "list")
      /\ UNCHANGED <<cache, codes, tokens, call, seen, listed, fetched>>

\* blacklist_all_user_tokens() reads the outstanding tokens ...
ListTokens(r) ==
  /\ pc[r] = "list"
  /\ listed' = [listed EXCEPT ![r] = Outstanding(call[r].user)]
  /\ Goto(r, "blacklist")
  /\ UNCHANGED <<account, cache, codes, tokens, call, seen, mark, fetched>>

\* Faulty variant: one token that is blacklisted already fails the statement.
InsertedStrictly(r) == IF listed[r] \cap blacklisted = {} THEN listed[r] ELSE {}

\* ignore_conflicts=True.
Inserted(r) == listed[r]

\* ... and inserts them in one statement.
BlacklistTokens(r) ==
  /\ pc[r] = "blacklist"
  /\ blacklisted' = blacklisted \cup Inserted(r)
  /\ listed' = [listed EXCEPT ![r] = {}]
  /\ Goto(r, "answer")
  /\ UNCHANGED <<account, cache, codes, owner, call, seen, mark, fetched>>

SwitchTwoFA ==
  \E u \in Users :
    /\ account[u].active
    /\ account' = [account EXCEPT ![u].twofa = ~@]
    /\ UNCHANGED <<cache, codes, tokens, threads>>

\* PUT and PATCH of the profile or its image: the serializer saves every column
\* of request.user.
ReceiveProfile(r) ==
  \E u \in Users :
    /\ account[u].active
    /\ Receive(r, Asks("profile", u, None), "save")

SaveProfile(r) ==
  /\ pc[r] = "save" /\ call[r].op = "profile"
  /\ account' = [account EXCEPT ![call[r].user] = seen[r]]
  /\ Finish(r)
  /\ UNCHANGED <<cache, codes, tokens>>

-----------------------------------------------------------------------------
(* The times to live, and failures.                                        *)

ExpireSession ==
  \E s \in Sessions :
    /\ session[s] # None
    /\ session' = [session EXCEPT ![s] = None]
    /\ UNCHANGED <<account, attempts, opened, wrong, restarts, dropped, crossed, codes, tokens,
                  threads>>

\* The counter keeps the time to live of the first wrong guess.
ExpireCounter ==
  \E s \in Sessions :
    /\ attempts[s] # None
    /\ attempts' = [attempts EXCEPT ![s] = None]
    /\ wrong' = [wrong EXCEPT ![s] = 0] /\ restarts' = [restarts EXCEPT ![s] = 0]
    /\ UNCHANGED <<account, session, opened, dropped, crossed, codes, tokens, threads>>

ExpireCode ==
  \E c \in Codes :
    /\ codeFor[c] # None
    /\ codeFor' = [codeFor EXCEPT ![c] = None]
    /\ UNCHANGED <<account, cache, issued, tokens, threads>>

\* The worker dies, or a statement fails; what was saved stays.  A guess that was
\* not counted yet never will be.
Fail(r) ==
  /\ Crashes /\ pc[r] # "idle"
  /\ Finish(r)
  /\ UNCHANGED <<account, cache, codes, tokens>>

Arrive(r) == \/ ReceiveLogin(r) \/ ReceiveResend(r) \/ ReceiveConfirm(r)
             \/ ReceiveRevoking(r) \/ ReceiveProfile(r)

Proceed(r) == \/ OpenSession(r) \/ IssueCode(r) \/ NoCode(r) \/ SetSession(r)
              \/ CheckAttempts(r) \/ RightGuess(r) \/ WrongGuess(r) \/ AddCounter(r)
              \/ IncrCounter(r) \/ GetCounter(r) \/ PutCounter(r) \/ DropSession(r)
              \/ ClearCounter(r) \/ SaveActivity(r) \/ Answer(r) \/ SaveColumn(r)
              \/ ListTokens(r) \/ BlacklistTokens(r) \/ SaveProfile(r)

Next == \/ \E r \in Requests : Arrive(r) \/ Proceed(r) \/ Fail(r)
        \/ Logout \/ SwitchTwoFA \/ ExpireSession \/ ExpireCounter \/ ExpireCode

Spec == Init /\ [][Next]_vars

-----------------------------------------------------------------------------
(* Properties.                                                             *)

\* The requests whose guess is under way: past the check of the counter, and not
\* counted yet.
InFlight(s) ==
  {r \in Requests : pc[r] \in {"validate", "add", "incr", "get", "put"} /\ call[r].session = s}

\* However the guesses for one session overlap, those counted in one life of its
\* counter and those under way exceed the limit by the other requests in flight at
\* most, and once more for each time the fallback of cache.incr() has overwritten a
\* counter: as often as there are other requests, since nobody enters the fallback
\* while there is a counter.
GuessesBounded ==
  LET n == Cardinality(Requests)
  IN  \A s \in Sessions :
        /\ restarts[s] < n
        /\ wrong[s] + Cardinality(InFlight(s)) <= (restarts[s] + 1) * (MaxAttempts + n - 1)

\* A session that a login has used up, or that too many guesses have locked, is
\* not there again, unless a resend of its code was under way.
DroppedSessionsStayGone ==
  \A s \in dropped \ crossed : session[s] = None

\* When a change of the password, a reset, a change of phone or a deactivation is
\* answered, no refresh token survives that existed when the column was saved: a
\* token of a login with the old password is newer than that.
EarlierTokensEnd ==
  \A r \in Requests :
    pc[r] = "answer" /\ call[r].op \in Revoking => mark[r] \subseteq blacklisted

\* Logins, confirmations and changes that overlap never bring an old password or
\* a deactivated account back: only the edit of a profile does.
OnlyProfileEditsRevert ==
  [][\A u \in Users :
       \/ account'[u].password >= account[u].password /\ (account'[u].active => account[u].active)
       \/ \E r \in Requests : /\ pc[r] = "save" /\ pc'[r] = "idle"
                              /\ call[r].op = "profile" /\ call[r].user = u]_vars
=============================================================================
