------------------------------ MODULE Employees ------------------------------
(***************************************************************************)
(* The staff of a store (apps/employees): login with a lockout per name,   *)
(* logout, and the owner's edits and deletions.                            *)
(*                                                                         *)
(* An employee has one session token.  A login keeps it while it is valid  *)
(* and replaces it under the row lock otherwise; a logout replaces it, and *)
(* an edit writes back the whole row it has read, without a lock.  A token *)
(* and its token_created_at are written together, so that its age is kept  *)
(* per token; an edit that inserts a deleted row again starts it afresh.   *)
(***************************************************************************)
EXTENDS Naturals, FiniteSets

CONSTANTS
  Requests,     \* the requests that may be in flight at the same time
  Staff,        \* bound: the employees that may be created
  Tokens,       \* bound: the tokens that may be generated
  FailMax,      \* _EMP_FAIL_MAX
  Crashes,      \* bound: whether a worker may die
  None

ASSUME EmployeesAssumption ==
  /\ IsFiniteSet(Requests) /\ Requests # {} /\ FailMax \in Nat \ {0} /\ Crashes \in BOOLEAN
  /\ None \notin Requests \cup Staff \cup Tokens \cup Nat

VARIABLES
  token,     \* token[e]: Employee.token, None without such a row
  created,   \* the employees that were ever created
  born,      \* the tokens generated so far
  expired,   \* those older than EMPLOYEE_TOKEN_TTL_HOURS
  failures,  \* failures[e]: the counter of e's username in the cache
  rowLock,   \* rowLock[e]: the login that has locked e's row
  pc, call,
  seen,      \* seen[r]: the token of the row that r has read
  response,  \* response[r]: the token that the last login of r was answered with
  ended,     \* history: the tokens that a logout has replaced
  revived,   \* history: the tokens of ended that an edit has written back since
  wrong      \* history: the wrong passwords counted since e's counter was absent

rows    == <<token, created, born, expired>>
threads == <<pc, call, seen>>
history == <<ended, revived>>
guesses == <<failures, wrong>>
vars == <<rows, rowLock, guesses, threads, response, history>>

Asks(op, e) == [op |-> op, employee |-> e]
NoCall == Asks("none", None)

\* Faulty variant: the name of the employee for its token.
NameForToken(e, t) == e

Stored(e, t) == t

TypeOK ==
  /\ token \in [Staff -> Tokens \cup {None}] /\ created \subseteq Staff
  /\ expired \subseteq born /\ born \subseteq Tokens
  /\ failures \in [Staff -> Nat \cup {None}] /\ wrong \in [Staff -> Nat]
  /\ rowLock \in [Staff -> Requests \cup {None}]
  /\ pc \in [Requests -> {"idle", "count", "read", "add", "incr", "clear", "lock",
                          "commit", "rotate", "save"}]
  /\ call \in [Requests -> [op : {"none", "login", "logout", "edit"},
                            employee : Staff \cup {None}]]
  /\ seen \in [Requests -> Tokens \cup {None}]
  /\ response \in [Requests -> Tokens \cup {None}]
  /\ revived \subseteq ended /\ ended \subseteq born

Init ==
  /\ token = [e \in Staff |-> None] /\ created = {} /\ born = {} /\ expired = {}
  /\ failures = [e \in Staff |-> None] /\ wrong = [e \in Staff |-> 0]
  /\ rowLock = [e \in Staff |-> None]
  /\ pc = [r \in Requests |-> "idle"] /\ call = [r \in Requests |-> NoCall]
  /\ seen = [r \in Requests |-> None] /\ response = [r \in Requests |-> None]
  /\ ended = {} /\ revived = {}

-----------------------------------------------------------------------------
Exists(e) == token[e] # None

IsTokenValid(t) == t \notin expired

Goto(r, at) == pc' = [pc EXCEPT ![r] = at]

Receive(r, op, e, at) ==
  /\ pc[r] = "idle"
  /\ Goto(r, at)
  /\ call' = [call EXCEPT ![r] = Asks(op, e)]
  /\ seen' = [seen EXCEPT ![r] = IF op = "login" THEN None ELSE token[e]]
  /\ response' = [response EXCEPT ![r] = None]
  /\ UNCHANGED <<rows, rowLock, guesses, history>>

Finish(r) ==
  /\ Goto(r, "idle")
  /\ call' = [call EXCEPT ![r] = NoCall]
  /\ seen' = [seen EXCEPT ![r] = None]

Unlocked(r) == [e \in Staff |-> IF rowLock[e] = r THEN None ELSE rowLock[e]]

-----------------------------------------------------------------------------
(* Login.                                                                  *)

ReceiveLogin(r) == \E e \in Staff : Receive(r, "login", e, "count")

Count(e) == IF failures[e] = None THEN 0 ELSE failures[e]

\* cache.get(): too many failures are answered with 429.
CheckLockout(r) ==
  /\ pc[r] = "count"
  /\ IF Count(call[r].employee) >= FailMax
     THEN Finish(r)
     ELSE Goto(r, "read") /\ UNCHANGED <<call, seen>>
  /\ UNCHANGED <<rows, rowLock, guesses, response, history>>

\* The row is read without a lock; its password is the one submitted ...
RightPassword(r) ==
  /\ pc[r] = "read" /\ Exists(call[r].employee)
  /\ seen' = [seen EXCEPT ![r] = token[call[r].employee]]
  /\ Goto(r, "clear")
  /\ UNCHANGED <<rows, rowLock, guesses, call, response, history>>

\* ... or it is not, or there is no row or no password.
WrongPassword(r) ==
  /\ pc[r] = "read"
  /\ Goto(r, "add")
  /\ UNCHANGED <<rows, rowLock, guesses, call, seen, response, history>>

\* Faulty variant: cache.set() in place of cache.add().
Restarted(e) == 0

Added(e) == Count(e)

\* cache.add().
AddCounter(r) ==
  /\ pc[r] = "add"
  /\ failures' = [failures EXCEPT ![call[r].employee] = Added(call[r].employee)]
  /\ Goto(r, "incr")
  /\ UNCHANGED <<rows, rowLock, wrong, call, seen, response, history>>

\* cache.incr(); a counter that is gone again is an error, and nothing is counted.
IncrCounter(r) ==
  LET e == call[r].employee
  IN  /\ pc[r] = "incr"
      /\ IF failures[e] = None
         THEN UNCHANGED guesses
         ELSE /\ failures' = [failures EXCEPT ![e] = @ + 1]
              /\ wrong' = [wrong EXCEPT ![e] = @ + 1]
      /\ Finish(r)
      /\ UNCHANGED <<rows, rowLock, response, history>>

Cleared(e) ==
  /\ failures' = [failures EXCEPT ![e] = None]
  /\ wrong' = [wrong EXCEPT ![e] = 0]

\* cache.delete() after the right password.
ClearCounter(r) ==
  /\ pc[r] = "clear"
  /\ Cleared(call[r].employee)
  /\ Goto(r, "lock")
  /\ UNCHANGED <<rows, rowLock, call, seen, response, history>>

\* Faulty variant: get() without select_for_update().
RowRead(e) == TRUE

RowFree(e) == rowLock[e] = None

\* SELECT FOR UPDATE of the row ...
LockEmployee(r) ==
  LET e == call[r].employee
  IN  /\ pc[r] = "lock" /\ Exists(e) /\ RowFree(e)
      /\ rowLock' = [rowLock EXCEPT ![e] = r]
      /\ seen' = [seen EXCEPT ![r] = token[e]]
      /\ Goto(r, "commit")
      /\ UNCHANGED <<rows, guesses, call, response, history>>

\* ... that was deleted meanwhile.
EmployeeGone(r) ==
  /\ pc[r] = "lock" /\ ~Exists(call[r].employee)
  /\ Finish(r)
  /\ UNCHANGED <<rows, rowLock, guesses, response, history>>

\* refresh_token() stores a new token.
Generate(e, t) ==
  /\ t \notin born
  /\ born' = born \cup {t}
  /\ token' = [token EXCEPT ![e] = Stored(e, t)]

\* A valid token is handed out again, an expired one replaced; commit.
CommitLogin(r) ==
  LET e == call[r].employee
  IN  /\ pc[r] = "commit"
      /\ IF IsTokenValid(seen[r])
         THEN /\ response' = [response EXCEPT ![r] = seen[r]]
              /\ UNCHANGED <<token, born>>
         ELSE \E t \in Tokens : /\ Generate(e, t)
                                /\ response' = [response EXCEPT ![r] = t]
      /\ rowLock' = Unlocked(r)
      /\ Finish(r)
      /\ UNCHANGED <<created, expired, guesses, history>>

-----------------------------------------------------------------------------
(* Logout, and the owner's operations.                                     *)

\* The row is found by its token, which is valid.
ReceiveLogout(r) ==
  \E e \in Staff :
    /\ Exists(e) /\ IsTokenValid(token[e])
    /\ Receive(r, "logout", e, "rotate")

\* Faulty variant: save() without update_fields inserts a deleted row again.
RowOrInsert(e) == TRUE

\* save(update_fields=...) is an error when the row is gone.
RowUpdated(e) == Exists(e)

Ends(r, e) == {seen[r], token[e]} \ {None}

\* refresh_token() on the row as it was read: the token read and the one stored end.
Rotate(r) ==
  LET e == call[r].employee
  IN  /\ pc[r] = "rotate"
      /\ RowFree(e)
      /\ IF RowUpdated(e)
         THEN /\ \E t \in Tokens : Generate(e, t)
              /\ ended' = ended \cup Ends(r, e)
              /\ revived' = revived \ Ends(r, e)
         ELSE UNCHANGED <<token, born, ended, revived>>
      /\ Finish(r)
      /\ UNCHANGED <<created, expired, rowLock, guesses, response>>

ReceiveEdit(r) == \E e \in Staff : Exists(e) /\ Receive(r, "edit", e, "save")

\* save() of every column that was read: an UPDATE, or an INSERT when no row is left,
\* which dates the token anew (auto_now_add).
SaveEdit(r) ==
  LET e == call[r].employee
  IN  /\ pc[r] = "save"
      /\ RowFree(e)
      /\ token' = [token EXCEPT ![e] = seen[r]]
      /\ expired' = IF Exists(e) THEN expired ELSE expired \ {seen[r]}
      /\ revived' = revived \cup ({seen[r]} \cap ended)
      /\ Finish(r)
      /\ UNCHANGED <<created, born, rowLock, guesses, response, ended>>

CreateEmployee ==
  \E e \in Staff \ created, t \in Tokens :
    /\ Generate(e, t)
    /\ created' = created \cup {e}
    /\ UNCHANGED <<expired, rowLock, guesses, threads, response, history>>

\* The DELETE of one or many, or of their store.
DeleteEmployees ==
  \E E \in (SUBSET Staff) \ {{}} :
    /\ \A e \in E : Exists(e) /\ RowFree(e)
    /\ token' = [e \in Staff |-> IF e \in E THEN None ELSE token[e]]
    /\ UNCHANGED <<created, born, expired, rowLock, guesses, threads, response, history>>

-----------------------------------------------------------------------------
(* The times to live, and failures.                                        *)

ExpireToken ==
  \E t \in born \ expired :
    /\ expired' = expired \cup {t}
    /\ UNCHANGED <<token, created, born, rowLock, guesses, threads, response, history>>

\* The hour of the lockout begins with the first failure.
ExpireCounter ==
  \E e \in Staff :
    /\ failures[e] # None
    /\ Cleared(e)
    /\ UNCHANGED <<rows, rowLock, threads, response, history>>

\* The worker dies or a statement fails: the transaction is rolled back.
Fail(r) ==
  /\ Crashes /\ pc[r] # "idle"
  /\ rowLock' = Unlocked(r)
  /\ Finish(r)
  /\ UNCHANGED <<rows, guesses, response, history>>

Proceed(r) == \/ CheckLockout(r) \/ RightPassword(r) \/ WrongPassword(r) \/ AddCounter(r)
              \/ IncrCounter(r) \/ ClearCounter(r) \/ LockEmployee(r) \/ EmployeeGone(r)
              \/ CommitLogin(r) \/ Rotate(r) \/ SaveEdit(r)

Next == \/ \E r \in Requests : \/ ReceiveLogin(r) \/ ReceiveLogout(r) \/ ReceiveEdit(r)
                               \/ Proceed(r) \/ Fail(r)
        \/ CreateEmployee \/ DeleteEmployees \/ ExpireToken \/ ExpireCounter

Spec == Init /\ [][Next]_vars

-----------------------------------------------------------------------------
(* Properties.                                                             *)

\* The logins of e past the lockout whose password may still turn out wrong, or is
\* found wrong and not yet counted.
InFlight(e) == {r \in Requests : pc[r] \in {"read", "add", "incr"} /\ call[r].employee = e}

\* The lockout holds for logins that overlap: the wrong passwords of one life of the
\* counter, the ones under way included, exceed the limit by the other requests at
\* most.  One whose counting fails is not held against the name.
FailuresBounded ==
  \A e \in Staff : wrong[e] + Cardinality(InFlight(e)) <= FailMax + Cardinality(Requests) - 1

\* "Concurrent logins by the same employee share the same token until it expires
\* or the employee explicitly logs out": no other login takes a valid token away.
LoginsShareToken ==
  [][\A e \in Staff :
       (\E r \in Requests : pc[r] = "commit" /\ pc'[r] = "idle") /\ token[e] # None
       /\ IsTokenValid(token[e]) => token'[e] = token[e]]_vars

\* However logins, logouts, edits and deletions overlap, a login is answered with
\* a token that no logout has ended, but for one that an edit has written back.
NoEndedTokenHandedOut ==
  [][\A r \in Requests :
       response'[r] # response[r] => response'[r] \notin ended \ revived]_vars

\* A deleted employee and an ended token come back by nothing but an edit that had
\* read the row before.
OnlyStaleEditsRevive ==
  [][\A e \in Staff :
       token'[e] # token[e] =>
         \/ token'[e] \notin ended /\ (e \in created => Exists(e))
         \/ token'[e] = None
         \/ \E r \in Requests : pc[r] = "save" /\ pc'[r] = "idle"
                                /\ call[r].employee = e /\ seen[r] = token'[e]]_vars
=============================================================================
