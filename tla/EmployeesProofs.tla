--------------------------- MODULE EmployeesProofs ---------------------------
(***************************************************************************)
(* Theorems about Employees, for every finite set of requests, every set   *)
(* of employees and tokens, and every limit of failures.                   *)
(***************************************************************************)
EXTENDS Employees, SetLemmas

(***************************************************************************)
(* The inductive invariant.                                                *)
(***************************************************************************)

LoginSteps == {"count", "read", "add", "incr", "clear", "lock", "commit"}

\* Where a request may stand, by its operation.
Shape(r) ==
  /\ pc[r] = "idle" <=> call[r].op = "none"
  /\ pc[r] # "idle" => call[r].employee \in Staff
  /\ pc[r] = "idle" => call[r].employee = None
  /\ pc[r] \in {"rotate", "save"} => seen[r] # None

\* A login about to commit has its row locked, and has read what is in it.
HoldsRow(r) ==
  pc[r] = "commit" =>
    /\ rowLock[call[r].employee] = r
    /\ seen[r] = token[call[r].employee] /\ seen[r] # None

RequestInv(r) == Shape(r) /\ HoldsRow(r)

\* Token t is in the row of e, or in the memory of a request that has read it there.
Carries(t, e) ==
  \/ token[e] = t
  \/ \E r \in Requests : call[r].employee = e /\ seen[r] = t

\* A token was generated, and is of one employee for ever, who was created.
Lineage ==
  /\ \A t \in Tokens, e \in Staff : Carries(t, e) => t \in born /\ e \in created
  /\ \A t \in Tokens, e, f \in Staff : Carries(t, e) /\ Carries(t, f) => e = f

\* No row holds an ended token but for one that an edit has written back.
Rows == \A e \in Staff : token[e] \notin ended \ revived

\* The counter holds what was counted; who has passed the lockout may still guess.
Guesses(e) ==
  /\ wrong[e] = Count(e)
  /\ wrong[e] + Cardinality(InFlight(e)) <= FailMax + Cardinality(Requests) - 1

IInv == /\ TypeOK /\ (\A r \in Requests : RequestInv(r)) /\ Lineage /\ Rows
        /\ (\A e \in Staff : Guesses(e))

-----------------------------------------------------------------------------
(* Types. *)

Steps == LoginSteps \cup {"idle", "rotate", "save"}

CallType == [op : {"none", "login", "logout", "edit"}, employee : Staff \cup {None}]

LEMMA NoCallType == NoCall \in CallType
BY DEF NoCall, Asks, CallType

LEMMA ReceiveType ==
  ASSUME TypeOK, NEW r \in Requests, NEW op \in {"login", "logout", "edit"},
         NEW e \in Staff, NEW at \in Steps, Receive(r, op, e, at)
  PROVE  TypeOK'
<1>1. call' \in [Requests -> CallType]
  BY DEF Receive, Asks, TypeOK, CallType
<1>2. pc' \in [Requests -> Steps]
  BY DEF Receive, Goto, TypeOK, Steps, LoginSteps
<1>3. seen' \in [Requests -> Tokens \cup {None}] /\ response' \in [Requests -> Tokens \cup {None}]
  BY DEF Receive, TypeOK
<1> QED
  BY <1>1, <1>2, <1>3
  DEF Receive, TypeOK, rows, guesses, history, CallType, Steps, LoginSteps

LEMMA FinishType ==
  ASSUME TypeOK, NEW r \in Requests, Finish(r)
  PROVE  /\ pc' \in [Requests -> Steps] /\ call' \in [Requests -> CallType]
         /\ seen' \in [Requests -> Tokens \cup {None}]
BY NoCallType DEF Finish, Goto, TypeOK, Steps, LoginSteps, CallType

LEMMA GotoType ==
  ASSUME TypeOK, NEW r \in Requests, NEW at \in Steps, Goto(r, at)
  PROVE  pc' \in [Requests -> Steps]
BY DEF Goto, TypeOK, Steps, LoginSteps

LEMMA UnlockedType ==
  ASSUME TypeOK, NEW r \in Requests
  PROVE  Unlocked(r) \in [Staff -> Requests \cup {None}]
BY DEF TypeOK, Unlocked

LEMMA NextType == IInv /\ [Next]_vars => TypeOK'
<1> SUFFICES ASSUME IInv, [Next]_vars PROVE TypeOK'
  OBVIOUS
<1> USE EmployeesAssumption DEF rows, threads, history, guesses
<1>0. TypeOK /\ \A r \in Requests : Shape(r)
  BY DEF IInv, RequestInv
<1>1. ASSUME NEW r \in Requests, ReceiveLogin(r) \/ ReceiveLogout(r) \/ ReceiveEdit(r)
      PROVE  TypeOK'
  BY <1>0, <1>1, ReceiveType
  DEF ReceiveLogin, ReceiveLogout, ReceiveEdit, Steps, LoginSteps
<1>2. ASSUME NEW r \in Requests, CheckLockout(r) PROVE TypeOK'
  <2>1. pc' \in [Requests -> Steps] /\ call' \in [Requests -> CallType]
        /\ seen' \in [Requests -> Tokens \cup {None}]
    BY <1>0, <1>2, FinishType, GotoType
    DEF CheckLockout, Steps, LoginSteps, CallType, TypeOK
  <2> QED
    BY <1>0, <1>2, <2>1 DEF CheckLockout, TypeOK, Steps, LoginSteps, CallType
<1>3. ASSUME NEW r \in Requests, EmployeeGone(r) PROVE TypeOK'
  BY <1>0, <1>3, FinishType DEF EmployeeGone, TypeOK, Steps, LoginSteps, CallType
<1>4. ASSUME NEW r \in Requests, RightPassword(r) \/ LockEmployee(r) PROVE TypeOK'
  <2>1. /\ call[r].employee \in Staff /\ pc' \in [Requests -> Steps]
        /\ seen' = [seen EXCEPT ![r] = token[call[r].employee]]
    BY <1>0, <1>4, GotoType DEF RightPassword, LockEmployee, Shape, Steps, LoginSteps
  <2>2. seen' \in [Requests -> Tokens \cup {None}] /\ rowLock' \in [Staff -> Requests \cup {None}]
    BY <1>0, <1>4, <2>1 DEF RightPassword, LockEmployee, TypeOK
  <2> QED
    BY <1>0, <1>4, <2>1, <2>2 DEF RightPassword, LockEmployee, TypeOK, Steps, LoginSteps
<1>5. ASSUME NEW r \in Requests, WrongPassword(r) PROVE TypeOK'
  <2>1. pc' \in [Requests -> Steps]
    BY <1>0, <1>5, GotoType DEF WrongPassword, Steps, LoginSteps
  <2> QED
    BY <1>0, <1>5, <2>1 DEF WrongPassword, TypeOK, Steps, LoginSteps
<1>6. ASSUME NEW r \in Requests, AddCounter(r) PROVE TypeOK'
  BY <1>0, <1>6 DEF AddCounter, Added, Count, TypeOK, Shape, Goto
<1>7. ASSUME NEW r \in Requests, IncrCounter(r) PROVE TypeOK'
  <2>1. wrong' \in [Staff -> Nat] /\ failures' \in [Staff -> Nat \cup {None}]
    BY <1>0, <1>7 DEF IncrCounter, TypeOK, Shape
  <2> QED
    BY <1>0, <1>7, <2>1, FinishType DEF IncrCounter, TypeOK, Steps, LoginSteps, CallType
<1>8. ASSUME NEW r \in Requests, ClearCounter(r) PROVE TypeOK'
  BY <1>0, <1>8 DEF ClearCounter, Cleared, TypeOK, Goto
<1>9. ASSUME NEW r \in Requests, CommitLogin(r) PROVE TypeOK'
  <2>1. /\ token' \in [Staff -> Tokens \cup {None}] /\ born \subseteq born'
        /\ born' \subseteq Tokens /\ response' \in [Requests -> Tokens \cup {None}]
    BY <1>0, <1>9 DEF CommitLogin, Generate, Stored, TypeOK
  <2> QED
    BY <1>0, <1>9, <2>1, FinishType, UnlockedType
    DEF CommitLogin, TypeOK, Steps, LoginSteps, CallType
<1>10. ASSUME NEW r \in Requests, Rotate(r) PROVE TypeOK'
  <2>1. Ends(r, call[r].employee) \subseteq born
    BY <1>0, <1>10 DEF Ends, Rotate, Shape, IInv, Lineage, Carries, TypeOK
  <2>2. /\ token' \in [Staff -> Tokens \cup {None}] /\ born \subseteq born'
        /\ born' \subseteq Tokens /\ revived' \subseteq ended' /\ ended' \subseteq born'
    BY <1>0, <1>10, <2>1 DEF Rotate, Generate, Stored, TypeOK
  <2> QED
    BY <1>0, <1>10, <2>2, FinishType DEF Rotate, TypeOK, Steps, LoginSteps, CallType
<1>11. ASSUME NEW r \in Requests, SaveEdit(r) PROVE TypeOK'
  BY <1>0, <1>11, FinishType DEF SaveEdit, TypeOK, Steps, LoginSteps, CallType
<1>12. ASSUME NEW r \in Requests, Fail(r) PROVE TypeOK'
  BY <1>0, <1>12, FinishType, UnlockedType DEF Fail, TypeOK, Steps, LoginSteps, CallType
<1>13. CASE CreateEmployee
  BY <1>0, <1>13 DEF CreateEmployee, Generate, Stored, TypeOK
<1>14. CASE DeleteEmployees
  BY <1>0, <1>14 DEF DeleteEmployees, TypeOK
<1>15. CASE ExpireToken \/ ExpireCounter
  BY <1>0, <1>15 DEF ExpireToken, ExpireCounter, Cleared, TypeOK
<1>16. CASE UNCHANGED vars
  BY <1>0, <1>16 DEF vars, TypeOK
<1> QED
  BY <1>1, <1>2, <1>3, <1>4, <1>5, <1>6, <1>7, <1>8, <1>9, <1>10, <1>11, <1>12, <1>13,
     <1>14, <1>15, <1>16 DEF Next, Proceed

-----------------------------------------------------------------------------
(* The requests that a step leaves alone.                                  *)

Undisturbed(q) ==
  /\ pc'[q] = pc[q] /\ call'[q] = call[q] /\ seen'[q] = seen[q]
  /\ \A e \in Staff : rowLock[e] = q => rowLock'[e] = q /\ token'[e] = token[e]

LEMMA Frame ==
  ASSUME NEW q \in Requests, RequestInv(q), Undisturbed(q)
  PROVE  RequestInv(q)'
BY DEF RequestInv, Shape, HoldsRow, Undisturbed

\* A step of r moves no other request.
StepOf(r) ==
  \A q \in Requests \ {r} : pc'[q] = pc[q] /\ call'[q] = call[q] /\ seen'[q] = seen[q]

LEMMA FinishSelf ==
  ASSUME TypeOK, NEW r \in Requests, Finish(r)
  PROVE  /\ pc'[r] = "idle" /\ call'[r] = NoCall /\ seen'[r] = None
         /\ RequestInv(r)' /\ StepOf(r)
<1>1. pc'[r] = "idle" /\ call'[r] = NoCall /\ seen'[r] = None /\ StepOf(r)
  BY DEF Finish, Goto, TypeOK, StepOf
<1> QED
  BY <1>1 DEF RequestInv, Shape, HoldsRow, NoCall, Asks

-----------------------------------------------------------------------------
(* The guesses of a name. *)

\* How a step of r changes the number of guesses under way.
LEMMA Counting ==
  ASSUME NEW r \in Requests, StepOf(r), NEW e \in Staff
  PROVE  /\ Cardinality(InFlight(e)) \in Nat /\ Cardinality(InFlight(e)') \in Nat
         /\ Cardinality(Requests) \in Nat
         /\ Cardinality(InFlight(e)') + One(r \in InFlight(e))
              = Cardinality(InFlight(e)) + One(r \in InFlight(e)')
         /\ r \notin InFlight(e) => Cardinality(InFlight(e)) + 1 <= Cardinality(Requests)
<1>1. /\ InFlight(e) \in SUBSET Requests /\ InFlight(e)' \in SUBSET Requests
      /\ InFlight(e) \ {r} = InFlight(e)' \ {r}
  BY DEF InFlight, StepOf
<1>2. IsFiniteSet(Requests) /\ Cardinality(Requests) \in Nat
  BY EmployeesAssumption, FS_CardinalityType
<1>3. r \notin InFlight(e) => Cardinality(InFlight(e)) + 1 <= Cardinality(Requests)
  <2> SUFFICES ASSUME r \notin InFlight(e)
               PROVE  Cardinality(InFlight(e)) + 1 <= Cardinality(Requests)
    OBVIOUS
  <2>1. {} \in SUBSET Requests /\ InFlight(e) \cap {} = {} /\ r \notin InFlight(e) \cup {}
    OBVIOUS
  <2>2. Cardinality(InFlight(e)) + Cardinality({}) + 1 <= Cardinality(Requests)
    BY <1>1, <1>2, <2>1, RoomForOne
  <2>3. Cardinality({}) = 0 /\ Cardinality(InFlight(e)) \in Nat
    BY <1>1, <1>2, FS_EmptySet, FS_Subset, FS_CardinalityType
  <2> QED
    BY <2>2, <2>3
<1> QED
  BY <1>1, <1>2, <1>3, OneMoves

\* A step that lets r make no guess.
LEMMA GuessesQuiet ==
  ASSUME IInv, NEW r \in Requests, StepOf(r), NEW e \in Staff,
         \/ wrong'[e] = wrong[e] /\ Count(e)' = Count(e)
         \/ wrong'[e] = 0 /\ Count(e)' = 0,
         r \in InFlight(e)' => r \in InFlight(e)
  PROVE  Guesses(e)'
<1>1. Count(e) \in Nat /\ wrong[e] \in Nat /\ FailMax \in Nat
  BY EmployeesAssumption DEF IInv, TypeOK, Count
<1>2. Cardinality(InFlight(e)') <= Cardinality(InFlight(e))
  BY Counting DEF One
<1> QED
  BY <1>1, <1>2, Counting DEF Guesses, IInv

\* One that has passed the lockout while the counter was below the limit.
LEMMA GuessesAllowed ==
  ASSUME IInv, NEW r \in Requests, StepOf(r), NEW e \in Staff,
         wrong'[e] = wrong[e], Count(e)' = Count(e), Count(e) < FailMax,
         r \notin InFlight(e)
  PROVE  Guesses(e)'
<1>1. Count(e) \in Nat /\ wrong[e] \in Nat /\ FailMax \in Nat /\ wrong[e] = Count(e)
  BY EmployeesAssumption DEF IInv, TypeOK, Count, Guesses
<1>2. Cardinality(InFlight(e)') <= Cardinality(Requests)
  BY Counting DEF One
<1> QED
  BY <1>1, <1>2, Counting DEF Guesses

\* A guess that is counted.
LEMMA GuessesCounted ==
  ASSUME IInv, NEW r \in Requests, StepOf(r), NEW e \in Staff,
         wrong'[e] = wrong[e] + 1, Count(e)' = Count(e) + 1,
         r \in InFlight(e), r \notin InFlight(e)'
  PROVE  Guesses(e)'
<1>1. Count(e) \in Nat /\ wrong[e] \in Nat /\ FailMax \in Nat /\ wrong[e] = Count(e)
  BY EmployeesAssumption DEF IInv, TypeOK, Count, Guesses
<1>2. Cardinality(InFlight(e)') + 1 = Cardinality(InFlight(e))
  BY Counting DEF One
<1> QED
  BY <1>1, <1>2, Counting DEF Guesses, IInv

\* Where r is counted, before and after a step.
LEMMA Places ==
  ASSUME NEW r \in Requests, NEW e
  PROVE  /\ r \in InFlight(e) <=> pc[r] \in {"read", "add", "incr"} /\ call[r].employee = e
         /\ r \in InFlight(e)' <=> pc'[r] \in {"read", "add", "incr"} /\ call'[r].employee = e
BY DEF InFlight

\* The steps of a request after which it guesses no more.
LEMMA GuessesAside ==
  ASSUME IInv, NEW r \in Requests, StepOf(r), UNCHANGED guesses,
         pc'[r] \notin {"read", "add", "incr"}
  PROVE  \A e \in Staff : Guesses(e)'
BY GuessesQuiet, Places DEF Count, guesses

LEMMA GuessesIdle ==
  ASSUME IInv, UNCHANGED <<pc, call>>,
         \A e \in Staff : \/ wrong'[e] = wrong[e] /\ failures'[e] = failures[e]
                          \/ wrong'[e] = 0 /\ failures'[e] = None
  PROVE  \A e \in Staff : Guesses(e)'
<1> SUFFICES ASSUME NEW e \in Staff PROVE Guesses(e)'
  OBVIOUS
<1>1. InFlight(e)' = InFlight(e)
  BY DEF InFlight
<1>2. Count(e) \in Nat /\ wrong[e] \in Nat /\ FailMax \in Nat
  BY EmployeesAssumption DEF IInv, TypeOK, Count
<1>3. Cardinality(InFlight(e)) \in Nat /\ Cardinality(Requests) \in Nat
  <2>1. InFlight(e) \in SUBSET Requests
    BY DEF InFlight
  <2> QED
    BY <2>1, EmployeesAssumption, FS_Subset, FS_CardinalityType
<1> QED
  BY <1>1, <1>2, <1>3 DEF Guesses, IInv, Count

LEMMA GuessesOfLogin ==
  ASSUME IInv, NEW r \in Requests,
         \/ CheckLockout(r) \/ WrongPassword(r) \/ AddCounter(r) \/ IncrCounter(r)
         \/ ClearCounter(r) \/ Fail(r)
  PROVE  \A e \in Staff : Guesses(e)'
<1> SUFFICES ASSUME NEW e \in Staff PROVE Guesses(e)'
  OBVIOUS
<1>0. /\ Shape(r) /\ TypeOK /\ (Finish(r) => StepOf(r) /\ pc'[r] = "idle")
      /\ None \notin Staff
  BY FinishSelf, EmployeesAssumption DEF IInv, RequestInv
<1>1. CASE CheckLockout(r)
  <2>1. CASE Finish(r)
    BY <1>0, <1>1, <2>1, GuessesAside DEF CheckLockout, guesses
  <2>2. CASE ~Finish(r)
    <3>1. /\ Count(call[r].employee) < FailMax /\ pc[r] = "count" /\ pc'[r] = "read"
          /\ call' = call /\ StepOf(r) /\ UNCHANGED guesses
      <4>1. Count(call[r].employee) \in Nat /\ FailMax \in Nat
        BY <1>0, <1>1, EmployeesAssumption DEF Count, TypeOK, CheckLockout, Shape
      <4> QED
        BY <1>0, <1>1, <2>2, <4>1 DEF CheckLockout, Goto, StepOf, guesses, TypeOK
    <3>2. CASE e = call[r].employee
      BY <3>1, <3>2, GuessesAllowed, Places DEF guesses, Count
    <3>3. CASE e # call[r].employee
      BY <3>1, <3>3, GuessesQuiet, Places DEF guesses, Count
    <3> QED
      BY <3>2, <3>3
  <2> QED
    BY <2>1, <2>2
<1>2. CASE WrongPassword(r)
  <2>1. /\ pc[r] = "read" /\ pc'[r] = "add" /\ call' = call /\ StepOf(r) /\ UNCHANGED guesses
    BY <1>0, <1>2 DEF WrongPassword, Goto, StepOf, TypeOK
  <2> QED
    BY <2>1, GuessesQuiet, Places DEF Count, guesses
<1>3. CASE AddCounter(r)
  <2>1. /\ pc[r] = "add" /\ pc'[r] = "incr" /\ call' = call /\ StepOf(r) /\ wrong' = wrong
        /\ failures' = [failures EXCEPT ![call[r].employee] = Count(call[r].employee)]
    BY <1>0, <1>3 DEF AddCounter, Added, Goto, StepOf, TypeOK
  <2>2. Count(e)' = Count(e)
    BY <1>0, <2>1, EmployeesAssumption DEF Count, TypeOK
  <2> QED
    BY <2>1, <2>2, GuessesQuiet, Places
<1>4. CASE IncrCounter(r)
  <2>1. pc[r] = "incr" /\ pc'[r] = "idle" /\ StepOf(r) /\ call[r].employee \in Staff
    BY <1>0, <1>4 DEF IncrCounter, Shape
  <2>2. CASE e = call[r].employee
    <3>1. CASE failures[e] = None
      BY <1>4, <2>1, <2>2, <3>1, GuessesQuiet, Places DEF IncrCounter, guesses, Count
    <3>2. CASE failures[e] # None
      <4>1. /\ failures'[e] = failures[e] + 1 /\ failures[e] \in Nat
            /\ wrong'[e] = wrong[e] + 1
        BY <1>0, <1>4, <2>2, <3>2 DEF IncrCounter, TypeOK
      <4>2. failures'[e] # None
        BY <4>1, EmployeesAssumption
      <4>3. Count(e)' = Count(e) + 1
        BY <3>2, <4>1, <4>2 DEF Count
      <4> QED
        BY <2>1, <2>2, <4>1, <4>3, GuessesCounted, Places
    <3> QED
      BY <3>1, <3>2
  <2>3. CASE e # call[r].employee
    <3>1. wrong'[e] = wrong[e] /\ Count(e)' = Count(e)
      BY <1>0, <1>4, <2>3 DEF IncrCounter, Count, TypeOK, guesses
    <3> QED
      BY <2>1, <2>3, <3>1, GuessesQuiet, Places
  <2> QED
    BY <2>2, <2>3
<1>5. CASE ClearCounter(r)
  <2>1. /\ pc[r] = "clear" /\ pc'[r] = "lock" /\ call' = call /\ StepOf(r)
        /\ failures' = [failures EXCEPT ![call[r].employee] = None]
        /\ wrong' = [wrong EXCEPT ![call[r].employee] = 0]
    BY <1>0, <1>5 DEF ClearCounter, Cleared, Goto, StepOf, TypeOK
  <2>2. \/ wrong'[e] = wrong[e] /\ Count(e)' = Count(e)
        \/ wrong'[e] = 0 /\ Count(e)' = 0
    BY <1>0, <2>1 DEF Count, TypeOK
  <2> QED
    BY <2>1, <2>2, GuessesQuiet, Places
<1>6. CASE Fail(r)
  <2>1. pc'[r] = "idle" /\ StepOf(r) /\ UNCHANGED guesses
    BY <1>0, <1>6 DEF Fail
  <2> QED
    BY <2>1, GuessesAside
<1> QED
  BY <1>1, <1>2, <1>3, <1>4, <1>5, <1>6

-----------------------------------------------------------------------------
(* The tokens and the rows. *)

LEMMA LineageKept ==
  ASSUME IInv, UNCHANGED <<created, born>>,
         \A t \in Tokens, e \in Staff : Carries(t, e)' => Carries(t, e)
  PROVE  Lineage'
BY DEF IInv, Lineage

\* A new token has one bearer.
LEMMA LineageNew ==
  ASSUME IInv, NEW t \in Tokens, NEW e \in Staff, t \notin born, born' = born \cup {t},
         created \subseteq created', e \in created',
         \A u \in Tokens, f \in Staff : Carries(u, f)' => Carries(u, f) \/ (u = t /\ f = e)
  PROVE  Lineage'
BY DEF IInv, Lineage

\* A step of r that writes no row, and keeps in memory what it had or what is there.
LEMMA ReadersCarry ==
  ASSUME IInv, NEW r \in Requests, StepOf(r), UNCHANGED <<token, created, born, ended, revived>>,
         \/ call'[r].employee \notin Staff
         \/ seen'[r] = None
         \/ call'[r].employee = call[r].employee /\ seen'[r] = seen[r]
         \/ call'[r].employee \in Staff /\ seen'[r] = token[call'[r].employee]
  PROVE  Lineage' /\ Rows'
<1>1. None \notin Tokens
  BY EmployeesAssumption
<1>2. \A t \in Tokens, e \in Staff : Carries(t, e)' => Carries(t, e)
  BY <1>1 DEF Carries, StepOf
<1> QED
  BY <1>2, LineageKept DEF IInv, Rows

LEMMA OthersUndisturbed ==
  ASSUME IInv, NEW r \in Requests, StepOf(r), RequestInv(r)',
         \A q \in Requests \ {r}, e \in Staff :
           rowLock[e] = q => rowLock'[e] = q /\ token'[e] = token[e]
  PROVE  \A q \in Requests : RequestInv(q)'
<1> SUFFICES ASSUME NEW q \in Requests, q # r PROVE RequestInv(q)'
  OBVIOUS
<1>1. Undisturbed(q)
  BY DEF Undisturbed, StepOf
<1> QED
  BY <1>1, Frame DEF IInv

-----------------------------------------------------------------------------
(* The invariant, action by action. *)

LEMMA InvReceive ==
  ASSUME IInv, TypeOK', NEW r \in Requests, NEW op \in {"login", "logout", "edit"},
         NEW e \in Staff, NEW at \in {"count", "rotate", "save"}, Receive(r, op, e, at),
         at # "count" => op # "login" /\ Exists(e)
  PROVE  IInv'
<1>1. /\ pc[r] = "idle" /\ pc'[r] = at /\ call'[r] = Asks(op, e) /\ StepOf(r)
      /\ seen'[r] = IF op = "login" THEN None ELSE token[e]
      /\ UNCHANGED <<rows, rowLock, guesses, history>>
  BY DEF Receive, Goto, IInv, TypeOK, StepOf
<1>2. RequestInv(r)'
  BY <1>1 DEF RequestInv, Shape, HoldsRow, Asks, Exists
<1>3. \A q \in Requests : RequestInv(q)'
  BY <1>1, <1>2, OthersUndisturbed DEF rows
<1>4. Lineage' /\ Rows'
  BY <1>1, ReadersCarry DEF Asks, rows, history
<1>5. \A f \in Staff : Guesses(f)'
  BY <1>1, GuessesAside
<1> QED
  BY <1>3, <1>4, <1>5 DEF IInv

LEMMA InvLogin ==
  ASSUME IInv, TypeOK', NEW r \in Requests,
         \/ CheckLockout(r) \/ WrongPassword(r) \/ AddCounter(r) \/ IncrCounter(r)
         \/ ClearCounter(r)
  PROVE  IInv'
<1>1. UNCHANGED <<rows, rowLock, history>>
  BY DEF CheckLockout, WrongPassword, AddCounter, IncrCounter, ClearCounter
<1>2. \/ Finish(r)
      \/ /\ pc[r] \in LoginSteps /\ UNCHANGED <<call, seen>>
         /\ \E at \in LoginSteps \ {"commit"} : Goto(r, at)
  BY DEF CheckLockout, WrongPassword, AddCounter, IncrCounter, ClearCounter, LoginSteps
<1>3. CASE Finish(r)
  <2>1. \A q \in Requests : RequestInv(q)'
    BY <1>1, <1>3, FinishSelf, OthersUndisturbed DEF rows, IInv
  <2>2. Lineage' /\ Rows'
    BY <1>1, <1>3, FinishSelf, ReadersCarry DEF rows, history, IInv
  <2> QED
    BY <2>1, <2>2, GuessesOfLogin DEF IInv
<1>4. CASE ~Finish(r)
  <2>1. PICK at \in LoginSteps \ {"commit"} : Goto(r, at)
    BY <1>2, <1>4
  <2>2. /\ pc[r] \in LoginSteps /\ pc'[r] = at /\ call'[r] = call[r] /\ seen'[r] = seen[r]
        /\ StepOf(r)
    BY <1>2, <1>4, <2>1 DEF Goto, StepOf, IInv, TypeOK
  <2>3. RequestInv(r)'
    BY <2>1, <2>2 DEF IInv, RequestInv, Shape, HoldsRow, LoginSteps
  <2>4. \A q \in Requests : RequestInv(q)'
    BY <1>1, <2>2, <2>3, OthersUndisturbed DEF rows
  <2>5. Lineage' /\ Rows'
    BY <1>1, <2>2, ReadersCarry DEF rows, history
  <2> QED
    BY <2>4, <2>5, GuessesOfLogin DEF IInv
<1> QED
  BY <1>3, <1>4

LEMMA InvRead ==
  ASSUME IInv, TypeOK', NEW r \in Requests, RightPassword(r) \/ LockEmployee(r)
  PROVE  IInv'
<1> DEFINE e == call[r].employee
<1>1. /\ pc[r] \in {"read", "lock"} /\ pc'[r] \in {"clear", "commit"} /\ call'[r] = call[r]
      /\ seen'[r] = token[e] /\ StepOf(r) /\ UNCHANGED <<rows, guesses, history>>
      /\ Exists(e) /\ e \in Staff
  BY DEF RightPassword, LockEmployee, Goto, StepOf, IInv, TypeOK, RequestInv, Shape
<1>2. \/ pc'[r] = "clear" /\ rowLock' = rowLock
      \/ RowFree(e) /\ rowLock' = [rowLock EXCEPT ![e] = r]
  BY DEF RightPassword, LockEmployee, Goto, IInv, TypeOK
<1>3. RequestInv(r)'
  BY <1>1, <1>2 DEF IInv, RequestInv, Shape, HoldsRow, Exists, rows, TypeOK
<1>4. \A q \in Requests : RequestInv(q)'
  BY <1>1, <1>2, <1>3, OthersUndisturbed, EmployeesAssumption DEF rows, RowFree, IInv, TypeOK
<1>5. Lineage' /\ Rows'
  BY <1>1, ReadersCarry DEF rows, history
<1>6. \A f \in Staff : Guesses(f)'
  BY <1>1, GuessesQuiet, Places DEF guesses, Count
<1> QED
  BY <1>4, <1>5, <1>6 DEF IInv

LEMMA InvGiveUp ==
  ASSUME IInv, TypeOK', NEW r \in Requests, EmployeeGone(r) \/ Fail(r)
  PROVE  IInv'
<1>1. /\ Finish(r) /\ UNCHANGED <<rows, history>>
      /\ rowLock' = rowLock \/ rowLock' = Unlocked(r)
  BY DEF EmployeeGone, Fail
<1>2. \A q \in Requests \ {r}, e \in Staff : rowLock[e] = q => rowLock'[e] = q
  BY <1>1 DEF Unlocked
<1>3. \A q \in Requests : RequestInv(q)'
  BY <1>1, <1>2, FinishSelf, OthersUndisturbed DEF rows, IInv
<1>4. Lineage' /\ Rows'
  BY <1>1, FinishSelf, ReadersCarry DEF rows, history, IInv
<1>5. \A e \in Staff : Guesses(e)'
  BY FinishSelf, GuessesOfLogin, GuessesAside DEF EmployeeGone, IInv
<1> QED
  BY <1>3, <1>4, <1>5 DEF IInv

LEMMA InvCommitLogin ==
  ASSUME IInv, TypeOK', NEW r \in Requests, CommitLogin(r)
  PROVE  IInv'
<1> DEFINE e == call[r].employee
<1>1. /\ pc[r] = "commit" /\ Finish(r) /\ rowLock' = Unlocked(r)
      /\ UNCHANGED <<created, expired, guesses, history>>
      /\ \/ UNCHANGED <<token, born>>
         \/ \E t \in Tokens : Generate(e, t)
  BY DEF CommitLogin
<1>2. /\ e \in Staff /\ rowLock[e] = r /\ Exists(e) /\ seen[r] = token[e] /\ e \in created
  BY <1>1 DEF IInv, RequestInv, Shape, HoldsRow, Exists, TypeOK, Lineage, Carries
<1>3. StepOf(r) /\ RequestInv(r)' /\ call'[r].employee = None /\ None \notin Staff
  BY <1>1, FinishSelf, EmployeesAssumption DEF IInv, NoCall, Asks
<1>4. \A f \in Staff : Guesses(f)'
  BY <1>1, FinishSelf, GuessesAside DEF IInv
<1>5. CASE UNCHANGED <<token, born>>
  <2>1. \A q \in Requests : RequestInv(q)'
    BY <1>1, <1>3, <1>5, OthersUndisturbed DEF Unlocked
  <2>2. Lineage' /\ Rows'
    BY <1>1, <1>3, <1>5, ReadersCarry DEF history
  <2> QED
    BY <1>4, <2>1, <2>2 DEF IInv
<1>6. ASSUME NEW t \in Tokens, Generate(e, t) PROVE IInv'
  <2>1. t \notin born /\ born' = born \cup {t} /\ token' = [token EXCEPT ![e] = t]
    BY <1>6 DEF Generate, Stored
  <2>2. \A q \in Requests : RequestInv(q)'
    BY <1>1, <1>2, <1>3, <2>1, OthersUndisturbed DEF Unlocked, IInv, TypeOK
  <2>3. Lineage'
    <3>1. \A u \in Tokens, f \in Staff : Carries(u, f)' => Carries(u, f) \/ (u = t /\ f = e)
      BY <1>2, <1>3, <2>1 DEF Carries, StepOf, IInv, TypeOK
    <3> QED
      BY <1>1, <1>2, <2>1, <3>1, LineageNew
  <2>4. Rows'
    BY <1>1, <1>2, <2>1 DEF IInv, Rows, TypeOK, history
  <2> QED
    BY <1>4, <2>2, <2>3, <2>4 DEF IInv
<1> QED
  BY <1>1, <1>5, <1>6

\* A logout ends the token it has read and the one it replaces, which no other row holds.
LEMMA InvRotate ==
  ASSUME IInv, TypeOK', NEW r \in Requests, Rotate(r)
  PROVE  IInv'
<1> DEFINE e == call[r].employee
<1>1. /\ pc[r] = "rotate" /\ Finish(r) /\ RowFree(e)
      /\ UNCHANGED <<created, expired, rowLock, guesses>>
      /\ \/ UNCHANGED <<token, born, ended, revived>>
         \/ /\ Exists(e) /\ ended' = ended \cup Ends(r, e) /\ revived' = revived \ Ends(r, e)
            /\ \E t \in Tokens : Generate(e, t)
  BY DEF Rotate, RowUpdated
<1>2. e \in Staff /\ seen[r] \in Tokens /\ seen[r] \in born /\ e \in created
  BY <1>1 DEF IInv, RequestInv, Shape, TypeOK, Lineage, Carries
<1>3. StepOf(r) /\ RequestInv(r)' /\ call'[r].employee = None /\ None \notin Staff \cup Requests
  BY <1>1, FinishSelf, EmployeesAssumption DEF IInv, NoCall, Asks
<1>4. \A f \in Staff : Guesses(f)'
  BY <1>1, FinishSelf, GuessesAside DEF IInv
<1>5. CASE UNCHANGED <<token, born, ended, revived>>
  <2>1. \A q \in Requests : RequestInv(q)'
    BY <1>1, <1>3, <1>5, OthersUndisturbed
  <2>2. Lineage' /\ Rows'
    BY <1>1, <1>3, <1>5, ReadersCarry
  <2> QED
    BY <1>4, <2>1, <2>2 DEF IInv
<1>6. ASSUME NEW t \in Tokens, Generate(e, t), Exists(e), ended' = ended \cup Ends(r, e),
             revived' = revived \ Ends(r, e)
      PROVE  IInv'
  <2>1. t \notin born /\ born' = born \cup {t} /\ token' = [token EXCEPT ![e] = t]
    BY <1>6 DEF Generate, Stored
  <2>2. \A q \in Requests : RequestInv(q)'
    BY <1>1, <1>2, <1>3, <2>1, OthersUndisturbed DEF RowFree, IInv, TypeOK
  <2>3. Lineage'
    <3>1. \A u \in Tokens, f \in Staff : Carries(u, f)' => Carries(u, f) \/ (u = t /\ f = e)
      BY <1>2, <1>3, <2>1 DEF Carries, StepOf, IInv, TypeOK
    <3> QED
      BY <1>1, <1>2, <2>1, <3>1, LineageNew
  <2>4. Rows'
    <3>1. \A f \in Staff : f # e => token[f] \notin Ends(r, e)
      BY <1>2 DEF Ends, IInv, Lineage, Carries, TypeOK
    <3>2. t \notin ended'
      BY <1>2, <1>6, <2>1 DEF Ends, IInv, TypeOK, Lineage, Carries
    <3>3. token'[e] = t /\ \A f \in Staff : f # e => token'[f] = token[f]
      BY <1>2, <2>1 DEF IInv, TypeOK
    <3> QED
      BY <1>1, <1>6, <3>1, <3>2, <3>3 DEF IInv, Rows
  <2> QED
    BY <1>4, <2>2, <2>3, <2>4 DEF IInv
<1> QED
  BY <1>1, <1>5, <1>6

LEMMA InvSaveEdit ==
  ASSUME IInv, TypeOK', NEW r \in Requests, SaveEdit(r)
  PROVE  IInv'
<1> DEFINE e == call[r].employee
<1>1. /\ pc[r] = "save" /\ Finish(r) /\ RowFree(e) /\ token' = [token EXCEPT ![e] = seen[r]]
      /\ revived' = revived \cup ({seen[r]} \cap ended)
      /\ UNCHANGED <<created, born, rowLock, guesses, ended>>
  BY DEF SaveEdit
<1>2. e \in Staff /\ seen[r] \in Tokens /\ Carries(seen[r], e) /\ Shape(r)
  BY <1>1 DEF IInv, RequestInv, Shape, TypeOK, Carries
<1>3. StepOf(r) /\ RequestInv(r)' /\ call'[r].employee = None /\ None \notin Staff \cup Requests
  BY <1>1, FinishSelf, EmployeesAssumption DEF IInv, NoCall, Asks
<1>4. \A f \in Staff : Guesses(f)'
  BY <1>1, FinishSelf, GuessesAside DEF IInv
<1>5. token'[e] = seen[r] /\ \A f \in Staff : f # e => token'[f] = token[f]
  BY <1>1, <1>2 DEF IInv, TypeOK
<1>6. \A q \in Requests : RequestInv(q)'
  BY <1>1, <1>2, <1>3, <1>5, OthersUndisturbed DEF RowFree
<1>7. Lineage'
  <2>1. \A u \in Tokens, f \in Staff : Carries(u, f)' => Carries(u, f)
    BY <1>2, <1>3, <1>5 DEF Carries, StepOf
  <2> QED
    BY <1>1, <2>1, LineageKept
<1>8. Rows'
  BY <1>1, <1>2, <1>5 DEF IInv, Rows
<1> QED
  BY <1>4, <1>6, <1>7, <1>8 DEF IInv

LEMMA InvCreate ==
  ASSUME IInv, TypeOK', CreateEmployee
  PROVE  IInv'
<1>1. PICK e \in Staff \ created, t \in Tokens : Generate(e, t) /\ created' = created \cup {e}
  BY DEF CreateEmployee
<1>2. UNCHANGED <<expired, rowLock, guesses, threads, response, history>>
  BY DEF CreateEmployee
<1>3. t \notin born /\ born' = born \cup {t} /\ token' = [token EXCEPT ![e] = t]
  BY <1>1 DEF Generate, Stored
<1>4. ~Exists(e)
  BY DEF IInv, Lineage, Carries, TypeOK, Exists
<1>5. \A q \in Requests : RequestInv(q)'
  <2>1. \A q \in Requests : pc[q] = "commit" => call[q].employee # e
    BY <1>4 DEF IInv, RequestInv, HoldsRow, Exists
  <2> QED
    BY <1>2, <1>3, <2>1 DEF IInv, RequestInv, Shape, HoldsRow, threads, TypeOK
<1>6. Lineage'
  <2>1. \A u \in Tokens, f \in Staff : Carries(u, f)' => Carries(u, f) \/ (u = t /\ f = e)
    BY <1>1, <1>2, <1>3 DEF Carries, threads, IInv, TypeOK
  <2> QED
    BY <1>1, <1>3, <2>1, LineageNew
<1>7. Rows'
  BY <1>1, <1>2, <1>3 DEF IInv, Rows, history, TypeOK
<1>8. \A f \in Staff : Guesses(f)'
  BY <1>2, GuessesIdle DEF threads, guesses
<1> QED
  BY <1>5, <1>6, <1>7, <1>8 DEF IInv

LEMMA InvDelete ==
  ASSUME IInv, TypeOK', DeleteEmployees
  PROVE  IInv'
<1>1. PICK E \in (SUBSET Staff) \ {{}} :
        /\ \A e \in E : Exists(e) /\ RowFree(e)
        /\ token' = [e \in Staff |-> IF e \in E THEN None ELSE token[e]]
        /\ UNCHANGED <<created, born, expired, rowLock, guesses, threads, response, history>>
  BY DEF DeleteEmployees
<1>2. None \notin Requests /\ None \notin Tokens
  BY EmployeesAssumption
<1>3. \A q \in Requests : RequestInv(q)'
  BY <1>1, <1>2 DEF IInv, RequestInv, Shape, HoldsRow, threads, RowFree
<1>4. Lineage'
  <2>1. \A u \in Tokens, f \in Staff : Carries(u, f)' => Carries(u, f)
    BY <1>1, <1>2 DEF Carries, threads
  <2> QED
    BY <1>1, <2>1, LineageKept
<1>5. Rows'
  BY <1>1, <1>2 DEF IInv, Rows, history, TypeOK
<1>6. \A f \in Staff : Guesses(f)'
  BY <1>1, GuessesIdle DEF threads, guesses
<1> QED
  BY <1>3, <1>4, <1>5, <1>6 DEF IInv

LEMMA InvExpire ==
  ASSUME IInv, TypeOK', ExpireToken \/ ExpireCounter \/ UNCHANGED vars
  PROVE  IInv'
<1>1. UNCHANGED <<token, created, born, rowLock, threads, history>>
  BY DEF ExpireToken, ExpireCounter, vars, rows
<1>2. \A e \in Staff : \/ wrong'[e] = wrong[e] /\ failures'[e] = failures[e]
                       \/ wrong'[e] = 0 /\ failures'[e] = None
  BY DEF ExpireToken, ExpireCounter, Cleared, vars, guesses, IInv, TypeOK
<1>3. \A f \in Staff : Guesses(f)'
  BY <1>1, <1>2, GuessesIdle DEF threads
<1>4. \A q \in Requests : RequestInv(q)'
  BY <1>1 DEF IInv, RequestInv, Shape, HoldsRow, threads
<1>5. Lineage' /\ Rows'
  BY <1>1 DEF IInv, Lineage, Carries, Rows, threads, history
<1> QED
  BY <1>3, <1>4, <1>5 DEF IInv

-----------------------------------------------------------------------------
(* The theorems. *)

LEMMA InitIInv == Init => IInv
<1> SUFFICES ASSUME Init PROVE IInv
  OBVIOUS
<1> USE EmployeesAssumption
<1>1. TypeOK
  BY NoCallType DEF Init, TypeOK, CallType
<1>2. \A r \in Requests : RequestInv(r)
  BY DEF Init, RequestInv, Shape, HoldsRow, NoCall, Asks
<1>3. Lineage /\ Rows
  BY DEF Init, Lineage, Carries, Rows, NoCall, Asks
<1>4. ASSUME NEW e \in Staff PROVE Guesses(e)
  <2>1. InFlight(e) = {} /\ Cardinality(InFlight(e)) = 0
    BY FS_EmptySet DEF Init, InFlight
  <2>2. Cardinality(Requests) \in Nat /\ Cardinality(Requests) # 0
    BY FS_CardinalityType, FS_EmptySet
  <2>3. wrong[e] = 0 /\ Count(e) = 0
    BY <1>4 DEF Init, Count
  <2> QED
    BY <2>1, <2>2, <2>3 DEF Guesses
<1> QED
  BY <1>1, <1>2, <1>3, <1>4 DEF IInv

LEMMA NextIInv == IInv /\ [Next]_vars => IInv'
<1> SUFFICES ASSUME IInv, [Next]_vars PROVE IInv'
  OBVIOUS
<1>0. TypeOK'
  BY NextType
<1> USE <1>0
<1>1. ASSUME NEW r \in Requests, ReceiveLogin(r) \/ ReceiveLogout(r) \/ ReceiveEdit(r)
      PROVE  IInv'
  BY <1>1, InvReceive DEF ReceiveLogin, ReceiveLogout, ReceiveEdit
<1>2. ASSUME NEW r \in Requests, Proceed(r) PROVE IInv'
  BY <1>2, InvLogin, InvRead, InvGiveUp, InvCommitLogin, InvRotate, InvSaveEdit DEF Proceed
<1>3. ASSUME NEW r \in Requests, Fail(r) PROVE IInv'
  BY <1>3, InvGiveUp
<1>4. CASE CreateEmployee \/ DeleteEmployees
  BY <1>4, InvCreate, InvDelete
<1>5. CASE ExpireToken \/ ExpireCounter \/ UNCHANGED vars
  BY <1>5, InvExpire
<1> QED
  BY <1>1, <1>2, <1>3, <1>4, <1>5 DEF Next

LEMMA Invariance == Spec => []IInv
BY InitIInv, NextIInv, PTL DEF Spec

\* Every variable keeps its type.
THEOREM TypeCorrect == Spec => []TypeOK
<1>1. IInv => TypeOK
  BY DEF IInv
<1> QED
  BY <1>1, Invariance, PTL

\* In one life of a name's counter the wrong passwords, the ones under way included,
\* exceed the limit by the other requests at most (the cache.get(), cache.add() and cache.incr() of
\* EmployeeLoginView.post(), which are not atomic together).
THEOREM LockoutHolds == Spec => []FailuresBounded
<1>1. IInv => FailuresBounded
  BY DEF IInv, Guesses, FailuresBounded
<1> QED
  BY <1>1, Invariance, PTL

\* What a step does to a token, by the request or the owner's operation that does it.
LEMMA TokenSteps ==
  ASSUME IInv, [Next]_vars, NEW e \in Staff, token'[e] # token[e]
  PROVE  \/ token'[e] = None
         \/ CreateEmployee /\ token'[e] \notin born /\ e \notin created
         \/ \E r \in Requests : /\ CommitLogin(r) /\ call[r].employee = e
                                /\ ~IsTokenValid(token[e]) /\ token'[e] \notin born
                                /\ Exists(e)
         \/ \E r \in Requests : Rotate(r) /\ token'[e] \notin born /\ Exists(e)
         \/ \E r \in Requests : /\ pc[r] = "save" /\ pc'[r] = "idle" /\ SaveEdit(r)
                                /\ call[r].employee = e /\ token'[e] = seen[r]
<1>1. ASSUME NEW r \in Requests, ReceiveLogin(r) \/ ReceiveLogout(r) \/ ReceiveEdit(r)
      PROVE  FALSE
  BY <1>1 DEF ReceiveLogin, ReceiveLogout, ReceiveEdit, Receive, rows
<1>2. ASSUME NEW r \in Requests, CommitLogin(r)
      PROVE  call[r].employee = e /\ ~IsTokenValid(token[e]) /\ token'[e] \notin born /\ Exists(e)
  BY <1>2 DEF CommitLogin, Generate, Stored, IInv, TypeOK, RequestInv, HoldsRow, Exists
<1>3. ASSUME NEW r \in Requests, Rotate(r) PROVE token'[e] \notin born /\ Exists(e)
  BY <1>3 DEF Rotate, RowUpdated, Generate, Stored, IInv, TypeOK
<1>4. ASSUME NEW r \in Requests, SaveEdit(r)
      PROVE  pc[r] = "save" /\ pc'[r] = "idle" /\ call[r].employee = e /\ token'[e] = seen[r]
  BY <1>4, FinishSelf DEF SaveEdit, IInv, TypeOK
<1>5. ASSUME NEW r \in Requests, Proceed(r), ~(CommitLogin(r) \/ Rotate(r) \/ SaveEdit(r))
      PROVE  FALSE
  BY <1>5
  DEF Proceed, CheckLockout, RightPassword, WrongPassword, AddCounter, IncrCounter,
      ClearCounter, LockEmployee, EmployeeGone, rows
<1>6. ASSUME NEW r \in Requests, Fail(r) PROVE FALSE
  BY <1>6 DEF Fail, rows
<1>7. CASE CreateEmployee
  BY <1>7 DEF CreateEmployee, Generate, Stored, IInv, TypeOK
<1>8. CASE DeleteEmployees
  BY <1>8 DEF DeleteEmployees
<1>9. CASE ExpireToken \/ ExpireCounter \/ UNCHANGED vars
  BY <1>9 DEF ExpireToken, ExpireCounter, vars, rows
<1> QED
  BY <1>1, <1>2, <1>3, <1>4, <1>5, <1>6, <1>7, <1>8, <1>9 DEF Next

\* The request that ends in a step is the one that takes it.
LEMMA EndsItself ==
  ASSUME IInv, [Next]_vars, NEW r \in Requests, pc[r] = "commit", pc'[r] = "idle"
  PROVE  CommitLogin(r) \/ Fail(r)
<1>1. ASSUME NEW q \in Requests, ReceiveLogin(q) \/ ReceiveLogout(q) \/ ReceiveEdit(q)
      PROVE  FALSE
  BY <1>1 DEF ReceiveLogin, ReceiveLogout, ReceiveEdit, Receive, Goto, IInv, TypeOK
<1>2. ASSUME NEW q \in Requests, Proceed(q) PROVE q = r
  <2>1. Finish(q) \/ \E at : Goto(q, at)
    BY <1>2
    DEF Proceed, CheckLockout, RightPassword, WrongPassword, AddCounter, IncrCounter,
        ClearCounter, LockEmployee, EmployeeGone, CommitLogin, Rotate, SaveEdit
  <2> QED
    BY <2>1 DEF Finish, Goto, IInv, TypeOK
<1>3. ASSUME NEW q \in Requests, Fail(q) PROVE q = r
  BY <1>3 DEF Fail, Finish, Goto, IInv, TypeOK
<1>4. Proceed(r) => CommitLogin(r)
  BY DEF Proceed, CheckLockout, RightPassword, WrongPassword, AddCounter, IncrCounter,
         ClearCounter, LockEmployee, EmployeeGone, Rotate, SaveEdit
<1> QED
  BY <1>1, <1>2, <1>3, <1>4
  DEF Next, CreateEmployee, DeleteEmployees, ExpireToken, ExpireCounter, threads, vars

\* Logins of the same employee share its token until it expires or is ended (the
\* SELECT FOR UPDATE of EmployeeLoginView.post()).
THEOREM LoginsShare == Spec => LoginsShareToken
<1>1. IInv /\ [Next]_vars =>
        [\A e \in Staff :
           (\E r \in Requests : pc[r] = "commit" /\ pc'[r] = "idle") /\ token[e] # None
           /\ IsTokenValid(token[e]) => token'[e] = token[e]]_vars
  <2> SUFFICES ASSUME IInv, [Next]_vars, NEW e \in Staff, NEW r \in Requests,
                      pc[r] = "commit", pc'[r] = "idle", IsTokenValid(token[e])
               PROVE  token'[e] = token[e]
    OBVIOUS
  <2>1. CASE CommitLogin(r)
    BY <2>1 DEF CommitLogin, Generate, Stored, IInv, TypeOK, RequestInv, HoldsRow
  <2>2. CASE Fail(r)
    BY <2>2 DEF Fail, rows
  <2> QED
    BY <2>1, <2>2, EndsItself
<1> QED
  BY <1>1, Invariance, PTL DEF Spec, LoginsShareToken

\* A login is answered with no token that a logout has ended, unless an edit has
\* written it back (refresh_token() under the row lock, EmployeeSerializer.update()
\* without it).
THEOREM NoEndedToken == Spec => NoEndedTokenHandedOut
<1>1. IInv /\ [Next]_vars =>
        [\A r \in Requests :
           response'[r] # response[r] => response'[r] \notin ended \ revived]_vars
  <2> SUFFICES ASSUME IInv, [Next]_vars, NEW r \in Requests, response'[r] # response[r]
               PROVE  response'[r] \notin ended \ revived
    OBVIOUS
  <2>0. ended \subseteq born /\ None \notin born
    BY EmployeesAssumption DEF IInv, TypeOK
  <2>1. ASSUME NEW q \in Requests, ReceiveLogin(q) \/ ReceiveLogout(q) \/ ReceiveEdit(q)
        PROVE  response'[r] = None
    BY <2>1 DEF ReceiveLogin, ReceiveLogout, ReceiveEdit, Receive, IInv, TypeOK
  <2>2. ASSUME NEW q \in Requests, CommitLogin(q) PROVE response'[r] \notin ended \ revived
    <3>1. CASE IsTokenValid(seen[q])
      BY <2>2, <3>1 DEF CommitLogin, IInv, TypeOK, RequestInv, Shape, HoldsRow, Rows
    <3>2. CASE ~IsTokenValid(seen[q])
      BY <2>0, <2>2, <3>2 DEF CommitLogin, Generate, IInv, TypeOK
    <3> QED
      BY <3>1, <3>2
  <2>3. ASSUME NEW q \in Requests, Proceed(q) \/ Fail(q), ~CommitLogin(q) PROVE FALSE
    BY <2>3
    DEF Proceed, CheckLockout, RightPassword, WrongPassword, AddCounter, IncrCounter,
        ClearCounter, LockEmployee, EmployeeGone, Rotate, SaveEdit, Fail
  <2>4. ~(CreateEmployee \/ DeleteEmployees \/ ExpireToken \/ ExpireCounter \/ UNCHANGED vars)
    BY DEF CreateEmployee, DeleteEmployees, ExpireToken, ExpireCounter, vars
  <2> QED
    BY <2>0, <2>1, <2>2, <2>3, <2>4 DEF Next
<1> QED
  BY <1>1, Invariance, PTL DEF Spec, NoEndedTokenHandedOut

\* An ended token and a deleted employee come back only by the save of an edit that
\* had read the row before (EmployeeSerializer.update() writes every column).
THEOREM EditsRevive == Spec => OnlyStaleEditsRevive
<1>1. IInv /\ [Next]_vars =>
        [\A e \in Staff :
           token'[e] # token[e] =>
             \/ token'[e] \notin ended /\ (e \in created => Exists(e))
             \/ token'[e] = None
             \/ \E r \in Requests : pc[r] = "save" /\ pc'[r] = "idle"
                                    /\ call[r].employee = e /\ seen[r] = token'[e]]_vars
  <2> SUFFICES ASSUME IInv, [Next]_vars, NEW e \in Staff, token'[e] # token[e]
               PROVE  \/ token'[e] \notin ended /\ (e \in created => Exists(e))
                      \/ token'[e] = None
                      \/ \E r \in Requests : pc[r] = "save" /\ pc'[r] = "idle"
                                             /\ call[r].employee = e /\ seen[r] = token'[e]
    OBVIOUS
  <2>1. ended \subseteq born
    BY DEF IInv, TypeOK
  <2> QED
    BY <2>1, TokenSteps
<1> QED
  BY <1>1, Invariance, PTL DEF Spec, OnlyStaleEditsRevive
=============================================================================
