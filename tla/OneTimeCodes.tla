---------------------------- MODULE OneTimeCodes ----------------------------
(***************************************************************************)
(* What the verification codes of apps/accounts promise, without requests, *)
(* locks, time and messages: a code is issued once, in place of earlier    *)
(* ones for the same phone and purpose, and is either redeemed, once and   *)
(* with its effect in the same step, or void for ever.                     *)
(***************************************************************************)
EXTENDS Naturals

CONSTANTS Ids, Users, Phones, None

VARIABLES
  state,     \* state[c]: what has become of code c
  about,     \* about[c]: what code c was issued for, by and to whom
  uses,      \* uses[c]: how often code c has been redeemed
  phone,     \* phone[u]: the phone of u's account, None without an account
  verified   \* the users whose phone is verified

vars == <<state, about, uses, phone, verified>>

Purposes == {"REGISTER", "RESET_PASSWORD", "PHONE_CHANGE"}

For(p, purpose, u) == [phone |-> p, purpose |-> purpose, user |-> u]

Taken(p) == \E u \in Users : phone[u] = p

LiveFor(p, purpose) ==
  {c \in Ids : state[c] = "live" /\ about[c].phone = p /\ about[c].purpose = purpose}

Moved(C, s) == [c \in Ids |-> IF c \in C THEN s ELSE state[c]]

Init ==
  /\ state = [c \in Ids |-> "unissued"]
  /\ about = [c \in Ids |-> None]
  /\ uses = [c \in Ids |-> 0]
  /\ phone \in [Users -> Phones \cup {None}]
  /\ verified \subseteq Users

Register(u, p) ==
  /\ phone[u] = None
  /\ ~Taken(p)
  /\ phone' = [phone EXCEPT ![u] = p]
  /\ UNCHANGED <<state, about, uses, verified>>

\* A code that was slow to be stored may be void at once.
Issue(c, p, purpose, u) ==
  \E replaced \in SUBSET LiveFor(p, purpose), born \in {"live", "void"} :
    /\ state[c] = "unissued"
    /\ state' = [Moved(replaced, "void") EXCEPT ![c] = born]
    /\ about' = [about EXCEPT ![c] = For(p, purpose, u)]
    /\ UNCHANGED <<uses, phone, verified>>

Lapse ==
  \E C \in SUBSET {c \in Ids : state[c] = "live"} :
    /\ state' = Moved(C, "void")
    /\ UNCHANGED <<about, uses, phone, verified>>

\* Codes of one phone and purpose, all of one value, end together.
Redeemed(p, purpose) ==
  \E C \in SUBSET LiveFor(p, purpose) :
    /\ C # {}
    /\ state' = Moved(C, "accepted")
    /\ uses' = [c \in Ids |-> uses[c] + (IF c \in C THEN 1 ELSE 0)]
    /\ UNCHANGED about

\* The user who has the phone is verified; one who was already may have it no longer.
Verify(p) ==
  /\ Redeemed(p, "REGISTER")
  /\ \/ UNCHANGED verified
     \/ \E u \in Users : phone[u] = p /\ verified' = verified \cup {u}
  /\ UNCHANGED phone

\* The new password is not part of this.
Reset(p) ==
  /\ Redeemed(p, "RESET_PASSWORD")
  /\ UNCHANGED <<phone, verified>>

\* A verified user has asked for the phone, and has not been moved for that yet.
Move(u, p) ==
  /\ Redeemed(p, "PHONE_CHANGE")
  /\ u \in verified
  /\ \E c \in Ids : about[c] = For(p, "PHONE_CHANGE", u) /\ uses[c] = 0
  /\ \A w \in Users \ {u} : phone[w] # p
  /\ phone' = [phone EXCEPT ![u] = p]
  /\ UNCHANGED verified

Next ==
  \/ Lapse
  \/ \E p \in Phones : Verify(p) \/ Reset(p)
  \/ \E p \in Phones, u \in Users :
       \/ Register(u, p) \/ Move(u, p)
       \/ \E c \in Ids, purpose \in Purposes : Issue(c, p, purpose, u)

Spec == Init /\ [][Next]_vars
=============================================================================
