------------------------------ MODULE Terminal ------------------------------
(***************************************************************************)
(* What the login chain promises of one terminal: people log in one after  *)
(* another.  A name is asked for only while nobody is logged in or logging *)
(* in; a session is opened as one of the accounts and keeps that identity  *)
(* to its end; what is left of it is collected before the next one begins. *)
(***************************************************************************)
CONSTANTS Identity,   \* the ids an account may give a session
          NoOne

VARIABLES asking,     \* a name is being asked for
          session     \* its stage, and as whom it runs once it is open

vars == <<asking, session>>

At(st) == [st |-> st, as |-> NoOne]
Closed == At("closed")
Open == [st : {"open"}, as : Identity]

Init == ~asking /\ session = Closed

Ask == session = Closed /\ asking' = TRUE /\ UNCHANGED session
Answer == asking /\ asking' = FALSE /\ UNCHANGED session

Begin == session = Closed /\ ~asking /\ session' = At("login") /\ UNCHANGED asking
Admit == session = At("login") /\ session' \in Open /\ UNCHANGED asking
End == /\ session = At("login") \/ session \in Open
       /\ session' = At("over") /\ UNCHANGED asking
Collect == ~asking /\ session' = Closed /\ UNCHANGED asking

Next == Ask \/ Answer \/ Begin \/ Admit \/ End \/ Collect

Spec == Init /\ [][Next]_vars
=============================================================================
