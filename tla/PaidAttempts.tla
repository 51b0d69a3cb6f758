------------------------------ MODULE PaidAttempts ------------------------------
(***************************************************************************)
(* What the owner pays for when a source is understood.  A revision has one     *)
(* current attempt.  Only that attempt buys model calls, the first and then the  *)
(* second, and it is replaced, for good, only while it is not buying one.         *)
(***************************************************************************)
EXTENDS Sequences, Naturals

CONSTANTS Rev, Id
VARIABLES current, bought, buying
vars == <<current, bought, buying>>

Init ==
  /\ current = [r \in Rev |-> r]
  /\ bought = [i \in Id |-> <<>>]
  /\ buying = {}

Buy(r) ==
  /\ buying \cap {current[r]} = {} /\ Len(bought[current[r]]) < 2
  /\ bought' = [bought EXCEPT ![current[r]] = Append(@, Len(@) + 1)]
  /\ buying' = buying \cup {current[r]}
  /\ UNCHANGED current

Answer(i) == i \in buying /\ buying' = buying \ {i} /\ UNCHANGED <<current, bought>>

Replace(r, t) ==
  /\ current[r] \notin buying
  /\ bought[t] = <<>> /\ \A s \in Rev : current[s] # t
  /\ current' = [current EXCEPT ![r] = t]
  /\ UNCHANGED <<bought, buying>>

Next ==
  \/ \E r \in Rev : Buy(r) \/ \E t \in Id \ Rev : Replace(r, t)
  \/ \E i \in Id : Answer(i)

Spec == Init /\ [][Next]_vars
=============================================================================
