---------------------------- MODULE MCUnderstanding ----------------------------
(* Instances of Understanding for TLC. *)
EXTENDS Understanding, TLC

SymRetries == Permutations(Attempt) \cup Permutations(Req)

Asked == {q \in Req : req[q] # None}
Answered(i, a) == \E n \in 1 .. 2 : bucket[i].call[n] = a
Thin == \E i \in Id : Answered(i, "thin")
Began(t) == at[t] # "absent" \/ \E r \in Rev : row[r].id = t /\ row[r].st # "queued"
(* Bounds.  While two owner requests race, and after a thin answer, the scheduler rests *)
(* and no retry's attempt begins.  One that begins follows an attempt whose answers,   *)
(* if any, were usable, once its owner has been answered.  A step times out where      *)
(* answers are full, with one owner request at most, and not in a retry's attempt;       *)
(* one may begin beside the callback that is left, up to its end.                     *)
InTurn ==
  /\ Cardinality(Asked) = 2 \/ (Thin /\ Asked # {}) =>
       (\A p \in Pass : pass[p] = None) /\ \A t \in Attempt : ~Began(t)
  /\ \A t \in Attempt : Began(t) =>
       /\ \A r \in Rev : ~Answered(r, "bad") /\ loose[r] # "over"
       /\ loose[t] = None /\ \A q \in Asked : req[q].at = "done"
  /\ (\E i \in Id : loose[i] # None) =>
       Cardinality(Asked) <= 1 /\ \A i \in Id, a \in {"thin", "bad"} : ~Answered(i, a)
=============================================================================
