--------------------------------- MODULE MCChat ---------------------------------
(* Instances of Chat for TLC. *)
EXTENDS Chat, TLC

SymAll == Permutations(Turn) \cup Permutations(Call)
(* Bound: two calls recover at once only before the first failed write or restart. *)
Alone == (\A c \in Call : call[c] # None) => store.faults + crashes = 0
=============================================================================
