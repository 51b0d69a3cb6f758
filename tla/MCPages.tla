-------------------------------- MODULE MCPages --------------------------------
(* Instances of Pages for TLC. *)
EXTENDS Pages, TLC

Symmetry == Permutations(Page) \cup Permutations(PageRev)
            \cup Permutations(Mutation) \cup Permutations(Request)
(* Bound: once a text is replaced, one request at a time. *)
FewTexts == (\E s \in Source : current[s] > 1) => Cardinality({q \in Request : req[q] # None}) <= 1
=============================================================================
