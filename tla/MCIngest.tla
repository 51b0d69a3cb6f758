-------------------------------- MODULE MCIngest --------------------------------
(* Instances of Ingest for TLC. *)
EXTENDS Ingest, TLC

Symmetry == Permutations(Source) \cup Permutations(Rev)
            \cup Permutations(Page) \cup Permutations(Exec)
(* Bound: once a page is published, one storage execution at a time. *)
Alone == (\E p \in Page : page[p] # None) => Cardinality({e \in Exec : exec[e] # None}) <= 1
=============================================================================
