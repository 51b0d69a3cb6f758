--------------------------------- MODULE MCOcr ---------------------------------
(* Instances of Ocr for TLC. *)
EXTENDS Ocr, TLC

SymAll == Permutations(Upload) \cup Permutations(Exec) \cup Permutations(Job)

Busy == Cardinality({u \in Upload : upload[u] # None}) + Cardinality({s \in Starter : starter[s] # None})
          + Cardinality({x \in Exec : exec[x] # None})
(* Bounds.  One job: no upload is open while steps execute.  Two jobs: one request or  *)
(* step in progress at a time, nothing is executed again, and the source changes      *)
(* by Apply only.                                                                  *)
OneJob ==
  /\ \E j \in Job : \A k \in Job \ {j} : state[k] = "absent"
  /\ (\E x \in Exec : exec[x] # None) => \A u \in Upload : upload[u] = None
TwoJobs ==
  /\ Busy <= 1 /\ restarts = 0 /\ Cardinality(Active) <= 1
  /\ \A j \in Job : usage[j] # None /\ state[j] \notin {"failed", "cancelled"}
  /\ \A j \in Job : \A n \in Page : pages[j][n] # None => pages[j][n] = CHOOSE p \in Png : TRUE
  /\ version = Cardinality({j \in Job : state[j] = "applied"})
OneOrTwo == OneJob \/ TwoJobs
=============================================================================
