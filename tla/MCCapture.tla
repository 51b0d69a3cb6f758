------------------------------- MODULE MCCapture -------------------------------
(* Instances of Capture for TLC. *)
EXTENDS Capture, TLC

Symmetry == Permutations(Source) \cup Permutations(Rev)
            \cup Permutations(Digest) \cup Permutations(Name) \cup Permutations(Req)
=============================================================================
