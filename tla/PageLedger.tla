------------------------------- MODULE PageLedger -------------------------------
(***************************************************************************)
(* What readers of a knowledge page rely on.  A page's accepted head changes     *)
(* only by compare-and-swap: to a revision written against the head it replaces. *)
(* A decision is made once.  Revisions are numbered in the order they appear.    *)
(***************************************************************************)
EXTENDS Naturals

CONSTANTS Page, PageRev, None
VARIABLES entry, head
vars == <<entry, head>>

Of(r, p) == entry[r] # None /\ entry[r].page = p
Has(r, status) == entry[r] # None /\ entry[r].status = status

Init == entry = [r \in PageRev |-> None] /\ head = [p \in Page |-> None]

(* The revision comes directly after the others of its page. *)
Add(r, p, b, status) ==
  /\ entry[r] = None
  /\ \E n \in {1} \cup {entry[l].no + 1 : l \in {l \in PageRev : Of(l, p)}} :
       /\ \A l \in PageRev : Of(l, p) => entry[l].no < n
       /\ entry' = [entry EXCEPT ![r] = [page |-> p, no |-> n, base |-> b, status |-> status]]

(* A proposal is based on the head its author saw: none, or once accepted. *)
Propose(r, p, b) ==
  /\ b = None \/ (Of(b, p) /\ Has(b, "accepted"))
  /\ Add(r, p, b, "proposed") /\ UNCHANGED head

(* A saved answer is the first revision of its page. *)
Publish(r, p) ==
  /\ head[p] = None /\ \A l \in PageRev : ~Of(l, p)
  /\ Add(r, p, None, "accepted") /\ head' = [head EXCEPT ![p] = r]

Accept(r) ==
  /\ Has(r, "proposed") /\ head[entry[r].page] = entry[r].base
  /\ entry' = [entry EXCEPT ![r].status = "accepted"]
  /\ head' = [head EXCEPT ![entry[r].page] = r]

Reject(r) ==
  /\ Has(r, "proposed")
  /\ entry' = [entry EXCEPT ![r].status = "rejected"]
  /\ UNCHANGED head

Next ==
  \E r \in PageRev :
    \/ \E p \in Page : Publish(r, p) \/ \E b \in PageRev \cup {None} : Propose(r, p, b)
    \/ Accept(r) \/ Reject(r)

Spec == Init /\ [][Next]_vars
=============================================================================
