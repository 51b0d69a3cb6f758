----------------------------- MODULE MCModelCatalog -----------------------------
(* Instances of ModelCatalog for TLC. *)
EXTENDS ModelCatalog, TLC

SymAll == Permutations(Route) \cup Permutations(Refresh) \cup Permutations(Call)

Busy == Cardinality({r \in Refresh : refresh[r] # None}) + Cardinality({c \in Call : call[c] # None})
Saving == \E c \in Call : call[c] # None /\ call[c].op = "save"
(* Bounds.  Two executions at a time: two refreshes, a refresh and an admission, or two  *)
(* saves, which meet while every provider is on at the route last refreshed, if any.      *)
(* The native provider changes beside refreshes only, and fails only when one runs        *)
(* alone.  Saves begin from any snapshot; nothing else begins from what they leave.       *)
Pairs ==
  /\ Busy <= 2
  /\ (Busy = 2 \/ \E c \in Call : call[c] # None) =>
       /\ settings[Native] # None /\ settings[Native].on
       /\ snapshot = None \/ snapshot.slice[Native] = Native
  /\ IF Saving
     THEN /\ gateway = None
          /\ Busy = 2 => \A p \in Provider :
               /\ settings[p] # None /\ settings[p].on
               /\ snapshot = None \/ snapshot.route[p] \in {None, settings[p].route}
          /\ \A r \in Refresh : refresh[r] = None
          /\ \A c \in Call : call[c] # None => call[c].op = "save"
     ELSE /\ Busy > 0 => \A f \in Field : defaults[f] = Native
          /\ Cardinality({c \in Call : call[c] # None}) <= 1
=============================================================================
