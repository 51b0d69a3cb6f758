---------------------------- MODULE RevisionLedger ----------------------------
(***************************************************************************)
(* What the rest of the system may assume of revision rows, whoever writes   *)
(* them: a row appears once, as the newest of its source, and its capture    *)
(* identity never changes; its ingest Workflow is created at most once and   *)
(* never before the row; once a revision leaves 'pending' it stays settled   *)
(* and no "status unavailable" mark sits on it.  Modules Capture and Ingest  *)
(* each implement this specification.                                        *)
(***************************************************************************)
EXTENDS Naturals

CONSTANTS Source, Rev, None
VARIABLES row, created, settled, marked
vars == <<row, created, settled, marked>>

Recorded(r) == row[r] # None
Others(r) == {l \in Rev : l # r /\ Recorded(l) /\ row[l].src = row[r].src}

Init ==
  /\ row = [r \in Rev |-> None]
  /\ created = {} /\ settled = {} /\ marked = {}

(* The row of r appears, numbered directly after the others of its source. *)
Newest(r) ==
  /\ Recorded(r)
  /\ \A l \in Others(r) : row[l].no < row[r].no
  /\ row[r].no = 1 \/ \E l \in Others(r) : row[r].no = row[l].no + 1

Append(r) ==
  /\ ~Recorded(r)
  /\ row' = [row EXCEPT ![r] = row'[r]]
  /\ Newest(r)'

Record(r) == Append(r) /\ UNCHANGED <<created, settled, marked>>

(* A reviewed OCR text is recorded already readable, without a Workflow. *)
RecordSettled(r) ==
  /\ Append(r)
  /\ settled' = settled \cup {r}
  /\ UNCHANGED <<created, marked>>

Start(r) ==
  /\ Recorded(r) /\ r \notin created
  /\ created' = created \cup {r}
  /\ UNCHANGED <<row, settled, marked>>

Settle(r) ==
  /\ r \in created \ settled
  /\ settled' = settled \cup {r}
  /\ marked' = marked \ {r}
  /\ UNCHANGED <<row, created>>

Mark(r) ==
  /\ Recorded(r) /\ r \notin settled
  /\ marked' = marked \cup {r}
  /\ UNCHANGED <<row, created, settled>>

ClearMark(r) ==
  /\ r \in created
  /\ marked' = marked \ {r}
  /\ UNCHANGED <<row, created, settled>>

Next == \E r \in Rev : \/ Record(r) \/ RecordSettled(r) \/ Start(r)
                       \/ Settle(r) \/ Mark(r) \/ ClearMark(r)

Spec == Init /\ [][Next]_vars
=============================================================================
