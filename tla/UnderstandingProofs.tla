-------------------------- MODULE UnderstandingProofs --------------------------
(***************************************************************************)
(* Proofs about Understanding, for any number of revisions, retry identities, *)
(* scheduler passes and owner requests, all at work at once.                  *)
(***************************************************************************)
EXTENDS Understanding, SequenceTheorems, FiniteSetTheorems, TLAPS

(* A step of finish, or of an owner's request, has what its earlier steps found. *)
Asking == {"check", "status", "settle", "put", "switch", "reply", "reject"}
ReadyFinish == {f \in Finish :
  /\ f.at = "objects" => f.seen \in Row
  /\ f.at \in {"put", "update"} => f.report \in Report}
ReadyCall == {c \in Call : c.at \in Asking => c.t \in Attempt /\ c.prev \in Id}
Saved == \A q \in Req :
  req[q] # None /\ req[q].at = "saved" => bucket[req[q].seen.id].checked \in Report

Typed == /\ TypeOK
         /\ fin \in [Worker -> ReadyFinish \cup {None}]
         /\ req \in [Req -> ReadyCall \cup {None}]
         /\ Saved

LEMMA RowEdited ==
  ASSUME NEW x \in Row
  PROVE  /\ \A s \in State : [x EXCEPT !.st = s] \in Row
         /\ \A n \in 0 .. 2 : [x EXCEPT !.calls = n] \in Row
         /\ [x EXCEPT !.tok = 1] \in Row
         /\ [x EXCEPT !.st = "running", !.limit = "held"] \in Row
         /\ [x EXCEPT !.st = "failed", !.limit = "released", !.tok = 0] \in Row
         /\ \A b \in BOOLEAN : [x EXCEPT !.sum = TRUE, !.kept = b] \in Row
         /\ \A f \in Report, k \in {None, "own"} : [x EXCEPT !.st = f.st, !.tok = f.tok, !.key = k] \in Row
         /\ \A f \in Report : [x EXCEPT !.st = f.st, !.key = "checked", !.sum = TRUE, !.kept = f.kept] \in Row
<1>1. /\ \A s \in State : [x EXCEPT !.st = s] \in Row
      /\ \A n \in 0 .. 2 : [x EXCEPT !.calls = n] \in Row
      /\ [x EXCEPT !.tok = 1] \in Row
  BY DEF Row, Tokens
<1>2. [x EXCEPT !.st = "running", !.limit = "held"] \in Row
  BY DEF Row, State
<1>3. [x EXCEPT !.st = "failed", !.limit = "released", !.tok = 0] \in Row
  <2>1. "failed" \in State /\ 0 \in Tokens
    BY DEF State, Tokens
  <2> QED BY <2>1 DEF Row
<1>4. \A b \in BOOLEAN : [x EXCEPT !.sum = TRUE, !.kept = b] \in Row
  BY DEF Row
<1>5. \A f \in Report : f.st \in State /\ f.tok \in Tokens /\ f.kept \in BOOLEAN
  BY DEF Report, Settled, State
<1>6. \A f \in Report, k \in {None, "own"} : [x EXCEPT !.st = f.st, !.tok = f.tok, !.key = k] \in Row
  BY <1>5 DEF Row
<1>7. \A f \in Report : [x EXCEPT !.st = f.st, !.key = "checked", !.sum = TRUE, !.kept = f.kept] \in Row
  BY <1>5 DEF Row
<1> QED BY <1>1, <1>2, <1>4, <1>6, <1>7, <1>3

(* Passes: their own records, and rows they may settle. *)
LEMMA PassTypes ==
  ASSUME Typed, NEW p \in Pass, PassNext(p) PROVE Typed'
<1>1. /\ row \in [Rev -> Row] /\ pass \in [Pass -> Visit \cup {None}] /\ at \in [Id -> Stage]
      /\ fin \in [Worker -> ReadyFinish \cup {None}] /\ p \in Worker
  BY DEF Typed, TypeOK, Worker
<1> DEFINE Kept == UNCHANGED <<claims, hist, bucket, snap, age, paid, loose, req>>
           Moved == pass' \in [Pass -> Visit \cup {None}]
           Stays == UNCHANGED fin \/ fin' \in [Worker -> ReadyFinish \cup {None}]
<1>2. ASSUME Kept, Moved, Stays, row' \in [Rev -> Row], at' \in [Id -> Stage] PROVE Typed'
  <2>1. fin' \in [Worker -> ReadyFinish \cup {None}]
    BY <1>1, <1>2
  <2>2. fin' \in [Worker -> Finish \cup {None}]
    BY <2>1 DEF ReadyFinish
  <2>3. Saved'
    BY <1>2 DEF Typed, Saved
  <2> QED BY <1>2, <2>1, <2>2, <2>3 DEF Typed, TypeOK
<1>3. \A i \in Id, stage \in {"admit", "create", "undo", "status", "finish", "caught"} :
        Visits(p, i, stage) => Moved
  BY <1>1 DEF Visits, Visit
<1>4. Leaves(p) => Moved
  BY <1>1 DEF Leaves
<1>5. pass[p] # None => pass[p].id \in Id
  BY <1>1 DEF Visit
<1>6. \A r \in Rev : row[r] \in Row /\ row[r].id \in Id
  BY <1>1 DEF Row
<1>7. \A i \in Id : Begin(p, NewFinish(i, TRUE, FALSE)) => Stays
  <2>1. \A i \in Id : NewFinish(i, TRUE, FALSE) \in ReadyFinish
    BY DEF NewFinish, Finish, ReadyFinish
  <2> QED BY <1>1, <2>1 DEF Begin
<1>8. Begin(p, None) => Stays
  BY <1>1 DEF Begin
<1>9. \A i \in Id : Release(i) => row' \in [Rev -> Row]
  BY <1>6, RowEdited DEF Release
<1>10. \A i \in Id, stage \in {"finish", "caught"} : FinishIfLate(p, i, stage) => Moved /\ Stays
  BY <1>3, <1>4, <1>7 DEF FinishIfLate
<1> HIDE DEF Moved, Stays
<1>11. ASSUME NEW r \in Rev, ListRunning(p, r) \/ ListQueued(p, r) PROVE Typed'
  BY <1>1, <1>2, <1>3, <1>6, <1>11 DEF ListRunning, ListQueued, db, r2, run, wf, Stays
<1>12. CASE Pause(p)
  <2>1. row' \in [Rev -> Row]
    BY <1>6, <1>12, RowEdited DEF Pause, State
  <2> QED BY <1>1, <1>2, <1>4, <1>12, <2>1 DEF Pause, r2, run, wf, Stays
<1>13. CASE Admit(p)
  <2>1. row' \in [Rev -> Row]
    BY <1>6, <1>13, RowEdited DEF Admit
  <2>2. Moved
    BY <1>3, <1>4, <1>5, <1>13 DEF Admit
  <2> QED BY <1>1, <1>2, <1>13, <2>1, <2>2 DEF Admit, r2, run, wf, Stays
<1>14. CASE Create(p)
  <2>1. Moved
    BY <1>3, <1>4, <1>5, <1>14 DEF Create
  <2>2. at' \in [Id -> Stage]
    BY <1>1, <1>14 DEF Create, Stage, Steps
  <2> QED BY <1>1, <1>2, <1>14, <2>1, <2>2 DEF Create, db, r2, run, wf, Stays
<1>15. CASE Undo(p)
  BY <1>1, <1>2, <1>4, <1>5, <1>9, <1>15 DEF Undo, r2, run, wf, Stays
<1>16. CASE StatusKnown(p)
  <2>1. Moved /\ Stays
    BY <1>3, <1>5, <1>7, <1>10, <1>16 DEF StatusKnown
  <2> QED BY <1>1, <1>2, <1>16, <2>1 DEF StatusKnown, db, r2, run, wf
<1>17. CASE StatusUnknown(p)
  <2>1. Moved /\ Stays
    BY <1>4, <1>5, <1>10, <1>17 DEF StatusUnknown, Stays
  <2>2. row' \in [Rev -> Row]
    BY <1>5, <1>9, <1>17 DEF StatusUnknown
  <2> QED BY <1>1, <1>2, <1>17, <2>1, <2>2 DEF StatusUnknown, r2, run, wf
<1>18. CASE Caught(p)
  <2>1. Moved /\ Stays
    BY <1>3, <1>4, <1>5, <1>7, <1>8, <1>18 DEF Caught
  <2>2. row' \in [Rev -> Row]
    BY <1>5, <1>9, <1>18 DEF Caught
  <2> QED BY <1>1, <1>2, <1>18, <2>1, <2>2 DEF Caught, r2, run, wf
<1>19. CASE LastResort(p)
  <2>1. row' \in [Rev -> Row]
    BY <1>6, <1>19, RowEdited DEF LastResort, State
  <2> QED BY <1>1, <1>2, <1>4, <1>8, <1>19, <2>1 DEF LastResort, r2, run, wf
<1>20. CASE Crash(p)
  BY <1>1, <1>2, <1>4, <1>8, <1>20 DEF Crash, db, r2, run, wf
<1> QED BY <1>11, <1>12, <1>13, <1>14, <1>15, <1>16, <1>17, <1>18, <1>19, <1>20 DEF PassNext

(* finish: what it read is a row, what it writes is a report. *)
LEMMA ReportTypes ==
  ASSUME Typed, NEW w \in Worker, Finishing(w, "objects"),
         NEW f, f = fin[w]
  PROVE  [st |-> FinalState(f), kept |-> f.seen.kept, calls |-> f.seen.calls,
          tok |-> Usage(f.id, f.seen.calls)] \in Report
<1>1. f \in ReadyFinish /\ f.at = "objects"
  BY DEF Typed, Finishing
<1>2. f.seen \in Row
  BY <1>1 DEF ReadyFinish
<1>3. f.seen.kept \in BOOLEAN /\ f.seen.calls \in 0 .. 2
  BY <1>2 DEF Row
<1>4. FinalState(f) \in Settled
  BY DEF FinalState, Settled
<1>5. Usage(f.id, f.seen.calls) \in Tokens
  BY <1>3 DEF Usage, Tokens
<1> QED BY <1>3, <1>4, <1>5 DEF Report

LooseTyped == loose \in [Id -> Steps \cup {None, "over"}]

LEMMA FinishTypes ==
  ASSUME Typed, NEW w \in Worker, FinishNext(w) PROVE Typed'
<1>1. /\ row \in [Rev -> Row] /\ pass \in [Pass -> Visit \cup {None}] /\ at \in [Id -> Stage]
      /\ fin \in [Worker -> ReadyFinish \cup {None}] /\ bucket \in [Id -> Objects] /\ LooseTyped
  BY DEF Typed, TypeOK, LooseTyped
<1> DEFINE Kept == UNCHANGED <<claims, hist, snap, age, paid, req>> /\ LooseTyped'
           Stays == fin' \in [Worker -> ReadyFinish \cup {None}]
<1>2. ASSUME Kept, Stays, row' \in [Rev -> Row], at' \in [Id -> Stage],
             pass' \in [Pass -> Visit \cup {None}], bucket' \in [Id -> Objects], Saved'
      PROVE  Typed'
  <2>1. fin' \in [Worker -> Finish \cup {None}]
    BY <1>2 DEF ReadyFinish
  <2> QED BY <1>2, <2>1 DEF Typed, TypeOK, LooseTyped
<1>3. bucket' = bucket /\ req' = req => Saved'
  BY DEF Typed, Saved
<1>4. Returns(w) => /\ Stays /\ at' \in [Id -> Stage] /\ pass' \in [Pass -> Visit \cup {None}] /\ LooseTyped'
  BY <1>1 DEF Returns, Begin, Leaves, Stage, Worker, LooseTyped, wf
<1>5. ASSUME NEW f \in ReadyFinish, Begin(w, f) PROVE Stays
  BY <1>1, <1>5 DEF Begin
<1> HIDE DEF Stays
<1>6. CASE ReadRow(w)
  <2>1. fin[w] \in ReadyFinish /\ fin[w] \in Finish
    BY <1>1, <1>6 DEF ReadRow, Finishing, ReadyFinish
  <2>2. PICK f : f = fin[w]
    OBVIOUS
  <2>3. \A r \in Rev : [f EXCEPT !.at = "objects", !.seen = row[r]] \in ReadyFinish
    <3> SUFFICES ASSUME NEW r \in Rev, NEW x, x = row[r]
                 PROVE  [f EXCEPT !.at = "objects", !.seen = x] \in ReadyFinish
      OBVIOUS
    <3>1. x \in Row
      BY <1>1
    <3>2. [f EXCEPT !.at = "objects", !.seen = x] \in Finish
      BY <2>1, <2>2, <3>1 DEF Finish
    <3> QED BY <2>1, <2>2, <3>1, <3>2 DEF ReadyFinish, Finish
  <2>4. CASE Returns(w)
    BY <1>1, <1>2, <1>3, <1>4, <1>6, <2>4 DEF ReadRow, db, r2, run, wf
  <2>5. CASE ~Returns(w)
    <3>1. PICK r \in Rev : Begin(w, [f EXCEPT !.at = "objects", !.seen = row[r]])
      BY <1>6, <2>2, <2>5 DEF ReadRow
    <3>2. PICK g : g = [f EXCEPT !.at = "objects", !.seen = row[r]]
      OBVIOUS
    <3>3. Stays
      BY <1>5, <2>3, <3>1, <3>2
    <3>4. UNCHANGED <<at, loose, pass>>
      BY <1>6, <2>5 DEF ReadRow, wf
    <3> QED BY <1>1, <1>2, <1>3, <1>6, <3>3, <3>4 DEF LooseTyped, ReadRow, db, r2, run, wf
  <2> QED BY <2>4, <2>5
<1>7. CASE ReadObjects(w)
  <2>1. PICK f : f = fin[w]
    OBVIOUS
  <2>2. f \in ReadyFinish /\ f \in Finish /\ f.id \in Id
    BY <1>1, <1>7, <2>1 DEF ReadObjects, Finishing, ReadyFinish, Finish
  <2>3. PICK x : x = [st |-> FinalState(f), kept |-> f.seen.kept, calls |-> f.seen.calls,
                      tok |-> Usage(f.id, f.seen.calls)]
    OBVIOUS
  <2>4. x \in Report
    BY <1>7, <2>1, <2>3, ReportTypes DEF ReadObjects
  <2>5. PICK y : y = bucket[f.id].report
    OBVIOUS
  <2>6. y \in Report \cup {None}
    BY <1>1, <2>2, <2>5 DEF Objects
  <2>7. \A z \in Report, stage \in {"put", "update"} :
          [f EXCEPT !.at = stage, !.report = z] \in ReadyFinish
    <3> TAKE z \in Report, stage \in {"put", "update"}
    <3>1. [f EXCEPT !.at = stage, !.report = z] \in Finish
      BY <2>2 DEF Finish
    <3> QED BY <2>2, <3>1 DEF ReadyFinish, Finish
  <2>8. Stays
    <3>1. CASE y # None
      BY <1>5, <1>7, <2>1, <2>5, <2>6, <2>7, <3>1 DEF ReadObjects
    <3>2. CASE y = None
      BY <1>5, <1>7, <2>1, <2>3, <2>4, <2>5, <2>7, <3>2 DEF ReadObjects
    <3> QED BY <3>1, <3>2
  <2> QED BY <1>1, <1>2, <1>3, <1>7, <2>8 DEF LooseTyped, ReadObjects, db, r2, run, wf
<1>8. CASE PutReport(w)
  <2>1. PICK f : f = fin[w]
    OBVIOUS
  <2>2. f \in ReadyFinish /\ f \in Finish /\ f.id \in Id /\ f.at = "put"
    BY <1>1, <1>8, <2>1 DEF PutReport, Finishing, ReadyFinish, Finish
  <2>3. PICK x : x = f.report
    OBVIOUS
  <2>4. x \in Report
    BY <2>2, <2>3 DEF ReadyFinish
  <2>5. [f EXCEPT !.at = "update"] \in ReadyFinish
    <3>1. [f EXCEPT !.at = "update"] \in Finish
      BY <2>2 DEF Finish
    <3> QED BY <2>2, <2>3, <2>4, <3>1 DEF ReadyFinish, Finish
  <2>6. bucket' = [bucket EXCEPT ![f.id].report = x]
    BY <1>8, <2>1, <2>3 DEF PutReport
  <2>7. bucket' \in [Id -> Objects]
    <3>1. [bucket[f.id] EXCEPT !.report = x] \in Objects
      <4>1. PICK y : y = bucket[f.id]
        OBVIOUS
      <4>2. y \in Objects
        BY <1>1, <2>2, <4>1
      <4>3. [y EXCEPT !.report = x] \in Objects
        BY <2>4, <4>2 DEF Objects
      <4> QED BY <4>1, <4>3
    <3> QED BY <1>1, <2>2, <2>6, <3>1
  <2>8. \A i \in Id : bucket'[i].checked = bucket[i].checked
    BY <1>1, <2>2, <2>6 DEF Objects
  <2>9. Saved'
    <3>1. \A q \in Req : req[q] # None => req[q].seen.id \in Id
      BY DEF Typed, TypeOK, Call, Row
    <3> QED BY <1>8, <2>8, <3>1 DEF Typed, Saved, PutReport
  <2>10. Stays
    BY <1>5, <1>8, <2>1, <2>5 DEF PutReport
  <2> QED BY <1>1, <1>2, <1>8, <2>7, <2>9, <2>10 DEF LooseTyped, PutReport, db, run, wf
<1>9. CASE UpdateRow(w)
  <2>1. PICK f : f = fin[w]
    OBVIOUS
  <2>2. f \in ReadyFinish /\ f \in Finish /\ f.id \in Id /\ f.at = "update"
    BY <1>1, <1>9, <2>1 DEF UpdateRow, Finishing, ReadyFinish, Finish
  <2>3. f.report \in Report
    BY <2>2 DEF ReadyFinish
  <2>4. row' \in [Rev -> Row]
    <3>1. OwnKey(f.id) \in {None, "own"}
      BY DEF OwnKey
    <3>2. \A r \in Rev : [row[r] EXCEPT !.st = f.report.st, !.tok = f.report.tok, !.key = OwnKey(f.id)] \in Row
      <4> SUFFICES ASSUME NEW r \in Rev, NEW x, x = row[r], NEW k, k = OwnKey(f.id)
                   PROVE  [x EXCEPT !.st = f.report.st, !.tok = f.report.tok, !.key = k] \in Row
        OBVIOUS
      <4> QED BY <1>1, <2>3, <3>1, RowEdited
    <3> QED BY <1>1, <1>9, <2>1, <3>2 DEF UpdateRow
  <2> QED BY <1>1, <1>2, <1>3, <1>4, <1>9, <2>4 DEF UpdateRow, r2, run, wf
<1> QED BY <1>6, <1>7, <1>8, <1>9 DEF FinishNext


(* The Workflow of an attempt.  Its steps are numbered one and two. *)
LEMMA StepNames ==
  ASSUME NEW n \in 1 .. 2
  PROVE  /\ <<"prepare1", "prepare2">>[n] = (IF n = 1 THEN "prepare1" ELSE "prepare2")
         /\ <<"send1", "send2">>[n] = (IF n = 1 THEN "send1" ELSE "send2")
         /\ <<"answer1", "answer2">>[n] = (IF n = 1 THEN "answer1" ELSE "answer2")
         /\ <<"verify", "commit">>[n] = (IF n = 1 THEN "verify" ELSE "commit")
         /\ {<<"prepare1", "prepare2">>[n], <<"send1", "send2">>[n], <<"answer1", "answer2">>[n],
             <<"verify", "commit">>[n]} \subseteq Steps
<1>1. CASE n = 1
  BY <1>1 DEF Steps
<1>2. CASE n = 2
  BY <1>2 DEF Steps
<1> QED BY <1>1, <1>2

LEMMA SecondAppended == Append(<<1>>, 2) = <<1, 2>>
<1>1. <<1>> \in Seq(Nat) /\ Len(<<1>>) = 1 /\ <<1>>[1] = 1
  OBVIOUS
<1>2. /\ Append(<<1>>, 2) \in Seq(Nat) /\ Len(Append(<<1>>, 2)) = 2
      /\ Append(<<1>>, 2)[1] = 1 /\ Append(<<1>>, 2)[2] = 2
  BY <1>1, AppendProperties
<1>3. <<1, 2>> \in Seq(Nat) /\ Len(<<1, 2>>) = 2 /\ <<1, 2>>[1] = 1 /\ <<1, 2>>[2] = 2
  OBVIOUS
<1>4. \A s, t : /\ s \in Seq(Nat) /\ t \in Seq(Nat) /\ Len(s) = 2 /\ Len(t) = 2
                /\ s[1] = t[1] /\ s[2] = t[2]
                => s = t
  <2> TAKE s, t
  <2> HAVE /\ s \in Seq(Nat) /\ t \in Seq(Nat) /\ Len(s) = 2 /\ Len(t) = 2
           /\ s[1] = t[1] /\ s[2] = t[2]
  <2>1. \A k \in 1 .. Len(s) : s[k] = t[k]
    OBVIOUS
  <2> QED BY <2>1, SeqEqual
<1>5. \A s : s \in Seq(Nat) /\ Len(s) = 2 /\ s[1] = 1 /\ s[2] = 2 => s = <<1, 2>>
  BY <1>3, <1>4, Zenon
<1> QED BY <1>2, <1>5, Zenon

(* What an attempt paid grows by one call at a time. *)
LEMMA PaidGrows ==
  ASSUME TypeOK, NEW i \in Id, NEW n \in 1 .. 2, n = 1 => paid[i] = <<>>, n = 2 => paid[i] = << 1 >>,
         paid' = [paid EXCEPT ![i] = Append(@, n)]
  PROVE  /\ paid' \in [Id -> {<<>>, << 1 >>, <<1, 2>>}]
         /\ paid'[i] = (IF n = 1 THEN << 1 >> ELSE <<1, 2>>)
         /\ \A j \in Id \ {i} : paid'[j] = paid[j]
<1>1. paid \in [Id -> {<<>>, << 1 >>, <<1, 2>>}]
  BY DEF TypeOK
<1>2. Append(<<1>>, 2) = <<1, 2>>
  BY SecondAppended
<1>3. Append(<<>>, 1) = <<1>>
  OBVIOUS
<1>4. Append(paid[i], n) = (IF n = 1 THEN <<1>> ELSE <<1, 2>>)
  <2>1. CASE n = 1
    BY <1>3, <2>1
  <2>2. CASE n = 2
    <3>1. paid[i] = <<1>> /\ Append(paid[i], n) = Append(<<1>>, 2)
      BY <2>2, Zenon
    <3>2. n # 1
      BY <2>2
    <3> QED BY <1>2, <3>1, <3>2, Zenon
  <2> QED BY <2>1, <2>2
<1> QED BY <1>1, <1>4

(* What was paid is of its type for a reason of its own: see Stages and Calls. *)
PaidTyped == paid \in [Id -> {<<>>, <<1>>, <<1, 2>>}]

LEMMA WorkflowTypes ==
  ASSUME Typed, NEW i \in Id, WorkflowNext(i), PaidTyped' PROVE Typed'
<1>1. /\ row \in [Rev -> Row] /\ at \in [Id -> Stage] /\ bucket \in [Id -> Objects]
      /\ fin \in [Worker -> ReadyFinish \cup {None}] /\ claims \in [Rev -> Id \cup {None}]
      /\ i \in Worker /\ loose \in [Id -> Steps \cup {None, "over"}]
  BY DEF Typed, TypeOK, Worker
<1> DEFINE Kept == UNCHANGED <<hist, snap, age, pass, req>>
           Goes1 == at' \in [Id -> Stage] /\ loose' \in [Id -> Steps \cup {None, "over"}]
           Stays == UNCHANGED fin \/ fin' \in [Worker -> ReadyFinish \cup {None}]
<1>2. ASSUME Kept, Goes1, Stays, row' \in [Rev -> Row], claims' \in [Rev -> Id \cup {None}],
             bucket' \in [Id -> Objects], Saved'
      PROVE  Typed'
  <2>1. fin' \in [Worker -> ReadyFinish \cup {None}]
    BY <1>1, <1>2
  <2>2. fin' \in [Worker -> Finish \cup {None}]
    BY <2>1 DEF ReadyFinish
  <2> QED BY <1>2, <2>1, <2>2 DEF Typed, TypeOK, PaidTyped
<1>3. bucket' = bucket /\ req' = req => Saved'
  BY DEF Typed, Saved
<1>4. \A full \in BOOLEAN, err \in BOOLEAN : Begin(i, NewFinish(i, err, full)) => Stays
  <2>1. \A full \in BOOLEAN, err \in BOOLEAN : NewFinish(i, err, full) \in ReadyFinish
    BY DEF NewFinish, Finish, ReadyFinish
  <2> QED BY <1>1, <2>1 DEF Begin
<1>5. /\ \A stage \in Stage : Goes(i, stage) /\ loose' = loose => Goes1
      /\ \A stage \in Steps : Moves(i, stage) => Goes1
      /\ \A stage \in Stage : Resolves(i, stage) => Goes1
  <2>1. Steps \subseteq Stage
    BY DEF Stage
  <2>2. \A stage \in Stage : Goes(i, stage) /\ loose' = loose => Goes1
    BY <1>1 DEF Goes
  <2>3. \A stage \in Steps \cup {"over"} : Strays(i, stage) /\ at' = at => Goes1
    BY <1>1 DEF Strays
  <2> QED BY <2>1, <2>2, <2>3 DEF Moves, Resolves
<1>6. /\ ToCatch(i) /\ (loose' = loose \/ \E stage \in Steps : Strays(i, stage)) => Goes1 /\ Stays
      /\ Throws(i) => Goes1 /\ Stays
  <2>1. \A stage \in Steps \cup {"over"} : Strays(i, stage) => loose' \in [Id -> Steps \cup {None, "over"}]
    BY <1>1 DEF Strays
  <2>2. ToCatch(i) => at' \in [Id -> Stage] /\ Stays
    BY <1>1, <1>4 DEF ToCatch, Goes, Stage
  <2> QED BY <1>1, <2>1, <2>2 DEF Throws
<1> HIDE DEF Stays, Goes1
<1>7. ASSUME NEW n \in 1 .. 2, Prepare(i, n) PROVE Typed'
  <2>1. <<"send1", "send2">>[n] \in Steps
    BY StepNames
  <2>2. Goes1 /\ Stays
    BY <1>5, <1>6, <1>7, <2>1 DEF Prepare, Stays
  <2> QED BY <1>1, <1>2, <1>3, <1>7, <2>2 DEF Prepare, db, r2, run, wf
<1>8. ASSUME NEW n \in 1 .. 2, Send(i, n) PROVE Typed'
  <2>1. <<"answer1", "answer2">>[n] \in Steps
    BY StepNames
  <2>2. Goes1 /\ Stays
    BY <1>5, <1>6, <1>8, <2>1 DEF Send, Stays
  <2>3. row' \in [Rev -> Row]
    <3>1. \A r \in Rev : [row[r] EXCEPT !.calls = n] \in Row
      <4>1. n \in 0 .. 2
        OBVIOUS
      <4> QED BY <1>1, <4>1, RowEdited
    <3> QED BY <1>1, <1>8, <3>1 DEF Send
  <2> QED BY <1>1, <1>2, <1>3, <1>8, <2>2, <2>3 DEF Send, r2
<1>9. ASSUME NEW n \in 1 .. 2, Answer(i, n) PROVE Typed'
  <2>1. <<"verify", "commit">>[n] \in Stage
    BY StepNames DEF Stage
  <2>2. Goes1 /\ Stays
    BY <1>5, <1>6, <1>9, <2>1 DEF Answer, Stays
  <2>3. UNCHANGED bucket \/ \E a \in Answers \cup {"bad"} : bucket' = [bucket EXCEPT ![i].call[n] = a]
    BY <1>9 DEF Answer
  <2>4. \A a \in Answers \cup {"bad"} : [bucket[i] EXCEPT !.call[n] = a] \in Objects
    <3> SUFFICES ASSUME NEW a \in Answers \cup {"bad"}, NEW y, y = bucket[i]
                 PROVE  [y EXCEPT !.call[n] = a] \in Objects
      OBVIOUS
    <3>1. y \in Objects
      BY <1>1
    <3>2. [y.call EXCEPT ![n] = a] \in [1 .. 2 -> Answers \cup {"bad", None}]
      BY <3>1 DEF Objects
    <3> QED BY <3>1, <3>2 DEF Objects
  <2>5. bucket' \in [Id -> Objects]
    BY <1>1, <2>3, <2>4
  <2>6. \A j \in Id : bucket'[j].checked = bucket[j].checked
    <3> SUFFICES ASSUME NEW j \in Id PROVE bucket'[j].checked = bucket[j].checked
      OBVIOUS
    <3>1. bucket[j] \in Objects
      BY <1>1
    <3> QED BY <1>1, <2>3, <3>1 DEF Objects
  <2>7. Saved'
    <3>1. \A q \in Req : req[q] # None => req[q].seen.id \in Id
      BY DEF Typed, TypeOK, Call, Row
    <3> QED BY <1>9, <2>6, <3>1 DEF Typed, Saved, Answer
  <2> QED BY <1>1, <1>2, <1>9, <2>2, <2>5, <2>7 DEF Answer, db, run, wf
<1>10. ASSUME NEW n \in 1 .. 2, Replay(i, n) PROVE Typed'
  <2>1. <<"prepare1", "prepare2">>[n] \in Stage
    BY StepNames DEF Stage
  <2>2. Goes1
    BY <1>5, <1>10, <2>1 DEF Replay, wf
  <2> QED BY <1>1, <1>2, <1>3, <1>10, <2>2 DEF Replay, db, r2, run, wf, Stays
<1>11. CASE VerifyAndStore(i)
  <2>1. Goes1
    BY <1>5, <1>11 DEF VerifyAndStore, Stage, Steps
  <2>2. row' \in [Rev -> Row]
    BY <1>1, <1>11, RowEdited DEF VerifyAndStore
  <2> QED BY <1>1, <1>2, <1>3, <1>11, <2>1, <2>2 DEF VerifyAndStore, r2, run, wf, Stays
<1>12. CASE CommitSynthesis(i)
  <2>1. PICK full \in BOOLEAN : full = (bucket[i].call[2] = "full")
    OBVIOUS
  <2>2. /\ row' = [r \in Rev |-> IF Publishes(i, r) THEN [row[r] EXCEPT !.sum = TRUE, !.kept = full] ELSE row[r]]
        /\ claims' = [r \in Rev |-> IF Publishes(i, r) /\ full THEN i ELSE claims[r]]
        /\ Resolves(i, "finish") /\ (Begin(i, NewFinish(i, FALSE, full)) \/ UNCHANGED fin)
    BY <1>12, <2>1 DEF CommitSynthesis
  <2>3. Goes1 /\ Stays
    BY <1>4, <1>5, <2>2 DEF Stage, Stays
  <2>4. row' \in [Rev -> Row]
    BY <1>1, <2>2, RowEdited
  <2>5. claims' \in [Rev -> Id \cup {None}]
    BY <1>1, <2>2
  <2> QED BY <1>1, <1>2, <1>3, <1>12, <2>3, <2>4, <2>5 DEF CommitSynthesis, r2, run, wf
<1>13. CASE StepFails(i)
  BY <1>1, <1>2, <1>3, <1>6, <1>13 DEF StepFails, db, r2, run, wf
<1>14. CASE TimesOut(i)
  <2>1. \E stage \in Steps : Strays(i, stage)
    BY <1>14 DEF TimesOut, Awaited
  <2> QED BY <1>1, <1>2, <1>3, <1>6, <1>14, <2>1 DEF TimesOut, db, r2, run
<1>15. CASE FinishRetried(i)
  <2>1. [fin[i] EXCEPT !.at = "row"] \in ReadyFinish
    <3>1. PICK f : f = fin[i]
      OBVIOUS
    <3>2. f \in ReadyFinish /\ f \in Finish
      BY <1>1, <1>15, <3>1 DEF FinishRetried, ReadyFinish
    <3>3. [f EXCEPT !.at = "row"] \in Finish
      BY <3>2 DEF Finish
    <3> QED BY <3>1, <3>2, <3>3 DEF ReadyFinish, Finish
  <2>2. Stays
    BY <1>1, <1>15, <2>1 DEF FinishRetried, Begin, Stays
  <2>3. Goes1
    BY <1>1, <1>15 DEF FinishRetried, Goes1, wf
  <2> QED BY <1>1, <1>2, <1>3, <1>15, <2>2, <2>3 DEF FinishRetried, db, r2, run, wf
<1>16. CASE Stopped(i)
  <2>1. Goes1
    BY <1>1, <1>16 DEF Stopped, Ends, Stage, Goes1
  <2>2. Stays
    BY <1>1, <1>16 DEF Stopped, Begin, Stays
  <2> QED BY <1>1, <1>2, <1>3, <1>16, <2>1, <2>2 DEF Stopped, db, r2, run, wf
<1> QED BY <1>7, <1>8, <1>9, <1>10, <1>11, <1>12, <1>13, <1>14, <1>15, <1>16 DEF WorkflowNext


(* Owner requests: each step leaves a request its operation can go on with. *)
LEMMA CallEdited ==
  ASSUME NEW c \in ReadyCall
  PROVE  /\ \A stage \in Asking : c.at \in Asking => [c EXCEPT !.at = stage] \in ReadyCall
         /\ c.at \in Asking => [c EXCEPT !.at = "settle", !.sure = TRUE] \in ReadyCall
         /\ c.at = "save" => [c EXCEPT !.at = "saved"] \in ReadyCall
         /\ \A out \in {"accepted", "rejected", "saved", "error"} : Done(c, out) \in ReadyCall
         /\ \A x \in Row, k \in Id \cup {None} :
              c.at \in Asking => [c EXCEPT !.at = "put", !.seen = x, !.claims = k] \in ReadyCall
<1>1. c \in Call /\ (c.at \in Asking => c.t \in Attempt /\ c.prev \in Id)
  BY DEF ReadyCall
<1>2. \A stage \in Asking : c.at \in Asking => [c EXCEPT !.at = stage] \in ReadyCall
  BY <1>1 DEF ReadyCall, Call, Asking
<1>3. c.at \in Asking => [c EXCEPT !.at = "settle", !.sure = TRUE] \in ReadyCall
  BY <1>1 DEF ReadyCall, Call, Asking
<1>4. c.at = "save" => [c EXCEPT !.at = "saved"] \in ReadyCall
  BY <1>1 DEF ReadyCall, Call, Asking
<1>5. \A out \in {"accepted", "rejected", "saved", "error"} : Done(c, out) \in ReadyCall
  BY <1>1 DEF ReadyCall, Call, Asking, Done
<1>6. \A x \in Row, k \in Id \cup {None} :
        c.at \in Asking => [c EXCEPT !.at = "put", !.seen = x, !.claims = k] \in ReadyCall
  <2> SUFFICES ASSUME NEW x \in Row, NEW k \in Id \cup {None}, c.at \in Asking
               PROVE  [c EXCEPT !.at = "put", !.seen = x, !.claims = k] \in ReadyCall
    OBVIOUS
  <2>1. [c EXCEPT !.at = "put", !.seen = x, !.claims = k] \in Call
    BY <1>1 DEF Call
  <2> QED BY <1>1, <2>1 DEF ReadyCall, Call
<1> QED BY <1>2, <1>3, <1>4, <1>5, <1>6

LEMMA OwnerStep ==
  ASSUME Typed, NEW q \in Req, NEW c \in ReadyCall, Step(q, c), UNCHANGED <<age, paid, wf, fin, pass>>,
         row' \in [Rev -> Row], claims' \in [Rev -> Id \cup {None}], bucket' \in [Id -> Objects],
         hist' \in [Id -> Archive \cup {None}],
         snap' \in [Id \X Attempt -> Copy \cup {None}],
         \A j \in Id : bucket[j].checked \in Report => bucket'[j].checked \in Report,
         c.at = "saved" => bucket'[c.seen.id].checked \in Report
  PROVE  Typed'
<1>1. req \in [Req -> ReadyCall \cup {None}]
  BY DEF Typed
<1>2. req'[q] = c /\ \A p \in Req \ {q} : req'[p] = req[p]
  BY <1>1 DEF Step
<1>3. req' \in [Req -> ReadyCall \cup {None}]
  BY <1>1 DEF Step
<1>4. req' \in [Req -> Call \cup {None}]
  BY <1>3 DEF ReadyCall
<1>5. Saved'
  <2> SUFFICES ASSUME NEW p \in Req, req'[p] # None, req'[p].at = "saved"
               PROVE  bucket'[req'[p].seen.id].checked \in Report
    BY DEF Saved
  <2>1. CASE p = q
    BY <1>2, <2>1
  <2>2. CASE p # q
    <3>1. req'[p] = req[p] /\ req[p] \in Call
      BY <1>1, <1>2, <2>2 DEF ReadyCall
    <3>2. req[p].seen.id \in Id
      BY <3>1 DEF Call, Row
    <3> QED BY <3>1, <3>2 DEF Typed, Saved
  <2> QED BY <2>1, <2>2
<1> QED BY <1>3, <1>4, <1>5 DEF Typed, TypeOK, wf

LEMMA OutcomeKnown == \A c : Outcome(c) \in {"accepted", "rejected", "saved", "error"}
BY DEF Outcome

LEMMA ReplayTypes ==
  ASSUME NEW c \in ReadyCall, c.at \in Asking, NEW stage \in Asking
  PROVE  Replayed(c, stage) \in ReadyCall /\ Replayed(c, stage).at # "saved"
<1>1. Done(c, Outcome(c)) \in ReadyCall
  BY CallEdited, OutcomeKnown
<1>2. Done(c, Outcome(c)).at # "saved"
  BY DEF Done, ReadyCall, Call
<1>3. [c EXCEPT !.at = stage] \in ReadyCall
  BY CallEdited
<1>4. [c EXCEPT !.at = stage].at # "saved"
  BY DEF ReadyCall, Call, Asking
<1> QED BY <1>1, <1>2, <1>3, <1>4 DEF Replayed


(* A request's step that leaves every store alone. *)
LEMMA OwnerAsks ==
  ASSUME Typed, NEW q \in Req, NEW c \in ReadyCall, Step(q, c), c.at # "saved",
         UNCHANGED <<db, r2, run, wf, fin, pass>>
  PROVE  Typed'
<1>1. /\ row \in [Rev -> Row] /\ claims \in [Rev -> Id \cup {None}] /\ bucket \in [Id -> Objects]
      /\ hist \in [Id -> Archive \cup {None}]
      /\ snap \in [Id \X Attempt -> Copy \cup {None}]
  BY DEF Typed, TypeOK
<1> QED BY <1>1, OwnerStep DEF db, r2, run, wf

LEMMA CheckedTypes ==
  ASSUME Typed, NEW i \in Id, Available(i) PROVE Checked(i) \in Report
<1>1. PICK x : x = bucket[i].report
  OBVIOUS
<1>2. x \in Report
  BY <1>1 DEF Typed, TypeOK, Objects, Available
<1>3. \A full \in BOOLEAN : [x EXCEPT !.st = IF full THEN "done" ELSE "partial", !.kept = full] \in Report
  BY <1>2 DEF Report, Settled
<1> QED BY <1>1, <1>3 DEF Checked

LEMMA OwnerTypes ==
  ASSUME Typed, NEW q \in Req, OwnerNext(q) PROVE Typed'
<1>1. /\ row \in [Rev -> Row] /\ claims \in [Rev -> Id \cup {None}] /\ bucket \in [Id -> Objects]
      /\ hist \in [Id -> Archive \cup {None}]
      /\ snap \in [Id \X Attempt -> Copy \cup {None}]
      /\ req \in [Req -> ReadyCall \cup {None}] /\ ReadyCall \subseteq Call
  BY DEF Typed, TypeOK, ReadyCall
<1>2. \A r \in Rev : row[r] \in Row /\ row[r].id \in Id
  BY <1>1 DEF Row
<1>3. PICK c : c = req[q]
  OBVIOUS
<1>4. \A stage \in {"check", "status", "settle", "put", "switch", "reply", "reject", "save", "saved"} :
        AtStep(q, stage) => /\ c \in ReadyCall /\ c \in Call /\ c.at = stage /\ c.seen.id \in Id /\ c.rev \in Rev
                            /\ c.at \in Asking => c.t \in Attempt /\ c.prev \in Id
  BY <1>1, <1>3 DEF AtStep, ReadyCall, Call, Row
<1>5. \A out : Done(c, out).at # "saved"
  <2>1. req[q] # None => c \in Call
    BY <1>1, <1>3
  <2> QED BY <2>1 DEF Done, Call
<1>6. ASSUME NEW r \in Rev, SaveRead(q, r) PROVE Typed'
  <2>1. PICK k : k = [op |-> "save", rev |-> r, t |-> None, prev |-> None, seen |-> row[r],
                      at |-> "save", claims |-> None, sure |-> FALSE, out |-> None]
    OBVIOUS
  <2>2. k \in ReadyCall /\ k.at # "saved"
    BY <1>2, <2>1 DEF ReadyCall, Call, Asking
  <2> QED BY <1>6, <2>1, <2>2, OwnerAsks DEF SaveRead
<1>7. ASSUME NEW r \in Rev, NEW t \in Attempt, NEW prev \in Id, RetryRead(q, r, t, prev) PROVE Typed'
  <2>1. PICK k : k = [op |-> "retry", rev |-> r, t |-> t, prev |-> prev, seen |-> row[r],
                      at |-> "check", claims |-> None, sure |-> FALSE, out |-> None]
    OBVIOUS
  <2>2. k \in ReadyCall /\ k.at # "saved"
    BY <1>2, <2>1 DEF ReadyCall, Call, Asking
  <2> QED BY <1>7, <2>1, <2>2, OwnerAsks DEF RetryRead
<1>8. CASE RetryCheck(q)
  <2>1. c \in ReadyCall /\ c.at \in Asking
    BY <1>4, <1>8 DEF RetryCheck, Asking
  <2>2. PICK stage \in Asking : Step(q, Replayed(c, stage))
    BY <1>3, <1>8 DEF RetryCheck, Asking
  <2>3. Replayed(c, stage) \in ReadyCall /\ Replayed(c, stage).at # "saved"
    BY <2>1, ReplayTypes
  <2>4. PICK k : k = Replayed(c, stage)
    OBVIOUS
  <2> QED BY <1>8, <2>2, <2>3, <2>4, OwnerAsks DEF RetryCheck
<1>9. CASE RetryStatus(q)
  <2>1. c \in ReadyCall /\ c.at \in Asking
    BY <1>4, <1>9 DEF RetryStatus, Asking
  <2>2. PICK k : k \in ReadyCall /\ k.at # "saved" /\ Step(q, k)
    <3>1. Step(q, [c EXCEPT !.at = "settle", !.sure = TRUE]) \/ Step(q, [c EXCEPT !.at = "reject"])
      BY <1>3, <1>9 DEF RetryStatus
    <3>2. /\ [c EXCEPT !.at = "settle", !.sure = TRUE] \in ReadyCall
          /\ [c EXCEPT !.at = "reject"] \in ReadyCall
      BY <2>1, CallEdited DEF Asking
    <3>3. /\ [c EXCEPT !.at = "settle", !.sure = TRUE].at # "saved"
          /\ [c EXCEPT !.at = "reject"].at # "saved"
      BY <2>1 DEF ReadyCall, Call
    <3> QED BY <3>1, <3>2, <3>3
  <2> QED BY <1>9, <2>2, OwnerAsks DEF RetryStatus
<1>10. CASE RetrySettle(q)
  <2>1. c \in ReadyCall /\ c \in Call /\ c.at \in Asking /\ c.rev \in Rev
    BY <1>4, <1>10 DEF RetrySettle, Asking
  <2>2. PICK k : k \in ReadyCall /\ k.at # "saved" /\ Step(q, k)
    <3>1. PICK x, y : x = row[c.rev] /\ y = VisibleClaims(c.rev)
      OBVIOUS
    <3>2. x \in Row /\ y \in Id \cup {None}
      BY <1>1, <1>2, <2>1, <3>1 DEF VisibleClaims
    <3>3. \/ Step(q, [c EXCEPT !.at = "put", !.seen = x, !.claims = y])
          \/ Step(q, [c EXCEPT !.at = "reject"]) \/ Step(q, Done(c, "error"))
          \/ Step(q, Replayed(c, "reject"))
      BY <1>3, <1>10, <3>1 DEF RetrySettle
    <3>4. /\ [c EXCEPT !.at = "put", !.seen = x, !.claims = y] \in ReadyCall
          /\ [c EXCEPT !.at = "reject"] \in ReadyCall
          /\ Done(c, "error") \in ReadyCall
      BY <2>1, <3>2, CallEdited DEF Asking
    <3>5. /\ [c EXCEPT !.at = "put", !.seen = x, !.claims = y].at # "saved"
          /\ [c EXCEPT !.at = "reject"].at # "saved"
      BY <2>1 DEF Call
    <3>6. Replayed(c, "reject") \in ReadyCall /\ Replayed(c, "reject").at # "saved"
      BY <2>1, ReplayTypes DEF Asking
    <3> QED BY <1>5, <3>3, <3>4, <3>5, <3>6
  <2> QED BY <1>10, <2>2, OwnerAsks DEF RetrySettle
<1>11. CASE RetryPut(q)
  <2>1. c \in ReadyCall /\ c \in Call /\ c.at \in Asking /\ c.seen.id \in Id /\ c.t \in Attempt
    BY <1>4, <1>11 DEF RetryPut, Asking
  <2>2. PICK stage \in {"switch", "reply"} : Step(q, [c EXCEPT !.at = stage])
    BY <1>3, <1>11 DEF RetryPut
  <2>3. PICK k : k = [c EXCEPT !.at = stage]
    OBVIOUS
  <2>4. k \in ReadyCall /\ k.at # "saved"
    <3>1. k \in ReadyCall
      BY <2>1, <2>3, CallEdited DEF Asking
    <3> QED BY <2>1, <2>3, <3>1 DEF Call
  <2>5. snap' \in [Id \X Attempt -> Copy \cup {None}]
    <3>1. Snapshot(c) \in Copy
      BY <2>1 DEF Snapshot, Call, Copy
    <3>2. snap' = snap \/ snap' = [snap EXCEPT ![SnapKey(c)] = Snapshot(c)]
      BY <1>3, <1>11 DEF RetryPut
    <3> QED BY <1>1, <3>1, <3>2
  <2> QED BY <1>1, <1>11, <2>2, <2>3, <2>4, <2>5, OwnerStep DEF RetryPut, db, run, wf
<1>12. CASE RetrySwitch(q)
  <2>1. c \in ReadyCall /\ c \in Call /\ c.at \in Asking /\ c.seen.id \in Id /\ c.rev \in Rev
        /\ c.t \in Attempt /\ c.prev \in Id
    BY <1>4, <1>12 DEF RetrySwitch, Asking
  <2>2. PICK k : k = [c EXCEPT !.at = "reply"]
    OBVIOUS
  <2>3. k \in ReadyCall /\ k.at # "saved" /\ Step(q, k)
    <3>1. k \in ReadyCall
      BY <2>1, <2>2, CallEdited DEF Asking
    <3> QED BY <1>3, <1>12, <2>1, <2>2, <3>1 DEF Call, RetrySwitch
  <2>4. PICK x : x = [Fresh(c.t) EXCEPT !.body = Wants(c), !.st = "queued"]
    OBVIOUS
  <2>5. x \in Row
    <3>1. Wants(c) \in Body
      BY <2>1 DEF Wants, Body
    <3>2. PICK w : w = Wants(c)
      OBVIOUS
    <3>3. PICK y : y = Fresh(c.t)
      OBVIOUS
    <3>4. y \in Row
      BY <2>1, <3>3 DEF Fresh, Row, Id, State, Tokens
    <3>5. [y EXCEPT !.body = w, !.st = "queued"] \in Row
      BY <3>1, <3>2, <3>4 DEF Row, State
    <3> QED BY <2>4, <3>2, <3>3, <3>5
  <2>6. PICK y : y = [rev |-> c.rev, body |-> row[c.rev].body, snap |-> c.t]
    OBVIOUS
  <2>7. y \in Archive
    BY <1>2, <2>1, <2>6 DEF Archive, Row
  <2>8. /\ row' = row \/ row' = [row EXCEPT ![c.rev] = x]
        /\ hist' = hist \/ hist' = [hist EXCEPT ![c.seen.id] = y]
    BY <1>3, <1>12, <2>4, <2>6 DEF RetrySwitch
  <2>9. row' \in [Rev -> Row] /\ hist' \in [Id -> Archive \cup {None}]
    BY <1>1, <2>1, <2>5, <2>7, <2>8
  <2> QED BY <1>1, <1>12, <2>3, <2>9, OwnerStep DEF RetrySwitch, r2, run, wf
<1>13. CASE RetryReply(q)
  <2>1. Replayed(c, "reject") \in ReadyCall /\ Replayed(c, "reject").at # "saved"
    BY <1>4, <1>13, ReplayTypes DEF RetryReply, Asking
  <2>2. PICK k : k = Replayed(c, "reject")
    OBVIOUS
  <2> QED BY <1>3, <1>13, <2>1, <2>2, OwnerAsks DEF RetryReply
<1>14. CASE RetryReject(q)
  <2>1. c \in ReadyCall /\ c \in Call /\ c.at \in Asking /\ c.rev \in Rev /\ c.t \in Attempt /\ c.prev \in Id
    BY <1>4, <1>14 DEF RetryReject, Asking
  <2>2. PICK k : k \in ReadyCall /\ k.at # "saved" /\ Step(q, k)
    <3>1. PICK out \in {"accepted", "rejected", "saved", "error"} : Step(q, Done(c, out))
      BY <1>3, <1>14, OutcomeKnown DEF RetryReject
    <3> QED BY <1>5, <2>1, <3>1, CallEdited
  <2>3. PICK y : y = [rev |-> c.rev, body |-> Wants(c), snap |-> None]
    OBVIOUS
  <2>4. y \in Archive
    BY <2>1, <2>3 DEF Archive, Wants, Body
  <2>5. hist' \in [Id -> Archive \cup {None}]
    <3>1. hist' = hist \/ hist' = [hist EXCEPT ![c.t] = y]
      BY <1>3, <1>14, <2>3 DEF RetryReject
    <3> QED BY <1>1, <2>4, <3>1
  <2> QED BY <1>1, <1>14, <2>2, <2>5, OwnerStep DEF RetryReject, r2, run, wf
<1>15. CASE SavePut(q)
  <2>1. c \in ReadyCall /\ c \in Call /\ c.at = "save" /\ c.seen.id \in Id
    BY <1>4, <1>15 DEF SavePut
  <2>2. PICK i \in Id : i = c.seen.id
    BY <2>1
  <2>3. PICK x : x = Checked(i)
    OBVIOUS
  <2>4. CASE bucket' = bucket /\ Step(q, Done(c, "error"))
    <3>1. PICK k : k = Done(c, "error")
      OBVIOUS
    <3>2. k \in ReadyCall /\ k.at # "saved"
      BY <1>5, <2>1, <3>1, CallEdited
    <3> QED BY <1>1, <1>15, <2>4, <3>1, <3>2, OwnerStep DEF SavePut, db, run, wf
  <2>5. CASE Available(i) /\ bucket' = [bucket EXCEPT ![i].checked = x]
    <3>1. x \in Report
      BY <2>3, <2>5, CheckedTypes
    <3>2. [bucket[i] EXCEPT !.checked = x] \in Objects /\ [bucket[i] EXCEPT !.checked = x].checked = x
      <4>1. PICK y : y = bucket[i]
        OBVIOUS
      <4>2. y \in Objects
        BY <1>1, <4>1
      <4>3. [y EXCEPT !.checked = x] \in Objects /\ [y EXCEPT !.checked = x].checked = x
        BY <3>1, <4>2 DEF Objects
      <4> QED BY <4>1, <4>3
    <3>3. bucket' \in [Id -> Objects] /\ bucket'[i].checked = x /\ \A j \in Id \ {i} : bucket'[j] = bucket[j]
      BY <1>1, <2>5, <3>2
    <3>4. PICK k : k \in ReadyCall /\ Step(q, k) /\ k.seen = c.seen
      <4>1. [c EXCEPT !.at = "saved"] \in ReadyCall /\ Done(c, "error") \in ReadyCall
        BY <2>1, CallEdited
      <4>2. [c EXCEPT !.at = "saved"].seen = c.seen /\ Done(c, "error").seen = c.seen
        BY <2>1 DEF Call, Done
      <4>3. Step(q, [c EXCEPT !.at = "saved"]) \/ Step(q, Done(c, "error"))
        BY <1>3, <1>15 DEF SavePut
      <4> QED BY <4>1, <4>2, <4>3
    <3>5. bucket'[k.seen.id].checked \in Report
      BY <2>2, <3>1, <3>3, <3>4
    <3>6. \A j \in Id : bucket[j].checked \in Report => bucket'[j].checked \in Report
      BY <3>1, <3>3
    <3> QED BY <1>1, <1>15, <3>3, <3>4, <3>5, <3>6, OwnerStep DEF SavePut, db, run, wf
  <2> QED BY <1>3, <1>15, <2>2, <2>3, <2>4, <2>5 DEF SavePut
<1>16. CASE SaveSwitch(q)
  <2>1. c \in ReadyCall /\ c \in Call /\ c.at = "saved" /\ c.seen.id \in Id /\ c.rev \in Rev
    BY <1>4, <1>16 DEF SaveSwitch
  <2>2. PICK x : x = bucket[c.seen.id].checked
    OBVIOUS
  <2>3. x \in Report
    <3>1. req[q] # None
      BY <1>16 DEF SaveSwitch, AtStep
    <3> QED BY <1>3, <2>1, <2>2, <3>1 DEF Typed, Saved
  <2>4. PICK k : k \in ReadyCall /\ k.at # "saved" /\ Step(q, k)
    <3>1. PICK out \in {"saved", "error"} : Step(q, Done(c, out))
      BY <1>3, <1>16 DEF SaveSwitch
    <3> QED BY <1>5, <2>1, <3>1, CallEdited
  <2>5. PICK y : y = [row[c.rev] EXCEPT !.st = x.st, !.key = "checked", !.sum = TRUE, !.kept = x.kept]
    OBVIOUS
  <2>6. y \in Row
    BY <1>2, <2>1, <2>3, <2>5, RowEdited
  <2>7. /\ row' = row \/ row' = [row EXCEPT ![c.rev] = y]
        /\ claims' = claims \/ claims' = [claims EXCEPT ![c.rev] = IF x.kept THEN c.seen.id ELSE @]
    BY <1>3, <1>16, <2>2, <2>5 DEF SaveSwitch
  <2>8. row' \in [Rev -> Row] /\ claims' \in [Rev -> Id \cup {None}]
    BY <1>1, <2>1, <2>6, <2>7
  <2> QED BY <1>1, <1>16, <2>4, <2>8, OwnerStep DEF SaveSwitch, r2, run, wf
<1> QED BY <1>6, <1>7, <1>8, <1>9, <1>10, <1>11, <1>12, <1>13, <1>14, <1>15, <1>16 DEF OwnerNext

LEMMA OtherTypes ==
  ASSUME Typed, (\E r \in Rev : Request(r)) \/ (\E i \in Id : Age(i)) \/ UNCHANGED vars
  PROVE  Typed'
<1>1. CASE \E r \in Rev : Request(r)
  <2>1. row' \in [Rev -> Row]
    <3>1. \A x \in Row : [x EXCEPT !.st = "queued"] \in Row
      BY RowEdited DEF State
    <3> QED BY <1>1, <3>1 DEF Typed, TypeOK, Request
  <2>2. Saved'
    BY <1>1 DEF Typed, Saved, Request, r2
  <2> QED BY <1>1, <2>1, <2>2 DEF Typed, TypeOK, Request, r2, run, wf
<1>2. CASE \E i \in Id : Age(i)
  <2>1. Saved'
    BY <1>2 DEF Typed, Saved, Age, r2
  <2>2. age' \in [Id -> {"new", "stale", "late"}]
    BY <1>2 DEF Typed, TypeOK, Age
  <2> QED BY <1>2, <2>1, <2>2 DEF Typed, TypeOK, Age, r2, db, wf
<1>3. CASE UNCHANGED vars
  BY <1>3 DEF Typed, TypeOK, Saved, vars
<1> QED BY <1>1, <1>2, <1>3


-----------------------------------------------------------------------------
(* The invariant.  An attempt is known once a row has shown it or history has it.   *)
(* It is final once no step of it will dispatch a call but the one it is at, or the   *)
(* callback that was left behind; it is spent once not even that one will.           *)
Known(i) == Current(i) # {} \/ hist[i] # None
Final(i) == at[i] \in {"finish", "catch", "schedule", "ended"} \/ age[i] = "late"
Spent(i) ==
  /\ Final(i) /\ ~In(i, "send1") /\ ~In(i, "send2")
  /\ age[i] = "late" \/ loose[i] \notin {"prepare1", "prepare2"}

(* A count of calls c is that of a row that counts k calls, or lacks the last one,     *)
(* of a finish that was overtaken.  Where it is also a count of usages, the answers     *)
(* are there.                                                                *)
Level(i, c, k) == c = k \/ (Overtaken(i) /\ c + 1 = k)
Near(i, c, k) == c = k \/ (Overtaken(i) /\ Spent(i) /\ c + 1 = k)
Backed(i, c) == \A n \in 1 .. 2 : n <= c => bucket[i].call[n] # None
SoundTok(i, c, k) == c # None => Backed(i, c) /\ Near(i, c, k)

(* No two rows show one attempt, and none shows an archived or rejected one. *)
Unique == \A r, s \in Rev : row[r].id = row[s].id => r = s
Live == \A r \in Rev : hist[row[r].id] = None

(* Nothing is done for an identity before a row shows it. *)
Untouched == \A i \in Id : ~Known(i) => at[i] = "absent" /\ paid[i] = <<>> /\ bucket[i].report = None

(* A call is counted on the row before it is paid for. *)
Calls == \A r \in Rev :
  /\ row[r].calls = 0 => paid[row[r].id] = <<>>
  /\ row[r].calls = 1 => paid[row[r].id] \in {<<>>, <<1>>}

(* Where a callback is says what its attempt has paid for, and has got.  One that was   *)
(* left behind outlives its Workflow's steps, and ends with the Workflow.          *)
Fits(s, p, c) ==
  /\ s \in {"answer1", "verify"} => p = <<1>>
  /\ s \in {"prepare2", "send2"} => p \in {<<1>>, <<1, 2>>}
  /\ s = "answer2" => p = <<1, 2>>
  /\ s \in {"verify", "prepare2", "send2", "answer2", "commit"} => c[1] # None
Tidy(i) ==
  /\ loose[i] # None => at[i] \in {"catch", "schedule", "ended"}
  /\ loose[i] \in Steps => at[i] \in {"catch", "schedule"}
  /\ fin[i] # None => at[i] \in {"finish", "catch"} /\ fin[i].id = i
StageAgrees(i) ==
  /\ \A s \in Steps : In(i, s) => Fits(s, paid[i], bucket[i].call)
  /\ bucket[i].call[2] # None => bucket[i].call[1] # None
  /\ Tidy(i)
Stages == \A i \in Id : StageAgrees(i)

(* The usage in a stored report, and on a row, is that of the calls it counts. *)
Reports == \A i \in Id : bucket[i].report # None =>
  /\ Final(i)
  /\ \A r \in Rev : row[r].id = i => SoundTok(i, bucket[i].report.tok, row[r].calls)
TokSound(r) == \A i \in Id : row[r].id = i /\ row[r].tok # None =>
  /\ Backed(i, row[r].tok)
  /\ row[r].st \in Settled => Level(i, row[r].tok, row[r].calls)
  /\ row[r].st \notin Settled => row[r].tok = 1 /\ row[r].calls \in {1, 2}
Usages == \A r \in Rev : TokSound(r)
Released == \A r \in Rev : row[r].limit = "released" => row[r].st \in Settled /\ row[r].calls = 0
Heads == \A r \in Rev : row[r].key = "checked" => row[r].st \in Settled

Rows == Unique /\ Live /\ Usages /\ Released /\ Heads /\ ClaimsOwned
Attempts == Untouched /\ Calls /\ Stages /\ Reports

(* What finish read still holds when it writes, but for one call at most. *)
SoundFins == {f \in ReadyFinish :
  /\ Known(f.id) /\ Final(f.id)
  /\ \A r \in Rev : row[r].id = f.id =>
       /\ f.at = "objects" => Near(f.id, f.seen.calls, row[r].calls)
       /\ f.at \in {"put", "update"} => SoundTok(f.id, f.report.tok, row[r].calls)}

SoundVisits == {v \in Visit : Known(v.id) /\ (v.at = "caught" => age[v.id] = "late")}

(* What a retry read is still so when it switches, or its switch is refused: a    *)
(* settled row of the same attempt changes only by taking the checked head.        *)
Settling(c) ==
  /\ c.seen.st \in Settled /\ (c.sure \/ c.seen.calls = 0)
  /\ row[c.rev].id = c.seen.id =>
       /\ row[c.rev].st \in Settled
       /\ row[c.rev].key = c.seen.key => row[c.rev] = c.seen /\ VisibleClaims(c.rev) = c.claims
       /\ c.seen.key = "checked" => row[c.rev].key = "checked"
Accepted(t) == Current(t) # {} \/ Archived(t)
SoundCalls == {c \in ReadyCall :
  /\ Known(c.seen.id)
  /\ c.sure => at[c.seen.id] = "ended"
  /\ c.at \in {"put", "switch"} => Settling(c)
  /\ c.at = "switch" => snap[SnapKey(c)] = Snapshot(c)
  /\ c.at \in {"save", "saved"} => c.seen.st \in Settled /\ c.seen.key # "checked"
  /\ c.out = "accepted" => c.t \in Attempt /\ Accepted(c.t)
  /\ c.out = "rejected" => c.t \in Attempt /\ Rejected(c.t)}

Fins == fin \in [Worker -> SoundFins \cup {None}]
Passes == pass \in [Pass -> SoundVisits \cup {None}]
Requests == req \in [Req -> SoundCalls \cup {None}]

IInv == Typed /\ Rows /\ Attempts /\ Fins /\ Passes /\ Requests

-----------------------------------------------------------------------------
(* What no step undoes, of the stores and the Workflows ... *)
Monotone == \A i \in Id :
  /\ hist[i] # None => hist'[i] = hist[i]
  /\ bucket[i].report # None => bucket'[i].report = bucket[i].report
  /\ bucket[i].checked # None => bucket'[i].checked = bucket[i].checked
  /\ \A t \in Attempt : snap[<<i, t>>] # None => snap'[<<i, t>>] = snap[<<i, t>>]
  /\ \A n \in 1 .. 2 : bucket[i].call[n] # None => bucket'[i].call[n] # None
  /\ at[i] = "ended" => at'[i] = "ended"
  /\ at[i] \in {"finish", "catch", "schedule", "ended"} => at'[i] \in {"finish", "catch", "schedule", "ended"}
  /\ age[i] = "late" => age'[i] = "late"
  /\ loose[i] # None => loose'[i] # None
  /\ Spent(i) => Spent(i)'

(* ... and of the rows.  A final attempt counts one call more at most. *)
Counts(i, r) ==
  \/ row'[r].calls = row[r].calls
  \/ ~Spent(i) /\ Spent(i)' /\ Overtaken(i)' /\ row'[r].calls = row[r].calls + 1
Advances == \A r \in Rev :
  /\ row'[r].id # row[r].id => ~Known(row'[r].id) /\ hist'[row[r].id] # None /\ hist'[row[r].id].snap # None
  /\ row'[r].id = row[r].id =>
       /\ \A i \in Id : row[r].id = i /\ Final(i) => Counts(i, r)
       /\ row[r].st \in Settled =>
            /\ row'[r].st \in Settled
            /\ row'[r].key = row[r].key => row'[r] = row[r] /\ claims'[r] = claims[r]
            /\ row'[r].key \in {row[r].key, "checked"}

(* What a step that replaces no attempt may do to a row: nothing, edit an attempt  *)
(* that is not settled, or switch a settled one to its checked head.               *)
Edited(r) ==
  /\ row[r].st \notin Settled /\ row'[r].key # "checked"
  /\ \A i \in Id : row[r].id = i /\ Final(i) => Counts(i, r)
  /\ row'[r].limit = "released" => row'[r].st \in Settled /\ row'[r].calls = 0
  /\ TokSound(r)'
  /\ row'[r].kept => claims'[r] = row[r].id
Headed(r) ==
  /\ row[r].st \in Settled /\ row'[r].st \in Settled /\ row[r].key # "checked" /\ row'[r].key = "checked"
  /\ row'[r].calls = row[r].calls /\ row'[r].tok = row[r].tok /\ row'[r].limit = row[r].limit
  /\ row'[r].kept => claims'[r] = row[r].id
  /\ LET report == bucket[row[r].id].checked IN
       report # None /\ report.st = row'[r].st /\ (report.kept <=> row'[r].kept)
RowStep(r) == \/ row'[r] = row[r] /\ claims'[r] = claims[r]
              \/ row'[r].id = row[r].id /\ (Edited(r) \/ Headed(r))

LEMMA RowsAdvance == (\A r \in Rev : RowStep(r)) => Advances
BY DEF RowStep, Edited, Headed, Advances, Counts

(* Counts stay level with the row, as calls are added and answers stored. *)
LEMMA Overtakes ==
  ASSUME Typed, Monotone, NEW i \in Id, Overtaken(i) PROVE Overtaken(i)'
BY DEF Monotone, Overtaken

LEMMA BackedKept ==
  ASSUME Typed, Monotone, NEW i \in Id, NEW c, Backed(i, c) PROVE Backed(i, c)'
BY DEF Monotone, Backed

LEMMA LevelKept ==
  ASSUME Typed, Monotone, NEW i \in Id, NEW c, NEW k, Level(i, c, k) PROVE Level(i, c, k)'
BY Overtakes DEF Level

LEMMA NearKept ==
  ASSUME Typed, Monotone, NEW i \in Id, NEW r \in Rev, Counts(i, r), NEW c, Near(i, c, row[r].calls)
  PROVE  Near(i, c, row[r].calls)'
<1>1. Spent(i) => Spent(i)'
  BY DEF Monotone
<1>2. CASE row'[r].calls = row[r].calls
  BY <1>1, <1>2, Overtakes DEF Near
<1>3. CASE ~Spent(i) /\ Spent(i)' /\ Overtaken(i)' /\ row'[r].calls = row[r].calls + 1
  BY <1>3 DEF Near
<1> QED BY <1>2, <1>3 DEF Counts

LEMMA SoundTokKept ==
  ASSUME Typed, Monotone, NEW i \in Id, NEW r \in Rev, Counts(i, r), NEW c, SoundTok(i, c, row[r].calls)
  PROVE  SoundTok(i, c, row[r].calls)'
BY NearKept, BackedKept DEF SoundTok

LEMMA RowsKept ==
  ASSUME Typed, Typed', Rows, Monotone, \A r \in Rev : RowStep(r),
         \A r \in Rev : hist'[row[r].id] = hist[row[r].id]
  PROVE  Rows'
<1>1. \A r \in Rev : row'[r].id = row[r].id /\ row[r].id \in Id
  BY DEF RowStep, Typed, TypeOK, Row
<1>2. Unique' /\ Live'
  BY <1>1 DEF Rows, Unique, Live
<1>4. Usages'
  <2> SUFFICES ASSUME NEW r \in Rev PROVE TokSound(r)'
    BY DEF Usages
  <2>1. TokSound(r)
    BY DEF Rows, Usages
  <2>2. ASSUME row'[r].tok = row[r].tok, row'[r].calls = row[r].calls,
               row'[r].st \in Settled <=> row[r].st \in Settled
        PROVE  TokSound(r)'
    <3> SUFFICES ASSUME NEW i \in Id, row'[r].id = i, row'[r].tok # None
                 PROVE  /\ Backed(i, row[r].tok)'
                        /\ row'[r].st \in Settled => Level(i, row[r].tok, row[r].calls)'
                        /\ row'[r].st \notin Settled => row'[r].tok = 1 /\ row'[r].calls \in {1, 2}
      BY DEF TokSound
    <3>1. PICK c, k : c = row[r].tok /\ k = row[r].calls
      OBVIOUS
    <3>2. /\ Backed(i, c)
          /\ row[r].st \in Settled => Level(i, c, k)
          /\ row[r].st \notin Settled => c = 1 /\ k \in {1, 2}
      BY <1>1, <2>1, <2>2, <3>1 DEF TokSound
    <3>3. Backed(i, c)' /\ (row[r].st \in Settled => Level(i, c, k)')
      BY <3>2, BackedKept, LevelKept
    <3> QED BY <2>2, <3>1, <3>2, <3>3 DEF Backed, Level
  <2> QED BY <2>2 DEF RowStep, Edited, Headed
<1>5. Released' /\ Heads'
  BY DEF Rows, Released, Heads, RowStep, Edited, Headed
<1>6. ClaimsOwned'
  <2> SUFFICES ASSUME NEW r \in Rev
               PROVE  /\ row'[r].kept => claims'[r] = row'[r].id
                      /\ row'[r].key = "checked" =>
                           /\ bucket'[row'[r].id].checked # None
                           /\ bucket'[row'[r].id].checked.st = row'[r].st
                           /\ bucket'[row'[r].id].checked.kept = row'[r].kept
    BY DEF ClaimsOwned
  <2>1. row'[r].kept => claims'[r] = row'[r].id
    BY <1>1 DEF Rows, ClaimsOwned, RowStep, Edited, Headed
  <2>2. ASSUME row'[r].key = "checked"
        PROVE  LET report == bucket[row[r].id].checked IN
                 report # None /\ report.st = row'[r].st /\ (report.kept <=> row'[r].kept)
    BY <2>2 DEF Rows, ClaimsOwned, RowStep, Edited, Headed
  <2>3. ASSUME row'[r].key = "checked"
        PROVE  /\ bucket'[row'[r].id].checked # None
               /\ bucket'[row'[r].id].checked.st = row'[r].st
               /\ bucket'[row'[r].id].checked.kept = row'[r].kept
    <3>1. PICK x : x = bucket[row[r].id].checked
      OBVIOUS
    <3>2. bucket'[row'[r].id].checked = x
      BY <1>1, <2>2, <2>3, <3>1 DEF Monotone
    <3>3. x.kept \in BOOLEAN /\ row'[r].kept \in BOOLEAN
      BY <1>1, <2>2, <2>3, <3>1 DEF Typed, TypeOK, Objects, Report, Row
    <3> QED BY <2>2, <2>3, <3>1, <3>2, <3>3
  <2> QED BY <2>1, <2>3
<1> QED BY <1>2, <1>4, <1>5, <1>6 DEF Rows


(* What is known stays known, and a row shows an attempt that was known only if     *)
(* it already did.                                                            *)
LEMMA KnownKept ==
  ASSUME Typed, Monotone, Advances
  PROVE  /\ \A i \in Id : Known(i) => Known(i)'
         /\ \A i \in Id, r \in Rev : Known(i) /\ row'[r].id = i => row[r].id = i
         /\ \A t \in Attempt : Accepted(t) => Accepted(t)'
         /\ \A t \in Attempt : Rejected(t) => Rejected(t)'
<1>1. \A r \in Rev : row[r].id \in Id
  BY DEF Typed, TypeOK, Row
<1>2. \A i \in Id : Known(i) => Known(i)'
  BY <1>1 DEF Known, Current, Monotone, Advances
<1>3. \A i \in Id, r \in Rev : Known(i) /\ row'[r].id = i => row[r].id = i
  BY <1>1 DEF Advances
<1>4. \A t \in Attempt : Archived(t) => Archived(t)'
  BY DEF Archived, Monotone, Id
<1>5. \A t \in Attempt : Accepted(t) => Accepted(t)'
  BY <1>1, <1>4 DEF Accepted, Archived, Current, Monotone, Advances
<1>6. \A t \in Attempt : Rejected(t) => Rejected(t)'
  BY DEF Rejected, Monotone, Id
<1> QED BY <1>2, <1>3, <1>5, <1>6

LEMMA FinalKept ==
  ASSUME Typed, Monotone
  PROVE  \A i \in Id : Final(i) => Final(i)'
BY DEF Monotone, Final

LEMMA FinsSound ==
  ASSUME Typed, Monotone, Advances PROVE SoundFins \subseteq SoundFins'
<1> SUFFICES ASSUME NEW f \in SoundFins PROVE f \in SoundFins'
  OBVIOUS
<1>1. f \in ReadyFinish /\ f.id \in Id /\ Known(f.id) /\ Final(f.id)
  BY DEF SoundFins, ReadyFinish, Finish
<1>2. Known(f.id)' /\ Final(f.id)'
  BY <1>1, KnownKept, FinalKept
<1>3. ASSUME NEW r \in Rev, row'[r].id = f.id
      PROVE  /\ f.at = "objects" => Near(f.id, f.seen.calls, row[r].calls)'
             /\ f.at \in {"put", "update"} => SoundTok(f.id, f.report.tok, row[r].calls)'
  <2>1. PICK i \in Id : i = f.id
    BY <1>1
  <2>2. row[r].id = i
    BY <1>1, <1>3, <2>1, KnownKept
  <2>3. Counts(i, r)
    BY <1>1, <1>3, <2>1, <2>2 DEF Advances
  <2>4. /\ f.at = "objects" => Near(i, f.seen.calls, row[r].calls)
        /\ f.at \in {"put", "update"} => SoundTok(i, f.report.tok, row[r].calls)
    BY <2>1, <2>2 DEF SoundFins
  <2> QED BY <2>1, <2>3, <2>4, NearKept, SoundTokKept
<1> QED BY <1>1, <1>2, <1>3 DEF SoundFins

LEMMA VisitsSound ==
  ASSUME Typed, Monotone, Advances PROVE SoundVisits \subseteq SoundVisits'
<1> SUFFICES ASSUME NEW v \in SoundVisits PROVE v \in SoundVisits'
  OBVIOUS
<1>1. v \in Visit /\ v.id \in Id /\ Known(v.id)
  BY DEF SoundVisits, Visit
<1> QED BY <1>1, KnownKept DEF SoundVisits, Monotone

LEMMA CallsSound ==
  ASSUME Typed, Monotone, Advances PROVE SoundCalls \subseteq SoundCalls'
<1> SUFFICES ASSUME NEW c \in SoundCalls PROVE c \in SoundCalls'
  OBVIOUS
<1>1. /\ c \in ReadyCall /\ c.rev \in Rev /\ c.seen \in Row /\ c.seen.id \in Id /\ Known(c.seen.id)
      /\ c.seen.kept \in BOOLEAN
      /\ c.at \in {"settle", "put", "switch"} => c.t \in Attempt
  BY DEF SoundCalls, ReadyCall, Call, Row, Asking
<1>2. Known(c.seen.id)'
  BY <1>1, KnownKept
<1>3. c.sure => at'[c.seen.id] = "ended"
  BY <1>1 DEF SoundCalls, Monotone
<1>4. ASSUME c.at \in {"put", "switch"} PROVE Settling(c)'
  <2>1. Settling(c)
    BY <1>4 DEF SoundCalls
  <2>2. ASSUME row'[c.rev].id = c.seen.id
        PROVE  /\ row'[c.rev].st \in Settled
               /\ row'[c.rev].key = c.seen.key => row'[c.rev] = c.seen /\ VisibleClaims(c.rev)' = c.claims
               /\ c.seen.key = "checked" => row'[c.rev].key = "checked"
    <3>1. row[c.rev].id = c.seen.id
      BY <1>1, <2>2, KnownKept
    <3>2. /\ row[c.rev].st \in Settled
          /\ row[c.rev].key = c.seen.key => row[c.rev] = c.seen /\ VisibleClaims(c.rev) = c.claims
          /\ c.seen.key = "checked" => row[c.rev].key = "checked"
      BY <2>1, <3>1 DEF Settling
    <3>3. /\ row'[c.rev].st \in Settled
          /\ row'[c.rev].key = row[c.rev].key =>
               row'[c.rev] = row[c.rev] /\ claims'[c.rev] = claims[c.rev]
          /\ row'[c.rev].key \in {row[c.rev].key, "checked"}
      BY <1>1, <2>2, <3>1, <3>2 DEF Advances
    <3>4. ASSUME row'[c.rev].key = c.seen.key
          PROVE  row'[c.rev] = c.seen /\ VisibleClaims(c.rev)' = c.claims
      <4>1. row'[c.rev].key = row[c.rev].key
        BY <3>2, <3>3, <3>4
      <4>2. VisibleClaims(c.rev)' = VisibleClaims(c.rev)
        BY <3>3, <4>1 DEF VisibleClaims
      <4>3. row[c.rev] = c.seen /\ VisibleClaims(c.rev) = c.claims
        BY <3>2, <3>4, <4>1
      <4> QED BY <3>3, <4>1, <4>2, <4>3
    <3> QED BY <3>2, <3>3, <3>4
  <2> QED BY <2>1, <2>2 DEF Settling
<1>5. c.at = "switch" => snap'[SnapKey(c)] = Snapshot(c)
  <2>1. Snapshot(c) \in Copy
    BY <1>1 DEF Snapshot, ReadyCall, Call, Copy
  <2>2. Snapshot(c) # None
    BY NoneAssumption, <2>1
  <2> QED BY <1>1, <2>2 DEF SoundCalls, Monotone, SnapKey
<1>6. c.out = "accepted" => c.t \in Attempt /\ Accepted(c.t)'
  BY KnownKept DEF SoundCalls
<1>7. c.out = "rejected" => c.t \in Attempt /\ Rejected(c.t)'
  BY KnownKept DEF SoundCalls
<1>8. c.at \in {"save", "saved"} => c.seen.st \in Settled /\ c.seen.key # "checked"
  BY DEF SoundCalls
<1> QED BY <1>1, <1>2, <1>3, <1>4, <1>5, <1>6, <1>7, <1>8 DEF SoundCalls


-----------------------------------------------------------------------------
(* What steps of several kinds share.                                         *)
LEMMA RunningRow ==
  ASSUME Typed, Rows, NEW r \in Rev, row[r].st \notin Settled
  PROVE  row[r].key # "checked" /\ row[r].limit # "released" /\ (row[r].kept => claims[r] = row[r].id)
BY DEF Rows, Heads, Released, ClaimsOwned

LEMMA ReportsKept ==
  ASSUME Typed, Untouched, Reports, Monotone, Advances, \A i \in Id : bucket'[i].report = bucket[i].report
  PROVE  Reports'
<1> SUFFICES ASSUME NEW i \in Id, NEW x, x = bucket[i].report, x # None
             PROVE  /\ Final(i)'
                    /\ \A r \in Rev : row'[r].id = i => SoundTok(i, x.tok, row[r].calls)'
  BY DEF Reports
<1>1. Known(i) /\ Final(i)
  BY DEF Untouched, Reports
<1>2. ASSUME NEW r \in Rev, row'[r].id = i PROVE SoundTok(i, x.tok, row[r].calls)'
  <2>1. row[r].id = i
    BY <1>1, <1>2, KnownKept
  <2>2. Counts(i, r) /\ SoundTok(i, x.tok, row[r].calls)
    BY <1>1, <1>2, <2>1 DEF Advances, Reports
  <2> QED BY <2>2, SoundTokKept
<1> QED BY <1>1, <1>2, FinalKept

LEMMA NewFinishSound ==
  ASSUME NEW i \in Id, Known(i)', Final(i)', NEW err \in BOOLEAN, NEW full \in BOOLEAN
  PROVE  NewFinish(i, err, full) \in SoundFins'
<1>1. NewFinish(i, err, full) \in ReadyFinish
  BY DEF NewFinish, Finish, ReadyFinish
<1>2. NewFinish(i, err, full).id = i /\ NewFinish(i, err, full).at = "row"
  BY DEF NewFinish
<1> QED BY <1>1, <1>2 DEF SoundFins

LEMMA BeginSound ==
  ASSUME Fins, SoundFins \subseteq SoundFins', NEW w \in Worker, NEW f \in SoundFins' \cup {None}, Begin(w, f)
  PROVE  Fins'
BY DEF Fins, Begin

LEMMA RequestsKept ==
  ASSUME Typed, Requests, Monotone, Advances, UNCHANGED req PROVE Requests'
BY CallsSound DEF Requests

LEMMA PassesKept ==
  ASSUME Typed, Passes, Monotone, Advances, UNCHANGED pass PROVE Passes'
BY VisitsSound DEF Passes

(* What a row counts is sound when the row is settled late, or edited otherwise. *)
LEMMA TokStays ==
  ASSUME Typed, Rows, NEW r \in Rev, row'[r].id = row[r].id, row'[r].tok = row[r].tok,
         row'[r].calls = row[r].calls, bucket' = bucket, row[r].st \notin Settled,
         row'[r].st \in Settled => age'[row[r].id] = "late"
  PROVE  TokSound(r)'
<1> SUFFICES ASSUME NEW i \in Id, row[r].id = i, NEW c, c = row[r].tok, c # None
             PROVE  /\ Backed(i, c)'
                    /\ row'[r].st \in Settled => Level(i, c, row[r].calls)'
                    /\ row'[r].st \notin Settled => c = 1 /\ row'[r].calls \in {1, 2}
  BY DEF TokSound, Backed, Level
<1>1. Backed(i, c) /\ c = 1 /\ row[r].calls \in {1, 2}
  BY DEF Rows, Usages, TokSound
<1>2. row'[r].st \in Settled => Overtaken(i)'
  BY DEF Overtaken
<1> QED BY <1>1, <1>2 DEF Backed, Level

(* Scheduler passes.                                                         *)
LEMMA PassRows ==
  ASSUME Typed, Rows, Passes, NEW p \in Pass, PassNext(p), NEW r \in Rev
  PROVE  RowStep(r) /\ row'[r].id = row[r].id /\ row'[r].calls = row[r].calls
<1>1. row \in [Rev -> Row] /\ row[r] \in Row
  BY DEF Typed, TypeOK
<1>2. row' = row => RowStep(r) /\ row'[r].id = row[r].id /\ row'[r].calls = row[r].calls
  <2>1. claims' = claims
    BY DEF PassNext, ListRunning, ListQueued, Pause, Admit, Create, Undo, StatusKnown, StatusUnknown, Caught,
           LastResort, Crash, db
  <2> QED BY <2>1 DEF RowStep
<1>3. PICK x : x = row[r]
  OBVIOUS
<1>3a. UNCHANGED <<bucket, age, loose>>
  BY DEF PassNext, ListRunning, ListQueued, Pause, Admit, Create, Undo, StatusKnown, StatusUnknown, Caught,
         LastResort, Crash, r2, run, wf
<1>4. ASSUME NEW i, Release(i), claims' = claims
      PROVE RowStep(r) /\ row'[r].id = row[r].id /\ row'[r].calls = row[r].calls
  <2>1. CASE Unpaid(i, r)
    <3>1. row'[r] = [x EXCEPT !.st = "failed", !.limit = "released", !.tok = 0]
      BY <1>1, <1>3, <1>4, <2>1 DEF Release
    <3>2. x.st = "running" /\ x.calls = 0
      BY <1>3, <2>1 DEF Unpaid, Owns
    <3>3. x.key # "checked" /\ (x.kept => claims[r] = x.id)
      BY <1>3, <3>2, RunningRow DEF Settled
    <3>4. /\ row'[r].id = x.id /\ row'[r].calls = 0 /\ row'[r].key = x.key /\ (row'[r].kept <=> x.kept)
          /\ row'[r].st = "failed" /\ row'[r].tok = 0
      BY <1>1, <1>3, <3>1, <3>2 DEF Row
    <3>5. TokSound(r)'
      BY <3>4 DEF TokSound, Backed, Level, Settled
    <3> QED BY <1>3, <1>4, <3>2, <3>3, <3>4, <3>5 DEF RowStep, Edited, Settled, Counts
  <2>2. CASE ~Unpaid(i, r)
    <3>1. row'[r] = row[r]
      BY <1>4, <2>2 DEF Release
    <3> QED BY <1>4, <3>1 DEF RowStep
  <2> QED BY <2>1, <2>2
<1>5. CASE Pause(p)
  <2>1. CASE Queued(pass[p].id, r)
    <3>1. row'[r] = [x EXCEPT !.st = "paused"] /\ x.st = "queued"
      BY <1>3, <1>5, <2>1 DEF Pause, Queued
    <3>2. x.key # "checked" /\ x.limit # "released" /\ (x.kept => claims[r] = x.id)
      BY <1>3, <3>1, RunningRow DEF Settled
    <3>3. /\ row'[r].id = x.id /\ row'[r].calls = x.calls /\ row'[r].key = x.key /\ (row'[r].kept <=> x.kept)
          /\ row'[r].st = "paused" /\ row'[r].limit = x.limit /\ row'[r].tok = x.tok
      BY <1>1, <1>3, <3>1 DEF Row
    <3>4. TokSound(r)'
      BY <1>3, <1>3a, <3>1, <3>3, TokStays DEF Settled
    <3> QED BY <1>3, <1>5, <3>1, <3>2, <3>3, <3>4 DEF Pause, RowStep, Edited, Settled, Counts
  <2>2. CASE ~Queued(pass[p].id, r)
    BY <1>5, <2>2 DEF Pause, RowStep
  <2> QED BY <2>1, <2>2
<1>6. CASE Admit(p)
  <2>1. CASE Admissible(pass[p].id, r)
    <3>1. row'[r] = [x EXCEPT !.st = "running", !.limit = "held"] /\ x.st = "queued"
      BY <1>3, <1>6, <2>1 DEF Admit, Admissible, Queued
    <3>2. x.key # "checked" /\ x.limit # "released" /\ (x.kept => claims[r] = x.id)
      BY <1>3, <3>1, RunningRow DEF Settled
    <3>3. /\ row'[r].id = x.id /\ row'[r].calls = x.calls /\ row'[r].key = x.key /\ (row'[r].kept <=> x.kept)
          /\ row'[r].st = "running" /\ row'[r].limit = "held" /\ row'[r].tok = x.tok
      BY <1>1, <1>3, <3>1 DEF Row
    <3>4. TokSound(r)'
      BY <1>3, <1>3a, <3>1, <3>3, TokStays DEF Settled
    <3> QED BY <1>3, <1>6, <3>1, <3>2, <3>3, <3>4 DEF Admit, RowStep, Edited, Settled, Counts
  <2>2. CASE ~Admissible(pass[p].id, r)
    BY <1>6, <2>2 DEF Admit, RowStep
  <2> QED BY <2>1, <2>2
<1>7. CASE LastResort(p)
  <2>1. CASE Owns(pass[p].id, r)
    <3>1. row'[r] = [x EXCEPT !.st = "failed"] /\ x.st = "running" /\ x.id = pass[p].id
      BY <1>3, <1>7, <2>1 DEF LastResort, Owns
    <3>2. x.key # "checked" /\ x.limit # "released" /\ (x.kept => claims[r] = x.id)
      BY <1>3, <3>1, RunningRow DEF Settled
    <3>3. /\ row'[r].id = x.id /\ row'[r].calls = x.calls /\ row'[r].key = x.key /\ (row'[r].kept <=> x.kept)
          /\ row'[r].limit = x.limit /\ row'[r].tok = x.tok
      BY <1>1, <1>3, <3>1 DEF Row
    <3>4. age[x.id] = "late"
      BY <1>7, <3>1 DEF LastResort, Passes, SoundVisits
    <3>5. TokSound(r)'
      BY <1>3, <1>3a, <3>1, <3>3, <3>4, TokStays DEF Settled
    <3> QED BY <1>3, <1>7, <3>1, <3>2, <3>3, <3>4, <3>5 DEF LastResort, RowStep, Edited, Settled, Counts
  <2>2. CASE ~Owns(pass[p].id, r)
    BY <1>7, <2>2 DEF LastResort, RowStep
  <2> QED BY <2>1, <2>2
<1>8. CASE Undo(p) \/ StatusUnknown(p) \/ Caught(p)
  BY <1>4, <1>8 DEF Undo, StatusUnknown, Caught
<1>9. CASE (\E k \in Rev : ListRunning(p, k) \/ ListQueued(p, k)) \/ Create(p) \/ StatusKnown(p) \/ Crash(p)
  BY <1>2, <1>9 DEF ListRunning, ListQueued, Create, StatusKnown, Crash, db
<1> QED BY <1>5, <1>6, <1>7, <1>8, <1>9 DEF PassNext


LEMMA PassKeeps ==
  ASSUME IInv, NEW p \in Pass, PassNext(p) PROVE IInv'
<1>1. /\ Typed /\ Rows /\ Attempts /\ Fins /\ Passes /\ Requests
      /\ pass \in [Pass -> SoundVisits \cup {None}] /\ p \in Worker /\ p \notin Id
      /\ at \in [Id -> Stage] /\ fin \in [Worker -> ReadyFinish \cup {None}]
  BY IdAssumption DEF IInv, Passes, Typed, TypeOK, Worker
<1>2. Typed'
  BY <1>1, PassTypes
<1>3. /\ UNCHANGED <<claims, hist, bucket, snap, age, paid, loose, req>>
      /\ UNCHANGED at \/ Create(p)
  BY DEF PassNext, ListRunning, ListQueued, Pause, Admit, Create, Undo, StatusKnown, StatusUnknown, Caught,
         LastResort, Crash, db, r2, run, wf
<1>4. pass[p] # None => pass[p].id \in Id /\ Known(pass[p].id) /\ (pass[p].at = "caught" => age[pass[p].id] = "late")
  BY <1>1 DEF SoundVisits, Visit
<1>5. \A i \in Id : at'[i] = at[i] \/ (at[i] = "absent" /\ at'[i] = "prepare1" /\ Known(i))
  BY <1>1, <1>3, <1>4 DEF Create
<1>6. Monotone
  <2>1. \A i \in Id : Spent(i) => Spent(i)'
    BY <1>3, <1>5 DEF Spent, Final, In
  <2> QED BY <1>3, <1>5, <2>1 DEF Monotone
<1>7. \A r \in Rev : RowStep(r) /\ row'[r].id = row[r].id /\ row'[r].calls = row[r].calls
  BY <1>1, PassRows
<1>8. Advances
  BY <1>7, RowsAdvance
<1>9. Rows'
  <2>1. \A r \in Rev : hist'[row[r].id] = hist[row[r].id]
    BY <1>3
  <2> QED BY <1>1, <1>2, <1>6, <1>7, <2>1, RowsKept
<1>10. SoundFins \subseteq SoundFins' /\ SoundVisits \subseteq SoundVisits'
  BY <1>1, <1>6, <1>8, FinsSound, VisitsSound
<1>11. \A i \in Id : Known(i) => Known(i)'
  BY <1>1, <1>6, <1>8, KnownKept
<1>12. \A i \in Id : Final(i) => Final(i)'
  BY <1>1, <1>6, FinalKept
<1>13. ASSUME NEW i \in Id, Known(i), Final(i) PROVE NewFinish(i, TRUE, FALSE) \in SoundFins'
  BY <1>11, <1>12, <1>13, NewFinishSound
<1> DEFINE Moved == pass' \in [Pass -> SoundVisits' \cup {None}]
           Stays == UNCHANGED fin \/ \E f \in SoundFins' \cup {None} : Begin(p, f)
<1>14. \A i \in Id, stage \in {"admit", "create", "undo", "status", "finish", "caught"} :
         Visits(p, i, stage) /\ Known(i) /\ (stage = "caught" => age[i] = "late") => Moved
  <2> SUFFICES ASSUME NEW i \in Id, NEW stage \in {"admit", "create", "undo", "status", "finish", "caught"},
                      Visits(p, i, stage), Known(i), stage = "caught" => age[i] = "late"
               PROVE  Moved
    OBVIOUS
  <2>1. PICK v : v = [at |-> stage, id |-> i]
    OBVIOUS
  <2>2. v \in SoundVisits
    BY <2>1 DEF SoundVisits, Visit
  <2> QED BY <1>1, <1>10, <2>1, <2>2 DEF Visits
<1>15. Leaves(p) => Moved
  BY <1>1, <1>10 DEF Leaves
<1>16. ASSUME NEW i \in Id, Known(i), Final(i), Begin(p, NewFinish(i, TRUE, FALSE)) PROVE Stays
  BY <1>13, <1>16
<1>17. ASSUME NEW i \in Id, NEW stage \in {"finish", "caught"}, Known(i), FinishIfLate(p, i, stage)
       PROVE  Moved /\ Stays
  <2>1. CASE age[i] = "late"
    <3>1. Final(i)
      BY <2>1 DEF Final
    <3> QED BY <1>14, <1>16, <1>17, <2>1, <3>1 DEF FinishIfLate
  <2>2. CASE age[i] # "late"
    BY <1>15, <1>17, <2>2 DEF FinishIfLate
  <2> QED BY <2>1, <2>2
<1>18. Begin(p, None) => Stays
  OBVIOUS
<1> HIDE DEF Moved, Stays
<1>19. Moved /\ Stays
  <2>1. CASE \E r \in Rev : ListRunning(p, r) \/ ListQueued(p, r)
    <3>1. \A r \in Rev : row[r].id \in Id /\ Known(row[r].id)
      BY <1>1 DEF Typed, TypeOK, Row, Known, Current
    <3> QED BY <1>14, <2>1, <3>1 DEF ListRunning, ListQueued, Stays
  <2>2. CASE Pause(p)
    BY <1>15, <2>2 DEF Pause, Stays
  <2>3. CASE Admit(p)
    BY <1>4, <1>14, <1>15, <2>3 DEF Admit, Stays
  <2>4. CASE Create(p)
    BY <1>4, <1>14, <1>15, <2>4 DEF Create, Stays
  <2>5. CASE Undo(p)
    BY <1>15, <2>5 DEF Undo, Stays
  <2>6. CASE StatusKnown(p)
    <3>1. CASE at[pass[p].id] = "ended"
      <4>1. Final(pass[p].id)
        BY <3>1 DEF Final
      <4> QED BY <1>4, <1>14, <1>16, <2>6, <3>1, <4>1 DEF StatusKnown
    <3>2. CASE at[pass[p].id] # "ended"
      BY <1>4, <1>17, <2>6, <3>2 DEF StatusKnown
    <3> QED BY <3>1, <3>2
  <2>7. CASE StatusUnknown(p)
    BY <1>4, <1>15, <1>17, <2>7 DEF StatusUnknown, Stays
  <2>8. CASE Caught(p)
    <3>1. age[pass[p].id] = "late" => Final(pass[p].id)
      BY DEF Final
    <3> QED BY <1>4, <1>14, <1>15, <1>16, <1>18, <2>8, <3>1 DEF Caught
  <2>9. CASE LastResort(p) \/ Crash(p)
    BY <1>15, <1>18, <2>9 DEF LastResort, Crash
  <2> QED BY <2>1, <2>2, <2>3, <2>4, <2>5, <2>6, <2>7, <2>8, <2>9 DEF PassNext
<1>20. Passes'
  BY <1>19 DEF Moved, Passes
<1>21. Fins' /\ \A i \in Id : fin'[i] = fin[i]
  <2>1. CASE UNCHANGED fin
    BY <1>1, <1>10, <2>1 DEF Fins
  <2>2. CASE \E f \in SoundFins' \cup {None} : Begin(p, f)
    BY <1>1, <1>10, <2>2, BeginSound DEF Begin, Worker
  <2> QED BY <1>19, <2>1, <2>2 DEF Stays
<1>22. Requests'
  BY <1>1, <1>3, <1>6, <1>8, RequestsKept
<1>23. Untouched'
  BY <1>1, <1>3, <1>5, <1>11 DEF Attempts, Untouched
<1>24. Calls'
  BY <1>1, <1>3, <1>7 DEF Attempts, Calls
<1>25. Stages'
  <2> SUFFICES ASSUME NEW i \in Id PROVE StageAgrees(i)'
    BY DEF Stages
  <2>1. StageAgrees(i)
    BY <1>1 DEF Attempts, Stages
  <2>2. fin'[i] = fin[i]
    BY <1>21
  <2>3. CASE at'[i] = at[i]
    BY <1>3, <2>1, <2>2, <2>3 DEF StageAgrees, Tidy, In
  <2>4. CASE at[i] = "absent" /\ at'[i] = "prepare1"
    <3>1. loose[i] = None /\ loose'[i] = None /\ fin'[i] = None
      BY <1>3, <2>1, <2>2, <2>4 DEF StageAgrees, Tidy
    <3>2. \A s \in Steps : In(i, s)' => s = "prepare1"
      BY <2>4, <3>1, NoneAssumption DEF In
    <3> QED BY <1>3, <2>1, <3>1, <3>2, NoneAssumption DEF StageAgrees, Tidy, Fits
  <2> QED BY <1>5, <2>3, <2>4
<1>26. Reports'
  BY <1>1, <1>3, <1>6, <1>8, ReportsKept DEF Attempts
<1> QED BY <1>2, <1>9, <1>20, <1>21, <1>22, <1>23, <1>24, <1>25, <1>26 DEF IInv, Attempts


(* finish.                                                                     *)
LEMMA FinishRows ==
  ASSUME Typed, Rows, Fins, NEW w \in Worker, UpdateRow(w), NEW r \in Rev
  PROVE  RowStep(r) /\ row'[r].id = row[r].id /\ row'[r].calls = row[r].calls
<1>1. row \in [Rev -> Row] /\ row[r] \in Row
  BY DEF Typed, TypeOK
<1>2. PICK x : x = row[r]
  OBVIOUS
<1>3. PICK f : f = fin[w]
  OBVIOUS
<1>4. f \in SoundFins /\ f \in ReadyFinish /\ f.at = "update"
  BY <1>3 DEF UpdateRow, Finishing, Fins, SoundFins
<1>5. f.report \in Report /\ f.report.st \in Settled
  BY <1>4 DEF ReadyFinish, Report
<1>6. claims' = claims
  BY DEF UpdateRow
<1>7. CASE Owns(f.id, r)
  <2>1. PICK k : k = OwnKey(f.id)
    OBVIOUS
  <2>2. k # "checked"
    BY <2>1, NoneAssumption DEF OwnKey
  <2>3. row'[r] = [x EXCEPT !.st = f.report.st, !.tok = f.report.tok, !.key = k]
    BY <1>1, <1>2, <1>3, <1>7, <2>1 DEF UpdateRow
  <2>4. x.st = "running" /\ x.id = f.id
    BY <1>2, <1>7 DEF Owns
  <2>5. x.key # "checked" /\ x.limit # "released" /\ (x.kept => claims[r] = x.id)
    BY <1>2, <2>4, RunningRow DEF Settled
  <2>6. /\ row'[r].id = x.id /\ row'[r].calls = x.calls /\ row'[r].key = k /\ (row'[r].kept <=> x.kept)
        /\ row'[r].limit = x.limit /\ row'[r].tok = f.report.tok
    BY <1>1, <1>2, <2>3 DEF Row
  <2>7. TokSound(r)'
    <3> SUFFICES ASSUME NEW i \in Id, x.id = i, NEW c, c = f.report.tok, c # None
                 PROVE  Backed(i, c)' /\ Level(i, c, x.calls)'
      BY <1>2, <1>5, <2>3, <2>6, <1>1 DEF TokSound, Backed, Level, Row
    <3>1. SoundTok(i, c, x.calls)
      BY <1>2, <1>4, <2>4 DEF SoundFins
    <3>2. Backed(i, c) /\ Level(i, c, x.calls)
      BY <3>1 DEF SoundTok, Near, Level
    <3>3. UNCHANGED <<bucket, age>>
      BY DEF UpdateRow, r2, run
    <3>4. Overtaken(i) => Overtaken(i)'
      BY <3>3, NoneAssumption DEF UpdateRow, Returns, Overtaken, wf, Typed, TypeOK
    <3> QED BY <3>2, <3>3, <3>4 DEF Backed, Level
  <2> QED BY <1>2, <1>5, <1>6, <2>2, <2>4, <2>5, <2>6, <2>7 DEF RowStep, Edited, Settled, Counts
<1>8. CASE ~Owns(f.id, r)
  BY <1>3, <1>6, <1>8 DEF UpdateRow, RowStep
<1> QED BY <1>7, <1>8

(* The usage finish records is that of stored answers, of as many as the row it read   *)
(* counts.                                                                   *)
LEMMA UsageBacked ==
  ASSUME NEW i \in Id, NEW n \in 0 .. 2, bucket[i].call[2] # None => bucket[i].call[1] # None,
         Usage(i, n) # None
  PROVE  Usage(i, n) = n /\ Backed(i, n)
<1> DEFINE S == {k \in 1 .. 2 : bucket[i].call[k] # None}
<1>1. Cardinality(S) = n /\ Usage(i, n) = n
  BY DEF Usage
<1>2. CASE bucket[i].call[1] = None
  <2>1. S = {}
    BY <1>2
  <2> QED BY <1>1, <2>1, FS_EmptySet DEF Backed
<1>3. CASE bucket[i].call[1] # None /\ bucket[i].call[2] = None
  <2>1. S = {1}
    BY <1>3
  <2>2. Cardinality(S) = 1
    BY <2>1, FS_Singleton
  <2> QED BY <1>1, <1>3, <2>2 DEF Backed
<1>4. CASE bucket[i].call[1] # None /\ bucket[i].call[2] # None
  BY <1>1, <1>4 DEF Backed
<1> QED BY <1>2, <1>3, <1>4

(* What finish goes on with is true of the row as it stands. *)
LEMMA FinishGoesOn ==
  ASSUME IInv, NEW w \in Worker, ReadRow(w) \/ ReadObjects(w) \/ PutReport(w),
         SoundFins \subseteq SoundFins'
  PROVE  \/ Returns(w) /\ UNCHANGED bucket
         \/ \E f \in SoundFins' : Begin(w, f) /\ UNCHANGED <<at, loose, pass>> /\ f.id = fin[w].id /\ fin[w] # None
<1>1. Typed /\ Rows /\ Attempts /\ row \in [Rev -> Row] /\ bucket \in [Id -> Objects]
  BY DEF IInv, Typed, TypeOK
<1>2. row' = row /\ hist' = hist /\ age' = age
  BY DEF ReadRow, ReadObjects, PutReport, db, run, wf
<1>3. PICK f : f = fin[w]
  OBVIOUS
<1>4. f # None /\ f \in SoundFins /\ f \in ReadyFinish /\ f \in Finish /\ f.id \in Id
  BY <1>3 DEF IInv, Fins, SoundFins, ReadRow, ReadObjects, PutReport, Finishing, ReadyFinish, Finish
<1>5. CASE ReadRow(w)
  <2>1. CASE Returns(w)
    BY <1>5, <2>1 DEF ReadRow, r2
  <2>2. CASE ~Returns(w)
    <3>1. PICK r \in Rev : Owns(f.id, r) /\ Begin(w, [f EXCEPT !.at = "objects", !.seen = row[r]])
      BY <1>3, <1>5, <2>2 DEF ReadRow
    <3>2. PICK x : x = row[r]
      OBVIOUS
    <3>3. PICK g : g = [f EXCEPT !.at = "objects", !.seen = x]
      OBVIOUS
    <3>4. x \in Row /\ x.id = f.id
      BY <1>1, <3>1, <3>2 DEF Owns
    <3>5. g \in Finish /\ g.at = "objects" /\ g.seen = x /\ g.id = f.id
      BY <1>4, <3>3, <3>4 DEF Finish
    <3>6. g \in ReadyFinish
      BY <3>4, <3>5 DEF ReadyFinish
    <3>7. \A s \in Rev : row[s].id = g.id => row[s].calls = g.seen.calls
      BY <1>1, <3>1, <3>2, <3>5 DEF Rows, Unique, Owns
    <3>8. g \in SoundFins
      BY <1>4, <3>5, <3>6, <3>7 DEF SoundFins, Near
    <3>9. UNCHANGED <<at, loose, pass>>
      BY <1>5, <2>2 DEF ReadRow, wf
    <3> QED BY <1>3, <1>4, <3>1, <3>2, <3>3, <3>5, <3>8, <3>9
  <2> QED BY <2>1, <2>2
<1>6. CASE ReadObjects(w)
  <2>1. f.at = "objects" /\ f.seen \in Row /\ f.seen.calls \in 0 .. 2
    BY <1>3, <1>4, <1>6 DEF ReadObjects, Finishing, ReadyFinish, Row
  <2>2. PICK y : y = bucket[f.id].report
    OBVIOUS
  <2>3. y \in Report \cup {None}
    BY <1>1, <1>4, <2>2 DEF Objects
  <2>4. PICK z : z = [st |-> FinalState(f), kept |-> f.seen.kept, calls |-> f.seen.calls,
                      tok |-> Usage(f.id, f.seen.calls)]
    OBVIOUS
  <2>5. z \in Report /\ (z.tok # None => z.tok = f.seen.calls /\ Backed(f.id, z.tok))
    <3>1. z \in Report
      BY <1>1, <1>3, <1>6, <2>4, ReportTypes DEF ReadObjects, wf
    <3>2. bucket[f.id].call[2] # None => bucket[f.id].call[1] # None
      BY <1>1, <1>4 DEF Attempts, Stages, StageAgrees
    <3>3. PICK t : t = Usage(f.id, f.seen.calls)
      OBVIOUS
    <3>4. t # None => t = f.seen.calls /\ Backed(f.id, t)
      BY <1>4, <2>1, <3>2, <3>3, UsageBacked
    <3> QED BY <2>4, <3>1, <3>3, <3>4
  <2>6. ASSUME NEW x \in Report, NEW stage \in {"put", "update"},
               \A r \in Rev : row[r].id = f.id => SoundTok(f.id, x.tok, row[r].calls)
        PROVE  [f EXCEPT !.at = stage, !.report = x] \in SoundFins /\ [f EXCEPT !.at = stage, !.report = x].id = f.id
    <3>1. PICK g : g = [f EXCEPT !.at = stage, !.report = x]
      OBVIOUS
    <3>2. g \in Finish /\ g.at = stage /\ g.report = x /\ g.id = f.id
      BY <1>4, <3>1 DEF Finish
    <3>3. g \in ReadyFinish
      BY <3>2 DEF ReadyFinish
    <3>4. g \in SoundFins
      BY <1>4, <2>6, <3>2, <3>3 DEF SoundFins
    <3> QED BY <3>1, <3>2, <3>4
  <2>7. CASE y # None
    <3>1. Begin(w, [f EXCEPT !.at = "update", !.report = y])
      BY <1>3, <1>6, <2>2, <2>7 DEF ReadObjects, wf
    <3>2. \A r \in Rev : row[r].id = f.id => SoundTok(f.id, y.tok, row[r].calls)
      BY <1>1, <1>4, <2>2, <2>7 DEF Attempts, Reports
    <3>3. PICK g : g = [f EXCEPT !.at = "update", !.report = y]
      OBVIOUS
    <3>4. g \in SoundFins /\ g.id = f.id
      BY <2>3, <2>6, <2>7, <3>2, <3>3
    <3> QED BY <1>3, <1>4, <1>6, <3>1, <3>3, <3>4 DEF ReadObjects, wf
  <2>8. CASE y = None
    <3>1. Begin(w, [f EXCEPT !.at = "put", !.report = z])
      BY <1>3, <1>6, <2>2, <2>4, <2>8 DEF ReadObjects, wf
    <3>2. \A r \in Rev : row[r].id = f.id => SoundTok(f.id, z.tok, row[r].calls)
      BY <1>4, <2>1, <2>5 DEF SoundFins, SoundTok
    <3>3. PICK g : g = [f EXCEPT !.at = "put", !.report = z]
      OBVIOUS
    <3>4. g \in SoundFins /\ g.id = f.id
      BY <2>5, <2>6, <3>2, <3>3
    <3> QED BY <1>3, <1>4, <1>6, <3>1, <3>3, <3>4 DEF ReadObjects, wf
  <2> QED BY <2>7, <2>8
<1>7. CASE PutReport(w)
  <2>1. PICK g : g = [f EXCEPT !.at = "update"]
    OBVIOUS
  <2>2. f.at = "put" /\ f.report \in Report
    BY <1>3, <1>4, <1>7 DEF PutReport, Finishing, ReadyFinish
  <2>3. g \in Finish /\ g.at = "update" /\ g.report = f.report /\ g.id = f.id
    BY <1>4, <2>1 DEF Finish
  <2>4. g \in ReadyFinish
    BY <2>2, <2>3 DEF ReadyFinish
  <2>5. g \in SoundFins
    BY <1>4, <2>2, <2>3, <2>4 DEF SoundFins
  <2> QED BY <1>3, <1>4, <1>7, <2>1, <2>3, <2>5 DEF PutReport, wf
<1> QED BY <1>5, <1>6, <1>7


LEMMA FinishKeeps ==
  ASSUME IInv, NEW w \in Worker, FinishNext(w) PROVE IInv'
<1>1. /\ Typed /\ Rows /\ Attempts /\ Fins /\ Passes /\ Requests
      /\ pass \in [Pass -> SoundVisits \cup {None}] /\ at \in [Id -> Stage]
      /\ fin \in [Worker -> ReadyFinish \cup {None}] /\ bucket \in [Id -> Objects]
  BY DEF IInv, Passes, Typed, TypeOK
<1>2. Typed'
  BY <1>1, FinishTypes
<1>3. UNCHANGED <<claims, hist, snap, age, paid, req>>
  BY DEF FinishNext, ReadRow, ReadObjects, PutReport, UpdateRow, db, r2, run, wf
<1>4. PICK f : f = fin[w]
  OBVIOUS
<1>5. /\ f # None /\ f \in SoundFins /\ f \in ReadyFinish /\ f.id \in Id /\ Known(f.id) /\ Final(f.id)
      /\ f.at \in {"put", "update"} => f.report \in Report /\ f.report # None
      /\ w \in Id => f.id = w /\ at[w] \in {"finish", "catch"}
  <2>1. f # None
    BY <1>4 DEF FinishNext, ReadRow, ReadObjects, PutReport, UpdateRow, Finishing
  <2>2. f \in SoundFins
    BY <1>1, <1>4, <2>1 DEF Fins
  <2>3. f \in ReadyFinish /\ f.id \in Id /\ Known(f.id) /\ Final(f.id)
    BY <2>2 DEF SoundFins, ReadyFinish, Finish
  <2>4. f.at \in {"put", "update"} => f.report \in Report /\ f.report # None
    BY <2>3, NoneAssumption DEF ReadyFinish
  <2>5. w \in Id => f.id = w /\ at[w] \in {"finish", "catch"}
    BY <1>1, <1>4, <2>1 DEF Attempts, Stages, StageAgrees, Tidy
  <2> QED BY <2>1, <2>2, <2>3, <2>4, <2>5
<1>6. ReadRow(w) \/ ReadObjects(w) \/ PutReport(w) => row' = row
  BY DEF ReadRow, ReadObjects, PutReport, db
<1>7. \A r \in Rev : RowStep(r) /\ row'[r].id = row[r].id /\ row'[r].calls = row[r].calls
  BY <1>1, <1>3, <1>6, FinishRows DEF FinishNext, RowStep
<1>8. /\ \A i \in Id : bucket'[i].checked = bucket[i].checked
      /\ \A i \in Id : bucket'[i].report = bucket[i].report \/ (i = f.id /\ PutReport(w) /\ bucket'[i].report = f.report)
      /\ \A i \in Id : bucket[i].report # None => bucket'[i].report = bucket[i].report
  <2>1. CASE PutReport(w)
    <3>1. bucket[f.id].report \in {None, f.report} /\ bucket' = [bucket EXCEPT ![f.id].report = f.report]
      BY <1>4, <2>1 DEF PutReport
    <3> QED BY <1>1, <1>5, <2>1, <3>1 DEF Objects
  <2>2. CASE ~PutReport(w)
    BY <2>2 DEF FinishNext, ReadRow, ReadObjects, UpdateRow, r2
  <2> QED BY <2>1, <2>2
<1>9. \A i \in Id : \/ at'[i] = at[i] /\ loose'[i] = loose[i]
                   \/ /\ i = w /\ at'[i] = "schedule" /\ fin'[i] = None
                      /\ loose'[i] = loose[i] /\ fin[i] # None
  <2>1. Returns(w) \/ UNCHANGED wf
    BY DEF FinishNext, ReadRow, ReadObjects, PutReport, UpdateRow, wf
  <2>2. Returns(w) => fin'[w] = None
    BY <1>1 DEF Returns, Begin
  <2>3. fin[w] # None
    BY DEF FinishNext, ReadRow, ReadObjects, PutReport, UpdateRow, Finishing
  <2> QED BY <1>1, <2>1, <2>2, <2>3 DEF Returns, wf
<1>10. Monotone
  <2>1. \A i \in Id : Spent(i) => Spent(i)'
    BY <1>3, <1>9, NoneAssumption DEF Spent, Final, In
  <2>2. \A i \in Id, n \in 1 .. 2 : bucket'[i].call[n] = bucket[i].call[n]
    <3>1. CASE PutReport(w)
      BY <1>1, <1>4, <1>5, <3>1 DEF PutReport, Objects
    <3>2. CASE ~PutReport(w)
      BY <3>2 DEF FinishNext, ReadRow, ReadObjects, UpdateRow, r2
    <3> QED BY <3>1, <3>2
  <2> QED BY <1>3, <1>5, <1>8, <1>9, <2>1, <2>2, NoneAssumption DEF Monotone
<1>11. Advances
  BY <1>7, RowsAdvance
<1>12. Rows'
  <2>1. \A r \in Rev : hist'[row[r].id] = hist[row[r].id]
    BY <1>3
  <2> QED BY <1>1, <1>2, <1>7, <1>10, <2>1, RowsKept
<1>13. SoundFins \subseteq SoundFins' /\ SoundVisits \subseteq SoundVisits'
  BY <1>1, <1>10, <1>11, FinsSound, VisitsSound
<1>14. \A i \in Id : Known(i) => Known(i)'
  BY <1>1, <1>10, <1>11, KnownKept
<1>15. \A i \in Id : Final(i) => Final(i)'
  BY <1>1, <1>10, FinalKept
<1>16. \/ Returns(w)
       \/ \E g \in SoundFins' : Begin(w, g) /\ UNCHANGED <<at, loose, pass>> /\ g.id = f.id
  BY <1>4, <1>13, FinishGoesOn DEF FinishNext, UpdateRow
<1>17. Fins'
  BY <1>1, <1>13, <1>16, BeginSound DEF Returns
<1>18. Passes'
  <2>1. pass' = pass \/ (w \in Pass /\ Leaves(w))
    BY <1>16 DEF Returns, Worker
  <2> QED BY <1>1, <1>13, <2>1 DEF Leaves, Passes
<1>19. Requests'
  BY <1>1, <1>3, <1>10, <1>11, RequestsKept
<1>20. Untouched'
  <2> SUFFICES ASSUME NEW i \in Id, ~Known(i)'
               PROVE  at'[i] = "absent" /\ paid'[i] = <<>> /\ bucket'[i].report = None
    BY DEF Untouched
  <2>1. ~Known(i) /\ i # f.id
    BY <1>5, <1>14
  <2>2. i # w
    BY <1>5, <2>1
  <2>3. at[i] = "absent" /\ paid[i] = <<>> /\ bucket[i].report = None
    BY <1>1, <2>1 DEF Attempts, Untouched
  <2> QED BY <1>3, <1>8, <1>9, <2>1, <2>2, <2>3
<1>21. Calls'
  BY <1>1, <1>3, <1>7 DEF Attempts, Calls
<1>22. Stages'
  <2> SUFFICES ASSUME NEW i \in Id PROVE StageAgrees(i)'
    BY DEF Stages
  <2>1. StageAgrees(i)
    BY <1>1 DEF Attempts, Stages
  <2>2. bucket'[i].call = bucket[i].call
    <3>1. CASE PutReport(w)
      BY <1>1, <1>4, <1>5, <3>1 DEF PutReport, Objects
    <3>2. CASE ~PutReport(w)
      BY <3>2 DEF FinishNext, ReadRow, ReadObjects, UpdateRow, r2
    <3> QED BY <3>1, <3>2
  <2>3. \A s \in Steps : In(i, s)' => In(i, s)
    BY <1>9, NoneAssumption DEF In, Steps
  <2>4. fin'[i] # None => at'[i] \in {"finish", "catch"} /\ fin'[i].id = i
    <3>1. i \in Worker
      BY DEF Worker
    <3>2. CASE i # w
      <4>1. fin'[i] = fin[i]
        BY <1>1, <1>16, <3>1, <3>2 DEF Returns, Begin
      <4> QED BY <1>9, <2>1, <3>2, <4>1 DEF StageAgrees, Tidy
    <3>3. CASE i = w
      <4>1. CASE Returns(w)
        BY <1>1, <3>1, <3>3, <4>1 DEF Returns, Begin
      <4>2. ASSUME NEW g \in SoundFins', Begin(w, g), UNCHANGED at, g.id = f.id
            PROVE  at'[i] \in {"finish", "catch"} /\ fin'[i].id = i
        BY <1>1, <1>5, <3>1, <3>3, <4>2 DEF Begin
      <4> QED BY <1>16, <4>1, <4>2
    <3> QED BY <3>2, <3>3
  <2>5. Tidy(i)'
    BY <1>9, <2>1, <2>4, NoneAssumption DEF StageAgrees, Tidy, Steps
  <2> QED BY <1>3, <2>1, <2>2, <2>3, <2>5 DEF StageAgrees
<1>23. Reports'
  <2>1. CASE ~PutReport(w)
    BY <1>1, <1>8, <1>10, <1>11, <2>1, ReportsKept DEF Attempts
  <2>2. CASE PutReport(w)
    <3>1. row' = row /\ age' = age /\ f.at = "put"
      BY <1>3, <1>4, <1>6, <2>2 DEF PutReport, Finishing
    <3>2. \A r \in Rev : row[r].id = f.id => SoundTok(f.id, f.report.tok, row[r].calls)
      BY <1>5, <3>1 DEF SoundFins
    <3> SUFFICES ASSUME NEW i \in Id, NEW x, x = bucket'[i].report, x # None
                 PROVE  /\ Final(i)'
                        /\ \A r \in Rev : row[r].id = i => SoundTok(i, x.tok, row[r].calls)'
      BY <3>1 DEF Reports
    <3>3. /\ Final(i) 
          /\ \A r \in Rev : row[r].id = i => SoundTok(i, x.tok, row[r].calls)
      BY <1>1, <1>5, <1>8, <3>2 DEF Attempts, Reports
    <3> QED BY <1>1, <1>7, <1>10, <1>15, <3>3, SoundTokKept DEF Counts
  <2> QED BY <2>1, <2>2
<1> QED BY <1>2, <1>12, <1>17, <1>18, <1>19, <1>20, <1>21, <1>22, <1>23 DEF IInv, Attempts


(* The Workflow of an attempt, and the callback it left behind.  Whichever moves, no     *)
(* callback of the attempt is at a step but at the one it moved to.                    *)
Moved(i, s) ==
  /\ at[i] \notin {"absent", "ended"}
  /\ at[i] \in {"finish", "catch", "schedule"} => at'[i] \in {"finish", "catch", "schedule", "ended"}
  /\ loose[i] # None => loose'[i] # None
  /\ \A u \in Steps : In(i, u)' => u = s
  /\ \A j \in Id \ {i} : at'[j] = at[j] /\ loose'[j] = loose[j]
  /\ \A w \in Worker \ {i} : fin'[w] = fin[w]
  /\ Tidy(i)'
Places == /\ at \in [Id -> Stage] /\ loose \in [Id -> Steps \cup {None, "over"}]
          /\ fin \in [Worker -> ReadyFinish \cup {None}]

LEMMA AtStage ==
  ASSUME Places, NEW i \in Id, Tidy(i), NEW u \in Steps, In(i, u)
  PROVE  /\ Awaited(i) => at[i] = u /\ loose[i] = None /\ fin[i] = None
         /\ ~Awaited(i) => at[i] \in {"catch", "schedule"} /\ loose[i] = u
         /\ u # None
<1>1. u # None
  BY NoneAssumption
<1> QED BY <1>1 DEF Places, Tidy, In, Awaited, Steps

LEMMA Relocates ==
  ASSUME Places, NEW i \in Id
  PROVE  /\ \A s : Goes(i, s) => at'[i] = s /\ \A j \in Id \ {i} : at'[j] = at[j]
         /\ \A s : Strays(i, s) => loose'[i] = s /\ \A j \in Id \ {i} : loose'[j] = loose[j]
         /\ \A f : Begin(i, f) => fin'[i] = f /\ \A w \in Worker \ {i} : fin'[w] = fin[w]
BY DEF Places, Goes, Strays, Begin, Worker

LEMMA MovesOn ==
  ASSUME Places, NEW i \in Id, Tidy(i), NEW u \in Steps, In(i, u), NEW s \in Steps, Moves(i, s), UNCHANGED fin
  PROVE  Moved(i, s)
<1>1. s # None /\ i \in Worker
  BY NoneAssumption DEF Worker
<1>2. CASE Awaited(i)
  <2>1. at'[i] = s /\ loose' = loose /\ \A j \in Id \ {i} : at'[j] = at[j]
    BY <1>2, Relocates DEF Moves
  <2> QED BY <1>1, <1>2, <2>1, AtStage, NoneAssumption DEF Moved, Tidy, In, Steps
<1>3. CASE ~Awaited(i)
  <2>1. loose'[i] = s /\ at' = at /\ \A j \in Id \ {i} : loose'[j] = loose[j]
    BY <1>3, Relocates DEF Moves
  <2> QED BY <1>1, <1>3, <2>1, AtStage DEF Moved, Tidy, In, Steps
<1> QED BY <1>2, <1>3

LEMMA ResolvesOn ==
  ASSUME Places, NEW i \in Id, Tidy(i), NEW u \in Steps, In(i, u), NEW s \in Steps, Resolves(i, s), UNCHANGED fin
  PROVE  Moved(i, IF Awaited(i) THEN s ELSE "over")
<1>1. CASE Awaited(i)
  <2>1. Moves(i, s)
    BY <1>1 DEF Resolves, Moves
  <2> QED BY <1>1, <2>1, MovesOn
<1>2. CASE ~Awaited(i)
  <2>1. loose'[i] = "over" /\ at' = at /\ \A j \in Id \ {i} : loose'[j] = loose[j]
    BY <1>2, Relocates DEF Resolves
  <2> QED BY <1>2, <2>1, AtStage, NoneAssumption DEF Moved, Tidy, In, Steps, Worker
<1> QED BY <1>1, <1>2

(* The catch begins with a finish of its own. *)
LEMMA CatchOn ==
  ASSUME Places, NEW i \in Id, at[i] \notin {"absent", "ended"}, ToCatch(i), NEW s \in Steps \cup {None, "over"},
         loose'[i] = s, loose[i] # None => s # None, \A j \in Id \ {i} : loose'[j] = loose[j]
  PROVE  Moved(i, s)
<1>1. at'[i] = "catch" /\ \A j \in Id \ {i} : at'[j] = at[j]
  BY Relocates DEF ToCatch
<1>2. fin'[i] = NewFinish(i, TRUE, FALSE) /\ \A w \in Worker \ {i} : fin'[w] = fin[w]
  BY Relocates DEF ToCatch
<1>3. fin'[i].id = i
  BY <1>2 DEF NewFinish
<1> QED BY <1>1, <1>2, <1>3 DEF Moved, Tidy, In, Steps

LEMMA ThrowsOn ==
  ASSUME Places, NEW i \in Id, Tidy(i), NEW u \in Steps, In(i, u), Throws(i) PROVE Moved(i, "over")
<1>1. CASE Awaited(i)
  <2>1. Moved(i, None)
    BY <1>1, AtStage, CatchOn DEF Throws, Awaited, Steps
  <2> QED BY <2>1, NoneAssumption DEF Moved
<1>2. CASE ~Awaited(i)
  <2>1. loose'[i] = "over" /\ at' = at /\ fin' = fin /\ \A j \in Id \ {i} : loose'[j] = loose[j]
    BY <1>2, Relocates DEF Throws
  <2> QED BY <1>2, <2>1, AtStage, NoneAssumption DEF Moved, Tidy, In, Steps, Worker
<1> QED BY <1>1, <1>2

(* Where a callback lands agrees with what was paid and stored; one that is spent is    *)
(* not brought back.                                                         *)
Fitting(i, s) ==
  /\ s \in Steps => Fits(s, paid'[i], bucket'[i].call)
  /\ bucket'[i].call[2] # None => bucket'[i].call[1] # None
Resting(i, s) == Spent(i) =>
  /\ s \notin {"send1", "send2"}
  /\ s \in {"prepare1", "prepare2"} => age[i] = "late"

LEMMA Landed ==
  ASSUME NEW i \in Id, NEW s, Moved(i, s), age' = age
  PROVE  /\ Fitting(i, s) => StageAgrees(i)'
         /\ Resting(i, s) => (Spent(i) => Spent(i)')
<1>1. Fitting(i, s) => StageAgrees(i)'
  BY DEF Moved, Fitting, StageAgrees
<1>2. ASSUME Resting(i, s), Spent(i) PROVE Spent(i)'
  <2>1. Final(i)'
    BY <1>2 DEF Moved, Spent, Final
  <2>2. ~In(i, "send1")' /\ ~In(i, "send2")'
    BY <1>2 DEF Moved, Resting, Steps
  <2>3. age'[i] = "late" \/ loose'[i] \notin {"prepare1", "prepare2"}
    BY <1>2 DEF Moved, Resting, In, Steps
  <2> QED BY <2>1, <2>2, <2>3 DEF Spent
<1> QED BY <1>1, <1>2

LEMMA CallsDiffer == <<>> # <<1>> /\ <<>> # <<1, 2>> /\ <<1>> # <<1, 2>>
<1>1. Len(<<>>) = 0 /\ Len(<<1>>) = 1 /\ Len(<<1, 2>>) = 2
  OBVIOUS
<1> QED BY <1>1

(* What the invariant says of one attempt. *)
LEMMA Placed ==
  ASSUME Typed, Attempts, NEW i \in Id
  PROVE  /\ Places /\ StageAgrees(i) /\ Tidy(i) /\ i \in Worker
         /\ \A s \in Steps : In(i, s) => Fits(s, paid[i], bucket[i].call)
         /\ bucket[i].call[2] # None => bucket[i].call[1] # None
         /\ paid \in [Id -> {<<>>, << 1 >>, <<1, 2>>}] /\ bucket \in [Id -> Objects]
BY DEF Typed, TypeOK, Attempts, Stages, StageAgrees, Places, Worker

(* A dispatch pays the call its row counts, which was not paid before. *)
LEMMA SendPays ==
  ASSUME Typed, Rows, Attempts, NEW i \in Id, NEW n \in 1 .. 2, Send(i, n), NEW r \in Rev, CanSend(i, n, r)
  PROVE  /\ n = 1 => paid[i] = <<>>
         /\ n = 2 => paid[i] = << 1 >>
<1>1. row[r].id = i /\ row[r].calls = n - 1
  BY DEF CanSend, Owns
<1>2. CASE n = 1
  BY <1>1, <1>2 DEF Attempts, Calls
<1>3. CASE n = 2
  <2>1. In(i, "send2")
    BY <1>3, StepNames DEF Send
  <2>2. paid[i] \in {<<1>>, <<1, 2>>}
    BY <2>1, Placed DEF Fits, Steps
  <2>3. paid[i] \in {<<>>, <<1>>}
    BY <1>1, <1>3 DEF Attempts, Calls
  <2> QED BY <1>3, <2>2, <2>3, CallsDiffer
<1> QED BY <1>2, <1>3

LEMMA SendPaid ==
  ASSUME Typed, Rows, Attempts, NEW i \in Id, NEW n \in 1 .. 2, Send(i, n)
  PROVE  /\ PaidTyped'
         /\ \A j \in Id \ {i} : paid'[j] = paid[j]
         /\ \/ paid' = paid /\ Throws(i)
            \/ /\ paid'[i] = (IF n = 1 THEN << 1 >> ELSE <<1, 2>>)
               /\ Moves(i, IF n = 1 THEN "answer1" ELSE "answer2")
               /\ fin' = fin
               /\ \E r \in Rev : CanSend(i, n, r)
<1>1. CASE Throws(i) /\ paid' = paid
  BY <1>1 DEF Typed, TypeOK, PaidTyped
<1>2. CASE ~(Throws(i) /\ paid' = paid)
  <2>1. PICK r \in Rev : CanSend(i, n, r)
    BY <1>2 DEF Send
  <2>2. paid' = [paid EXCEPT ![i] = Append(@, n)] /\ Moves(i, <<"answer1", "answer2">>[n]) /\ fin' = fin
    BY <1>2 DEF Send
  <2>3. /\ paid' \in [Id -> {<<>>, <<1>>, <<1, 2>>}]
        /\ paid'[i] = (IF n = 1 THEN <<1>> ELSE <<1, 2>>)
        /\ \A j \in Id \ {i} : paid'[j] = paid[j]
    BY <2>1, <2>2, SendPays, PaidGrows DEF Typed
  <2>4. Moves(i, IF n = 1 THEN "answer1" ELSE "answer2")
    BY <2>2, StepNames
  <2> QED BY <2>1, <2>2, <2>3, <2>4 DEF PaidTyped
<1> QED BY <1>1, <1>2

(* What a Workflow's step does to the attempt's callbacks, and leaves alone. *)
Unsent == UNCHANGED <<hist, snap, age, pass, req>>
Lands(i, s) == Moved(i, s) /\ Fitting(i, s) /\ Resting(i, s)

LEMMA Unmoved ==
  ASSUME Typed, Attempts, NEW i \in Id, UNCHANGED <<bucket, paid>>, NEW s, s \notin Steps
  PROVE  Fitting(i, s) /\ Resting(i, s)
BY Placed DEF Fitting, Resting, Steps

LEMMA PrepareLands ==
  ASSUME Typed, Attempts, NEW i \in Id, NEW n \in 1 .. 2, Prepare(i, n) PROVE \E s : Lands(i, s)
<1>1. PICK u, s : u = <<"prepare1", "prepare2">>[n] /\ s = <<"send1", "send2">>[n]
  OBVIOUS
<1>2. In(i, u) /\ u \in Steps /\ s \in Steps /\ UNCHANGED <<bucket, paid, age>>
  BY <1>1, StepNames DEF Prepare, r2, run
<1>3. CASE Throws(i)
  BY <1>2, <1>3, Placed, ThrowsOn, Unmoved DEF Lands, Steps
<1>4. CASE Moves(i, s) /\ fin' = fin /\ age[i] # "late"
  <2>1. Moved(i, s)
    BY <1>2, <1>4, Placed, MovesOn
  <2>2. Fitting(i, s)
    BY <1>1, <1>2, Placed, StepNames DEF Fitting, Fits
  <2>3. Resting(i, s)
    <3>1. loose[i] = u \/ ~Final(i)
      BY <1>2, <1>4, Placed DEF In, Final, Steps
    <3> QED BY <1>1, <1>4, <3>1, StepNames DEF Resting, Spent
  <2> QED BY <2>1, <2>2, <2>3 DEF Lands
<1> QED BY <1>1, <1>3, <1>4 DEF Prepare

LEMMA SendLands ==
  ASSUME Typed, Rows, Attempts, NEW i \in Id, NEW n \in 1 .. 2, Send(i, n)
  PROVE  \E s \in {"answer1", "answer2", "over"} : Lands(i, s)
<1>1. PICK u, s : u = <<"send1", "send2">>[n] /\ s = (IF n = 1 THEN "answer1" ELSE "answer2")
  OBVIOUS
<1>2. In(i, u) /\ u \in Steps /\ s \in Steps /\ UNCHANGED <<bucket, age>>
  BY <1>1, StepNames DEF Send, r2, Steps
<1>3. CASE paid' = paid /\ Throws(i)
  BY <1>2, <1>3, Placed, ThrowsOn, Unmoved DEF Lands, Steps
<1>4. CASE paid'[i] = (IF n = 1 THEN <<1>> ELSE <<1, 2>>) /\ Moves(i, s) /\ fin' = fin
  <2>1. Moved(i, s)
    BY <1>2, <1>4, Placed, MovesOn
  <2>2. Fitting(i, s)
    BY <1>1, <1>2, <1>4, Placed, StepNames DEF Fitting, Fits
  <2>3. Resting(i, s)
    BY <1>1 DEF Resting
  <2> QED BY <1>1, <2>1, <2>2, <2>3 DEF Lands
<1> QED BY <1>1, <1>3, <1>4, SendPaid

LEMMA AnswerStored ==
  ASSUME Typed, NEW i \in Id, NEW n \in 1 .. 2, Answer(i, n)
  PROVE  /\ UNCHANGED bucket \/ bucket'[i].call[n] # None
         /\ \A m \in 1 .. 2 : m = n \/ bucket'[i].call[m] = bucket[i].call[m]
         /\ Throws(i) \/ (bucket'[i].call[n] # None /\ Resolves(i, <<"verify", "commit">>[n]) /\ fin' = fin)
         /\ \A j \in Id : /\ bucket'[j].report = bucket[j].report /\ bucket'[j].checked = bucket[j].checked
                          /\ j # i => bucket'[j] = bucket[j]
<1>1. bucket \in [Id -> Objects]
  BY DEF Typed, TypeOK
<1>2. ASSUME NEW a \in Answers \cup {"bad"}, bucket' = [bucket EXCEPT ![i].call[n] = a]
      PROVE  /\ bucket'[i].call[n] = a /\ a # None
             /\ \A m \in 1 .. 2 : m = n \/ bucket'[i].call[m] = bucket[i].call[m]
             /\ \A j \in Id : /\ bucket'[j].report = bucket[j].report /\ bucket'[j].checked = bucket[j].checked
                              /\ j # i => bucket'[j] = bucket[j]
  <2>1. PICK y : y = bucket[i]
    OBVIOUS
  <2>2. bucket'[i] = [y EXCEPT !.call[n] = a] /\ \A j \in Id \ {i} : bucket'[j] = bucket[j]
    BY <1>1, <1>2, <2>1
  <2>3. y \in Objects
    BY <1>1, <2>1
  <2>4. a # None
    BY AnswersAssumption, NoneAssumption
  <2> QED BY <2>1, <2>2, <2>3, <2>4 DEF Objects
<1> DEFINE Stores(a) == bucket' = [bucket EXCEPT ![i].call[n] = a]
           Returned == Resolves(i, <<"verify", "commit">>[n]) /\ UNCHANGED fin
<1>3. \/ UNCHANGED bucket /\ Throws(i)
      \/ \E a \in Answers \cup {"bad"} : Stores(a) /\ (Throws(i) \/ Returned)
  BY DEF Answer
<1>4. CASE UNCHANGED bucket /\ Throws(i)
  BY <1>4
<1>5. ASSUME NEW a \in Answers \cup {"bad"}, Stores(a), Throws(i) \/ Returned
      PROVE  Throws(i) \/ (bucket'[i].call[n] # None /\ Returned)
  BY <1>2, <1>5
<1>6. CASE \E a \in Answers \cup {"bad"} : Stores(a) /\ (Throws(i) \/ Returned)
  BY <1>2, <1>5, <1>6
<1> QED BY <1>3, <1>4, <1>6

LEMMA AnswerLands ==
  ASSUME Typed, Attempts, NEW i \in Id, NEW n \in 1 .. 2, Answer(i, n) PROVE \E s : Lands(i, s)
<1>1. PICK u, s : u = <<"answer1", "answer2">>[n] /\ s = <<"verify", "commit">>[n]
  OBVIOUS
<1>2. In(i, u) /\ u \in Steps /\ s \in Steps /\ UNCHANGED <<paid, age>>
  BY <1>1, StepNames DEF Answer, run
<1>3. Fits(u, paid[i], bucket[i].call) /\ (bucket[i].call[2] # None => bucket[i].call[1] # None)
  BY <1>2, Placed
<1>4. bucket'[i].call[2] # None => bucket'[i].call[1] # None
  <2>1. n = 2 => bucket[i].call[1] # None
    BY <1>1, <1>3, StepNames DEF Fits
  <2> QED BY <1>3, <2>1, AnswerStored
<1>5. CASE Throws(i)
  BY <1>2, <1>4, <1>5, Placed, ThrowsOn DEF Lands, Fitting, Resting, Steps
<1>6. CASE bucket'[i].call[n] # None /\ Resolves(i, s) /\ fin' = fin
  <2>1. PICK t : t = IF Awaited(i) THEN s ELSE "over"
    OBVIOUS
  <2>2. Moved(i, t)
    BY <1>2, <1>6, <2>1, Placed, ResolvesOn
  <2>3. Fits(s, paid'[i], bucket'[i].call)
    <3>1. CASE n = 1
      BY <1>1, <1>2, <1>3, <1>6, <3>1, StepNames DEF Fits
    <3>2. CASE n = 2
      BY <1>1, <1>2, <1>4, <1>6, <3>2, StepNames DEF Fits
    <3> QED BY <3>1, <3>2
  <2>4. Fitting(i, t) /\ Resting(i, t)
    BY <1>1, <1>4, <2>1, <2>3, StepNames DEF Fitting, Resting, Steps
  <2> QED BY <2>2, <2>4 DEF Lands
<1> QED BY <1>1, <1>5, <1>6, AnswerStored

LEMMA StepLands ==
  ASSUME Typed, Attempts, NEW i \in Id,
         \/ \E n \in 1 .. 2 : Replay(i, n)
         \/ VerifyAndStore(i) \/ CommitSynthesis(i) \/ StepFails(i) \/ TimesOut(i) \/ FinishRetried(i) \/ Stopped(i)
  PROVE  \E s : Lands(i, s)
<1>1. Places /\ Tidy(i) /\ i \in Worker
  BY Placed
<1>2. ASSUME NEW n \in 1 .. 2, Replay(i, n) PROVE \E s : Lands(i, s)
  <2>1. PICK u, s : u = at[i] /\ s = <<"prepare1", "prepare2">>[n]
    OBVIOUS
  <2>2. /\ u \in {<<"send1", "send2">>[n], <<"answer1", "answer2">>[n]} /\ u \in Steps /\ In(i, u) /\ s \in Steps
        /\ Moves(i, s) /\ Awaited(i) /\ UNCHANGED <<bucket, paid, fin>>
    BY <1>2, <2>1, StepNames DEF Replay, In, Awaited, Moves, r2, run
  <2>3. Moved(i, s)
    BY <1>1, <2>2, MovesOn
  <2>4. Fitting(i, s)
    BY <2>1, <2>2, Placed, StepNames DEF Fitting, Fits
  <2>5. Resting(i, s)
    BY <2>1, <2>2, StepNames DEF Resting, Spent, Final
  <2> QED BY <2>3, <2>4, <2>5 DEF Lands
<1>3. CASE VerifyAndStore(i)
  <2>1. In(i, "verify") /\ Resolves(i, "prepare2") /\ UNCHANGED <<bucket, paid, fin>>
    BY <1>3 DEF VerifyAndStore, r2, run
  <2>2. PICK t : t = IF Awaited(i) THEN "prepare2" ELSE "over"
    OBVIOUS
  <2>3. Moved(i, t)
    BY <1>1, <2>1, <2>2, ResolvesOn DEF Steps
  <2>4. Fitting(i, t)
    BY <2>1, <2>2, Placed DEF Fitting, Fits, Steps
  <2>5. Resting(i, t)
    BY <2>2 DEF Resting, Spent, Final, Awaited, Steps
  <2> QED BY <2>3, <2>4, <2>5 DEF Lands
<1>4. CASE CommitSynthesis(i)
  <2>1. /\ In(i, "commit") /\ Resolves(i, "finish") /\ UNCHANGED <<bucket, paid>>
        /\ IF Awaited(i) THEN \E full : Begin(i, NewFinish(i, FALSE, full)) ELSE UNCHANGED fin
    BY <1>4 DEF CommitSynthesis, r2, run
  <2>2. CASE Awaited(i)
    <3>1. PICK full : Begin(i, NewFinish(i, FALSE, full))
      BY <2>1, <2>2
    <3>2. fin'[i] = NewFinish(i, FALSE, full) /\ \A w \in Worker \ {i} : fin'[w] = fin[w]
      BY <1>1, <3>1, Relocates
    <3>3. at'[i] = "finish" /\ loose' = loose /\ \A j \in Id \ {i} : at'[j] = at[j]
      BY <1>1, <2>1, <2>2, Relocates DEF Resolves
    <3>4. fin'[i].id = i
      BY <3>2 DEF NewFinish
    <3>5. at[i] = "commit" /\ loose[i] = None
      BY <1>1, <2>1, <2>2, AtStage DEF Steps
    <3>6. Moved(i, "over")
      BY <3>2, <3>3, <3>4, <3>5, NoneAssumption DEF Moved, Tidy, In, Steps
    <3> QED BY <2>1, <3>6, Unmoved DEF Lands, Steps
  <2>3. CASE ~Awaited(i)
    <3>1. Resolves(i, "verify")
      BY <2>1, <2>3 DEF Resolves
    <3>2. Moved(i, "over")
      BY <1>1, <2>1, <2>3, <3>1, ResolvesOn DEF Steps
    <3> QED BY <2>1, <3>2, Unmoved DEF Lands, Steps
  <2> QED BY <2>2, <2>3
<1>5. CASE StepFails(i)
  <2>1. /\ at[i] \in {"prepare1", "verify", "prepare2", "commit", "finish"} /\ ToCatch(i)
        /\ UNCHANGED <<bucket, paid, loose>>
    BY <1>5 DEF StepFails, r2, run
  <2>2. loose[i] = None
    BY <1>1, <2>1 DEF Tidy
  <2>3. Moved(i, None)
    BY <1>1, <2>1, <2>2, CatchOn
  <2>4. None \notin Steps
    BY NoneAssumption
  <2> QED BY <2>1, <2>3, <2>4, Unmoved DEF Lands
<1>6. CASE TimesOut(i)
  <2>1. PICK s : s = at[i]
    OBVIOUS
  <2>2. s \in Steps /\ In(i, s) /\ Awaited(i) /\ ToCatch(i) /\ Strays(i, s) /\ UNCHANGED <<bucket, paid>>
    BY <1>6, <2>1 DEF TimesOut, Awaited, In, r2, run
  <2>3. Moved(i, s)
    BY <1>1, <2>1, <2>2, AtStage, Relocates, CatchOn DEF Steps
  <2>4. Fitting(i, s)
    BY <2>2, Placed DEF Fitting
  <2>5. Resting(i, s)
    BY <2>1, <2>2 DEF Resting, Spent, Final, In, Steps
  <2> QED BY <2>3, <2>4, <2>5 DEF Lands
<1>7. CASE FinishRetried(i)
  <2>1. PICK f : f = fin[i]
    OBVIOUS
  <2>2. /\ at[i] = "finish" /\ f # None /\ UNCHANGED <<bucket, paid, at, loose>>
        /\ fin'[i] = [f EXCEPT !.at = "row"] /\ \A w \in Worker \ {i} : fin'[w] = fin[w]
    BY <1>1, <1>7, <2>1, Relocates DEF FinishRetried, r2, run, wf
  <2>3. f \in Finish /\ f.id = i
    BY <1>1, <2>1, <2>2 DEF Places, Tidy, ReadyFinish
  <2>4. [f EXCEPT !.at = "row"].id = i
    BY <2>3 DEF Finish
  <2>5. loose[i] = None
    BY <1>1, <2>2 DEF Tidy
  <2>6. Moved(i, "over")
    BY <2>2, <2>4, <2>5, NoneAssumption DEF Moved, Tidy, In, Steps
  <2> QED BY <2>2, <2>6, Unmoved DEF Lands, Steps
<1>8. CASE Stopped(i)
  <2>1. at[i] \notin {"absent", "ended"} /\ UNCHANGED <<bucket, paid>>
    BY <1>8 DEF Stopped, r2, run
  <2>2. /\ at'[i] = "ended" /\ loose'[i] = (IF loose[i] = None THEN None ELSE "over")
        /\ \A j \in Id \ {i} : at'[j] = at[j] /\ loose'[j] = loose[j]
    BY <1>1, <1>8 DEF Stopped, Ends, Places
  <2>3. fin'[i] = None /\ \A w \in Worker \ {i} : fin'[w] = fin[w]
    BY <1>1, <1>8, Relocates DEF Stopped
  <2>4. Moved(i, "over")
    BY <2>1, <2>2, <2>3, NoneAssumption DEF Moved, Tidy, In, Steps
  <2> QED BY <2>1, <2>4, Unmoved DEF Lands, Steps
<1> QED BY <1>2, <1>3, <1>4, <1>5, <1>6, <1>7, <1>8

LEMMA WorkflowStage ==
  ASSUME Typed, Rows, Attempts, NEW i \in Id, WorkflowNext(i)
  PROVE  /\ Unsent /\ PaidTyped'
         /\ \A j \in Id \ {i} : paid'[j] = paid[j] /\ bucket'[j] = bucket[j]
         /\ \A j \in Id : bucket'[j].report = bucket[j].report /\ bucket'[j].checked = bucket[j].checked
         /\ \A j \in Id, n \in 1 .. 2 : bucket[j].call[n] # None => bucket'[j].call[n] # None
         /\ \E s : Lands(i, s)
<1>1. Unsent
  BY DEF WorkflowNext, Prepare, Send, Answer, Replay, VerifyAndStore, CommitSynthesis, StepFails, TimesOut,
         FinishRetried, Stopped, Unsent, db, r2, run
<1>2. PaidTyped' /\ \A j \in Id \ {i} : paid'[j] = paid[j]
  <2>1. paid' = paid \/ \E n \in 1 .. 2 : Send(i, n)
    BY DEF WorkflowNext, Prepare, Answer, Replay, VerifyAndStore, CommitSynthesis, StepFails, TimesOut,
           FinishRetried, Stopped, run
  <2>2. CASE paid' = paid
    BY <2>2, Placed DEF PaidTyped
  <2> QED BY <2>1, <2>2, SendPaid
<1>3. /\ \A j \in Id \ {i} : bucket'[j] = bucket[j]
      /\ \A j \in Id : bucket'[j].report = bucket[j].report /\ bucket'[j].checked = bucket[j].checked
      /\ \A j \in Id, n \in 1 .. 2 : bucket[j].call[n] # None => bucket'[j].call[n] # None
  <2>1. bucket' = bucket \/ \E n \in 1 .. 2 : Answer(i, n)
    BY DEF WorkflowNext, Prepare, Send, Replay, VerifyAndStore, CommitSynthesis, StepFails, TimesOut,
           FinishRetried, Stopped, r2
  <2>2. ASSUME NEW n \in 1 .. 2, Answer(i, n)
        PROVE  /\ \A j \in Id \ {i} : bucket'[j] = bucket[j]
               /\ \A j \in Id : bucket'[j].report = bucket[j].report /\ bucket'[j].checked = bucket[j].checked
               /\ \A j \in Id, m \in 1 .. 2 : bucket[j].call[m] # None => bucket'[j].call[m] # None
    BY <2>2, AnswerStored
  <2> QED BY <2>1, <2>2
<1>4. \E s : Lands(i, s)
  BY PrepareLands, SendLands, AnswerLands, StepLands DEF WorkflowNext
<1> QED BY <1>1, <1>2, <1>3, <1>4

LEMMA WorkflowRows ==
  ASSUME Typed, Rows, Attempts, NEW i \in Id, WorkflowNext(i), NEW r \in Rev
  PROVE  RowStep(r) /\ row'[r].id = row[r].id
<1>1. row \in [Rev -> Row] /\ row[r] \in Row
  BY DEF Typed, TypeOK
<1>2. PICK x : x = row[r]
  OBVIOUS
<1>3. ASSUME row' = row, claims' = claims PROVE RowStep(r) /\ row'[r].id = row[r].id
  BY <1>3 DEF RowStep
<1>4. x.st = "running" => x.key # "checked" /\ x.limit # "released" /\ (x.kept => claims[r] = x.id)
  BY <1>2, RunningRow DEF Settled
<1>5. ASSUME NEW n \in 1 .. 2, Send(i, n) PROVE RowStep(r) /\ row'[r].id = row[r].id
  <2>1. CASE CanSend(i, n, r)
    <3>1. row'[r] = [x EXCEPT !.calls = n] /\ x.st = "running" /\ x.id = i /\ x.calls = n - 1
      BY <1>1, <1>2, <1>5, <2>1 DEF Send, CanSend, Owns
    <3>2. /\ row'[r].id = x.id /\ row'[r].key = x.key /\ (row'[r].kept <=> x.kept) /\ row'[r].calls = n
          /\ row'[r].limit = x.limit /\ row'[r].st = x.st /\ row'[r].tok = x.tok
      BY <1>1, <1>2, <3>1 DEF Row
    <3>3. In(i, "send1") \/ In(i, "send2")
      BY <1>5, StepNames DEF Send
    <3>4. Final(i) => Counts(i, r)
      <4>1. PICK s \in {"answer1", "answer2", "over"} : Lands(i, s)
        BY <1>5, SendLands
      <4>2. ASSUME Final(i) PROVE Spent(i)' /\ Overtaken(i)'
        <5>1. at[i] \in {"finish", "catch", "schedule", "ended"} => loose[i] # None
          BY <3>3, NoneAssumption DEF In, Steps
        <5>2. age' = age
          BY <1>5 DEF Send
        <5>3. Final(i)' /\ Overtaken(i)'
          BY <4>1, <4>2, <5>1, <5>2 DEF Lands, Moved, Final, Overtaken
        <5>4. \A u \in Steps : In(i, u)' => u \in {"answer1", "answer2"}
          BY <4>1 DEF Lands, Moved, Steps
        <5>5. ~In(i, "send1")' /\ ~In(i, "send2")' /\ loose'[i] \notin {"prepare1", "prepare2"}
          BY <5>4 DEF In, Steps
        <5> QED BY <5>3, <5>5 DEF Spent
      <4>3. ~Spent(i)
        BY <3>3 DEF Spent
      <4>4. row'[r].calls = row[r].calls + 1
        BY <1>2, <3>1, <3>2
      <4> QED BY <4>2, <4>3, <4>4 DEF Counts
    <3>5. TokSound(r)'
      <4>1. bucket' = bucket /\ TokSound(r) /\ row'[r].calls \in {1, 2} /\ x.st \notin Settled
        BY <1>5, <3>1, <3>2 DEF Send, r2, Rows, Usages, Settled
      <4> QED BY <1>2, <3>2, <4>1 DEF TokSound, Backed
    <3> QED BY <1>2, <1>4, <1>5, <3>1, <3>2, <3>4, <3>5 DEF Send, RowStep, Edited, Settled
  <2>2. CASE ~CanSend(i, n, r)
    BY <1>5, <2>2 DEF Send, RowStep
  <2> QED BY <2>1, <2>2
<1>6. CASE VerifyAndStore(i)
  <2>1. CASE Owns(i, r)
    <3>1. row'[r] = [x EXCEPT !.tok = 1] /\ x.st = "running" /\ x.id = i
      BY <1>1, <1>2, <1>6, <2>1 DEF VerifyAndStore, Owns
    <3>2. /\ row'[r].id = x.id /\ row'[r].key = x.key /\ (row'[r].kept <=> x.kept) /\ row'[r].tok = 1
          /\ row'[r].limit = x.limit /\ row'[r].st = x.st /\ row'[r].calls = x.calls
      BY <1>1, <1>2, <3>1 DEF Row
    <3>3. paid[i] = <<1>> /\ bucket[i].call[1] # None
      BY <1>6, Placed DEF VerifyAndStore, Fits, Steps
    <3>4. x.calls \in {1, 2}
      <4>1. x.calls # 0
        BY <1>2, <3>1, <3>3, CallsDiffer DEF Attempts, Calls
      <4> QED BY <1>1, <1>2, <4>1 DEF Row
    <3>5. TokSound(r)'
      <4>1. bucket' = bucket /\ row'[r].st \notin Settled
        BY <1>6, <3>1, <3>2 DEF VerifyAndStore, r2, Settled
      <4> QED BY <3>1, <3>2, <3>3, <3>4, <4>1 DEF TokSound, Backed
    <3> QED BY <1>2, <1>4, <1>6, <3>1, <3>2, <3>5 DEF VerifyAndStore, RowStep, Edited, Settled, Counts
  <2>2. CASE ~Owns(i, r)
    BY <1>6, <2>2 DEF VerifyAndStore, RowStep
  <2> QED BY <2>1, <2>2
<1>7. CASE CommitSynthesis(i)
  <2>1. PICK full \in BOOLEAN : full = (bucket[i].call[2] = "full")
    OBVIOUS
  <2>2. /\ row' = [s \in Rev |-> IF Publishes(i, s) THEN [row[s] EXCEPT !.sum = TRUE, !.kept = full] ELSE row[s]]
        /\ claims' = [s \in Rev |-> IF Publishes(i, s) /\ full THEN i ELSE claims[s]]
    BY <1>7, <2>1 DEF CommitSynthesis
  <2>3. CASE Publishes(i, r)
    <3>1. row'[r] = [x EXCEPT !.sum = TRUE, !.kept = full] /\ x.st = "running" /\ x.id = i
      BY <1>1, <1>2, <2>2, <2>3 DEF Publishes, Owns
    <3>2. /\ row'[r].id = x.id /\ row'[r].key = x.key /\ (row'[r].kept <=> full) /\ row'[r].tok = x.tok
          /\ row'[r].limit = x.limit /\ row'[r].st = x.st /\ row'[r].calls = x.calls
      BY <1>1, <1>2, <3>1 DEF Row
    <3>3. full => claims'[r] = i
      BY <2>2, <2>3
    <3>4. TokSound(r)'
      <4>1. bucket' = bucket /\ x.st \notin Settled
        BY <1>7, <3>1 DEF CommitSynthesis, r2, Settled
      <4> QED BY <1>2, <3>1, <3>2, <4>1, TokStays
    <3> QED BY <1>2, <1>4, <3>1, <3>2, <3>3, <3>4 DEF RowStep, Edited, Settled, Counts
  <2>4. CASE ~Publishes(i, r)
    BY <2>2, <2>4 DEF RowStep
  <2> QED BY <2>3, <2>4
<1>8. CASE \/ \E n \in 1 .. 2 : Prepare(i, n) \/ Answer(i, n) \/ Replay(i, n)
           \/ StepFails(i) \/ TimesOut(i) \/ FinishRetried(i) \/ Stopped(i)
  BY <1>3, <1>8 DEF Prepare, Answer, Replay, StepFails, TimesOut, FinishRetried, Stopped, db
<1> QED BY <1>5, <1>6, <1>7, <1>8 DEF WorkflowNext


LEMMA WorkflowCalls ==
  ASSUME Typed, Rows, Attempts, NEW i \in Id, WorkflowNext(i) PROVE Calls'
<1>1. row \in [Rev -> Row] /\ \A r \in Rev : row[r].id \in Id
  BY DEF Typed, TypeOK, Row
<1>2. /\ \A r \in Rev : row'[r].id = row[r].id
      /\ \A j \in Id \ {i} : paid'[j] = paid[j]
  BY WorkflowRows, WorkflowStage
<1>3. Calls
  BY DEF Attempts
<1>4. ASSUME NEW n \in 1 .. 2, Send(i, n) PROVE Calls'
  <2> SUFFICES ASSUME NEW r \in Rev
               PROVE  /\ row'[r].calls = 0 => paid'[row[r].id] = <<>>
                      /\ row'[r].calls = 1 => paid'[row[r].id] \in {<<>>, <<1>>}
    BY <1>2 DEF Calls
  <2>1. CASE CanSend(i, n, r)
    <3>1. PICK x : x = row[r]
      OBVIOUS
    <3>2. row'[r] = [x EXCEPT !.calls = n] /\ x \in Row
      BY <1>1, <1>4, <2>1, <3>1 DEF Send
    <3>3. row'[r].calls = n /\ row[r].calls = n - 1 /\ row[r].id = i
      BY <2>1, <3>2 DEF Row, CanSend, Owns
    <3>4. CASE n = 1
      <4>1. row[r].calls = 0
        BY <3>3, <3>4
      <4>2. paid[i] = <<>>
        BY <1>3, <3>3, <4>1 DEF Calls
      <4>3. paid'[i] = paid[i] \/ paid'[i] = <<1>>
        BY <1>4, <3>4, SendPaid
      <4>4. row'[r].calls = 1
        BY <3>3, <3>4
      <4>5. paid'[row[r].id] \in {<<>>, <<1>>}
        BY <3>3, <4>2, <4>3, Zenon
      <4>6. row'[r].calls # 0
        BY <4>4
      <4> QED BY <4>5, <4>6, Zenon
    <3>5. CASE n = 2
      BY <3>3, <3>5
    <3> QED BY <3>4, <3>5
  <2>2. CASE ~CanSend(i, n, r)
    <3>1. row'[r] = row[r]
      BY <1>1, <1>4, <2>2 DEF Send
    <3>2. CASE row[r].id # i
      BY <1>1, <1>2, <1>3, <3>1, <3>2 DEF Calls
    <3>3. CASE row[r].id = i
      <4>1. \A s \in Rev : ~CanSend(i, n, s)
        BY <2>2, <3>3 DEF Rows, Unique, CanSend, Owns
      <4>2. paid' = paid
        BY <1>4, <4>1, SendPaid
      <4> QED BY <1>3, <3>1, <4>2 DEF Calls
    <3> QED BY <3>2, <3>3
  <2> QED BY <2>1, <2>2
<1>5. ASSUME paid' = paid, \A r \in Rev : row'[r].calls = row[r].calls PROVE Calls'
  BY <1>2, <1>3, <1>5 DEF Calls
<1>6. CASE VerifyAndStore(i)
  <2>1. \A r \in Rev : row'[r].calls = row[r].calls
    <3> SUFFICES ASSUME NEW r \in Rev, NEW x, x = row[r] PROVE row'[r].calls = x.calls
      OBVIOUS
    <3>1. row'[r] = x \/ row'[r] = [x EXCEPT !.tok = 1]
      BY <1>1, <1>6 DEF VerifyAndStore
    <3> QED BY <1>1, <3>1 DEF Row
  <2> QED BY <1>5, <1>6, <2>1 DEF VerifyAndStore, run, wf
<1>7. CASE CommitSynthesis(i)
  <2>1. \A r \in Rev : row'[r].calls = row[r].calls
    <3> SUFFICES ASSUME NEW r \in Rev, NEW x, x = row[r] PROVE row'[r].calls = x.calls
      OBVIOUS
    <3>1. PICK full : full = (bucket[i].call[2] = "full")
      OBVIOUS
    <3>2. row'[r] = x \/ row'[r] = [x EXCEPT !.sum = TRUE, !.kept = full]
      BY <1>1, <1>7, <3>1 DEF CommitSynthesis
    <3> QED BY <1>1, <3>2 DEF Row
  <2> QED BY <1>5, <1>7, <2>1 DEF CommitSynthesis, run, wf
<1>8. CASE \/ \E n \in 1 .. 2 : Prepare(i, n) \/ Answer(i, n) \/ Replay(i, n)
           \/ StepFails(i) \/ TimesOut(i) \/ FinishRetried(i) \/ Stopped(i)
  BY <1>5, <1>8 DEF Prepare, Answer, Replay, StepFails, TimesOut, FinishRetried, Stopped, db, run, wf
<1> QED BY <1>4, <1>6, <1>7, <1>8 DEF WorkflowNext

LEMMA WorkflowFinish ==
  ASSUME IInv, NEW i \in Id, WorkflowNext(i), Known(i)', SoundFins \subseteq SoundFins'
  PROVE  UNCHANGED fin \/ \E f \in SoundFins' \cup {None} : Begin(i, f)
<1>1. Places /\ i \in Worker
  BY Placed DEF IInv
<1>2. ASSUME ToCatch(i) PROVE \E f \in SoundFins' : Begin(i, f)
  <2>1. Final(i)'
    BY <1>1, <1>2, Relocates DEF ToCatch, Final
  <2>2. NewFinish(i, TRUE, FALSE) \in SoundFins'
    BY <2>1, NewFinishSound
  <2> QED BY <1>2, <2>2 DEF ToCatch
<1>3. CASE CommitSynthesis(i)
  <2>1. CASE Awaited(i)
    <3>1. PICK full \in BOOLEAN : full = (bucket[i].call[2] = "full")
      OBVIOUS
    <3>2. Goes(i, "finish") /\ Begin(i, NewFinish(i, FALSE, full))
      BY <1>3, <2>1, <3>1 DEF CommitSynthesis, Resolves
    <3>3. Final(i)'
      BY <1>1, <3>2, Relocates DEF Final
    <3>4. NewFinish(i, FALSE, full) \in SoundFins'
      BY <3>3, NewFinishSound
    <3> QED BY <3>2, <3>4
  <2>2. CASE ~Awaited(i)
    BY <1>3, <2>2 DEF CommitSynthesis
  <2> QED BY <2>1, <2>2
<1>4. CASE FinishRetried(i)
  <2>1. PICK f : f = fin[i]
    OBVIOUS
  <2>2. f \in SoundFins /\ f \in Finish /\ f.id \in Id
    BY <1>1, <1>4, <2>1 DEF FinishRetried, IInv, Fins, SoundFins, ReadyFinish, Finish
  <2>3. PICK g : g = [f EXCEPT !.at = "row"]
    OBVIOUS
  <2>4. g \in Finish /\ g.at = "row" /\ g.id = f.id
    BY <2>2, <2>3 DEF Finish
  <2>5. g \in SoundFins
    BY <2>2, <2>4 DEF SoundFins, ReadyFinish
  <2> QED BY <1>4, <2>1, <2>3, <2>5 DEF FinishRetried
<1>5. CASE Stopped(i)
  BY <1>5 DEF Stopped
<1>6. CASE \/ \E n \in 1 .. 2 : Prepare(i, n) \/ Send(i, n) \/ Answer(i, n) \/ Replay(i, n)
           \/ VerifyAndStore(i) \/ StepFails(i) \/ TimesOut(i)
  BY <1>2, <1>6 DEF Prepare, Send, Answer, Replay, VerifyAndStore, StepFails, TimesOut, Throws
<1> QED BY <1>3, <1>4, <1>5, <1>6 DEF WorkflowNext

LEMMA WorkflowKeeps ==
  ASSUME IInv, NEW i \in Id, WorkflowNext(i) PROVE IInv'
<1>1. /\ Typed /\ Rows /\ Attempts /\ Fins /\ Passes /\ Requests
      /\ bucket \in [Id -> Objects] /\ i \in Worker
  BY DEF IInv, Typed, TypeOK, Worker
<1>2. /\ UNCHANGED <<hist, snap, age, pass, req>> /\ PaidTyped'
      /\ \A j \in Id \ {i} : paid'[j] = paid[j] /\ bucket'[j] = bucket[j]
      /\ \A j \in Id : bucket'[j].report = bucket[j].report /\ bucket'[j].checked = bucket[j].checked
      /\ \A j \in Id, n \in 1 .. 2 : bucket[j].call[n] # None => bucket'[j].call[n] # None
      /\ \E s : Lands(i, s)
  BY <1>1, WorkflowStage DEF Unsent
<1>3. Typed'
  BY <1>1, <1>2, WorkflowTypes
<1>4. PICK s : Moved(i, s) /\ Fitting(i, s) /\ Resting(i, s)
  BY <1>2 DEF Lands
<1>5. StageAgrees(i)' /\ (Spent(i) => Spent(i)')
  BY <1>2, <1>4, Landed
<1>6. /\ at[i] \notin {"absent", "ended"}
      /\ at[i] \in {"finish", "catch", "schedule"} => at'[i] \in {"finish", "catch", "schedule", "ended"}
      /\ loose[i] # None => loose'[i] # None
      /\ \A j \in Id \ {i} : at'[j] = at[j] /\ loose'[j] = loose[j] /\ fin'[j] = fin[j]
      /\ \A w \in Worker \ {i} : fin'[w] = fin[w]
  BY <1>4 DEF Moved, Worker
<1>7. Known(i)
  BY <1>1, <1>6 DEF Attempts, Untouched
<1>8. Monotone
  <2>1. \A j \in Id : Spent(j) => Spent(j)'
    BY <1>2, <1>5, <1>6 DEF Spent, Final, In
  <2> QED BY <1>2, <1>6, <2>1 DEF Monotone
<1>9. \A r \in Rev : RowStep(r) /\ row'[r].id = row[r].id
  BY <1>1, WorkflowRows
<1>10. Advances
  BY <1>9, RowsAdvance
<1>11. Rows'
  <2>1. \A r \in Rev : hist'[row[r].id] = hist[row[r].id]
    BY <1>2
  <2> QED BY <1>1, <1>3, <1>8, <1>9, <2>1, RowsKept
<1>12. SoundFins \subseteq SoundFins'
  BY <1>1, <1>8, <1>10, FinsSound
<1>13. \A j \in Id : Known(j) => Known(j)'
  BY <1>1, <1>8, <1>10, KnownKept
<1>14. Fins'
  <2>1. UNCHANGED fin \/ \E f \in SoundFins' \cup {None} : Begin(i, f)
    BY <1>7, <1>12, <1>13, WorkflowFinish
  <2>2. CASE UNCHANGED fin
    BY <1>1, <1>12, <2>2 DEF Fins
  <2>3. CASE \E f \in SoundFins' \cup {None} : Begin(i, f)
    BY <1>1, <1>12, <2>3, BeginSound
  <2> QED BY <2>1, <2>2, <2>3
<1>15. Passes' /\ Requests'
  BY <1>1, <1>2, <1>8, <1>10, PassesKept, RequestsKept
<1>16. Untouched'
  <2> SUFFICES ASSUME NEW j \in Id, ~Known(j)'
               PROVE  at'[j] = "absent" /\ paid'[j] = <<>> /\ bucket'[j].report = None
    BY DEF Untouched
  <2>1. ~Known(j) /\ j # i
    BY <1>7, <1>13
  <2>2. at[j] = "absent" /\ paid[j] = <<>> /\ bucket[j].report = None
    BY <1>1, <2>1 DEF Attempts, Untouched
  <2> QED BY <1>2, <1>6, <2>1, <2>2
<1>17. Calls'
  BY <1>1, WorkflowCalls
<1>18. Stages'
  <2> SUFFICES ASSUME NEW j \in Id, j # i PROVE StageAgrees(j)'
    BY <1>5 DEF Stages
  <2>1. StageAgrees(j)
    BY <1>1 DEF Attempts, Stages
  <2> QED BY <1>2, <1>6, <2>1 DEF StageAgrees, Tidy, In
<1>19. Reports'
  BY <1>1, <1>2, <1>8, <1>10, ReportsKept DEF Attempts
<1> QED BY <1>3, <1>11, <1>14, <1>15, <1>16, <1>17, <1>18, <1>19 DEF IInv, Attempts


-----------------------------------------------------------------------------
(* Owner requests.                                                            *)
LEMMA OwnerKeeps ==
  ASSUME IInv, Typed', Monotone, Advances, Rows', UNCHANGED <<age, paid, wf, fin, pass>>,
         \A i \in Id : bucket'[i].report = bucket[i].report /\ bucket'[i].call = bucket[i].call,
         \A r \in Rev : \/ row'[r].id = row[r].id /\ row'[r].calls = row[r].calls
                        \/ paid[row'[r].id] = <<>>,
         NEW q \in Req, NEW c \in SoundCalls', Step(q, c)
  PROVE  IInv'
<1>1. Typed /\ Rows /\ Attempts /\ Fins /\ Passes /\ Requests
  BY DEF IInv
<1>2. Fins'
  BY <1>1, FinsSound DEF Fins
<1>3. Passes'
  BY <1>1, PassesKept
<1>4. Requests'
  BY <1>1, CallsSound DEF Requests, Step
<1>5. Untouched'
  BY <1>1, KnownKept DEF Attempts, Untouched, wf
<1>6. Calls'
  BY <1>1 DEF Attempts, Calls
<1>7. Stages'
  BY <1>1 DEF Attempts, Stages, StageAgrees, Tidy, In, wf
<1>8. Reports'
  BY <1>1, ReportsKept DEF Attempts
<1> QED BY <1>2, <1>3, <1>4, <1>5, <1>6, <1>7, <1>8 DEF IInv, Attempts

(* A step that touches no row. *)
LEMMA RowsStay ==
  ASSUME IInv, Typed', Monotone, UNCHANGED <<row, claims>>,
         \A r \in Rev : hist'[row[r].id] = hist[row[r].id]
  PROVE  Advances /\ Rows'
<1>1. \A r \in Rev : RowStep(r)
  BY DEF RowStep
<1> QED BY <1>1, RowsAdvance, RowsKept DEF IInv

LEMMA AskKeeps ==
  ASSUME IInv, NEW q \in Req, NEW c \in SoundCalls, Step(q, c), c.at # "saved",
         UNCHANGED <<db, r2, run, wf, fin, pass>>
  PROVE  IInv'
<1>1. Typed'
  BY OwnerAsks DEF IInv, SoundCalls
<1>2. Monotone
  BY DEF Monotone, Spent, Final, In, db, r2, run, wf
<1>3. Advances /\ Rows'
  BY <1>1, <1>2, RowsStay DEF db
<1>4. c \in SoundCalls'
  BY <1>2, <1>3, CallsSound DEF IInv
<1> QED BY <1>1, <1>2, <1>3, <1>4, OwnerKeeps DEF db, r2, run, wf

(* The fields of a request that has moved on, or is done. *)
LEMMA MovedFields ==
  ASSUME NEW c \in Call, NEW stage
  PROVE  LET k == [c EXCEPT !.at = stage] IN
         /\ k.at = stage /\ k.op = c.op /\ k.rev = c.rev /\ k.t = c.t /\ k.prev = c.prev /\ k.seen = c.seen
         /\ k.claims = c.claims /\ (k.sure <=> c.sure) /\ k.out = c.out
BY DEF Call

LEMMA DoneFields ==
  ASSUME NEW c \in Call, NEW out
  PROVE  LET k == Done(c, out) IN
         k.at = "done" /\ k.t = c.t /\ k.seen = c.seen /\ (k.sure <=> c.sure) /\ k.out = out
BY DEF Call, Done

LEMMA DoneSound ==
  ASSUME NEW c \in SoundCalls, NEW out \in {"accepted", "rejected", "saved", "error"},
         out = "accepted" => c.t \in Attempt /\ Accepted(c.t),
         out = "rejected" => c.t \in Attempt /\ Rejected(c.t)
  PROVE  Done(c, out) \in SoundCalls /\ Done(c, out).at # "saved"
<1>1. PICK k : k = Done(c, out)
  OBVIOUS
<1>2. c \in ReadyCall /\ c \in Call
  BY DEF SoundCalls, ReadyCall
<1>3. k \in ReadyCall
  BY <1>1, <1>2, CallEdited
<1>4. k.at = "done" /\ k.t = c.t /\ k.seen = c.seen /\ (k.sure <=> c.sure) /\ k.out = out
  BY <1>1, <1>2, DoneFields
<1>5. k \in SoundCalls
  BY <1>3, <1>4 DEF SoundCalls
<1> QED BY <1>1, <1>4, <1>5

LEMMA OutcomeSound ==
  ASSUME Typed, NEW c \in SoundCalls, c.t \in Attempt, Decided(c.t)
  PROVE  Done(c, Outcome(c)) \in SoundCalls /\ Done(c, Outcome(c)).at # "saved"
<1>1. PICK out \in {"accepted", "rejected", "saved", "error"} : out = Outcome(c)
  BY OutcomeKnown
<1>2. out = "rejected" => Rejected(c.t)
  BY <1>1 DEF Outcome
<1>3. out = "accepted" => Accepted(c.t)
  BY <1>1 DEF Outcome, Decided, Rejected, Accepted, Archived
<1> QED BY <1>1, <1>2, <1>3, DoneSound

(* A retry that gives up, or only asks on. *)
LEMMA MovedSound ==
  ASSUME NEW c \in SoundCalls, c.at \in Asking, NEW stage \in {"status", "settle", "reply", "reject"}
  PROVE  [c EXCEPT !.at = stage] \in SoundCalls /\ [c EXCEPT !.at = stage].at # "saved"
<1>1. PICK k : k = [c EXCEPT !.at = stage]
  OBVIOUS
<1>2. c \in ReadyCall /\ c \in Call
  BY DEF SoundCalls, ReadyCall
<1>3. k \in ReadyCall
  BY <1>1, <1>2, CallEdited DEF Asking
<1>4. /\ k.at = stage /\ k.rev = c.rev /\ k.t = c.t /\ k.seen = c.seen /\ k.claims = c.claims
      /\ (k.sure <=> c.sure) /\ k.out = c.out
  BY <1>1, <1>2, MovedFields
<1>5. k \in SoundCalls
  BY <1>3, <1>4 DEF SoundCalls
<1> QED BY <1>1, <1>4, <1>5

LEMMA ReplayedSound ==
  ASSUME Typed, NEW c \in SoundCalls, c.at \in Asking, NEW stage \in {"status", "settle", "reply", "reject"}
  PROVE  Replayed(c, stage) \in SoundCalls /\ Replayed(c, stage).at # "saved"
<1>1. c.t \in Attempt
  BY DEF SoundCalls, ReadyCall
<1> QED BY <1>1, OutcomeSound, MovedSound DEF Replayed


LEMMA AtCall ==
  ASSUME IInv, NEW q \in Req, NEW c, c = req[q]
  PROVE  \A stage \in {"check", "status", "settle", "put", "switch", "reply", "reject", "save", "saved"} :
           AtStep(q, stage) =>
             /\ c # None /\ c \in SoundCalls /\ c \in ReadyCall /\ c \in Call /\ c.at = stage
             /\ c.rev \in Rev /\ c.seen \in Row /\ c.seen.id \in Id /\ Known(c.seen.id)
             /\ c.at \in Asking => c.t \in Attempt
<1> SUFFICES ASSUME NEW stage \in {"check", "status", "settle", "put", "switch", "reply", "reject", "save", "saved"},
                    AtStep(q, stage)
             PROVE  /\ c # None /\ c \in SoundCalls /\ c \in ReadyCall /\ c \in Call /\ c.at = stage
                    /\ c.rev \in Rev /\ c.seen \in Row /\ c.seen.id \in Id /\ Known(c.seen.id)
                    /\ c.at \in Asking => c.t \in Attempt
  OBVIOUS
<1>1. c # None /\ c.at = stage
  BY DEF AtStep
<1>2. c \in SoundCalls
  BY <1>1 DEF IInv, Requests
<1>3. c \in ReadyCall /\ Known(c.seen.id) /\ c \in Call
  BY <1>2 DEF SoundCalls, ReadyCall
<1> QED BY <1>1, <1>2, <1>3 DEF ReadyCall, Call, Row

LEMMA ReadKeeps ==
  ASSUME IInv, NEW q \in Req, NEW r \in Rev,
         SaveRead(q, r) \/ \E t \in Attempt, prev \in Id : RetryRead(q, r, t, prev)
  PROVE  IInv'
<1>1. PICK x : x = row[r]
  OBVIOUS
<1>2. x \in Row /\ x.id \in Id /\ Known(x.id)
  BY <1>1 DEF IInv, Typed, TypeOK, Row, Known, Current
<1>3. CASE SaveRead(q, r)
  <2>1. PICK k : k = [op |-> "save", rev |-> r, t |-> None, prev |-> None, seen |-> x,
                      at |-> "save", claims |-> None, sure |-> FALSE, out |-> None]
    OBVIOUS
  <2>2. k \in ReadyCall /\ k.at = "save" /\ ~k.sure /\ k.seen = x /\ k.out = None
    BY <1>2, <2>1 DEF ReadyCall, Call, Asking
  <2>3. k \in SoundCalls
    BY <1>1, <1>2, <1>3, <2>2, NoneAssumption DEF SoundCalls, SaveRead
  <2> QED BY <1>1, <1>3, <2>1, <2>2, <2>3, AskKeeps DEF SaveRead
<1>4. ASSUME NEW t \in Attempt, NEW prev \in Id, RetryRead(q, r, t, prev) PROVE IInv'
  <2>1. PICK k : k = [op |-> "retry", rev |-> r, t |-> t, prev |-> prev, seen |-> x,
                      at |-> "check", claims |-> None, sure |-> FALSE, out |-> None]
    OBVIOUS
  <2>2. k \in ReadyCall /\ k.at = "check" /\ ~k.sure /\ k.seen = x /\ k.out = None
    BY <1>2, <2>1 DEF ReadyCall, Call, Asking
  <2>3. k \in SoundCalls
    BY <1>1, <1>2, <2>2, NoneAssumption DEF SoundCalls
  <2> QED BY <1>1, <1>4, <2>1, <2>2, <2>3, AskKeeps DEF RetryRead
<1> QED BY <1>3, <1>4

LEMMA AskingKeeps ==
  ASSUME IInv, NEW q \in Req, RetryCheck(q) \/ RetryStatus(q) \/ RetrySettle(q) \/ RetryReply(q)
  PROVE  IInv'
<1>1. PICK c : c = req[q]
  OBVIOUS
<1>2. /\ c \in SoundCalls /\ c \in ReadyCall /\ c \in Call /\ c.at \in Asking
      /\ c.rev \in Rev /\ c.seen \in Row /\ c.seen.id \in Id /\ Known(c.seen.id)
  BY <1>1, AtCall DEF RetryCheck, RetryStatus, RetrySettle, RetryReply, Asking
<1>3. /\ Typed /\ UNCHANGED <<db, r2, run, wf, fin, pass>>
      /\ \A r \in Rev : row[r] \in Row /\ row[r].id \in Id /\ row[r].calls \in 0 .. 2
  BY DEF IInv, Typed, TypeOK, Row, RetryCheck, RetryStatus, RetrySettle, RetryReply
<1>4. SUFFICES \E k \in SoundCalls : Step(q, k) /\ k.at # "saved"
  BY <1>3, AskKeeps
<1>5. CASE RetryCheck(q) \/ RetryReply(q)
  <2>1. PICK stage \in {"status", "settle", "reply", "reject"} : Step(q, Replayed(c, stage))
    BY <1>1, <1>5 DEF RetryCheck, RetryReply
  <2> QED BY <1>2, <1>3, <2>1, ReplayedSound
<1>6. CASE RetryStatus(q)
  <2>1. CASE at[c.seen.id] = "ended" /\ Step(q, [c EXCEPT !.at = "settle", !.sure = TRUE])
    <3>1. PICK k : k = [c EXCEPT !.at = "settle", !.sure = TRUE]
      OBVIOUS
    <3>2. k \in ReadyCall
      BY <1>2, <3>1, CallEdited
    <3>3. k.at = "settle" /\ k.seen = c.seen /\ k.t = c.t /\ k.out = c.out
      BY <1>2, <3>1 DEF Call
    <3>4. k \in SoundCalls
      BY <1>2, <2>1, <3>2, <3>3 DEF SoundCalls
    <3> QED BY <2>1, <3>1, <3>3, <3>4
  <2>2. CASE Step(q, [c EXCEPT !.at = "reject"])
    BY <1>2, <2>2, MovedSound
  <2> QED BY <1>1, <1>6, <2>1, <2>2 DEF RetryStatus
<1>7. CASE RetrySettle(q)
  <2>1. PICK x, y : x = row[c.rev] /\ y = VisibleClaims(c.rev)
    OBVIOUS
  <2>2. CASE Settles(c) /\ Step(q, [c EXCEPT !.at = "put", !.seen = x, !.claims = y])
    <3>1. PICK k : k = [c EXCEPT !.at = "put", !.seen = x, !.claims = y]
      OBVIOUS
    <3>2. x \in Row /\ y \in Id \cup {None} /\ x.calls \in 0 .. 2
      BY <1>2, <1>3, <2>1 DEF VisibleClaims, Typed, TypeOK
    <3>3. k \in ReadyCall
      BY <1>2, <3>1, <3>2, CallEdited
    <3>4. /\ k.at = "put" /\ k.rev = c.rev /\ k.seen = x /\ k.claims = y /\ k.t = c.t /\ k.out = c.out
          /\ (k.sure <=> c.sure)
      BY <1>2, <3>1 DEF Call
    <3>5. x.id = c.seen.id /\ x.st \in Settled /\ (c.sure \/ x.calls = 0)
      BY <2>1, <2>2, <3>2 DEF Settles, MustAsk
    <3>6. Settling(k)
      BY <2>1, <3>4, <3>5 DEF Settling
    <3>7. k \in SoundCalls
      BY <1>2, <3>3, <3>4, <3>5, <3>6 DEF SoundCalls
    <3> QED BY <2>2, <3>1, <3>4, <3>7
  <2>3. CASE Step(q, [c EXCEPT !.at = "reject"])
    BY <1>2, <2>3, MovedSound
  <2>4. CASE Step(q, Done(c, "error"))
    BY <1>2, <2>4, DoneSound
  <2>5. CASE Step(q, Replayed(c, "reject"))
    BY <1>2, <1>3, <2>5, ReplayedSound
  <2> QED BY <1>1, <1>7, <2>1, <2>2, <2>3, <2>4, <2>5 DEF RetrySettle
<1> QED BY <1>5, <1>6, <1>7


LEMMA PutKeeps ==
  ASSUME IInv, NEW q \in Req, RetryPut(q) PROVE IInv'
<1>1. PICK c : c = req[q]
  OBVIOUS
<1>2. /\ c \in SoundCalls /\ c \in ReadyCall /\ c \in Call /\ c.at = "put" /\ c.t \in Attempt
      /\ c.rev \in Rev /\ c.seen \in Row /\ c.seen.id \in Id /\ Known(c.seen.id)
  BY <1>1, AtCall DEF RetryPut, Asking
<1>3. UNCHANGED <<db, bucket, run, wf, fin, pass>>
  BY DEF RetryPut
<1>4. Typed'
  BY OwnerTypes DEF IInv, OwnerNext
<1>5. SnapKey(c) \in Id \X Attempt /\ snap \in [Id \X Attempt -> Copy \cup {None}]
  BY <1>2 DEF SnapKey, IInv, Typed, TypeOK
<1>6. CASE snap' = snap
  <2>1. CASE Step(q, [c EXCEPT !.at = "reply"])
    <3>1. PICK k : k = [c EXCEPT !.at = "reply"]
      OBVIOUS
    <3>2. k \in SoundCalls /\ k.at # "saved"
      BY <1>2, <3>1, MovedSound DEF Asking
    <3> QED BY <1>3, <1>6, <2>1, <3>1, <3>2, AskKeeps DEF r2
  <2>2. CASE ~Step(q, [c EXCEPT !.at = "reply"])
    <3>1. PICK k : k = [c EXCEPT !.at = "switch"]
      OBVIOUS
    <3>2. snap' = [snap EXCEPT ![SnapKey(c)] = Snapshot(c)] /\ Step(q, k)
      BY <1>1, <2>2, <3>1 DEF RetryPut
    <3>3. snap[SnapKey(c)] = Snapshot(c)
      BY <1>5, <1>6, <3>2
    <3>4. k \in ReadyCall
      BY <1>2, <3>1, CallEdited DEF Asking
    <3>5. /\ k.at = "switch" /\ k.rev = c.rev /\ k.t = c.t /\ k.seen = c.seen /\ k.claims = c.claims
          /\ (k.sure <=> c.sure) /\ k.out = c.out
      BY <1>2, <3>1, MovedFields
    <3>6. Settling(k)
      BY <1>2, <3>5 DEF SoundCalls, Settling
    <3>7. k \in SoundCalls
      BY <1>2, <3>3, <3>4, <3>5, <3>6 DEF SoundCalls, SnapKey, Snapshot
    <3> QED BY <1>3, <1>6, <3>2, <3>5, <3>7, AskKeeps DEF r2
  <2> QED BY <2>1, <2>2
<1>7. CASE snap' # snap
  <2>1. /\ snap[SnapKey(c)] \in {None, Snapshot(c)}
        /\ snap' = [snap EXCEPT ![SnapKey(c)] = Snapshot(c)]
        /\ \E stage \in {"switch", "reply"} : Step(q, [c EXCEPT !.at = stage])
    BY <1>1, <1>7 DEF RetryPut
  <2>2. \A k \in Id \X Attempt : snap[k] # None => snap'[k] = snap[k]
    BY <1>5, <2>1
  <2>3. \A i \in Id, t \in Attempt : snap[<<i, t>>] # None => snap'[<<i, t>>] = snap[<<i, t>>]
    BY <2>2
  <2>4. Monotone
    BY <1>3, <2>3 DEF Monotone, Spent, Final, In, db, run, wf
  <2>5. Advances /\ Rows'
    BY <1>3, <1>4, <2>4, RowsStay DEF db
  <2>6. c \in SoundCalls'
    BY <1>2, <2>4, <2>5, CallsSound DEF IInv
  <2>7. PICK stage \in {"switch", "reply"} : Step(q, [c EXCEPT !.at = stage])
    BY <2>1
  <2>8. PICK k : k = [c EXCEPT !.at = stage]
    OBVIOUS
  <2>9. k \in ReadyCall
    BY <1>2, <2>8, CallEdited DEF Asking
  <2>10. /\ k.at = stage /\ k.rev = c.rev /\ k.t = c.t /\ k.seen = c.seen /\ k.claims = c.claims
         /\ (k.sure <=> c.sure) /\ k.out = c.out
    BY <1>2, <2>8, MovedFields
  <2>11. Settling(k)'
    BY <1>2, <2>6, <2>10 DEF SoundCalls, Settling
  <2>12. snap'[SnapKey(k)] = Snapshot(k)
    <3>1. SnapKey(k) = SnapKey(c) /\ Snapshot(k) = Snapshot(c)
      BY <2>10 DEF SnapKey, Snapshot
    <3> QED BY <1>5, <2>1, <3>1
  <2>13. k \in SoundCalls'
    BY <2>6, <2>9, <2>10, <2>11, <2>12 DEF SoundCalls
  <2> QED BY <1>3, <1>4, <2>4, <2>5, <2>7, <2>8, <2>13, OwnerKeeps DEF db, run, wf
<1> QED BY <1>6, <1>7

(* What is true of a switch that is made. *)
LEMMA Switched ==
  ASSUME IInv, NEW q \in Req, AtStep(q, "switch"), NEW c, c = req[q], CanSwitch(c)
  PROVE  /\ c.rev \in Rev /\ c.t \in Attempt /\ c.seen.id \in Id /\ c.seen.id # c.t
         /\ row[c.rev] = c.seen /\ VisibleClaims(c.rev) = c.claims
         /\ snap[<<c.seen.id, c.t>>] = [row |-> c.seen, claims |-> c.claims]
         /\ c.seen.st \in Settled /\ (at[c.seen.id] = "ended" \/ c.seen.calls = 0)
         /\ ~Known(c.t) /\ hist[c.seen.id] = None
<1>1. c \in SoundCalls /\ c.at = "switch" /\ c.rev \in Rev /\ c.seen.id \in Id /\ c.t \in Attempt
  BY AtCall DEF Asking
<1>2. Settling(c) /\ snap[SnapKey(c)] = Snapshot(c) /\ (c.sure => at[c.seen.id] = "ended")
  BY <1>1 DEF SoundCalls
<1>3. row[c.rev].id = c.seen.id /\ row[c.rev].key = c.seen.key /\ ~Known(c.t) /\ hist[c.seen.id] = None
  BY DEF CanSwitch, Decided, Known
<1>4. c.seen.id # c.t
  BY <1>1, <1>3 DEF Known, Current
<1> QED BY <1>1, <1>2, <1>3, <1>4 DEF Settling, SnapKey, Snapshot

LEMMA SwitchKeeps ==
  ASSUME IInv, NEW q \in Req, RetrySwitch(q) PROVE IInv'
<1>1. PICK c : c = req[q]
  OBVIOUS
<1>2. c \in SoundCalls /\ c \in Call /\ c.at \in Asking /\ c.rev \in Rev /\ c.seen.id \in Id /\ c.t \in Attempt
      /\ AtStep(q, "switch")
  BY <1>1, AtCall DEF RetrySwitch, Asking
<1>3. PICK k : k = [c EXCEPT !.at = "reply"]
  OBVIOUS
<1>4. k \in SoundCalls /\ k.at # "saved" /\ Step(q, k) /\ UNCHANGED <<claims, r2, run, wf, fin, pass>>
  BY <1>1, <1>2, <1>3, MovedSound DEF RetrySwitch
<1>5. CASE ~CanSwitch(c)
  BY <1>1, <1>4, <1>5, AskKeeps DEF RetrySwitch, db
<1>6. CASE CanSwitch(c)
  <2>1. /\ row[c.rev] = c.seen /\ c.seen.id # c.t /\ ~Known(c.t) /\ hist[c.seen.id] = None
    BY <1>1, <1>2, <1>6, Switched
  <2>2. PICK x : x = [Fresh(c.t) EXCEPT !.body = Wants(c), !.st = "queued"]
    OBVIOUS
  <2>3. PICK y : y = [rev |-> c.rev, body |-> row[c.rev].body, snap |-> c.t]
    OBVIOUS
  <2>4. hist' = [hist EXCEPT ![c.seen.id] = y] /\ row' = [row EXCEPT ![c.rev] = x]
    BY <1>1, <1>6, <2>2, <2>3 DEF RetrySwitch
  <2>5. Typed'
    BY OwnerTypes DEF IInv, OwnerNext
  <2>6. /\ Typed /\ Rows /\ Attempts /\ row \in [Rev -> Row] /\ hist \in [Id -> Archive \cup {None}]
        /\ hist' \in [Id -> Archive \cup {None}] /\ c.t \in Id
    BY <1>2, <2>5 DEF IInv, Typed, TypeOK, Id
  <2>7. /\ row'[c.rev] = x /\ \A r \in Rev \ {c.rev} : row'[r] = row[r]
        /\ hist'[c.seen.id] = y /\ \A i \in Id \ {c.seen.id} : hist'[i] = hist[i]
    BY <1>2, <2>4, <2>6
  <2>8. /\ x.id = c.t /\ x.st = "queued" /\ x.calls = 0 /\ x.limit = "unset" /\ x.tok = None
        /\ x.kept = FALSE /\ x.key = None
    BY <2>2 DEF Fresh
  <2>9. y # None /\ y.snap # None
    <3>1. y = hist'[c.seen.id]
      BY <2>7
    <3>2. c.t # None
      BY <2>6, NoneAssumption
    <3>3. y \in Archive
      <4>1. row[c.rev].body \in Body \cup {None}
        BY <1>2, <2>6 DEF Row
      <4> QED BY <1>2, <2>3, <4>1 DEF Archive
    <3> QED BY <2>3, <3>2, <3>3, NoneAssumption
  <2>10. \A r \in Rev : row[r].id \in Id /\ row[r].id # c.t
    BY <2>1, <2>6 DEF Known, Current, Row
  <2>11. \A r \in Rev \ {c.rev} : row[r].id # c.seen.id
    BY <1>2, <2>1, <2>6 DEF Rows, Unique
  <2>12. Monotone
    BY <1>4, <2>1, <2>7 DEF Monotone, Spent, Final, In, r2, run, wf
  <2>13. Advances
    BY <1>2, <2>1, <2>7, <2>8, <2>9, <2>10, <1>4 DEF Advances, Counts
  <2>14. Rows'
    <3>1. Unique'
      BY <2>6, <2>7, <2>8, <2>10 DEF Rows, Unique
    <3>2. Live'
      <4>1. hist[c.t] = None
        BY <2>1 DEF Known
      <4> QED BY <2>1, <2>6, <2>7, <2>8, <2>10, <2>11, <4>1 DEF Rows, Live
    <3>3. Usages' /\ Released'
      <4>1. \A r \in Rev : TokSound(r)'
        BY <1>4, <2>6, <2>7, <2>8 DEF Rows, Usages, TokSound, Backed, Level, Overtaken, r2, run, wf
      <4> QED BY <2>6, <2>7, <2>8, <4>1 DEF Rows, Usages, Released, Settled
    <3>4. Heads' /\ ClaimsOwned'
      BY <1>4, <2>6, <2>7, <2>8, NoneAssumption DEF Rows, Heads, ClaimsOwned, r2
    <3> QED BY <3>1, <3>2, <3>3, <3>4 DEF Rows
  <2>15. \A r \in Rev : (row'[r].id = row[r].id /\ row'[r].calls = row[r].calls) \/ paid[row'[r].id] = <<>>
    BY <2>1, <2>6, <2>7, <2>8 DEF Attempts, Untouched
  <2>16. k \in SoundCalls'
    BY <1>4, <2>6, <2>12, <2>13, CallsSound
  <2> QED BY <1>4, <2>5, <2>12, <2>13, <2>14, <2>15, <2>16, OwnerKeeps DEF r2, run, wf
<1> QED BY <1>5, <1>6


LEMMA RejectKeeps ==
  ASSUME IInv, NEW q \in Req, RetryReject(q) PROVE IInv'
<1>1. PICK c : c = req[q]
  OBVIOUS
<1>2. /\ c \in SoundCalls /\ c \in ReadyCall /\ c \in Call /\ c.at \in Asking /\ c.rev \in Rev
      /\ c.seen.id \in Id /\ c.t \in Attempt /\ c.t \in Id /\ c.prev \in Id
  <2>1. c \in SoundCalls /\ c \in ReadyCall /\ c \in Call /\ c.at \in Asking /\ c.rev \in Rev /\ c.seen.id \in Id
        /\ c.t \in Attempt
    BY <1>1, AtCall DEF RetryReject, Asking
  <2> QED BY <2>1 DEF ReadyCall, Id
<1>3. UNCHANGED <<row, claims, r2, run, wf, fin, pass>>
  BY DEF RetryReject
<1>4. CASE ~RejectedInsert(c.t)
  <2>1. hist' = hist /\ Step(q, Done(c, Outcome(c)))
    BY <1>1, <1>4 DEF RetryReject
  <2>2. Decided(c.t)
    BY <1>4 DEF RejectedInsert, Decided
  <2>3. PICK k : k = Done(c, Outcome(c))
    OBVIOUS
  <2>4. k \in SoundCalls /\ k.at # "saved"
    BY <1>2, <2>2, <2>3, OutcomeSound DEF IInv
  <2> QED BY <1>3, <2>1, <2>3, <2>4, AskKeeps DEF db
<1>5. CASE RejectedInsert(c.t)
  <2>1. PICK y : y = [rev |-> c.rev, body |-> Wants(c), snap |-> None]
    OBVIOUS
  <2>2. y # None /\ y.snap = None
    <3>1. y \in Archive
      BY <1>2, <2>1 DEF Archive, Wants, Body
    <3> QED BY <2>1, <3>1, NoneAssumption
  <2>3. PICK k : k = Done(c, "rejected")
    OBVIOUS
  <2>4. hist' = [hist EXCEPT ![c.t] = y] /\ Step(q, k)
    BY <1>1, <1>5, <2>1, <2>3 DEF RetryReject
  <2>5. hist[c.t] = None /\ \A r \in Rev : row[r].id # c.t
    BY <1>5 DEF RejectedInsert, Current
  <2>6. hist'[c.t] = y /\ \A i \in Id \ {c.t} : hist'[i] = hist[i]
    BY <1>2, <2>4 DEF IInv, Typed, TypeOK
  <2>7. Typed'
    BY OwnerTypes DEF IInv, OwnerNext
  <2>8. Monotone
    BY <1>3, <2>5, <2>6 DEF Monotone, Spent, Final, In, r2, run, wf
  <2>9. Advances /\ Rows'
    <3>1. \A r \in Rev : hist'[row[r].id] = hist[row[r].id]
      BY <2>5, <2>6 DEF IInv, Typed, TypeOK, Row
    <3> QED BY <1>3, <2>7, <2>8, <3>1, RowsStay
  <2>10. c \in SoundCalls'
    BY <1>2, <2>8, <2>9, CallsSound DEF IInv
  <2>11. k \in ReadyCall
    BY <1>2, <2>3, CallEdited
  <2>12. k.at = "done" /\ k.t = c.t /\ k.seen = c.seen /\ (k.sure <=> c.sure) /\ k.out = "rejected"
    BY <1>2, <2>3, DoneFields
  <2>13. Rejected(c.t)'
    BY <2>2, <2>6 DEF Rejected
  <2>14. k \in SoundCalls'
    BY <1>2, <2>10, <2>11, <2>12, <2>13 DEF SoundCalls
  <2> QED BY <1>3, <2>4, <2>7, <2>8, <2>9, <2>14, OwnerKeeps DEF r2, run, wf
<1> QED BY <1>4, <1>5

LEMMA SavePutKeeps ==
  ASSUME IInv, NEW q \in Req, SavePut(q) PROVE IInv'
<1>1. PICK c : c = req[q]
  OBVIOUS
<1>2. /\ c \in SoundCalls /\ c \in ReadyCall /\ c \in Call /\ c.at = "save" /\ c.seen.id \in Id
  BY <1>1, AtCall DEF SavePut
<1>3. UNCHANGED <<db, snap, run, wf, fin, pass>> /\ bucket \in [Id -> Objects]
  BY DEF SavePut, IInv, Typed, TypeOK
<1>4. PICK i \in Id : i = c.seen.id
  BY <1>2
<1>5. PICK x : x = Checked(i)
  OBVIOUS
<1>6. CASE bucket' = bucket /\ Step(q, Done(c, "error"))
  <2>1. PICK k : k = Done(c, "error")
    OBVIOUS
  <2>2. k \in SoundCalls /\ k.at # "saved"
    BY <1>2, <2>1, DoneSound
  <2> QED BY <1>3, <1>6, <2>1, <2>2, AskKeeps DEF r2
<1>7. CASE /\ Available(i) /\ bucket[i].checked \in {None, x}
           /\ bucket' = [bucket EXCEPT ![i].checked = x]
           /\ Step(q, [c EXCEPT !.at = "saved"]) \/ Step(q, Done(c, "error"))
  <2>1. \A j \in Id : /\ bucket'[j].report = bucket[j].report /\ bucket'[j].call = bucket[j].call
                      /\ bucket[j].checked # None => bucket'[j].checked = bucket[j].checked
    <3> SUFFICES ASSUME NEW j \in Id
                 PROVE  /\ bucket'[j].report = bucket[j].report /\ bucket'[j].call = bucket[j].call
                        /\ bucket[j].checked # None => bucket'[j].checked = bucket[j].checked
      OBVIOUS
    <3>1. CASE j = i
      <4>1. PICK b : b = bucket[i]
        OBVIOUS
      <4>2. bucket'[i] = [b EXCEPT !.checked = x] /\ b \in Objects
        BY <1>3, <1>7, <4>1
      <4>3. bucket'[i].report = b.report /\ bucket'[i].call = b.call /\ bucket'[i].checked = x
        BY <4>2 DEF Objects
      <4> QED BY <1>7, <3>1, <4>1, <4>3
    <3>2. CASE j # i
      BY <1>3, <1>7, <3>2
    <3> QED BY <3>1, <3>2
  <2>2. Typed'
    BY OwnerTypes DEF IInv, OwnerNext
  <2>3. Monotone
    BY <1>3, <2>1 DEF Monotone, Spent, Final, In, db, run, wf
  <2>4. Advances /\ Rows'
    BY <1>3, <2>2, <2>3, RowsStay DEF db
  <2>5. SoundCalls \subseteq SoundCalls'
    BY <2>3, <2>4, CallsSound DEF IInv
  <2>6. PICK k : k \in SoundCalls' /\ Step(q, k)
    <3>1. CASE Step(q, [c EXCEPT !.at = "saved"])
      <4>1. PICK k : k = [c EXCEPT !.at = "saved"]
        OBVIOUS
      <4>2. k \in ReadyCall
        BY <1>2, <4>1, CallEdited
      <4>3. k.at = "saved" /\ k.t = c.t /\ k.seen = c.seen /\ (k.sure <=> c.sure) /\ k.out = c.out
        BY <1>2, <4>1, MovedFields
      <4>4. k \in SoundCalls
        BY <1>2, <4>2, <4>3 DEF SoundCalls
      <4> QED BY <2>5, <3>1, <4>1, <4>4
    <3>2. CASE Step(q, Done(c, "error"))
      BY <1>2, <2>5, <3>2, DoneSound
    <3> QED BY <1>7, <3>1, <3>2
  <2> QED BY <1>3, <2>1, <2>2, <2>3, <2>4, <2>6, OwnerKeeps DEF db, run, wf
<1> QED BY <1>1, <1>4, <1>5, <1>6, <1>7 DEF SavePut

LEMMA SaveSwitchKeeps ==
  ASSUME IInv, NEW q \in Req, SaveSwitch(q) PROVE IInv'
<1>1. PICK c : c = req[q]
  OBVIOUS
<1>2. /\ c # None /\ c \in SoundCalls /\ c \in Call /\ c.at = "saved" /\ c.rev \in Rev /\ c.seen.id \in Id
  BY <1>1, AtCall DEF SaveSwitch
<1>3. UNCHANGED <<hist, r2, run, wf, fin, pass>>
  BY DEF SaveSwitch
<1>4. PICK k : k \in SoundCalls /\ k.at # "saved" /\ Step(q, k)
  BY <1>1, <1>2, DoneSound DEF SaveSwitch
<1>5. CASE ~CanSave(c)
  BY <1>1, <1>3, <1>4, <1>5, AskKeeps DEF SaveSwitch, db
<1>6. CASE CanSave(c)
  <2>1. PICK x : x = bucket[c.seen.id].checked
    OBVIOUS
  <2>2. x \in Report /\ x # None
    BY <1>1, <1>2, <2>1, NoneAssumption DEF IInv, Typed, Saved
  <2>3. PICK z : z = row[c.rev]
    OBVIOUS
  <2>4. z \in Row /\ row \in [Rev -> Row] /\ claims \in [Rev -> Id \cup {None}]
    BY <1>2, <2>3 DEF IInv, Typed, TypeOK
  <2>5. /\ row' = [row EXCEPT ![c.rev] = [z EXCEPT !.st = x.st, !.key = "checked", !.sum = TRUE, !.kept = x.kept]]
        /\ claims' = [claims EXCEPT ![c.rev] = IF x.kept THEN c.seen.id ELSE @]
    BY <1>1, <1>6, <2>1, <2>3 DEF SaveSwitch
  <2>6. z.st \in Settled /\ z.key # "checked" /\ z.id = c.seen.id
    BY <1>2, <1>6, <2>3 DEF CanSave, SoundCalls
  <2>7. /\ row'[c.rev].st = x.st /\ row'[c.rev].key = "checked" /\ (row'[c.rev].kept <=> x.kept)
        /\ row'[c.rev].id = z.id /\ row'[c.rev].calls = z.calls /\ row'[c.rev].tok = z.tok
        /\ row'[c.rev].limit = z.limit
    <3>1. row'[c.rev] = [z EXCEPT !.st = x.st, !.key = "checked", !.sum = TRUE, !.kept = x.kept]
      BY <1>2, <2>4, <2>5
    <3> QED BY <2>4, <3>1 DEF Row
  <2>8. x.kept => claims'[c.rev] = z.id
    BY <1>2, <2>4, <2>5, <2>6
  <2>9. x.st \in Settled
    BY <2>2 DEF Report
  <2>10. Headed(c.rev)
    BY <2>1, <2>2, <2>3, <2>6, <2>7, <2>8, <2>9 DEF Headed
  <2>11. \A r \in Rev : RowStep(r) /\ row'[r].id = row[r].id /\ row'[r].calls = row[r].calls
    <3> SUFFICES ASSUME NEW r \in Rev
                 PROVE  RowStep(r) /\ row'[r].id = row[r].id /\ row'[r].calls = row[r].calls
      OBVIOUS
    <3>1. CASE r = c.rev
      BY <2>3, <2>7, <2>10, <3>1 DEF RowStep
    <3>2. CASE r # c.rev
      BY <2>4, <2>5, <3>2 DEF RowStep
    <3> QED BY <3>1, <3>2
  <2>12. Typed'
    BY OwnerTypes DEF IInv, OwnerNext
  <2>13. Monotone
    BY <1>3 DEF Monotone, Spent, Final, In, r2, run, wf
  <2>14. Advances
    BY <2>11, RowsAdvance
  <2>15. Rows'
    BY <1>3, <2>11, <2>12, <2>13, RowsKept DEF IInv
  <2>16. k \in SoundCalls'
    BY <1>4, <2>13, <2>14, CallsSound DEF IInv
  <2> QED BY <1>3, <1>4, <2>11, <2>12, <2>13, <2>14, <2>15, <2>16, OwnerKeeps DEF r2, run, wf
<1> QED BY <1>5, <1>6

LEMMA OwnerNextKeeps ==
  ASSUME IInv, NEW q \in Req, OwnerNext(q) PROVE IInv'
BY ReadKeeps, AskingKeeps, PutKeeps, SwitchKeeps, RejectKeeps, SavePutKeeps, SaveSwitchKeeps DEF OwnerNext

(* A plain request, and time. *)
LEMMA OtherKeeps ==
  ASSUME IInv, (\E r \in Rev : Request(r)) \/ (\E i \in Id : Age(i)) \/ UNCHANGED vars
  PROVE  IInv'
<1>1. /\ Typed /\ Rows /\ Attempts /\ Fins /\ Passes /\ Requests /\ Typed'
      /\ row \in [Rev -> Row] /\ age \in [Id -> {"new", "stale", "late"}]
  BY OtherTypes DEF IInv, Typed, TypeOK
<1>2. UNCHANGED <<claims, hist, bucket, snap, paid, at, loose, fin, pass, req>>
  BY DEF Request, Age, vars, db, r2, run, wf
<1>3. \A i \in Id : age[i] = "late" => age'[i] = "late"
  BY <1>1 DEF Request, Age, vars, run, wf
<1>4. Monotone
  BY <1>2, <1>3 DEF Monotone, Spent, Final, In
<1>5. \A r \in Rev : RowStep(r) /\ row'[r].id = row[r].id /\ row'[r].calls = row[r].calls
  <2> SUFFICES ASSUME NEW r \in Rev
               PROVE  RowStep(r) /\ row'[r].id = row[r].id /\ row'[r].calls = row[r].calls
    OBVIOUS
  <2>1. PICK x : x = row[r]
    OBVIOUS
  <2>2. CASE row'[r] = row[r]
    BY <1>2, <2>2 DEF RowStep
  <2>3. CASE row'[r] # row[r]
    <3>1. row'[r] = [x EXCEPT !.st = "queued"] /\ x.st \in {"none", "paused"} /\ x \in Row
      BY <1>1, <2>1, <2>3 DEF Request, Age, vars, db
    <3>2. /\ row'[r].id = x.id /\ row'[r].calls = x.calls /\ row'[r].key = x.key /\ (row'[r].kept <=> x.kept)
          /\ row'[r].limit = x.limit /\ row'[r].st = "queued" /\ row'[r].tok = x.tok
      BY <3>1 DEF Row
    <3>3. x.key # "checked" /\ x.limit # "released" /\ (x.kept => claims[r] = x.id)
      BY <1>1, <2>1, <3>1, RunningRow DEF Settled
    <3>4. TokSound(r)'
      BY <1>1, <1>2, <2>1, <3>1, <3>2, TokStays DEF Settled
    <3> QED BY <1>2, <2>1, <3>1, <3>2, <3>3, <3>4 DEF RowStep, Edited, Settled, Counts
  <2> QED BY <2>2, <2>3
<1>6. Advances
  BY <1>5, RowsAdvance
<1>7. Rows'
  BY <1>1, <1>2, <1>4, <1>5, RowsKept
<1>8. Fins'
  BY <1>1, <1>2, <1>4, <1>6, FinsSound DEF Fins
<1>9. Passes' /\ Requests'
  BY <1>1, <1>2, <1>4, <1>6, PassesKept, RequestsKept
<1>10. Untouched'
  BY <1>1, <1>2, <1>4, <1>6, KnownKept DEF Attempts, Untouched
<1>11. Calls'
  BY <1>1, <1>2, <1>5 DEF Attempts, Calls
<1>12. Stages'
  BY <1>1, <1>2 DEF Attempts, Stages, StageAgrees, Tidy, In
<1>13. Reports'
  BY <1>1, <1>2, <1>4, <1>6, ReportsKept DEF Attempts
<1> QED BY <1>1, <1>7, <1>8, <1>9, <1>10, <1>11, <1>12, <1>13 DEF IInv, Attempts

-----------------------------------------------------------------------------
LEMMA Initial == Init => IInv
<1> SUFFICES ASSUME Init PROVE IInv
  OBVIOUS
<1>1. Rev \subseteq Id /\ Rev \cap Attempt = {}
  BY IdAssumption DEF Id
<1>2. \A r \in Rev : /\ Fresh(r) \in Row /\ Fresh(r).id = r /\ Fresh(r).st = "none" /\ Fresh(r).calls = 0
                     /\ Fresh(r).limit = "unset" /\ Fresh(r).key = None /\ Fresh(r).kept = FALSE
                     /\ Fresh(r).tok = None
  BY <1>1 DEF Fresh, Row, State, Tokens
<1>3. TypeOK
  <2>1. [call |-> [n \in 1 .. 2 |-> None], report |-> None, checked |-> None] \in Objects
    BY DEF Objects
  <2> QED BY <1>2, <2>1 DEF TypeOK, Init, Stage
<1>4. Typed
  BY <1>3 DEF Typed, Init, Saved
<1>5. \A r \in Rev : row[r].id = r /\ row[r].st = "none" /\ row[r].calls = 0 /\ row[r].limit = "unset"
                     /\ row[r].key = None /\ row[r].kept = FALSE /\ row[r].tok = None
  BY <1>2 DEF Init
<1>6. Rows
  BY <1>1, <1>5, NoneAssumption DEF Rows, Unique, Live, Usages, TokSound, Released, Heads,
     ClaimsOwned, Settled, Init
<1>7. Attempts
  <2>1. Calls
    BY <1>1, <1>5 DEF Calls, Init
  <2>2. \A i \in Id : i \in Worker
    BY DEF Worker
  <2>3. Untouched /\ Reports
    BY DEF Untouched, Reports, Init
  <2>4. Stages
    BY <2>2, NoneAssumption DEF Stages, StageAgrees, Tidy, In, Steps, Init
  <2> QED BY <2>1, <2>3, <2>4 DEF Attempts
<1>8. Fins /\ Passes /\ Requests
  BY DEF Fins, Passes, Requests, Init
<1> QED BY <1>4, <1>6, <1>7, <1>8 DEF IInv

LEMMA Inductive == IInv /\ [Next]_vars => IInv'
<1> SUFFICES ASSUME IInv, [Next]_vars PROVE IInv'
  OBVIOUS
<1>1. CASE (\E r \in Rev : Request(r)) \/ (\E i \in Id : Age(i)) \/ UNCHANGED vars
  BY <1>1, OtherKeeps
<1>2. ASSUME NEW i \in Id, WorkflowNext(i) PROVE IInv'
  BY <1>2, WorkflowKeeps
<1>3. ASSUME NEW p \in Pass, PassNext(p) PROVE IInv'
  BY <1>3, PassKeeps
<1>4. ASSUME NEW w \in Worker, FinishNext(w) PROVE IInv'
  BY <1>4, FinishKeeps
<1>5. ASSUME NEW q \in Req, OwnerNext(q) PROVE IInv'
  BY <1>5, OwnerNextKeeps
<1> QED BY <1>1, <1>2, <1>3, <1>4, <1>5 DEF Next

(* The invariant holds throughout. *)
THEOREM Invariance == Spec => []IInv
BY Initial, Inductive, PTL DEF Spec

(* Every variable keeps its type. *)
THEOREM TypeCorrect == Spec => []TypeOK
<1>1. IInv => TypeOK
  BY DEF IInv, Typed
<1> QED BY <1>1, Invariance, PTL

(* What a row says was paid is true: it counts every call that was made, a reservation   *)
(* that was given back made none, and the usage recorded when the attempt was settled is    *)
(* that of stored answers, of every call counted or of all but the last.  It lacks the       *)
(* last only past the deadline, or when a paid step has timed out and its callback has     *)
(* dispatched beside the finish that settled the row.                             *)
THEOREM UsageIsTrue == Spec => []UsageTrue
<1>1. IInv => UsageTrue
  <2> SUFFICES ASSUME IInv, NEW r \in Rev, NEW i \in Id, i = row[r].id
               PROVE  /\ Len(paid[i]) <= row[r].calls
                      /\ row[r].limit = "released" => row[r].calls = 0
                      /\ row[r].st \in Settled /\ row[r].tok # None =>
                           /\ \A n \in 1 .. row[r].tok : bucket[i].call[n] # None
                           /\ \/ row[r].tok = row[r].calls
                              \/ Overtaken(i) /\ row[r].tok + 1 = row[r].calls
    BY DEF UsageTrue, IInv, Typed, TypeOK, Row
  <2>1. /\ row[r].calls \in 0 .. 2 /\ row[r].tok \in 0 .. 2 \cup {None}
        /\ paid[i] \in {<<>>, <<1>>, <<1, 2>>} /\ Calls /\ Released /\ TokSound(r)
    BY DEF IInv, Typed, TypeOK, Row, Tokens, Attempts, Rows, Usages
  <2>2. Len(paid[i]) <= row[r].calls
    <3>1. Len(<<>>) = 0 /\ Len(<<1>>) = 1 /\ Len(<<1, 2>>) = 2
      OBVIOUS
    <3>2. row[r].calls = 0 => paid[i] = <<>>
      BY <2>1 DEF Calls
    <3>3. row[r].calls = 1 => paid[i] \in {<<>>, <<1>>}
      BY <2>1 DEF Calls
    <3>4. PICK k, p, m : k = row[r].calls /\ p = paid[i] /\ m = Len(p)
      OBVIOUS
    <3>5. (p = <<>> => m = 0) /\ (p = <<1>> => m = 1) /\ (p = <<1, 2>> => m = 2)
      BY <3>1, <3>4, Zenon
    <3>6. \/ k = 0 /\ p = <<>>
          \/ k = 1 /\ p \in {<<>>, <<1>>}
          \/ k = 2 /\ p \in {<<>>, <<1>>, <<1, 2>>}
      BY <2>1, <3>2, <3>3, <3>4
    <3>7. m <= k
      BY <3>5, <3>6
    <3> QED BY <3>4, <3>7
  <2>3. row[r].limit = "released" => row[r].calls = 0
    BY <2>1 DEF Released
  <2>4. ASSUME row[r].st \in Settled, row[r].tok # None
        PROVE  /\ \A n \in 1 .. row[r].tok : bucket[i].call[n] # None
               /\ \/ row[r].tok = row[r].calls
                  \/ Overtaken(i) /\ row[r].tok + 1 = row[r].calls
    BY <2>1, <2>4 DEF TokSound, Backed, Level
  <2> QED BY <2>2, <2>3, <2>4
<1> QED BY <1>1, Invariance, PTL

(* A retry identity is accepted or rejected, never both, and every answer says which. *)
THEOREM OutcomesAgree == Spec => []OneOutcome
<1>1. IInv => OneOutcome
  <2> SUFFICES ASSUME IInv PROVE OneOutcome
    OBVIOUS
  <2>1. \A t \in Attempt : Rejected(t) => Current(t) = {}
    BY DEF IInv, Rows, Live, Rejected, Current
  <2>2. \A q \in Req : req[q] # None => req[q] \in SoundCalls
    BY DEF IInv, Requests
  <2>3. \A q \in Req : req[q] # None =>
          /\ req[q].out = "accepted" => Current(req[q].t) # {} \/ Archived(req[q].t)
          /\ req[q].out = "rejected" => Rejected(req[q].t)
    BY <2>2 DEF SoundCalls, Accepted
  <2> QED BY <2>1, <2>3 DEF OneOutcome
<1> QED BY <1>1, Invariance, PTL

(* The claims a row shows are its own attempt's, and a saved head says what the row says. *)
THEOREM ClaimsAreOwned == Spec => []ClaimsOwned
<1>1. IInv => ClaimsOwned
  BY DEF IInv, Rows
<1> QED BY <1>1, Invariance, PTL


-----------------------------------------------------------------------------
(* A row takes another attempt in a switch only. *)
LEMMA OnlySwitch ==
  ASSUME IInv, [Next]_vars, NEW r \in Rev, row'[r].id # row[r].id
  PROVE  \E q \in Req : RetrySwitch(q) /\ CanSwitch(req[q]) /\ req[q].rev = r
<1>1. Typed /\ Rows /\ Attempts /\ Fins /\ Passes /\ row \in [Rev -> Row]
  BY DEF IInv, Typed, TypeOK
<1>2. row' # row
  OBVIOUS
<1>3. CASE (\E k \in Rev : Request(k)) \/ (\E i \in Id : Age(i)) \/ UNCHANGED vars
  <2>1. PICK x : x = row[r]
    OBVIOUS
  <2>2. row'[r] = x \/ row'[r] = [x EXCEPT !.st = "queued"]
    BY <1>1, <1>3, <2>1 DEF Request, Age, vars, db
  <2> QED BY <1>1, <2>1, <2>2 DEF Row
<1>4. CASE \E i \in Id : WorkflowNext(i)
  BY <1>1, <1>4, WorkflowRows
<1>5. CASE \E p \in Pass : PassNext(p)
  BY <1>1, <1>5, PassRows
<1>6. ASSUME NEW w \in Worker, FinishNext(w) PROVE FALSE
  <2>1. CASE UpdateRow(w)
    BY <1>1, <2>1, FinishRows
  <2>2. CASE ~UpdateRow(w)
    BY <1>2, <1>6, <2>2 DEF FinishNext, ReadRow, ReadObjects, PutReport, db
  <2> QED BY <2>1, <2>2
<1>7. ASSUME NEW q \in Req, OwnerNext(q)
      PROVE  RetrySwitch(q) /\ CanSwitch(req[q]) /\ req[q].rev = r
  <2>1. PICK c : c = req[q]
    OBVIOUS
  <2>2. RetrySwitch(q) \/ SaveSwitch(q)
    BY <1>2, <1>7 DEF OwnerNext, SaveRead, RetryRead, RetryCheck, RetryStatus, RetrySettle, RetryPut, RetryReply,
                      RetryReject, SavePut, db
  <2>3. CASE RetrySwitch(q)
    BY <1>1, <1>2, <2>3 DEF RetrySwitch
  <2>4. CASE SaveSwitch(q)
    <3>1. PICK x, z : x = bucket[c.seen.id].checked /\ z = row[r]
      OBVIOUS
    <3>2. row'[r] = z \/ row'[r] = [z EXCEPT !.st = x.st, !.key = "checked", !.sum = TRUE, !.kept = x.kept]
      BY <1>1, <2>1, <2>4, <3>1 DEF SaveSwitch
    <3> QED BY <1>1, <3>1, <3>2 DEF Row
  <2> QED BY <2>2, <2>3, <2>4
<1> QED BY <1>3, <1>4, <1>5, <1>6, <1>7 DEF Next

(* Superseding an attempt archives its row and its claims exactly as they stood. *)
THEOREM ArchiveIsExact == Spec => ArchivedExactly
<1>1. ASSUME IInv, [Next]_vars
      PROVE  [\A r \in Rev : row'[r].id # row[r].id =>
                LET i == row[r].id IN
                  /\ hist'[i] # None /\ hist'[i].snap # None
                  /\ snap[<<i, hist'[i].snap>>] = [row |-> row[r], claims |-> VisibleClaims(r)]]_vars
  <2> SUFFICES ASSUME NEW r \in Rev, row'[r].id # row[r].id
               PROVE  /\ hist'[row[r].id] # None /\ hist'[row[r].id].snap # None
                      /\ snap[<<row[r].id, hist'[row[r].id].snap>>] =
                           [row |-> row[r], claims |-> VisibleClaims(r)]
    OBVIOUS
  <2>1. PICK q \in Req : RetrySwitch(q) /\ CanSwitch(req[q]) /\ req[q].rev = r
    BY <1>1, OnlySwitch
  <2>2. PICK c : c = req[q]
    OBVIOUS
  <2>3. /\ c.t \in Attempt /\ c.seen.id \in Id /\ row[r] = c.seen /\ VisibleClaims(r) = c.claims
        /\ snap[<<c.seen.id, c.t>>] = [row |-> c.seen, claims |-> c.claims]
    BY <1>1, <2>1, <2>2, Switched DEF RetrySwitch
  <2>4. PICK y : y = [rev |-> c.rev, body |-> row[c.rev].body, snap |-> c.t]
    OBVIOUS
  <2>5. hist' = [hist EXCEPT ![c.seen.id] = y]
    BY <2>1, <2>2, <2>4 DEF RetrySwitch
  <2>6. hist'[c.seen.id] = y /\ y.snap = c.t
    BY <1>1, <2>3, <2>4, <2>5 DEF IInv, Typed, TypeOK
  <2>7. y # None
    <3>1. row[r].body \in Body \cup {None}
      BY <1>1 DEF IInv, Typed, TypeOK, Row
    <3>2. y \in Archive
      BY <2>1, <2>2, <2>3, <2>4, <3>1 DEF Archive
    <3> QED BY <3>2, NoneAssumption
  <2>8. c.t # None
    BY <2>3, NoneAssumption DEF Id
  <2> QED BY <2>3, <2>6, <2>7, <2>8
<1> QED BY <1>1, Invariance, PTL DEF Spec, ArchivedExactly


-----------------------------------------------------------------------------
(* The rows and the Workflows implement PaidAttempts.                         *)
Paying == {i \in Id : In(i, "answer1") \/ In(i, "answer2")}
Shown == [r \in Rev |-> row[r].id]

(* Nothing the owner pays for changes, unless a callback stops waiting for its answer. *)
LEMMA NothingBought ==
  ASSUME UNCHANGED paid, \A r \in Rev : row'[r].id = row[r].id,
         NEW i \in Id, Paying' = Paying \/ Paying' = Paying \ {i}
  PROVE  [Paid!Next]_(Paid!vars)
<1>1. Shown' = Shown
  BY DEF Shown
<1>2. CASE Paying' = Paying
  BY <1>1, <1>2 DEF Paid!vars, Shown, Paying
<1>3. CASE Paying' = Paying \ {i} /\ i \in Paying
  <2>1. Paid!Answer(i)
    BY <1>1, <1>3 DEF Paid!Answer, Shown, Paying
  <2> QED BY <2>1 DEF Paid!Next
<1> QED BY <1>2, <1>3

LEMMA SendBuys ==
  ASSUME IInv, NEW i \in Id, NEW n \in 1 .. 2, Send(i, n), ~(paid' = paid /\ Throws(i))
  PROVE  \E r \in Rev : Paid!Buy(r)
<1>1. Typed /\ Rows /\ Attempts /\ Places /\ Tidy(i)
  BY Placed DEF IInv
<1>2. PICK r \in Rev : CanSend(i, n, r)
  BY <1>1, SendPaid
<1>3. Moves(i, <<"answer1", "answer2">>[n]) /\ paid' = [paid EXCEPT ![i] = Append(@, n)] /\ fin' = fin
  BY DEF Send
<1>4. (n = 1 => paid[i] = <<>>) /\ (n = 2 => paid[i] = <<1>>)
  BY <1>1, <1>2, SendPays
<1>5. Len(paid[i]) = n - 1
  <2>1. Len(<<>>) = 0 /\ Len(<<1>>) = 1
    OBVIOUS
  <2>2. CASE n = 1
    <3>1. Len(paid[i]) = Len(<<>>)
      BY <1>4, <2>2, Zenon
    <3> QED BY <2>1, <2>2, <3>1
  <2>3. CASE n = 2
    <3>1. Len(paid[i]) = Len(<<1>>)
      BY <1>4, <2>3, Zenon
    <3> QED BY <2>1, <2>3, <3>1
  <2> QED BY <2>2, <2>3
<1>6. Shown[r] = i /\ Shown' = Shown
  <2>1. \A s \in Rev : row'[s].id = row[s].id
    <3>1. WorkflowNext(i)
      BY DEF WorkflowNext
    <3> QED BY <1>1, <3>1, WorkflowRows
  <2> QED BY <1>2, <2>1 DEF Shown, CanSend, Owns
<1>7. Paying \cap {i} = {} /\ Paying' = Paying \cup {i}
  <2>1. PICK u, s : u = <<"send1", "send2">>[n] /\ s = <<"answer1", "answer2">>[n]
    OBVIOUS
  <2>2. u \in {"send1", "send2"} /\ s \in {"answer1", "answer2"} /\ u \in Steps /\ s \in Steps /\ In(i, u)
    BY <2>1, StepNames DEF Send
  <2>3. i \notin Paying
    BY <1>1, <2>2, AtStage, NoneAssumption DEF Paying, In, Steps
  <2>4. Moved(i, s)
    BY <1>1, <1>3, <2>1, <2>2, MovesOn
  <2>5. In(i, s)'
    BY <1>1, <1>3, <2>1, Relocates DEF Moves, In
  <2>6. i \in Paying'
    BY <2>2, <2>5 DEF Paying
  <2> QED BY <2>3, <2>4, <2>6 DEF Paying, In, Moved
<1>8. paid' = [paid EXCEPT ![i] = Append(@, Len(@) + 1)]
  <2>1. n = Len(paid[i]) + 1
    BY <1>5
  <2> QED BY <1>3, <2>1
<1>9. Len(paid[i]) < 2
  BY <1>5
<1>10. Paid!Buy(r)
  BY <1>6, <1>7, <1>8, <1>9 DEF Paid!Buy, Shown, Paying
<1> QED BY <1>10

(* Only a dispatch makes a callback wait for an answer. *)
LEMMA NoDispatch ==
  ASSUME Places, NEW i \in Id, WorkflowNext(i), \A n \in 1 .. 2 : Send(i, n) => Throws(i),
         NEW a \in {"answer1", "answer2"}, In(i, a)'
  PROVE  In(i, a)
<1>1. a # "over" /\ a # "catch" /\ a # "ended" /\ a # "schedule" /\ a # "finish" /\ a # None
  BY NoneAssumption DEF Steps
<1>2. \A s : Moves(i, s) /\ s # a => In(i, a)
  BY Relocates DEF Moves, In
<1>3. \A s : Resolves(i, s) /\ s # a => In(i, a)
  BY <1>1, Relocates DEF Resolves, In
<1>4. Throws(i) => In(i, a)
  BY <1>1, Relocates DEF Throws, ToCatch, In
<1>5. ASSUME NEW n \in 1 .. 2, Prepare(i, n) \/ Send(i, n) \/ Answer(i, n) PROVE In(i, a)
  <2>1. <<"send1", "send2">>[n] # a /\ <<"verify", "commit">>[n] # a
    BY StepNames
  <2> QED BY <1>2, <1>3, <1>4, <1>5, <2>1 DEF Prepare, Answer
<1>6. ASSUME NEW n \in 1 .. 2, Replay(i, n) PROVE In(i, a)
  <2>1. <<"prepare1", "prepare2">>[n] # a
    BY StepNames
  <2> QED BY <1>6, <2>1, Relocates DEF Replay, In
<1>7. CASE VerifyAndStore(i) \/ CommitSynthesis(i)
  BY <1>1, <1>3, <1>7 DEF VerifyAndStore, CommitSynthesis
<1>8. CASE StepFails(i)
  BY <1>1, <1>8, Relocates DEF StepFails, ToCatch, In
<1>9. CASE TimesOut(i)
  BY <1>1, <1>9, Relocates DEF TimesOut, ToCatch, In
<1>10. CASE FinishRetried(i)
  BY <1>10 DEF FinishRetried, wf, In
<1>11. CASE Stopped(i)
  BY <1>1, <1>11 DEF Stopped, Ends, Places, In
<1> QED BY <1>5, <1>6, <1>7, <1>8, <1>9, <1>10, <1>11 DEF WorkflowNext

LEMMA WorkflowBuys ==
  ASSUME IInv, NEW i \in Id, WorkflowNext(i) PROVE [Paid!Next]_(Paid!vars)
<1>1. Typed /\ Rows /\ Attempts /\ Places
  BY Placed DEF IInv
<1>2. /\ \A r \in Rev : row'[r].id = row[r].id
      /\ \A j \in Id \ {i} : at'[j] = at[j] /\ loose'[j] = loose[j]
  BY <1>1, WorkflowRows, WorkflowStage DEF Lands, Moved
<1>3. ASSUME NEW n \in 1 .. 2, Send(i, n), ~(paid' = paid /\ Throws(i)) PROVE Paid!Next
  BY <1>3, SendBuys DEF Paid!Next
<1>4. ASSUME \A n \in 1 .. 2 : Send(i, n) => paid' = paid /\ Throws(i)
      PROVE  [Paid!Next]_(Paid!vars)
  <2>1. paid' = paid
    BY <1>4 DEF WorkflowNext, Prepare, Answer, Replay, VerifyAndStore, CommitSynthesis, StepFails, TimesOut,
                FinishRetried, Stopped, run
  <2>2. \A a \in {"answer1", "answer2"} : In(i, a)' => In(i, a)
    BY <1>1, <1>4, NoDispatch
  <2>3. Paying' = Paying \/ Paying' = Paying \ {i}
    BY <1>2, <2>2 DEF Paying, In
  <2> QED BY <1>2, <2>1, <2>3, NothingBought
<1> QED BY <1>3, <1>4

LEMMA SwitchReplaces ==
  ASSUME IInv, NEW q \in Req, RetrySwitch(q), CanSwitch(req[q])
  PROVE  \E r \in Rev : \E t \in Id \ Rev : Paid!Replace(r, t)
<1>1. PICK c : c = req[q]
  OBVIOUS
<1>2. /\ c.rev \in Rev /\ c.t \in Attempt /\ c.seen.id \in Id /\ row[c.rev] = c.seen
      /\ (at[c.seen.id] = "ended" \/ c.seen.calls = 0) /\ ~Known(c.t)
  BY <1>1, Switched DEF RetrySwitch
<1>3. c.t \in Id \ Rev
  BY <1>2, IdAssumption DEF Id
<1>4. Shown[c.rev] = c.seen.id /\ c.seen.id \notin Paying
  <2>1. PICK i \in Id : i = c.seen.id
    BY <1>2
  <2>2. Typed /\ Attempts /\ Tidy(i)
    BY Placed DEF IInv
  <2>3. ASSUME at[i] = "ended" PROVE i \notin Paying
    BY <2>2, <2>3 DEF Paying, Tidy, In, Steps
  <2>4. ASSUME c.seen.calls = 0 PROVE i \notin Paying
    <3>1. paid[i] = <<>>
      BY <1>2, <2>1, <2>2, <2>4 DEF Attempts, Calls
    <3>2. i \in Paying => paid[i] \in {<<1>>, <<1, 2>>}
      BY <2>2, Placed DEF Paying, Fits, Steps
    <3> QED BY <3>1, <3>2, CallsDiffer
  <2> QED BY <1>2, <2>1, <2>3, <2>4 DEF Shown
<1>5. paid[c.t] = <<>> /\ \A s \in Rev : Shown[s] # c.t
  BY <1>2, <1>3 DEF IInv, Attempts, Untouched, Known, Current, Shown
<1>6. Shown' = [Shown EXCEPT ![c.rev] = c.t]
  <2>1. PICK x : x = [Fresh(c.t) EXCEPT !.body = Wants(c), !.st = "queued"]
    OBVIOUS
  <2>2. x.id = c.t /\ row' = [row EXCEPT ![c.rev] = x]
    BY <1>1, <2>1 DEF RetrySwitch, Fresh
  <2>3. row'[c.rev] = x /\ \A r \in Rev \ {c.rev} : row'[r] = row[r]
    BY <1>2, <2>2 DEF IInv, Typed, TypeOK
  <2>4. \A r \in Rev : row'[r].id = IF r = c.rev THEN c.t ELSE row[r].id
    BY <2>2, <2>3
  <2>5. Shown' = [r \in Rev |-> IF r = c.rev THEN c.t ELSE row[r].id]
    BY <2>4 DEF Shown
  <2>6. [Shown EXCEPT ![c.rev] = c.t] = [r \in Rev |-> IF r = c.rev THEN c.t ELSE row[r].id]
    BY DEF Shown
  <2> QED BY <2>5, <2>6
<1>7. paid' = paid /\ Paying' = Paying
  BY DEF RetrySwitch, run, wf, Paying, In
<1>8. Paid!Replace(c.rev, c.t)
  BY <1>4, <1>5, <1>6, <1>7 DEF Paid!Replace, Shown, Paying
<1> QED BY <1>2, <1>3, <1>8

LEMMA PaidStep == IInv /\ [Next]_vars => [Paid!Next]_(Paid!vars)
<1> SUFFICES ASSUME IInv, [Next]_vars PROVE [Paid!Next]_(Paid!vars)
  OBVIOUS
<1>1. CASE \E i \in Id : WorkflowNext(i)
  BY <1>1, WorkflowBuys
<1>2. CASE \E q \in Req : RetrySwitch(q) /\ CanSwitch(req[q])
  BY <1>2, SwitchReplaces DEF Paid!Next
<1>3. CASE ~(\E i \in Id : WorkflowNext(i)) /\ ~(\E q \in Req : RetrySwitch(q) /\ CanSwitch(req[q]))
  <2>1. \A r \in Rev : row'[r].id = row[r].id
    BY <1>3, OnlySwitch
  <2>2. /\ at \in [Id -> Stage] /\ loose \in [Id -> Steps \cup {None, "over"}]
    BY DEF IInv, Typed, TypeOK
  <2>3. ASSUME paid' = paid, Paying' = Paying PROVE [Paid!Next]_(Paid!vars)
    <3>1. CASE Id = {}
      BY <2>1, <2>3, <3>1 DEF Paid!vars, Paying, Id
    <3>2. CASE Id # {}
      BY <2>1, <2>3, <3>2, NothingBought
    <3> QED BY <3>1, <3>2
  <2>4. CASE (\E k \in Rev : Request(k)) \/ (\E i \in Id : Age(i)) \/ UNCHANGED vars
    <3>1. paid' = paid /\ Paying' = Paying
      BY <2>4 DEF Request, Age, vars, run, wf, Paying, In
    <3> QED BY <2>3, <3>1
  <2>5. ASSUME NEW p \in Pass, PassNext(p) PROVE [Paid!Next]_(Paid!vars)
    <3>1. paid' = paid /\ loose' = loose /\ (at' = at \/ Create(p))
      BY <2>5 DEF PassNext, ListRunning, ListQueued, Pause, Admit, Create, Undo, StatusKnown, StatusUnknown,
                  Caught, LastResort, Crash, run, wf
    <3>2. \A i \in Id : at'[i] = at[i] \/ (at[i] = "absent" /\ at'[i] = "prepare1")
      BY <2>2, <3>1 DEF Create
    <3>3. Paying' = Paying
      BY <3>1, <3>2 DEF Paying, In
    <3> QED BY <2>3, <3>1, <3>3
  <2>6. ASSUME NEW w \in Worker, FinishNext(w) PROVE [Paid!Next]_(Paid!vars)
    <3>1. paid' = paid /\ (UNCHANGED wf \/ Returns(w)) /\ fin[w] # None
      BY <2>6 DEF FinishNext, ReadRow, ReadObjects, PutReport, UpdateRow, run, wf, Finishing
    <3>2. CASE UNCHANGED wf
      <4>1. Paying' = Paying
        BY <3>2 DEF Paying, In, wf
      <4> QED BY <2>3, <3>1, <4>1
    <3>3. CASE w \in Id /\ Returns(w)
      <4>1. loose' = loose /\ \A i \in Id \ {w} : at'[i] = at[i]
        BY <2>2, <3>3 DEF Returns
      <4>2. at[w] \notin Steps /\ at'[w] = "schedule"
        <5>1. at[w] \in {"finish", "catch"}
          BY <3>1, <3>3 DEF IInv, Attempts, Stages, StageAgrees, Tidy
        <5> QED BY <2>2, <3>3, <5>1 DEF Returns, Steps
      <4>3. Paying' = Paying
        BY <4>1, <4>2 DEF Paying, In, Steps
      <4> QED BY <2>3, <3>1, <4>3
    <3> QED BY <3>1, <3>2, <3>3 DEF Returns
  <2>7. ASSUME NEW q \in Req, OwnerNext(q) PROVE [Paid!Next]_(Paid!vars)
    <3>1. paid' = paid /\ UNCHANGED wf
      BY <2>7 DEF OwnerNext, SaveRead, RetryRead, RetryCheck, RetryStatus, RetrySettle, RetryPut, RetrySwitch,
                  RetryReply, RetryReject, SavePut, SaveSwitch, run
    <3>2. Paying' = Paying
      BY <3>1 DEF Paying, In, wf
    <3> QED BY <2>3, <3>1, <3>2
  <2> QED BY <1>3, <2>4, <2>5, <2>6, <2>7 DEF Next
<1> QED BY <1>1, <1>2, <1>3

(* Whatever is replayed, retried or raced, only the attempt a row shows buys calls, the    *)
(* first and then the second, each once, and it is never replaced while it is buying.      *)
THEOREM PaysOnce == Spec => PaidSpec
<1>1. Init => Paid!Init
  BY NoneAssumption DEF Init, Fresh, Paid!Init, In, Steps
<1> QED BY <1>1, PaidStep, Invariance, PTL DEF Spec, PaidSpec, Paid!Spec
=============================================================================
