---------------------------- MODULE CaptureProofs ----------------------------
(***************************************************************************)
(* Proofs about Capture, for any number of requests, sources and revisions.  *)
(***************************************************************************)
EXTENDS Capture, TLAPS

(* What a request is asked to capture is well formed. *)
LEMMA ReserveAsks ==
  ASSUME TypeOK, NEW q \in Req, Reserve(q)
  PROVE  pc[q] = "idle" /\ \E a \in Arg : Ask(q, a)
<1>1. PICK m \in Mode, s \in Source, r \in Rev, f \in File : \E n \in {1} \cup NextNos(s) :
        Ask(q, [mode |-> m, src |-> s, rev |-> r, file |-> f, no |-> n])
  BY DEF Reserve
<1>2. PICK n \in {1} \cup NextNos(s) :
        Ask(q, [mode |-> m, src |-> s, rev |-> r, file |-> f, no |-> n])
  BY <1>1
<1>3. n \in Nat \ {0}
  BY <1>2 DEF NextNos, Latest, RevsOf, Captured, TypeOK, Row
<1> QED BY <1>2, <1>3 DEF Arg, Reserve

(* Type correctness: every step of addSource, whatever is lost or crashes,     *)
(* keeps the rows and the requests well formed.                               *)
LEMMA TypeInductive == TypeOK /\ [Next]_vars => TypeOK'
<1> SUFFICES ASSUME TypeOK, [Next]_vars PROVE TypeOK'
  OBVIOUS
<1> USE DEF TypeOK, PC, Running, Ended, d1, Goto
<1>1. ASSUME NEW q \in Req, Reserve(q) PROVE TypeOK'
  <2>1. PICK a \in Arg : Ask(q, a)
    BY <1>1, ReserveAsks
  <2>2. arg' \in [Req -> Arg \cup {None}] /\ pc' \in [Req -> PC]
    BY <2>1 DEF Ask, Verdict
  <2>3. arg'[q] # None /\ \A p \in Req \ {q} : pc'[p] = pc[p] /\ arg'[p] = arg[p]
    BY <2>1, NoneIsFresh DEF Ask
  <2> QED BY <2>1, <2>2, <2>3 DEF Ask
<1>2. ASSUME NEW q \in Req, InsertBatch(q) PROVE TypeOK'
  <2>1. arg[q] \in Arg
    BY <1>2 DEF InsertBatch
  <2> QED BY <1>2, <2>1 DEF InsertBatch, Row, Arg
<1>3. ASSUME NEW q \in Req, PutOriginal(q) \/ Reconcile(q) \/ DeleteOwnKey(q) \/ Crash(q)
      PROVE TypeOK'
  BY <1>3 DEF PutOriginal, Reconcile, DeleteOwnKey, Crash
<1>4. ASSUME NEW q \in Req, CreateInstance(q) \/ CheckInstance(q) \/ MarkUnavailable(q)
      PROVE TypeOK'
  BY <1>4 DEF CreateInstance, CheckInstance, MarkUnavailable, Arg
<1>5. ASSUME NEW r \in Rev, Settle(r) \/ ClearMark(r) PROVE TypeOK'
  BY <1>5 DEF Settle, ClearMark
<1>6. CASE UNCHANGED vars
  BY <1>6 DEF vars
<1> QED BY <1>1, <1>2, <1>3, <1>4, <1>5, <1>6 DEF Next, Step

THEOREM TypeCorrect == Spec => []TypeOK
<1>1. Init => TypeOK
  BY DEF Init, TypeOK, PC
<1> QED BY <1>1, TypeInductive, PTL DEF Spec

-----------------------------------------------------------------------------
(* The inductive invariant.  A row is owned by the attempt whose key it holds:  *)
(* that attempt is past its batch and never on its way to deleting the key.    *)
Owned ==
  \A r \in Rev : Captured(r) =>
    LET q == row[r].key IN
    /\ q \in bucket
    /\ arg[q] # None /\ arg[q].rev = r
    /\ arg[q].src = row[r].src /\ arg[q].file = row[r].file
    /\ pc[q] \in {"unconfirmed", "inserted", "checking", "marking", "receipt", "crashed"}

(* What an attempt relies on at each point. *)
Uploaded == \A q \in Req : pc[q] = "stored" => q \in bucket

Holds(q) == Captured(arg[q].rev) /\ row[arg[q].rev].src = arg[q].src
                                 /\ row[arg[q].rev].file = arg[q].file
Secured == \A q \in Req :
  /\ pc[q] \in {"adopting", "inserted", "checking", "marking", "receipt"} => Holds(q)
  /\ pc[q] \in {"inserted", "checking", "marking"} => row[arg[q].rev].key = q

(* The number an attempt read is the successor of one that is there. *)
Follows(s, n) == n = 1 \/ \E l \in RevsOf(s) : row[l].no + 1 = n
Successor == \A q \in Req : pc[q] \in {"reserved", "stored"} => Follows(arg[q].src, arg[q].no)

Instances ==
  /\ settled \subseteq created
  /\ \A r \in created \cup marked : Captured(r)

IInv == /\ TypeOK /\ Owned /\ Uploaded /\ Secured /\ Successor /\ Instances
        /\ Contiguous /\ Numbered /\ OneSourcePerFile /\ StartedOrMarked

RowParts == Contiguous /\ Numbered /\ OneSourcePerFile

(* While no row appears, what only speaks of rows is kept. *)
LEMMA RowsKept == RowParts /\ UNCHANGED row => RowParts'
BY DEF RowParts, Contiguous, Numbered, OneSourcePerFile, Captured, RevsOf

LEMMA ReserveStep ==
  ASSUME IInv, NEW q \in Req, Reserve(q)
  PROVE  IInv'
<1>1. PICK a \in Arg : Ask(q, a)
  BY ReserveAsks DEF IInv
<1>2. pc[q] = "idle"
  BY ReserveAsks DEF IInv
<1>3. TypeOK'
  BY TypeInductive DEF IInv, Next, Step
<1>4. /\ UNCHANGED <<row, bucket, created, settled, marked>>
      /\ pc' = [pc EXCEPT ![q] = Verdict(a)] /\ arg' = [arg EXCEPT ![q] = a]
  BY <1>1 DEF Ask, Goto, d1
<1>5. arg' \in [Req -> Arg \cup {None}] /\ arg'[q] = a /\ pc'[q] = Verdict(a)
      /\ \A p \in Req \ {q} : arg'[p] = arg[p] /\ pc'[p] = pc[p]
  BY <1>4 DEF IInv, TypeOK
<1>6. RowParts'
  BY <1>4, RowsKept DEF IInv, RowParts
<1>7. \A r \in Rev : Captured(r) => row[r].key \in Req /\ row[r].key # q
  BY <1>2 DEF IInv, Owned, TypeOK, Row, Captured
<1>8. Owned' /\ StartedOrMarked'
  BY <1>4, <1>5, <1>7 DEF IInv, Owned, StartedOrMarked, Captured
<1>9. Uploaded' /\ Instances'
  BY <1>4, <1>5 DEF IInv, Uploaded, Instances, Captured, Verdict
<1>10. Verdict(a) = "receipt" => Captured(a.rev) /\ Matches(a.rev, a)
  BY DEF Verdict
<1>11. Secured'
  <2>1. Secured /\ \A r \in Rev : Captured(r)' <=> Captured(r)
    BY <1>4 DEF IInv, Captured
  <2>2. Verdict(a) \in {"reserved", "receipt", "rejected"}
    BY DEF Verdict
  <2> QED BY <1>4, <1>5, <1>10, <2>1, <2>2 DEF Secured, Holds, Captured, Matches
<1>12. Follows(a.src, a.no)
  BY <1>1 DEF Ask, MayAsk, Follows, NextNos, Latest
<1>13. Successor'
  BY <1>4, <1>5, <1>12 DEF IInv, Successor, Follows, RevsOf, Captured
<1> QED BY <1>3, <1>6, <1>8, <1>9, <1>11, <1>13 DEF IInv, RowParts

LEMMA PutOriginalStep ==
  ASSUME IInv, NEW q \in Req, PutOriginal(q)
  PROVE  IInv'
<1>1. TypeOK'
  BY TypeInductive DEF IInv, Next, Step
<1>2. RowParts'
  BY RowsKept DEF IInv, RowParts, PutOriginal, d1
<1>3. \A r \in Rev : Captured(r) => row[r].key # q
  BY DEF IInv, Owned, PutOriginal
<1>4. Owned' /\ StartedOrMarked'
  BY <1>3 DEF IInv, Owned, StartedOrMarked, Captured, PutOriginal, d1, Goto, TypeOK, Row
<1>5. Uploaded' /\ Instances' /\ Secured'
  BY DEF IInv, Uploaded, Instances, Secured, Holds, Captured, PutOriginal, d1, Goto, TypeOK
<1>6. Successor'
  BY DEF IInv, Successor, Follows, RevsOf, Captured, PutOriginal, d1, Goto, TypeOK
<1> QED BY <1>1, <1>2, <1>4, <1>5, <1>6 DEF IInv, RowParts

LEMMA InsertBatchStep ==
  ASSUME IInv, NEW q \in Req, InsertBatch(q)
  PROVE  IInv'
<1> DEFINE a == arg[q]
<1>1. TypeOK'
  BY TypeInductive DEF IInv, Next, Step
<1>2. CASE UNCHANGED row
  <2>1. RowParts'
    BY <1>2, RowsKept DEF IInv, RowParts
  <2>2. \A r \in Rev : Captured(r) => row[r].key # q
    BY DEF IInv, Owned, InsertBatch
  <2>3. /\ Owned' /\ StartedOrMarked' /\ Uploaded' /\ Instances' /\ Secured'
    <3>1. pc' = [pc EXCEPT ![q] = "unconfirmed"]
      <4>1. a \in Arg
        BY DEF InsertBatch, IInv, TypeOK
      <4>2. [src |-> a.src, no |-> a.no, file |-> a.file, key |-> q] # None
        BY <4>1, NoneIsFresh DEF Arg, Row
      <4>3. CanInsert(a) => row' # [row EXCEPT ![a.rev] =
                                     [src |-> a.src, no |-> a.no, file |-> a.file, key |-> q]]
        BY <1>2, <4>1, <4>2 DEF CanInsert, Captured, IInv, TypeOK, Arg
      <4> QED BY <4>3 DEF InsertBatch, Goto
    <3> QED BY <1>2, <2>2, <3>1 DEF IInv, Owned, StartedOrMarked, Uploaded, Instances, Secured,
                 Holds, Captured, InsertBatch, TypeOK, Row
  <2>4. Successor'
    BY <1>2 DEF IInv, Successor, Follows, RevsOf, Captured, InsertBatch, Goto, TypeOK
  <2> QED BY <1>1, <2>1, <2>3, <2>4 DEF IInv, RowParts
<1>3. CASE /\ CanInsert(a)
           /\ row' = [row EXCEPT ![a.rev] = [src |-> a.src, no |-> a.no, file |-> a.file, key |-> q]]
           /\ Goto(q, "inserted") \/ Goto(q, "unconfirmed")
  <2>1. a \in Arg /\ a.rev \in Rev /\ a.src \in Source /\ a.no \in Nat \ {0}
    BY DEF InsertBatch, IInv, TypeOK, Arg
  <2>2. /\ UNCHANGED <<bucket, created, settled, marked, arg>>
        /\ row[a.rev] = None /\ row'[a.rev] # None
        /\ row'[a.rev].src = a.src /\ row'[a.rev].no = a.no
        /\ row'[a.rev].file = a.file /\ row'[a.rev].key = q
    BY <1>3, <2>1, NoneIsFresh DEF InsertBatch, CanInsert, Captured, IInv, TypeOK, Row, Arg
  <2>3. \A r \in Rev \ {a.rev} : row'[r] = row[r]
    BY <1>3, <2>1 DEF IInv, TypeOK
  <2>4. pc'[q] \in {"inserted", "unconfirmed"} /\ \A p \in Req \ {q} : pc'[p] = pc[p]
    BY <1>3 DEF Goto, IInv, TypeOK
  <2>5. \A r \in Rev : Captured(r) => row[r].key # q
    BY DEF IInv, Owned, InsertBatch
  <2>6. Owned'
    BY <2>1, <2>2, <2>3, <2>4, <2>5 DEF IInv, TypeOK, Row, Owned, Uploaded, InsertBatch, Captured
  <2>7. Uploaded' /\ Instances'
    BY <2>2, <2>3, <2>4 DEF IInv, TypeOK, Uploaded, Instances, Captured
  <2>8. StartedOrMarked'
    BY <2>2, <2>3, <2>4, <2>5 DEF IInv, StartedOrMarked, TypeOK, Row, Captured
  <2>9. Secured'
    <3> SUFFICES ASSUME NEW p \in Req,
                        pc'[p] \in {"adopting", "inserted", "checking", "marking", "receipt"}
                 PROVE  /\ Holds(p)'
                        /\ pc'[p] \in {"inserted", "checking", "marking"} => row'[arg'[p].rev].key = p
      BY DEF Secured
    <3>1. CASE p = q
      BY <2>2, <3>1 DEF Holds, Captured
    <3>2. CASE p # q
      <4>1. arg[p].rev \in Rev /\ Holds(p)
            /\ (pc[p] \in {"inserted", "checking", "marking"} => row[arg[p].rev].key = p)
        BY <2>4, <3>2 DEF IInv, TypeOK, Secured, Arg
      <4> QED BY <2>2, <2>3, <2>4, <3>2, <4>1 DEF Holds, Captured
    <3> QED BY <3>1, <3>2
  <2>10. \A l \in Rev : Captured(l) => row'[l] = row[l] /\ row'[l] # None /\ l # a.rev
    BY <2>2, <2>3 DEF Captured
  <2>11. Successor'
    BY <2>2, <2>4, <2>10 DEF IInv, Successor, Follows, TypeOK, Arg, RevsOf, Captured
  <2>12. \A r \in Rev : row'[r] # None => Captured(r) \/ r = a.rev
    BY <2>3 DEF Captured
  <2>13. Numbered'
    BY <1>3, <2>1, <2>2, <2>10, <2>12 DEF IInv, Numbered, CanInsert, RevsOf, Captured
  <2>14. Contiguous'
    <3> SUFFICES ASSUME NEW r \in Rev, Captured(r)', NEW n \in 1 .. row'[r].no
                 PROVE  \E l \in Rev : row'[l] # None /\ row'[l].src = row'[r].src /\ row'[l].no = n
      BY DEF Contiguous, RevsOf, Captured
    <3>1. CASE r # a.rev
      <4>1. Captured(r) /\ row'[r] = row[r] /\ row[r].src \in Source
        BY <2>3, <3>1 DEF IInv, TypeOK, Captured, Row
      <4>2. PICK l \in RevsOf(row[r].src) : row[l].no = n
        BY <4>1 DEF IInv, Contiguous
      <4> QED BY <4>1, <4>2, <2>10 DEF RevsOf, Captured
    <3>2. CASE r = a.rev /\ n = a.no
      BY <2>1, <2>2, <3>2 DEF Captured
    <3>3. CASE r = a.rev /\ n # a.no
      <4>1. n \in 1 .. (a.no - 1) /\ a.no # 1
        BY <2>1, <2>2, <3>3
      <4>2. PICK l \in RevsOf(a.src) : row[l].no + 1 = a.no
        BY <4>1 DEF IInv, Successor, Follows, InsertBatch
      <4>3. l \in Rev /\ Captured(l) /\ row[l].src = a.src /\ row[l].no \in Nat
        BY <4>2 DEF RevsOf, IInv, TypeOK, Captured, Row
      <4>4. n \in 1 .. row[l].no
        BY <2>1, <4>1, <4>2, <4>3
      <4>5. PICK k \in RevsOf(a.src) : row[k].no = n
        BY <4>3, <4>4 DEF IInv, Contiguous
      <4> QED BY <4>5, <2>1, <2>2, <2>10, <3>3 DEF RevsOf, Captured
    <3> QED BY <3>1, <3>2, <3>3
  <2>15. OneSourcePerFile'
    BY <1>3, <2>1, <2>2, <2>10, <2>12 DEF IInv, OneSourcePerFile, CanInsert, HeldElsewhere, Captured
  <2> QED BY <1>1, <2>6, <2>7, <2>8, <2>9, <2>11, <2>13, <2>14, <2>15 DEF IInv
<1> QED BY <1>2, <1>3 DEF InsertBatch

LEMMA ReconcileStep ==
  ASSUME IInv, NEW q \in Req, Reconcile(q)
  PROVE  IInv'
<1>1. TypeOK'
  BY TypeInductive DEF IInv, Next, Step
<1>2. RowParts'
  BY RowsKept DEF IInv, RowParts, Reconcile, d1
<1>3. \A r \in Rev : Captured(r) /\ row[r].key = q => r = arg[q].rev /\ pc'[q] = "inserted"
  BY DEF IInv, Owned, Reconcile, Goto, TypeOK
<1>4. Owned' /\ StartedOrMarked'
  BY <1>3 DEF IInv, Owned, StartedOrMarked, Captured, Reconcile, d1, Goto, TypeOK, Row
<1>5. Uploaded' /\ Instances' /\ Successor'
  BY DEF IInv, Uploaded, Instances, Successor, Follows, RevsOf, Captured, Reconcile, d1, Goto, TypeOK
<1>6. pc'[q] \in {"inserted", "adopting"} => Holds(q)
  BY DEF IInv, Owned, Reconcile, Goto, TypeOK, Holds, Matches, Captured, Arg
<1>7. Secured'
  BY <1>3, <1>6 DEF IInv, Secured, Holds, Captured, Reconcile, d1, Goto, TypeOK
<1> QED BY <1>1, <1>2, <1>4, <1>5, <1>7 DEF IInv, RowParts

LEMMA DeleteOwnKeyStep ==
  ASSUME IInv, NEW q \in Req, DeleteOwnKey(q)
  PROVE  IInv'
<1>1. TypeOK'
  BY TypeInductive DEF IInv, Next, Step
<1>2. RowParts'
  BY RowsKept DEF IInv, RowParts, DeleteOwnKey, d1
<1>3. \A r \in Rev : Captured(r) => row[r].key # q
  BY DEF IInv, Owned, DeleteOwnKey
<1>4. Owned' /\ StartedOrMarked'
  BY <1>3 DEF IInv, Owned, StartedOrMarked, Captured, DeleteOwnKey, d1, Goto, TypeOK, Row
<1>5. Uploaded' /\ Instances' /\ Successor' /\ Secured'
  BY DEF IInv, Uploaded, Instances, Successor, Follows, RevsOf, Secured, Holds, Captured,
         DeleteOwnKey, d1, Goto, TypeOK
<1> QED BY <1>1, <1>2, <1>4, <1>5 DEF IInv, RowParts

LEMMA StartStep ==
  ASSUME IInv, NEW q \in Req, CreateInstance(q) \/ CheckInstance(q) \/ MarkUnavailable(q)
  PROVE  IInv'
<1>1. TypeOK'
  BY TypeInductive DEF IInv, Next, Step
<1>2. UNCHANGED <<row, bucket, settled, arg>> /\ created \subseteq created' /\ marked \subseteq marked'
  BY DEF CreateInstance, CheckInstance, MarkUnavailable, d1
<1>3. RowParts'
  BY <1>2, RowsKept DEF IInv, RowParts
<1>4. Captured(arg[q].rev)
  BY DEF IInv, Secured, Holds, CreateInstance, CheckInstance, MarkUnavailable
<1>5. \A r \in created' \cup marked' : Captured(r)
  BY <1>4 DEF IInv, Instances, CreateInstance, CheckInstance, MarkUnavailable, d1
<1>6. Instances'
  BY <1>2, <1>5 DEF IInv, Instances, Captured
<1>7. /\ pc'[q] \in {"receipt", "checking", "marking"}
      /\ pc'[q] = "receipt" => arg[q].rev \in created' \cup marked'
      /\ \A p \in Req \ {q} : pc'[p] = pc[p]
  BY DEF IInv, TypeOK, Instances, CreateInstance, CheckInstance, MarkUnavailable, Goto
<1>8. \A r \in Rev : Captured(r) /\ row[r].key = q => r = arg[q].rev
  BY DEF IInv, Owned
<1>9. StartedOrMarked'
  BY <1>2, <1>7, <1>8 DEF IInv, StartedOrMarked, Captured, TypeOK, Row
<1>10. Owned'
  BY <1>2, <1>7 DEF IInv, Owned, Captured, TypeOK, Row
<1>11. pc[q] \in {"inserted", "checking", "marking"}
  BY DEF CreateInstance, CheckInstance, MarkUnavailable
<1>12. Uploaded' /\ Successor' /\ Secured'
  BY <1>2, <1>7, <1>11 DEF IInv, Uploaded, Successor, Follows, RevsOf, Secured, Holds, Captured
<1> QED BY <1>1, <1>3, <1>6, <1>9, <1>10, <1>12 DEF IInv, RowParts

LEMMA CrashStep ==
  ASSUME IInv, NEW q \in Req, Crash(q)
  PROVE  IInv'
<1>1. TypeOK'
  BY TypeInductive DEF IInv, Next, Step
<1>2. RowParts'
  BY RowsKept DEF IInv, RowParts, Crash, d1
<1>3. Owned' /\ StartedOrMarked' /\ Uploaded' /\ Instances'
  BY DEF IInv, Owned, StartedOrMarked, Uploaded, Instances, Captured, Crash, d1, Goto, TypeOK, Row
<1>4. Successor' /\ Secured'
  BY DEF IInv, Successor, Follows, RevsOf, Secured, Holds, Captured, Crash, d1, Goto, TypeOK
<1> QED BY <1>1, <1>2, <1>3, <1>4 DEF IInv, RowParts

LEMMA IngestStep ==
  ASSUME IInv, NEW r \in Rev, Settle(r) \/ ClearMark(r)
  PROVE  IInv'
<1>1. TypeOK'
  BY TypeInductive DEF IInv, Next, Step
<1>2. RowParts'
  BY RowsKept DEF IInv, RowParts, Settle, ClearMark
<1>3. Owned' /\ StartedOrMarked' /\ Uploaded' /\ Instances'
  BY DEF IInv, Owned, StartedOrMarked, Uploaded, Instances, Captured, Settle, ClearMark
<1>4. Successor' /\ Secured'
  BY DEF IInv, Successor, Follows, RevsOf, Secured, Holds, Captured, Settle, ClearMark
<1> QED BY <1>1, <1>2, <1>3, <1>4 DEF IInv, RowParts

LEMMA Inductive == IInv /\ [Next]_vars => IInv'
<1> SUFFICES ASSUME IInv, [Next]_vars PROVE IInv'
  OBVIOUS
<1>1. CASE UNCHANGED vars
  BY <1>1 DEF vars, IInv, TypeOK, Owned, Uploaded, Secured, Holds, Successor, Follows, Instances,
              Contiguous, Numbered, OneSourcePerFile, StartedOrMarked, RevsOf, Captured
<1>2. CASE Next
  BY <1>2, ReserveStep, PutOriginalStep, InsertBatchStep, ReconcileStep, DeleteOwnKeyStep,
     StartStep, CrashStep, IngestStep DEF Next, Step
<1> QED BY <1>1, <1>2

LEMMA Initial == Init => IInv
BY DEF Init, IInv, TypeOK, PC, Owned, Uploaded, Secured, Successor, Instances, Contiguous,
       Numbered, OneSourcePerFile, StartedOrMarked, RevsOf, Captured

LEMMA Invariance == Spec => []IInv
BY Initial, Inductive, PTL DEF Spec

-----------------------------------------------------------------------------
(* No race of uploads, no lost reply and no crash of addSource leaves a          *)
(* revision row without its original.                                          *)
THEOREM OriginalIsKept == Spec => []OriginalKept
<1>1. IInv => OriginalKept
  BY DEF IInv, Owned, OriginalKept
<1> QED BY <1>1, Invariance, PTL

(* The revisions of a source are numbered 1..n although MAX(revision_no) is read *)
(* before the original is uploaded.                                           *)
THEOREM RevisionsAreNumbered == Spec => []RevisionsNumbered
<1>1. IInv => RevisionsNumbered
  BY DEF IInv, RevisionsNumbered
<1> QED BY <1>1, Invariance, PTL

(* The guarded INSERT keeps one source per content. *)
THEOREM OneSource == Spec => []OneSourcePerFile
<1>1. IInv => OneSourcePerFile
  BY DEF IInv
<1> QED BY <1>1, Invariance, PTL

(* A receipt names a revision that holds the caller's file; once the owner of    *)
(* the row has answered, its Workflow exists or the row is marked.             *)
THEOREM ReceiptsHold == Spec => []ReceiptHolds
<1>1. IInv => ReceiptHolds
  BY DEF IInv, Secured, Holds, ReceiptHolds, ReceiptIsTrue
<1> QED BY <1>1, Invariance, PTL

(* The Workflow of a revision is created by the attempt whose key the row holds,  *)
(* which is then done with creating it: nobody starts it again.                *)
THEOREM WinnerStarts == Spec => OnlyWinnerStarts
<1>1. ASSUME IInv, [Next]_vars, NEW r \in created' \ created
      PROVE  Captured(r) /\ pc[row[r].key] = "inserted" /\ pc'[row[r].key] # "inserted"
  <2>1. PICK q \in Req : CreateInstance(q)
    <3>1. Next
      BY <1>1 DEF vars
    <3>2. ASSUME NEW q \in Req, Step(q), ~CreateInstance(q) PROVE FALSE
      BY <1>1, <3>2 DEF Step, Reserve, Ask, PutOriginal, InsertBatch, Reconcile, DeleteOwnKey,
                        CheckInstance, MarkUnavailable, Crash
    <3>3. ASSUME NEW l \in Rev, Settle(l) \/ ClearMark(l) PROVE FALSE
      BY <1>1, <3>3 DEF Settle, ClearMark
    <3> QED BY <3>1, <3>2, <3>3 DEF Next
  <2>2. r = arg[q].rev /\ pc[q] = "inserted" /\ pc'[q] # "inserted"
    BY <1>1, <2>1 DEF CreateInstance, Goto, IInv, TypeOK
  <2> QED BY <1>1, <2>2 DEF IInv, Secured, Holds
<1>2. IInv /\ [Next]_vars =>
        [\A r \in created' \ created :
           Captured(r) /\ pc[row[r].key] = "inserted" /\ pc'[row[r].key] # "inserted"]_vars
  BY <1>1
<1> QED BY <1>2, Invariance, PTL DEF Spec, OnlyWinnerStarts

-----------------------------------------------------------------------------
(* Refinement: every step of capture is a step of the revision ledger or none.   *)
LEMMA InsertIsRecord ==
  ASSUME IInv, IInv', NEW q \in Req, InsertBatch(q), row' # row,
         NEW r \in Rev, r = arg[q].rev
  PROVE  Ledger!Record(r)
<1>1. /\ CanInsert(arg[q]) /\ arg[q] \in Arg
      /\ row' = [row EXCEPT ![r] = [src |-> arg[q].src, no |-> arg[q].no, file |-> arg[q].file, key |-> q]]
  BY DEF InsertBatch, IInv, TypeOK
<1>2. r \in Rev /\ row[r] = None
  BY <1>1 DEF Arg, CanInsert, Captured
<1>3. /\ row'[r] = [src |-> arg[q].src, no |-> arg[q].no, file |-> arg[q].file, key |-> q]
      /\ row'[r] # None /\ row'[r].src = arg[q].src /\ row'[r].no = arg[q].no
      /\ row' = [row EXCEPT ![r] = row'[r]]
      /\ \A l \in Rev \ {r} : row'[l] = row[l]
  BY <1>1, <1>2, NoneIsFresh DEF IInv, TypeOK, Arg, Row
<1>4. \A l \in Rev \ {r} : row[l] # None /\ row[l].src = arg[q].src => row[l].no < arg[q].no
  <2> SUFFICES ASSUME NEW l \in Rev \ {r}, row[l] # None, row[l].src = arg[q].src,
                      ~(row[l].no < arg[q].no)
               PROVE  FALSE
    OBVIOUS
  <2>1. arg[q].no \in 1 .. row[l].no
    BY <1>1 DEF IInv, TypeOK, Arg, Row
  <2>2. \E k \in RevsOf(arg[q].src) : row[k].no = arg[q].no
    BY <2>1 DEF IInv, Contiguous, Captured
  <2> QED BY <1>1, <2>2 DEF CanInsert
<1>5. arg[q].no = 1 \/ \E l \in Rev \ {r} : row[l] # None /\ row[l].src = arg[q].src /\ row[l].no + 1 = arg[q].no
  BY <1>2 DEF IInv, Successor, Follows, RevsOf, Captured, InsertBatch
<1>6. Ledger!Newest(r)'
  BY <1>2, <1>3, <1>4, <1>5 DEF Ledger!Newest, Ledger!Recorded, Ledger!Others
<1> QED BY <1>2, <1>3, <1>6 DEF Ledger!Record, Ledger!Append, Ledger!Recorded, InsertBatch

LEMMA LedgerStep ==
  ASSUME IInv, IInv', [Next]_vars
  PROVE  [Ledger!Next]_(Ledger!vars)
<1> USE DEF Ledger!vars
<1>1. CASE UNCHANGED vars
  BY <1>1 DEF vars
<1>2. ASSUME NEW q \in Req, InsertBatch(q) PROVE [Ledger!Next]_(Ledger!vars)
  <2>1. arg[q].rev \in Rev
    BY <1>2 DEF InsertBatch, IInv, TypeOK, Arg
  <2> QED BY <1>2, <2>1, InsertIsRecord DEF InsertBatch, Ledger!Next
<1>3. ASSUME NEW q \in Req, CreateInstance(q) PROVE [Ledger!Next]_(Ledger!vars)
  <2>1. Captured(arg[q].rev) /\ arg[q].rev \in Rev
    BY <1>3 DEF CreateInstance, IInv, TypeOK, Arg, Secured, Holds
  <2>2. UNCHANGED created \/ Ledger!Start(arg[q].rev)
    BY <1>3, <2>1 DEF CreateInstance, d1, Ledger!Start, Ledger!Recorded, Captured
  <2> QED BY <1>3, <2>1, <2>2 DEF CreateInstance, d1, Ledger!Next
<1>4. ASSUME NEW q \in Req, MarkUnavailable(q) PROVE [Ledger!Next]_(Ledger!vars)
  <2>1. Captured(arg[q].rev) /\ arg[q].rev \in Rev
    BY <1>4 DEF MarkUnavailable, IInv, TypeOK, Arg, Secured, Holds
  <2>2. UNCHANGED marked \/ Ledger!Mark(arg[q].rev)
    BY <1>4, <2>1 DEF MarkUnavailable, Ledger!Mark, Ledger!Recorded, Captured
  <2> QED BY <1>4, <2>1, <2>2 DEF MarkUnavailable, Ledger!Next
<1>5. ASSUME NEW q \in Req,
             \/ Reserve(q) \/ PutOriginal(q) \/ Reconcile(q) \/ DeleteOwnKey(q)
             \/ CheckInstance(q) \/ Crash(q)
      PROVE  UNCHANGED Ledger!vars
  BY <1>5 DEF Reserve, Ask, PutOriginal, Reconcile, DeleteOwnKey, CheckInstance, Crash, d1
<1>6. ASSUME NEW r \in Rev, Settle(r) \/ ClearMark(r) PROVE Ledger!Next
  BY <1>6 DEF Settle, ClearMark, Ledger!Next, Ledger!Settle, Ledger!ClearMark
<1> QED BY <1>1, <1>2, <1>3, <1>4, <1>5, <1>6 DEF Next, Step

(* What the rest of the system assumes of captured revisions holds of every       *)
(* behaviour of addSource.                                                     *)
THEOREM CaptureKeepsLedger == Spec => LedgerSpec
<1>1. Init => Ledger!Init
  BY DEF Init, Ledger!Init
<1>2. IInv /\ IInv' /\ [Next]_vars => [Ledger!Next]_(Ledger!vars)
  BY LedgerStep
<1> QED BY <1>1, <1>2, Invariance, PTL DEF Spec, LedgerSpec, Ledger!Spec
=============================================================================
