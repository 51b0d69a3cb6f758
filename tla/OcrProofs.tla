------------------------------- MODULE OcrProofs -------------------------------
(***************************************************************************)
(* Proofs about Ocr, for any number of jobs, pages, requests and executions    *)
(* of steps: no acknowledged page is lost, no page is paid twice, usage is        *)
(* complete or unknown, a preview is complete, an ended job stays ended.       *)
(***************************************************************************)
EXTENDS Ocr, TLAPS

(* The places at which an execution of a step may be. *)
Places(step) ==
  CASE step = "begin" -> {"start"}
    [] step = "page" -> {"start", "dispatch", "call", "store", "keep", "count", "settle"}
    [] step = "assemble" -> {"start", "preview", "report", "final"}
    [] step = "record" -> {"start", "report", "final"}

Paid == {"store", "keep", "count"}        \* the model has answered
Bought == {"call"} \cup Paid              \* the dispatch is counted
Concluding == {"preview", "report", "final"}   \* the outcome is chosen

Sound == {e \in Execution :
  /\ e.at \in Places(e.step)
  /\ e.step = "page" => e.page \in Page
  /\ e.at \in Paid => e.got # None
  /\ e.at \in Concluding => e.rep # None}
Placed == {p \in Place : p.step = "page" => p.page \in Page}

(* An execution settles a page from a stored output. *)
Stored == {"count", "settle"}
Settling == \A x \in Exec :
  exec[x] # None /\ exec[x].at \in Stored => out[exec[x].job][exec[x].page] # None

Typed == TypeOK /\ wf \in [Job -> Placed] /\ exec \in [Exec -> Sound \cup {None}] /\ Settling

-----------------------------------------------------------------------------
(* What uploads and starts in progress rely on. *)
UploadSafe == \A u \in Upload : upload[u] # None =>
  LET c == upload[u] IN
    /\ c.at \in {"read", "save", "stored"} => png[c.job][c.page] = c.png
    /\ c.at = "save" => c.seen[c.page] = None
StarterSafe == \A s \in Starter : starter[s] # None => AllPages(starter[s].seen)

(* A job that was ever started has all its pages. *)
Complete == \A j \in Job : state[j] \notin {"absent", "preparing", "cancelled"} => AllPages(pages[j])
Inputs == UploadsKept /\ UploadSafe /\ StarterSafe /\ Complete

-----------------------------------------------------------------------------
(* Every page up to n that was sent is counted in s, if s is known. *)
Covers(j, n, s) == s # None => \A m \in Page : (m <= n /\ sent[j][m] # 0) => m \in s

(* The row of a job: pages are dispatched in order, the next only after the one    *)
(* before is settled from its complete output; what is stored was paid for.     *)
InOrder(j) ==
  /\ calls[j] <= completed[j] + 1
  /\ \A n \in Page :
       /\ n <= completed[j] => out[j][n] # None /\ out[j][n].complete
       /\ sent[j][n] <= 1
       /\ sent[j][n] = 1 => n <= calls[j]
       /\ out[j][n] # None => n <= calls[j] /\ Covers(j, n, out[j][n].usage)
  /\ Covers(j, PageCount, usage[j])
Ordered == \A j \in Job : InOrder(j)

(* An execution that bought page n holds the only purchase of it, and what it       *)
(* carries counts every page sent before.                                      *)
Buying(e) ==
  /\ e.at = "dispatch" => e.page <= completed[e.job] + 1 /\ Covers(e.job, e.page - 1, e.seen)
  /\ e.at \in Bought => e.page <= calls[e.job]
  /\ e.at = "call" => /\ sent[e.job][e.page] = 0 /\ usage[e.job] = None
                      /\ Covers(e.job, e.page - 1, e.seen)
  /\ e.at \in {"call", "store"} => out[e.job][e.page] = None
  /\ e.at \in Paid => Covers(e.job, e.page, e.got.usage)
Buyers == \A x \in Exec : exec[x] # None => Buying(exec[x])
OneBuyer == \A x, y \in Exec :
  /\ exec[x] # None /\ exec[x].at \in Bought
  /\ exec[y] # None /\ exec[y].at \in Bought
  /\ exec[x].job = exec[y].job /\ exec[x].page = exec[y].page
  => x = y
Purchases == Ordered /\ Buyers /\ OneBuyer

-----------------------------------------------------------------------------
(* What a report, and an execution about to write one, says of its job. *)
Backed(j, r) ==
  /\ r = "ready" => completed[j] = PageCount
  /\ r = "cancelled" => state[j] = "cancelled"
Concludes(e) ==
  /\ e.at = "preview" => e.rep = "ready" /\ Backed(e.job, "ready")
  /\ e.at \in {"report", "final"} => Backed(e.job, e.rep) /\ (e.rep = "ready" => preview[e.job])
  /\ e.at = "final" => report[e.job] = e.rep
Reports ==
  /\ \A x \in Exec : exec[x] # None => Concludes(exec[x])
  /\ \A j \in Job : Backed(j, report[j]) /\ (report[j] = "ready" => preview[j])
  /\ \A j \in Job : state[j] \in {"ready", "applied"} => report[j] = "ready"

Versions == AppliedOnce /\ \A j \in Job : applied[j] <= version

IInv == Typed /\ Inputs /\ Purchases /\ Reports /\ Versions

-----------------------------------------------------------------------------
(* The instance moves from a place to a place.  Named: OcrWorkflow.run's order of   *)
(* steps, after a success and after a failure.                                 *)
LEMMA AfterPlaced ==
  ASSUME NEW p \in Placed
  PROVE  After(p) \in Placed /\ AfterFailure(p) \in Placed
<1>1. AfterFailure(p) \in Placed
  BY PageAssumption DEF AfterFailure, Placed, Place, Step, Page
<1>2. After(p) \in Placed
  <2>1. CASE p.step = "begin"
    BY <2>1, PageAssumption DEF After, Placed, Place, Step, Page
  <2>2. CASE p.step = "page" /\ p.page < PageCount
    BY <2>2, PageAssumption DEF After, Placed, Place, Step, Page
  <2>3. CASE p.step = "page" /\ p.page = PageCount
    BY <2>3, PageAssumption DEF After, Placed, Place, Step, Page
  <2>4. CASE p.step \notin {"begin", "page"}
    BY <2>4, PageAssumption DEF After, Placed, Place, Step, Page
  <2> QED BY <2>1, <2>2, <2>3, <2>4, PageAssumption DEF Placed, Place, Page
<1> QED BY <1>1, <1>2

(* The facts of Typed, one by one. *)
LEMMA Fields ==
  ASSUME Typed, NEW x \in Exec, exec[x] # None
  PROVE  /\ exec[x] \in Sound
         /\ exec[x].job \in Job
         /\ exec[x].step = "page" => exec[x].page \in Page
  BY DEF Typed, Sound, Execution

(* Each step of an execution x moves x only, and the engine with it. *)
Moved(x) ==
  /\ exec' \in [Exec -> Sound \cup {None}]
  /\ \A y \in Exec \ {x} : exec'[y] = exec[y]
  /\ wf' \in [Job -> Placed]
  /\ awaits' \in [Job -> Exec \cup {None}]

LEMMA EndsMoves ==
  ASSUME Typed, NEW x \in Exec, exec[x] # None, NEW ok \in BOOLEAN, Ends(x, ok)
  PROVE  Moved(x) /\ exec'[x] = None
<1>1. exec[x].job \in Job /\ exec \in [Exec -> Sound \cup {None}] /\ wf \in [Job -> Placed]
      /\ awaits \in [Job -> Exec \cup {None}]
  BY Fields DEF Typed, TypeOK
<1>2. wf' \in [Job -> Placed]
  <2>1. After(wf[exec[x].job]) \in Placed /\ AfterFailure(wf[exec[x].job]) \in Placed
    BY <1>1, AfterPlaced
  <2>2. CASE awaits[exec[x].job] = x /\ ok
    BY <1>1, <2>1, <2>2 DEF Ends
  <2>3. CASE awaits[exec[x].job] = x /\ ~ok
    BY <1>1, <2>1, <2>3 DEF Ends
  <2>4. CASE awaits[exec[x].job] # x
    BY <1>1, <2>4 DEF Ends
  <2> QED BY <2>2, <2>3, <2>4
<1>3. awaits' \in [Job -> Exec \cup {None}]
  BY <1>1 DEF Ends
<1>4. exec' = [exec EXCEPT ![x] = None]
  BY DEF Ends
<1> QED BY <1>1, <1>2, <1>3, <1>4 DEF Moved

(* An execution that goes on to e. *)
LEMMA GoesMoves ==
  ASSUME Typed, NEW x \in Exec, exec[x] # None, NEW e \in Sound,
         exec' = [exec EXCEPT ![x] = e], UNCHANGED <<wf, awaits>>
  PROVE  Moved(x) /\ exec'[x] = e
  BY DEF Moved, Typed, TypeOK

LEMMA GoesToMoves ==
  ASSUME Typed, NEW x \in Exec, exec[x] # None, NEW at, GoesTo(x, at),
         at \in Places(exec[x].step),
         at \in Paid => exec[x].got # None,
         at \in Concluding => exec[x].rep # None
  PROVE  /\ Moved(x)
         /\ exec'[x] = [exec[x] EXCEPT !.at = at]
<1> DEFINE e == [exec[x] EXCEPT !.at = at]
<1>1. exec[x] \in Sound
  BY Fields
<1>2. at \in {"start", "dispatch", "call", "store", "keep", "count", "settle", "preview", "report", "final"}
  <2>1. exec[x].step \in Step
    BY <1>1 DEF Sound, Execution
  <2> QED BY <2>1 DEF Places, Step
<1>3. e \in Sound
  BY <1>1, <1>2 DEF Sound, Execution
<1>4. exec' = [exec EXCEPT ![x] = e]
  BY DEF GoesTo
<1> QED BY <1>3, <1>4, GoesMoves DEF GoesTo

-----------------------------------------------------------------------------
(* What each step of an execution makes of it. *)
LEMMA BeginMoves ==
  ASSUME Typed, NEW x \in Exec, Begin(x)
  PROVE  Moved(x) /\ exec'[x] = None
<1>1. exec[x] # None
  BY DEF Begin, Runs
<1>2. Ends(x, TRUE) \/ Ends(x, FALSE)
  BY DEF Begin
<1> QED BY <1>1, <1>2, EndsMoves

LEMMA LoadPageMoves ==
  ASSUME Typed, NEW x \in Exec, LoadPage(x)
  PROVE  /\ Moved(x)
         /\ \/ exec'[x] = None
            \/ /\ exec'[x] = [exec[x] EXCEPT !.at = "settle"]
               /\ out[exec[x].job][exec[x].page] # None
            \/ /\ exec'[x] = [exec[x] EXCEPT !.at = "dispatch", !.seen = usage[exec[x].job]]
               /\ calls[exec[x].job] = exec[x].page - 1
               /\ completed[exec[x].job] = exec[x].page - 1
<1> DEFINE j == exec[x].job
<1> DEFINE n == exec[x].page
<1>1. exec[x] # None /\ exec[x].step = "page" /\ exec[x].at = "start"
  BY DEF LoadPage, Runs
<1>2. exec[x] \in Sound /\ j \in Job /\ n \in Page
  BY <1>1, Fields
<1>3. CASE Ends(x, TRUE) \/ Ends(x, FALSE)
  BY <1>1, <1>3, EndsMoves
<1>4. CASE out[j][n] # None /\ GoesTo(x, "settle")
  <2>1. "settle" \in Places(exec[x].step) /\ "settle" \notin Paid /\ "settle" \notin Concluding
    BY <1>1 DEF Places, Paid, Concluding
  <2>2. Moved(x) /\ exec'[x] = [exec[x] EXCEPT !.at = "settle"]
    BY <1>1, <1>4, <2>1, GoesToMoves
  <2> QED BY <1>4, <2>2
<1>5. CASE /\ calls[j] = n - 1 /\ completed[j] = n - 1
           /\ exec' = [exec EXCEPT ![x].at = "dispatch", ![x].seen = usage[j]]
           /\ UNCHANGED <<wf, awaits>>
  <2> DEFINE e == [exec[x] EXCEPT !.at = "dispatch", !.seen = usage[j]]
  <2>1. usage[j] \in Usage
    BY <1>2 DEF Typed, TypeOK
  <2>2. e \in Sound
    BY <1>1, <1>2, <2>1 DEF Sound, Execution, Places, Paid, Concluding
  <2>3. exec' = [exec EXCEPT ![x] = e]
    BY <1>5 DEF Typed, TypeOK
  <2>4. Moved(x) /\ exec'[x] = e
    BY <1>1, <1>5, <2>2, <2>3, GoesMoves
  <2> QED BY <1>5, <2>4
<1> QED BY <1>3, <1>4, <1>5 DEF LoadPage

LEMMA DispatchMoves ==
  ASSUME Typed, NEW x \in Exec, Dispatch(x)
  PROVE  /\ Moved(x)
         /\ \/ exec'[x] = None
            \/ /\ exec'[x] = [exec[x] EXCEPT !.at = "call"]
               /\ CanDispatch(exec[x].job, exec[x].page)
               /\ calls' = [calls EXCEPT ![exec[x].job] = exec[x].page]
               /\ usage' = [usage EXCEPT ![exec[x].job] = None]
<1>1. exec[x] # None /\ exec[x].step = "page" /\ exec[x].at = "dispatch"
  BY DEF Dispatch, Runs
<1>2. CASE Ends(x, FALSE)
  BY <1>1, <1>2, EndsMoves
<1>3. CASE /\ CanDispatch(exec[x].job, exec[x].page)
           /\ calls' = [calls EXCEPT ![exec[x].job] = exec[x].page]
           /\ usage' = [usage EXCEPT ![exec[x].job] = AfterDispatch(exec[x].job)]
           /\ GoesTo(x, "call")
  <2>1. "call" \in Places(exec[x].step) /\ "call" \notin Paid /\ "call" \notin Concluding
    BY <1>1 DEF Places, Paid, Concluding
  <2>2. Moved(x) /\ exec'[x] = [exec[x] EXCEPT !.at = "call"]
    BY <1>1, <1>3, <2>1, GoesToMoves
  <2> QED BY <1>3, <2>2 DEF AfterDispatch
<1> QED BY <1>2, <1>3 DEF Dispatch

(* The total an answer brings: what was counted before the dispatch, and this page. *)
Total(e) == IF e.seen = None THEN None ELSE e.seen \cup {e.page}

LEMMA CallMoves ==
  ASSUME Typed, NEW x \in Exec, Call(x)
  PROVE  /\ Moved(x)
         /\ \/ exec'[x] = None
            \/ \E o \in Output :
                 /\ exec'[x] = [exec[x] EXCEPT !.at = "store", !.got = o]
                 /\ o.usage \in {None, Total(exec[x])}
<1>1. exec[x] # None /\ exec[x].step = "page" /\ exec[x].at = "call"
  BY DEF Call, Runs
<1>2. exec[x] \in Sound /\ exec[x].page \in Page
  BY <1>1, Fields
<1>3. CASE Ends(x, FALSE)
  BY <1>1, <1>3, EndsMoves
<1>4. CASE \E c \in BOOLEAN, u \in {None, Total(exec[x])} :
             /\ exec' = [exec EXCEPT ![x].at = "store", ![x].got = [complete |-> c, usage |-> u]]
             /\ UNCHANGED <<wf, awaits>>
  <2>1. PICK c \in BOOLEAN, u \in {None, Total(exec[x])} :
             /\ exec' = [exec EXCEPT ![x].at = "store", ![x].got = [complete |-> c, usage |-> u]]
             /\ UNCHANGED <<wf, awaits>>
    BY <1>4
  <2> DEFINE o == [complete |-> c, usage |-> u]
  <2> DEFINE e == [exec[x] EXCEPT !.at = "store", !.got = o]
  <2>2. exec[x].seen \in Usage
    BY <1>2 DEF Sound, Execution
  <2>3. Total(exec[x]) \in Usage
    BY <1>2, <2>2 DEF Total, Usage
  <2>4. o \in Output /\ o # None /\ o.usage = u
    BY <2>3, NoneAssumption DEF Output, Usage
  <2> HIDE DEF o
  <2>5. e \in Sound
    BY <1>1, <1>2, <2>4 DEF Sound, Execution, Places, Paid, Concluding
  <2>6. exec' = [exec EXCEPT ![x] = e]
    BY <2>1 DEF Typed, TypeOK, o
  <2>7. Moved(x) /\ exec'[x] = e
    BY <1>1, <2>1, <2>5, <2>6, GoesMoves
  <2> QED BY <2>1, <2>4, <2>7
<1> QED BY <1>3, <1>4 DEF Call, Total

LEMMA StorePageMoves ==
  ASSUME Typed, NEW x \in Exec, StorePage(x)
  PROVE  /\ Moved(x)
         /\ \/ UNCHANGED out /\ exec'[x] = [exec[x] EXCEPT !.at = "keep"]
            \/ /\ out[exec[x].job][exec[x].page] = None
               /\ out' = [out EXCEPT ![exec[x].job][exec[x].page] = exec[x].got]
               /\ \E at \in {"count", "keep"} : exec'[x] = [exec[x] EXCEPT !.at = at]
<1>1. exec[x] # None /\ exec[x].step = "page" /\ exec[x].at = "store"
  BY DEF StorePage, Runs
<1>2. exec[x] \in Sound /\ exec[x].got # None
  BY <1>1, Fields DEF Sound, Paid
<1>3. ASSUME NEW at \in {"count", "keep"}, GoesTo(x, at)
      PROVE  Moved(x) /\ exec'[x] = [exec[x] EXCEPT !.at = at]
  <2>1. at \in Places(exec[x].step) /\ at \notin Concluding
    BY <1>1 DEF Places, Concluding
  <2> QED BY <1>1, <1>2, <1>3, <2>1, GoesToMoves
<1>4. CASE UNCHANGED out /\ GoesTo(x, "keep")
  BY <1>3, <1>4
<1>5. CASE /\ out[exec[x].job][exec[x].page] = None
           /\ out' = [out EXCEPT ![exec[x].job][exec[x].page] = exec[x].got]
           /\ GoesTo(x, "count") \/ GoesTo(x, "keep")
  BY <1>3, <1>5
<1> QED BY <1>4, <1>5 DEF StorePage

LEMMA CheckpointMoves ==
  ASSUME Typed, NEW x \in Exec, Checkpoint(x)
  PROVE  /\ Moved(x)
         /\ \/ exec'[x] = None
            \/ exec[x].at = "count" /\ exec'[x] = [exec[x] EXCEPT !.at = "settle"]
<1>1. exec[x] # None /\ exec[x].step = "page"
  BY DEF Checkpoint, Runs
<1>2. CASE Ends(x, FALSE)
  BY <1>1, <1>2, EndsMoves
<1>3. CASE exec[x].at = "count" /\ GoesTo(x, "settle")
  <2>1. "settle" \in Places(exec[x].step) /\ "settle" \notin Paid /\ "settle" \notin Concluding
    BY <1>1 DEF Places, Paid, Concluding
  <2> QED BY <1>1, <1>3, <2>1, GoesToMoves
<1> QED BY <1>2, <1>3 DEF Checkpoint

LEMMA SettleMoves ==
  ASSUME Typed, NEW x \in Exec, Settle(x)
  PROVE  Moved(x) /\ exec'[x] = None
<1>1. exec[x] # None /\ exec[x].step = "page" /\ exec[x].at = "settle"
  BY DEF Settle, Runs
<1>2. out[exec[x].job][exec[x].page] \in Output
  <2>1. out[exec[x].job][exec[x].page] # None
    BY <1>1 DEF Typed, Settling, Stored
  <2> QED BY <1>1, <2>1, Fields DEF Typed, TypeOK
<1>3. out[exec[x].job][exec[x].page].complete \in BOOLEAN
  BY <1>2 DEF Output
<1>4. \E ok \in BOOLEAN : Ends(x, ok)
  BY <1>3 DEF Settle
<1> QED BY <1>1, <1>4, EndsMoves

LEMMA ReportToMoves ==
  ASSUME Typed, NEW x \in Exec, exec[x] # None, NEW at, NEW r \in Outcome, ReportTo(x, at, r),
         at \in {"preview", "report", "final"}, at \in Places(exec[x].step)
  PROVE  Moved(x) /\ exec'[x] = [exec[x] EXCEPT !.at = at, !.rep = r]
<1> DEFINE e == [exec[x] EXCEPT !.at = at, !.rep = r]
<1>1. exec[x] \in Sound
  BY Fields
<1>2. e \in Sound
  BY <1>1, NoneAssumption DEF Sound, Execution, Paid, Concluding
<1>3. exec' = [exec EXCEPT ![x] = e]
  BY DEF ReportTo, Typed, TypeOK
<1> QED BY <1>2, <1>3, GoesMoves DEF ReportTo

(* finishJob repeats the report that is there, or chooses one from the row. *)
LEMMA LoadJobMoves ==
  ASSUME Typed, NEW x \in Exec, LoadJob(x)
  PROVE  /\ Moved(x)
         /\ \/ exec'[x] = None
            \/ \E r \in Outcome :
                 \/ /\ report[exec[x].job] = r
                    /\ exec'[x] = [exec[x] EXCEPT !.at = "final", !.rep = r]
                 \/ /\ AllDone(exec[x].job) /\ r = "ready"
                    /\ exec'[x] = [exec[x] EXCEPT !.at = "preview", !.rep = r]
                 \/ /\ r = IF state[exec[x].job] = "cancelled" THEN "cancelled" ELSE "failed"
                    /\ exec'[x] = [exec[x] EXCEPT !.at = "report", !.rep = r]
<1> DEFINE j == exec[x].job
<1>1. exec[x] # None /\ exec[x].step \in {"assemble", "record"}
  BY DEF LoadJob, Runs
<1>2. j \in Job /\ {"report", "final"} \subseteq Places(exec[x].step)
  BY <1>1, Fields DEF Places
<1>3. CASE Ends(x, TRUE) \/ Ends(x, FALSE)
  BY <1>1, <1>3, EndsMoves
<1>4. CASE report[j] # None /\ ReportTo(x, "final", report[j])
  <2>1. PICK r \in Outcome : report[j] = r
    BY <1>2, <1>4 DEF Typed, TypeOK
  <2>2. ReportTo(x, "final", r)
    BY <1>4, <2>1 DEF ReportTo
  <2>3. Moved(x) /\ exec'[x] = [exec[x] EXCEPT !.at = "final", !.rep = r]
    BY <1>1, <1>2, <2>2, ReportToMoves
  <2> QED BY <2>1, <2>3
<1>5. CASE exec[x].step = "assemble" /\ AllDone(j) /\ ReportTo(x, "preview", "ready")
  <2>1. "preview" \in Places(exec[x].step) /\ "ready" \in Outcome
    BY <1>5 DEF Places, Outcome
  <2>2. Moved(x) /\ exec'[x] = [exec[x] EXCEPT !.at = "preview", !.rep = "ready"]
    BY <1>1, <1>5, <2>1, ReportToMoves
  <2> QED BY <1>5, <2>1, <2>2
<1>6. CASE ReportTo(x, "report", IF state[j] = "cancelled" THEN "cancelled" ELSE "failed")
  <2>1. PICK r \in Outcome : r = IF state[j] = "cancelled" THEN "cancelled" ELSE "failed"
    BY DEF Outcome
  <2>2. ReportTo(x, "report", r)
    BY <1>6, <2>1 DEF ReportTo
  <2>3. Moved(x) /\ exec'[x] = [exec[x] EXCEPT !.at = "report", !.rep = r]
    BY <1>1, <1>2, <2>2, ReportToMoves
  <2> QED BY <2>1, <2>3
<1> QED BY <1>3, <1>4, <1>5, <1>6 DEF LoadJob

LEMMA PutPreviewMoves ==
  ASSUME Typed, NEW x \in Exec, PutPreview(x)
  PROVE  /\ Moved(x)
         /\ \/ exec'[x] = None
            \/ /\ exec'[x] = [exec[x] EXCEPT !.at = "report"] /\ exec[x].at = "preview"
               /\ preview' = [preview EXCEPT ![exec[x].job] = TRUE]
<1>1. exec[x] # None /\ exec[x].step = "assemble" /\ exec[x].at = "preview"
  BY DEF PutPreview, Runs
<1>2. CASE Ends(x, FALSE)
  BY <1>1, <1>2, EndsMoves
<1>3. CASE preview' = [preview EXCEPT ![exec[x].job] = TRUE] /\ GoesTo(x, "report")
  <2>1. exec[x].rep # None
    BY <1>1, Fields DEF Sound, Concluding
  <2>2. "report" \in Places(exec[x].step) /\ "report" \notin Paid
    BY <1>1 DEF Places, Paid
  <2>3. Moved(x) /\ exec'[x] = [exec[x] EXCEPT !.at = "report"]
    BY <1>1, <1>3, <2>1, <2>2, GoesToMoves
  <2> QED BY <1>1, <1>3, <2>3
<1> QED BY <1>2, <1>3 DEF PutPreview

LEMMA PutReportMoves ==
  ASSUME Typed, NEW x \in Exec, PutReport(x)
  PROVE  /\ Moved(x)
         /\ \/ exec'[x] = None
            \/ /\ exec'[x] = [exec[x] EXCEPT !.at = "final"] /\ exec[x].at = "report"
               /\ report[exec[x].job] = None
               /\ report' = [report EXCEPT ![exec[x].job] = exec[x].rep]
<1>1. exec[x] # None /\ exec[x].step \in {"assemble", "record"} /\ exec[x].at = "report"
  BY DEF PutReport, Runs
<1>2. CASE Ends(x, FALSE)
  BY <1>1, <1>2, EndsMoves
<1>3. CASE /\ report[exec[x].job] = None /\ report' = [report EXCEPT ![exec[x].job] = exec[x].rep]
           /\ GoesTo(x, "final")
  <2>1. exec[x].rep # None
    BY <1>1, Fields DEF Sound, Concluding
  <2>2. "final" \in Places(exec[x].step) /\ "final" \notin Paid
    BY <1>1 DEF Places, Paid
  <2>3. Moved(x) /\ exec'[x] = [exec[x] EXCEPT !.at = "final"]
    BY <1>1, <1>3, <2>1, <2>2, GoesToMoves
  <2> QED BY <1>1, <1>3, <2>3
<1> QED BY <1>2, <1>3 DEF PutReport

LEMMA FinalizeMoves ==
  ASSUME Typed, NEW x \in Exec, Finalize(x)
  PROVE  Moved(x) /\ exec'[x] = None
<1>1. exec[x] # None
  BY DEF Finalize, Runs
<1>2. Ends(x, TRUE) \/ Ends(x, FALSE)
  BY DEF Finalize
<1> QED BY <1>1, <1>2, EndsMoves

LEMMA DiesMoves ==
  ASSUME Typed, NEW x \in Exec, Dies(x)
  PROVE  Moved(x) /\ exec'[x] = None
<1>1. exec[x] # None /\ exec' = [exec EXCEPT ![x] = None]
  BY DEF Dies
<1>2. exec[x].job \in Job /\ exec \in [Exec -> Sound \cup {None}] /\ wf \in [Job -> Placed]
      /\ awaits \in [Job -> Exec \cup {None}]
  BY <1>1, Fields DEF Typed, TypeOK
<1>3. AfterFailure(wf[exec[x].job]) \in Placed
  BY <1>2, AfterPlaced
<1>4. wf' \in [Job -> Placed] /\ awaits' \in [Job -> Exec \cup {None}]
  BY <1>2, <1>3 DEF Dies
<1> QED BY <1>1, <1>2, <1>4 DEF Moved

(* Execute begins an execution; GiveUp and LastResort move the instance only. *)
LEMMA ExecuteMoves ==
  ASSUME Typed, NEW j \in Job, NEW x \in Exec, Execute(j, x)
  PROVE  Moved(x) /\ exec[x] = None /\ exec'[x] # None /\ exec'[x].at = "start"
<1> DEFINE e == [job |-> j, step |-> wf[j].step, page |-> wf[j].page, at |-> "start",
                 seen |-> None, got |-> None, rep |-> None]
<1>1. wf[j] \in Placed /\ wf[j].step \in Step /\ exec[x] = None
  BY DEF Execute, Typed
<1>2. e \in Sound /\ e.at = "start"
  BY <1>1 DEF Sound, Execution, Placed, Place, Step, Places, Paid, Concluding, Usage
<1>3. exec' = [exec EXCEPT ![x] = e] /\ awaits' = [awaits EXCEPT ![j] = x] /\ wf' = wf
  BY DEF Execute
<1> HIDE DEF e
<1>4. e # None
  BY <1>2, NoneAssumption DEF Sound
<1> QED BY <1>1, <1>2, <1>3, <1>4 DEF Moved, Typed, TypeOK

LEMMA GiveUpMoves ==
  ASSUME Typed, NEW j \in Job, GiveUp(j)
  PROVE  /\ wf' \in [Job -> Placed] /\ awaits' \in [Job -> Exec \cup {None}]
         /\ UNCHANGED exec
<1>1. AfterFailure(wf[j]) \in Placed
  BY AfterPlaced DEF Typed
<1> QED BY <1>1 DEF GiveUp, Typed, TypeOK

LEMMA LastResortMoves ==
  ASSUME Typed, NEW j \in Job, LastResort(j)
  PROVE  wf' \in [Job -> Placed] /\ UNCHANGED <<awaits, exec>>
<1>1. [step |-> "ended", page |-> 0] \in Placed
  BY PageAssumption DEF Placed, Place, Step
<1> QED BY <1>1 DEF LastResort, Typed, TypeOK

-----------------------------------------------------------------------------
(* Type correctness: the rows and objects by themselves, then the executions. *)
Base ==
  /\ version \in Nat /\ state \in [Job -> State] /\ base \in [Job -> Nat]
  /\ pages \in [Job -> [Page -> Png \cup {None}]]
  /\ calls \in [Job -> 0 .. PageCount] /\ completed \in [Job -> 0 .. PageCount]
  /\ usage \in [Job -> Usage] /\ late \in [Job -> BOOLEAN] /\ applied \in [Job -> Nat]
  /\ png \in [Job -> [Page -> Png \cup {None}]]
  /\ out \in [Job -> [Page -> Output \cup {None}]]
  /\ preview \in [Job -> BOOLEAN] /\ report \in [Job -> Outcome \cup {None}]
  /\ upload \in [Upload -> UploadCall \cup {None}]
  /\ starter \in [Starter -> StartCall \cup {None}]
  /\ restarts \in 0 .. MaxRestarts /\ sent \in [Job -> [Page -> Nat]]

(* A stored output is never replaced. *)
OutKept == \A j \in Job, n \in Page : out[j][n] # None => out'[j][n] = out[j][n]

(* A column of pages, one of them changed. *)
LEMMA PageChanged ==
  ASSUME NEW S, NEW f \in [Job -> [Page -> S]], NEW j \in Job, NEW n \in Page, NEW v \in S
  PROVE  /\ [f EXCEPT ![j][n] = v] \in [Job -> [Page -> S]]
         /\ \A i \in Job, m \in Page :
              [f EXCEPT ![j][n] = v][i][m] = IF i = j /\ m = n THEN v ELSE f[i][m]
<1> DEFINE g == [f[j] EXCEPT ![n] = v]
<1>1. g \in [Page -> S]
  OBVIOUS
<1>2. [f EXCEPT ![j][n] = v] = [f EXCEPT ![j] = g]
  OBVIOUS
<1> QED BY <1>1, <1>2

LEMMA TypedBase ==
  ASSUME Typed
  PROVE  Base
  BY DEF Typed, TypeOK, Base

LEMMA MovedTyped ==
  ASSUME Typed, NEW x \in Exec, Moved(x), Base', OutKept,
         exec'[x] # None /\ exec'[x].at \in Stored => out'[exec'[x].job][exec'[x].page] # None
  PROVE  Typed'
<1>1. exec' \in [Exec -> Execution \cup {None}]
  BY DEF Moved, Sound
<1>2. wf' \in [Job -> Place]
  BY DEF Moved, Placed
<1>3. TypeOK'
  BY <1>1, <1>2 DEF Moved, TypeOK, Base
<1>4. Settling'
  <2> SUFFICES ASSUME NEW y \in Exec, y # x, exec[y] # None, exec[y].at \in Stored
               PROVE  out'[exec[y].job][exec[y].page] # None
    BY DEF Settling, Stored, Moved
  <2>1. exec[y] \in Sound /\ exec[y].job \in Job /\ out[exec[y].job][exec[y].page] # None
    BY Fields DEF Typed, Settling
  <2>2. exec[y].step = "page"
    BY <2>1 DEF Sound, Execution, Step, Places, Stored
  <2> QED BY <2>1, <2>2, Fields DEF OutKept
<1> QED BY <1>3, <1>4 DEF Typed, Moved

(* Steps that leave the executions alone. *)
LEMMA RestingTyped ==
  ASSUME Typed, Base', UNCHANGED <<wf, awaits, exec, out>>
  PROVE  Typed'
<1>1. TypeOK'
  BY DEF Typed, TypeOK, Base
<1>2. Settling'
  BY DEF Typed, Settling, Stored
<1> QED BY <1>1, <1>2 DEF Typed

LEMMA RowTyped ==
  ASSUME Typed,
         \/ SourceChanges
         \/ \E j \in Job : CreateJob(j) \/ Cancel(j) \/ Elapse(j) \/ Apply(j)
  PROVE  Typed'
<1> USE TypedBase
<1>1. UNCHANGED <<wf, awaits, exec, out>>
  BY DEF SourceChanges, CreateJob, Cancel, Elapse, Apply, objects, engine
<1>2. CASE SourceChanges
  <2>1. Base'
    BY <1>2 DEF Base, SourceChanges, objects, requests, engine
  <2> QED BY <1>1, <2>1, RestingTyped
<1>3. ASSUME NEW j \in Job, CreateJob(j)
      PROVE  Typed'
  <2>1. Base'
    BY <1>3 DEF Base, CreateJob, MoveTo, State, objects, requests, engine
  <2> QED BY <1>1, <2>1, RestingTyped
<1>4. ASSUME NEW j \in Job, Cancel(j)
      PROVE  Typed'
  <2>1. Base'
    BY <1>4 DEF Base, Cancel, MoveTo, State, objects, requests, engine
  <2> QED BY <1>1, <2>1, RestingTyped
<1>5. ASSUME NEW j \in Job, Elapse(j)
      PROVE  Typed'
  <2>1. Base'
    BY <1>5 DEF Base, Elapse, objects, requests, engine
  <2> QED BY <1>1, <2>1, RestingTyped
<1>6. ASSUME NEW j \in Job, Apply(j)
      PROVE  Typed'
  <2>1. Base'
    BY <1>6 DEF Base, Apply, MoveTo, State, objects, requests, engine
  <2> QED BY <1>1, <2>1, RestingTyped
<1> QED BY <1>2, <1>3, <1>4, <1>5, <1>6

LEMMA UploadTyped ==
  ASSUME Typed, NEW u \in Upload, BeginUpload(u) \/ PutPng(u) \/ ReadPages(u) \/ SavePage(u)
  PROVE  Typed'
<1> USE TypedBase
<1>1. UNCHANGED <<wf, awaits, exec, out>>
  BY DEF BeginUpload, PutPng, ReadPages, SavePage, row, objects, engine
<1>2. CASE BeginUpload(u)
  <2>1. PICK j \in Job, n \in Page, p \in Png :
          upload' = [upload EXCEPT ![u] = [job |-> j, page |-> n, png |-> p, at |-> "put", seen |-> NoPages]]
    BY <1>2 DEF BeginUpload
  <2>2. [job |-> j, page |-> n, png |-> p, at |-> "put", seen |-> NoPages] \in UploadCall
    BY DEF UploadCall, NoPages
  <2>3. upload' \in [Upload -> UploadCall \cup {None}]
    BY <2>1, <2>2 DEF Base
  <2>4. Base'
    BY <1>2, <2>3 DEF Base, BeginUpload, row, objects, engine
  <2> QED BY <1>1, <2>4, RestingTyped
<1>3. ASSUME upload[u] # None
      PROVE  upload[u] \in UploadCall
  BY <1>3 DEF Base
<1>4. ASSUME NEW at \in {"put", "read", "save", "stored"}, UploadTo(u, at), upload[u] # None
      PROVE  upload' \in [Upload -> UploadCall \cup {None}]
  <2>1. [upload[u] EXCEPT !.at = at] \in UploadCall
    BY <1>3, <1>4 DEF UploadCall
  <2> QED BY <1>4, <2>1 DEF UploadTo, Base
<1>5. ASSUME UploadEnds(u)
      PROVE  upload' \in [Upload -> UploadCall \cup {None}]
  BY <1>5 DEF UploadEnds, Base
<1>6. CASE PutPng(u)
  <2>1. upload' \in [Upload -> UploadCall \cup {None}]
    BY <1>4, <1>5, <1>6 DEF PutPng, Uploading
  <2>2. upload[u] \in UploadCall
    BY <1>3, <1>6 DEF PutPng, Uploading
  <2>3. png' \in [Job -> [Page -> Png \cup {None}]]
    <3>1. upload[u].job \in Job /\ upload[u].page \in Page /\ upload[u].png \in Png \cup {None}
      BY <2>2 DEF UploadCall
    <3>2. png \in [Job -> [Page -> Png \cup {None}]]
      BY DEF Base
    <3>3. [png EXCEPT ![upload[u].job][upload[u].page] = upload[u].png] \in [Job -> [Page -> Png \cup {None}]]
      BY <3>1, <3>2, PageChanged
    <3> QED BY <1>6, <3>2, <3>3 DEF PutPng
  <2>4. Base'
    BY <1>6, <2>1, <2>3 DEF PutPng, Base, row, engine
  <2> QED BY <1>1, <2>4, RestingTyped
<1>7. CASE ReadPages(u)
  <2>1. upload[u] \in UploadCall /\ upload[u] # None
    BY <1>3, <1>7 DEF ReadPages, Uploading
  <2>2. upload' \in [Upload -> UploadCall \cup {None}]
    <3>1. CASE upload' = [upload EXCEPT ![u].at = "save", ![u].seen = pages[upload[u].job]]
      <4>1. pages[upload[u].job] \in [Page -> Png \cup {None}]
        BY <2>1 DEF Base, UploadCall
      <4>2. [upload[u] EXCEPT !.at = "save", !.seen = pages[upload[u].job]] \in UploadCall
        BY <2>1, <4>1 DEF UploadCall
      <4> QED BY <3>1, <4>2 DEF Base
    <3>2. CASE UploadTo(u, "stored") \/ UploadEnds(u)
      BY <1>4, <1>5, <2>1, <3>2
    <3> QED BY <1>7, <3>1, <3>2 DEF ReadPages
  <2>3. Base'
    BY <1>7, <2>2 DEF ReadPages, Base, row, objects, engine
  <2> QED BY <1>1, <2>3, RestingTyped
<1>8. CASE SavePage(u)
  <2>1. upload[u] \in UploadCall /\ upload[u] # None
    BY <1>3, <1>8 DEF SavePage, Uploading
  <2>2. upload' \in [Upload -> UploadCall \cup {None}]
    BY <1>4, <1>5, <1>8, <2>1 DEF SavePage
  <2>3. pages' \in [Job -> [Page -> Png \cup {None}]]
    <3>1. [upload[u].seen EXCEPT ![upload[u].page] = upload[u].png] \in [Page -> Png \cup {None}]
      BY <2>1 DEF UploadCall
    <3> QED BY <1>8, <3>1 DEF SavePage, Base
  <2>4. Base'
    BY <1>8, <2>2, <2>3 DEF SavePage, Base, objects, engine
  <2> QED BY <1>1, <2>4, RestingTyped
<1> QED BY <1>2, <1>6, <1>7, <1>8

LEMMA StarterTyped ==
  ASSUME Typed, NEW s \in Starter,
         \/ \E j \in Job : BeginStart(s, j)
         \/ Sweep(s) \/ Admit(s) \/ CreateInstance(s) \/ Unconfirmed(s)
  PROVE  Typed'
<1> USE TypedBase
<1>1. ASSUME NEW at \in {"sweep", "admit", "create", "unconfirmed"}, StarterTo(s, at), starter[s] # None
      PROVE  starter' \in [Starter -> StartCall \cup {None}]
  <2>1. [starter[s] EXCEPT !.at = at] \in StartCall
    BY <1>1 DEF Base, StartCall
  <2> QED BY <1>1, <2>1 DEF StarterTo, Base
<1>2. ASSUME StarterEnds(s)
      PROVE  starter' \in [Starter -> StartCall \cup {None}]
  BY <1>2 DEF StarterEnds, Base
<1>3. ASSUME NEW j \in Job, BeginStart(s, j)
      PROVE  Typed'
  <2>1. [job |-> j, at |-> "sweep", seen |-> pages[j]] \in StartCall
    BY DEF Base, StartCall
  <2>2. starter' \in [Starter -> StartCall \cup {None}]
    BY <1>3, <2>1 DEF BeginStart, Base
  <2>3. Base' /\ UNCHANGED <<wf, awaits, exec, out>>
    BY <1>3, <2>2 DEF Base, BeginStart, row, objects, engine
  <2> QED BY <2>3, RestingTyped
<1>4. CASE Sweep(s)
  <2>1. starter' \in [Starter -> StartCall \cup {None}]
    BY <1>1, <1>4 DEF Sweep, Starting
  <2>2. state' \in [Job -> State]
    BY <1>4 DEF Sweep, Base, State
  <2>3. Base' /\ UNCHANGED <<wf, awaits, exec, out>>
    BY <1>4, <2>1, <2>2 DEF Base, Sweep, objects, engine
  <2> QED BY <2>3, RestingTyped
<1>5. CASE Admit(s)
  <2>1. starter' \in [Starter -> StartCall \cup {None}]
    BY <1>1, <1>2, <1>5 DEF Admit, Starting
  <2>2. state' \in [Job -> State]
    BY <1>5 DEF Admit, Base, State, MoveTo
  <2>3. Base' /\ UNCHANGED <<wf, awaits, exec, out>>
    BY <1>5, <2>1, <2>2 DEF Base, Admit, objects, engine
  <2> QED BY <2>3, RestingTyped
<1>6. CASE CreateInstance(s)
  <2>1. starter' \in [Starter -> StartCall \cup {None}]
    BY <1>1, <1>2, <1>6 DEF CreateInstance, Starting
  <2>2. Base' /\ UNCHANGED <<awaits, exec, out>>
    BY <1>6, <2>1 DEF Base, CreateInstance, row, objects
  <2>3. starter[s].job \in Job
    BY <1>6 DEF CreateInstance, Starting, Base, StartCall
  <2>4. [step |-> "begin", page |-> 0] \in Placed
    BY PageAssumption DEF Placed, Place, Step
  <2>5. wf' \in [Job -> Placed]
    BY <1>6, <2>3, <2>4 DEF CreateInstance, Typed
  <2>6. wf' \in [Job -> Place]
    BY <2>5 DEF Placed
  <2>7. TypeOK'
    BY <2>2, <2>6 DEF Typed, TypeOK, Base
  <2>8. Settling'
    BY <2>2 DEF Typed, Settling, Stored
  <2> QED BY <2>2, <2>5, <2>7, <2>8 DEF Typed
<1>7. CASE Unconfirmed(s)
  <2>1. starter' \in [Starter -> StartCall \cup {None}]
    BY <1>2, <1>7 DEF Unconfirmed
  <2>2. state' \in [Job -> State]
    <3>1. state' = state \/ state' = [state EXCEPT ![starter[s].job] = "failed"]
      BY <1>7 DEF Unconfirmed, MoveTo
    <3> QED BY <3>1 DEF Base, State
  <2>3. Base' /\ UNCHANGED <<wf, awaits, exec, out>>
    BY <1>7, <2>1, <2>2 DEF Base, Unconfirmed, objects, engine
  <2> QED BY <2>3, RestingTyped
<1> QED BY <1>3, <1>4, <1>5, <1>6, <1>7

LEMMA StopsTyped ==
  ASSUME Typed, RequestStops
  PROVE  Typed'
<1>1. Base' /\ UNCHANGED <<wf, awaits, exec, out>>
  BY TypedBase DEF Base, RequestStops, UploadEnds, StarterEnds, row, objects, engine
<1> QED BY <1>1, RestingTyped

LEMMA EngineTyped ==
  ASSUME Typed, NEW j \in Job, Engine(j)
  PROVE  Typed'
<1> USE TypedBase
<1>1. CASE GiveUp(j)
  <2>1. wf' \in [Job -> Placed] /\ awaits' \in [Job -> Exec \cup {None}] /\ UNCHANGED exec
    BY <1>1, GiveUpMoves
  <2>2. Base' /\ UNCHANGED out
    BY <1>1 DEF GiveUp, Base, row, objects, requests
  <2>3. wf' \in [Job -> Place]
    BY <2>1 DEF Placed
  <2>4. TypeOK' /\ Settling'
    BY <2>1, <2>2, <2>3 DEF Typed, TypeOK, Base, Settling, Stored
  <2> QED BY <2>1, <2>4 DEF Typed
<1>2. CASE LastResort(j)
  <2>1. wf' \in [Job -> Placed] /\ UNCHANGED <<awaits, exec>>
    BY <1>2, LastResortMoves
  <2>2. state' \in [Job -> State]
    BY <1>2 DEF LastResort, MoveTo, Finished, Base, State
  <2>3. Base' /\ UNCHANGED out
    BY <1>2, <2>2 DEF LastResort, Base, objects, requests
  <2>4. wf' \in [Job -> Place]
    BY <2>1 DEF Placed
  <2>5. TypeOK' /\ Settling'
    BY <2>1, <2>3, <2>4 DEF Typed, TypeOK, Base, Settling, Stored
  <2> QED BY <2>1, <2>5 DEF Typed
<1>3. ASSUME NEW x \in Exec, Execute(j, x)
      PROVE  Typed'
  <2>1. Moved(x) /\ exec'[x].at = "start"
    BY <1>3, ExecuteMoves
  <2>2. restarts' \in 0 .. MaxRestarts
    BY <1>3, BoundAssumption DEF Execute, Base
  <2>3. Base' /\ UNCHANGED out
    BY <1>3, <2>2 DEF Execute, Base, row, objects, requests
  <2> QED BY <2>1, <2>3, MovedTyped DEF OutKept, Stored
<1> QED BY <1>1, <1>2, <1>3 DEF Engine

LEMMA StepTyped ==
  ASSUME Typed, NEW x \in Exec, StepAction(x)
  PROVE  Typed'
<1> USE TypedBase
<1>1. CASE Begin(x)
  <2>1. state' \in [Job -> State]
    BY <1>1 DEF Begin, MoveTo, Base, State
  <2>2. Base' /\ UNCHANGED out
    BY <1>1, <2>1 DEF Begin, Base, objects, requests
  <2> QED BY <1>1, <2>2, BeginMoves, MovedTyped DEF OutKept
<1>2. CASE LoadPage(x)
  <2>1. Base' /\ UNCHANGED out
    BY <1>2 DEF LoadPage, Base, row, objects, requests
  <2>2. Moved(x) /\ (exec'[x] # None /\ exec'[x].at \in Stored => out'[exec'[x].job][exec'[x].page] # None)
    <3>1. exec[x] # None
      BY <1>2 DEF LoadPage, Runs
    <3>2. exec[x] \in Sound
      BY <3>1, Fields
    <3> QED BY <1>2, <2>1, <3>2, LoadPageMoves DEF Stored, Sound, Execution
  <2> QED BY <2>1, <2>2, MovedTyped DEF OutKept
<1>3. CASE Dispatch(x)
  <2>1. exec[x] # None /\ exec[x].step = "page"
    BY <1>3 DEF Dispatch, Runs
  <2>2. exec[x] \in Sound /\ exec[x].page \in Page
    BY <2>1, Fields
  <2>3. calls' \in [Job -> 0 .. PageCount]
    <3>1. calls' = calls \/ calls' = [calls EXCEPT ![exec[x].job] = exec[x].page]
      BY <1>3 DEF Dispatch
    <3>2. exec[x].page \in 0 .. PageCount
      BY <2>2, PageAssumption DEF Page
    <3> QED BY <3>1, <3>2 DEF Base
  <2>4. usage' \in [Job -> Usage]
    BY <1>3 DEF Dispatch, AfterDispatch, Base, Usage
  <2>5. Base' /\ UNCHANGED out
    BY <1>3, <2>3, <2>4 DEF Dispatch, Base, objects, requests
  <2>6. Moved(x) /\ (exec'[x] = None \/ exec'[x].at \notin Stored)
    BY <1>3, <2>2, DispatchMoves DEF Stored, Sound, Execution
  <2> QED BY <2>5, <2>6, MovedTyped DEF OutKept
<1>4. CASE Call(x)
  <2>1. exec[x] # None /\ exec[x].step = "page"
    BY <1>4 DEF Call, Runs
  <2>2. exec[x] \in Sound /\ exec[x].page \in Page /\ exec[x].job \in Job
    BY <2>1, Fields
  <2>3. sent' \in [Job -> [Page -> Nat]]
    BY <1>4, <2>2 DEF Call, Base
  <2>4. Base' /\ UNCHANGED out
    BY <1>4, <2>3 DEF Call, Base, row, objects, requests
  <2>5. Moved(x) /\ (exec'[x] = None \/ exec'[x].at \notin Stored)
    BY <1>4, <2>2, CallMoves DEF Stored, Sound, Execution
  <2> QED BY <2>4, <2>5, MovedTyped DEF OutKept
<1>5. CASE StorePage(x)
  <2>1. exec[x] # None /\ exec[x].step = "page" /\ exec[x].at = "store"
    BY <1>5 DEF StorePage, Runs
  <2>2. exec[x] \in Sound /\ exec[x].page \in Page /\ exec[x].job \in Job /\ exec[x].got # None
    BY <2>1, Fields DEF Sound, Paid
  <2>3. exec[x].got \in Output
    BY <2>2 DEF Sound, Execution
  <2>4. out' \in [Job -> [Page -> Output \cup {None}]] /\ OutKept
    <3>1. CASE UNCHANGED out
      BY <3>1 DEF Base, OutKept
    <3>2. CASE /\ out[exec[x].job][exec[x].page] = None
               /\ out' = [out EXCEPT ![exec[x].job][exec[x].page] = exec[x].got]
      <4>1. out \in [Job -> [Page -> Output \cup {None}]]
        BY DEF Base
      <4>2. /\ [out EXCEPT ![exec[x].job][exec[x].page] = exec[x].got] \in [Job -> [Page -> Output \cup {None}]]
            /\ \A i \in Job, m \in Page : [out EXCEPT ![exec[x].job][exec[x].page] = exec[x].got][i][m]
                 = IF i = exec[x].job /\ m = exec[x].page THEN exec[x].got ELSE out[i][m]
        BY <2>2, <2>3, <4>1, PageChanged
      <4> QED BY <3>2, <4>2 DEF OutKept
    <3> QED BY <1>5, <3>1, <3>2, StorePageMoves
  <2>5. Base'
    BY <1>5, <2>4 DEF StorePage, Base, row, requests
  <2>6. Moved(x) /\ (exec'[x] # None /\ exec'[x].at \in Stored => out'[exec'[x].job][exec'[x].page] # None)
    <3>1. Moved(x)
      BY <1>5, StorePageMoves
    <3>2. CASE UNCHANGED out /\ exec'[x] = [exec[x] EXCEPT !.at = "keep"]
      <4>1. exec'[x].at = "keep"
        BY <2>2, <3>2 DEF Sound, Execution
      <4> QED BY <3>1, <4>1 DEF Stored
    <3>3. ASSUME NEW at \in {"count", "keep"}, exec'[x] = [exec[x] EXCEPT !.at = at],
                 out' = [out EXCEPT ![exec[x].job][exec[x].page] = exec[x].got]
          PROVE  out'[exec'[x].job][exec'[x].page] # None
      <4>1. exec'[x].job = exec[x].job /\ exec'[x].page = exec[x].page
        BY <2>2, <3>3 DEF Sound, Execution
      <4>2. out'[exec[x].job][exec[x].page] = exec[x].got
        BY <2>2, <3>3 DEF Base
      <4> QED BY <2>2, <4>1, <4>2
    <3> QED BY <1>5, <3>1, <3>2, <3>3, StorePageMoves
  <2> QED BY <2>4, <2>5, <2>6, MovedTyped
<1>6. CASE Checkpoint(x)
  <2>1. exec[x] # None /\ exec[x].step = "page" /\ exec[x].at \in {"keep", "count"}
    BY <1>6 DEF Checkpoint, Runs
  <2>2. exec[x] \in Sound /\ exec[x].got # None
    BY <2>1, Fields DEF Sound, Paid
  <2>3. exec[x].got.usage \in Usage
    BY <2>2 DEF Sound, Execution, Output
  <2>4. usage' \in [Job -> Usage]
    BY <1>6, <2>3 DEF Checkpoint, Base
  <2>5. Base' /\ UNCHANGED out
    BY <1>6, <2>4 DEF Checkpoint, Base, objects, requests
  <2>6. Moved(x) /\ (exec'[x] # None => exec[x].at = "count" /\ exec'[x] = [exec[x] EXCEPT !.at = "settle"])
    BY <1>6, CheckpointMoves
  <2>7. exec'[x] # None => out[exec'[x].job][exec'[x].page] # None
    BY <2>1, <2>2, <2>6 DEF Typed, Settling, Stored, Sound, Execution
  <2> QED BY <2>5, <2>6, <2>7, MovedTyped DEF OutKept
<1>7. CASE Settle(x)
  <2> DEFINE j == exec[x].job
  <2> DEFINE n == exec[x].page
  <2>1. exec[x] # None /\ exec[x].step = "page" /\ exec[x].at = "settle"
    BY <1>7 DEF Settle, Runs
  <2>2. j \in Job /\ n \in Page /\ out[j][n] # None
    BY <2>1, Fields DEF Typed, Settling, Stored
  <2>3. out[j][n].complete \in BOOLEAN /\ out[j][n].usage \in Usage
    BY <2>2 DEF Base, Output
  <2>4. usage' \in [Job -> Usage]
    BY <1>7, <2>3 DEF Settle, Base
  <2>5. completed' \in [Job -> 0 .. PageCount]
    <3>1. completed[j] = n - 1 => completed[j] + 1 \in 0 .. PageCount
      BY <2>2, PageAssumption DEF Page, Base
    <3> QED BY <1>7, <3>1 DEF Settle, CanSettle, Base
  <2>6. state' \in [Job -> State]
    BY <1>7 DEF Settle, Base, State
  <2>7. Base' /\ UNCHANGED out
    BY <1>7, <2>4, <2>5, <2>6 DEF Settle, Base, objects, requests
  <2> QED BY <1>7, <2>7, SettleMoves, MovedTyped DEF OutKept
<1>8. CASE LoadJob(x)
  <2>1. exec[x] # None
    BY <1>8 DEF LoadJob, Runs
  <2>2. exec[x] \in Sound
    BY <2>1, Fields
  <2>3. Base' /\ UNCHANGED out
    BY <1>8 DEF LoadJob, Base, row, objects, requests
  <2>4. Moved(x) /\ (exec'[x] = None \/ exec'[x].at \notin Stored)
    <3>1. ASSUME NEW r \in Outcome, NEW at \in Concluding, exec'[x] = [exec[x] EXCEPT !.at = at, !.rep = r]
          PROVE  exec'[x].at \notin Stored
      BY <2>2, <3>1 DEF Stored, Sound, Execution, Concluding
    <3> QED BY <1>8, <3>1, LoadJobMoves DEF Concluding
  <2> QED BY <2>3, <2>4, MovedTyped DEF OutKept
<1>9. CASE PutPreview(x)
  <2>1. exec[x] # None
    BY <1>9 DEF PutPreview, Runs
  <2>2. exec[x] \in Sound
    BY <2>1, Fields
  <2>3. Base' /\ UNCHANGED out
    BY <1>9 DEF PutPreview, Base, row, requests
  <2>4. Moved(x) /\ (exec'[x] = None \/ exec'[x].at \notin Stored)
    BY <1>9, <2>2, PutPreviewMoves DEF Stored, Sound, Execution
  <2> QED BY <2>3, <2>4, MovedTyped DEF OutKept
<1>10. CASE PutReport(x)
  <2>1. exec[x] # None /\ exec[x].at = "report"
    BY <1>10 DEF PutReport, Runs
  <2>2. exec[x] \in Sound /\ exec[x].rep # None
    BY <2>1, Fields DEF Sound, Concluding
  <2>3. exec[x].rep \in Outcome
    BY <2>2 DEF Sound, Execution
  <2>4. Base' /\ UNCHANGED out
    BY <1>10, <2>3 DEF PutReport, Base, row, requests
  <2>5. Moved(x) /\ (exec'[x] = None \/ exec'[x].at \notin Stored)
    BY <1>10, <2>2, PutReportMoves DEF Stored, Sound, Execution
  <2> QED BY <2>4, <2>5, MovedTyped DEF OutKept
<1>11. CASE Finalize(x)
  <2>1. exec[x] # None /\ exec[x].at = "final"
    BY <1>11 DEF Finalize, Runs
  <2>2. exec[x] \in Sound /\ exec[x].rep # None
    BY <2>1, Fields DEF Sound, Concluding
  <2>3. exec[x].rep \in State
    BY <2>2 DEF Sound, Execution, Outcome, State
  <2>4. state' \in [Job -> State]
    BY <1>11, <2>3 DEF Finalize, MoveTo, Finished, Base
  <2>5. Base' /\ UNCHANGED out
    BY <1>11, <2>4 DEF Finalize, Base, objects, requests
  <2> QED BY <1>11, <2>5, FinalizeMoves, MovedTyped DEF OutKept
<1>12. CASE Dies(x)
  <2>1. Base' /\ UNCHANGED out
    BY <1>12 DEF Dies, Base, row, objects, requests
  <2> QED BY <1>12, <2>1, DiesMoves, MovedTyped DEF OutKept
<1> QED BY <1>1, <1>2, <1>3, <1>4, <1>5, <1>6, <1>7, <1>8, <1>9, <1>10, <1>11, <1>12 DEF StepAction

(* Every step keeps the types.  Named: all of Next. *)
LEMMA TypedKept ==
  ASSUME Typed, [Next]_vars
  PROVE  Typed'
<1>1. CASE Next
  BY <1>1, RowTyped, UploadTyped, StarterTyped, StopsTyped, EngineTyped, StepTyped DEF Next, Request
<1>2. CASE UNCHANGED vars
  <2>1. UNCHANGED <<wf, awaits, exec, out>> /\ Base'
    BY <1>2, TypedBase DEF vars, row, objects, requests, engine, Base
  <2> QED BY <2>1, RestingTyped
<1> QED BY <1>1, <1>2

-----------------------------------------------------------------------------
(* The life of a job.  Named: every UPDATE of source_ocr_job.state. *)
Life(j) ==
  \/ state'[j] = state[j]
  \/ state[j] = "absent" /\ state'[j] = "preparing"
  \/ state[j] \in {"preparing", "queued", "running", "ready"} /\ state'[j] = "cancelled"
  \/ state[j] = "preparing" /\ state'[j] = "queued" /\ AllPages(pages[j])
  \/ state[j] = "queued" /\ state'[j] = "running"
  \/ state[j] \in Running /\ state'[j] = "failed"
  \/ state[j] \in {"queued", "running", "failed"} /\ state'[j] = report[j] /\ report[j] \in {"ready", "failed"}
  \/ state[j] = "ready" /\ state'[j] = "applied" /\ Apply(j)

LEMMA StillLife ==
  ASSUME UNCHANGED state, NEW j \in Job
  PROVE  Life(j)
  BY DEF Life

LEMMA MoveToLife ==
  ASSUME Typed, NEW i \in Job, NEW s, MoveTo(i, s), NEW j \in Job, j # i
  PROVE  Life(j)
  BY DEF Life, MoveTo, Typed, TypeOK

LEMMA RequestsLive ==
  ASSUME Typed, StarterSafe, Request, NEW j \in Job
  PROVE  Life(j)
<1>1. CASE (\E u \in Upload : BeginUpload(u) \/ PutPng(u) \/ ReadPages(u) \/ SavePage(u)) \/ RequestStops
  BY <1>1, StillLife DEF BeginUpload, PutPng, ReadPages, SavePage, RequestStops, row
<1>2. CASE \E s \in Starter, i \in Job : BeginStart(s, i)
  BY <1>2, StillLife DEF BeginStart, row
<1>3. ASSUME NEW s \in Starter, Sweep(s)
      PROVE  Life(j)
  BY <1>3 DEF Sweep, Expired, Life
<1>4. ASSUME NEW s \in Starter, Admit(s)
      PROVE  Life(j)
  <2>1. starter[s] # None /\ starter[s].job \in Job /\ AllPages(starter[s].seen)
    BY <1>4 DEF Admit, Starting, Typed, TypeOK, StartCall, StarterSafe
  <2>2. CASE CanAdmit(starter[s]) /\ MoveTo(starter[s].job, "queued")
    <3>1. CASE j = starter[s].job
      <4>1. state'[j] = "queued"
        BY <2>1, <2>2, <3>1 DEF MoveTo, Typed, TypeOK
      <4>2. state[j] = "preparing" /\ pages[j] = starter[s].seen
        BY <2>2, <3>1 DEF CanAdmit
      <4> QED BY <2>1, <4>1, <4>2 DEF Life, AllPages
    <3> QED BY <2>1, <2>2, <3>1, MoveToLife
  <2>3. CASE UNCHANGED state
    BY <2>3, StillLife
  <2> QED BY <1>4, <2>2, <2>3 DEF Admit
<1>5. CASE \E s \in Starter : CreateInstance(s)
  BY <1>5, StillLife DEF CreateInstance, row
<1>6. ASSUME NEW s \in Starter, Unconfirmed(s)
      PROVE  Life(j)
  <2>1. starter[s].job \in Job
    BY <1>6 DEF Unconfirmed, Starting, Typed, TypeOK, StartCall
  <2>2. CASE state[starter[s].job] = "queued" /\ MoveTo(starter[s].job, "failed")
    <3>1. CASE j = starter[s].job
      BY <2>2, <3>1 DEF Life, MoveTo, Typed, TypeOK, Running
    <3> QED BY <2>1, <2>2, <3>1, MoveToLife
  <2>3. CASE UNCHANGED state
    BY <2>3, StillLife
  <2> QED BY <1>6, <2>2, <2>3 DEF Unconfirmed
<1> QED BY <1>1, <1>2, <1>3, <1>4, <1>5, <1>6 DEF Request

LEMMA RowLives ==
  ASSUME Typed, NEW j \in Job,
         \/ SourceChanges
         \/ \E i \in Job : CreateJob(i) \/ Cancel(i) \/ Elapse(i) \/ Apply(i)
  PROVE  Life(j)
<1>1. CASE SourceChanges \/ \E i \in Job : Elapse(i)
  BY <1>1, StillLife DEF SourceChanges, Elapse
<1>2. ASSUME NEW i \in Job, CreateJob(i)
      PROVE  Life(j)
  BY <1>2, MoveToLife DEF CreateJob, Life, MoveTo, Typed, TypeOK
<1>3. ASSUME NEW i \in Job, Cancel(i)
      PROVE  Life(j)
  BY <1>3, MoveToLife DEF Cancel, Life, MoveTo, Typed, TypeOK
<1>4. ASSUME NEW i \in Job, Apply(i)
      PROVE  Life(j)
  BY <1>4, MoveToLife DEF Apply, CanApply, Life, MoveTo, Typed, TypeOK
<1> QED BY <1>1, <1>2, <1>3, <1>4

LEMMA EngineLives ==
  ASSUME Typed, NEW i \in Job, Engine(i), NEW j \in Job
  PROVE  Life(j)
<1>1. CASE GiveUp(i) \/ \E x \in Exec : Execute(i, x)
  BY <1>1, StillLife DEF GiveUp, Execute, row
<1>2. CASE LastResort(i) /\ MoveTo(i, Finished(state[i], "failed"))
  <2>1. CASE j = i
    BY <1>2, <2>1 DEF Life, MoveTo, Finished, Running, Typed, TypeOK
  <2> QED BY <1>2, <2>1, MoveToLife
<1>3. CASE LastResort(i) /\ UNCHANGED state
  BY <1>3, StillLife
<1> QED BY <1>1, <1>2, <1>3 DEF Engine, LastResort

LEMMA StepLives ==
  ASSUME Typed, Reports, NEW x \in Exec, StepAction(x), NEW j \in Job
  PROVE  Life(j)
<1>1. CASE \/ LoadPage(x) \/ Dispatch(x) \/ Call(x) \/ StorePage(x) \/ Checkpoint(x)
           \/ LoadJob(x) \/ PutPreview(x) \/ PutReport(x) \/ Dies(x)
  BY <1>1, StillLife DEF LoadPage, Dispatch, Call, StorePage, Checkpoint, LoadJob, PutPreview, PutReport, Dies, row
<1>2. CASE Begin(x)
  <2>1. exec[x].job \in Job
    BY <1>2, Fields DEF Begin, Runs
  <2>2. CASE state[exec[x].job] = "queued" /\ MoveTo(exec[x].job, "running")
    BY <2>1, <2>2, MoveToLife DEF Life, MoveTo, Typed, TypeOK
  <2>3. CASE UNCHANGED state
    BY <2>3, StillLife
  <2> QED BY <1>2, <2>2, <2>3 DEF Begin
<1>3. CASE Settle(x)
  <2>1. UNCHANGED state \/ state' = [state EXCEPT ![exec[x].job] =
          IF ~out[exec[x].job][exec[x].page].complete /\ @ = "running" THEN "failed" ELSE @]
    BY <1>3 DEF Settle
  <2> QED BY <2>1 DEF Life, Running, Typed, TypeOK
<1>4. CASE Finalize(x)
  <2> DEFINE i == exec[x].job
  <2>1. exec[x] # None /\ exec[x].at = "final"
    BY <1>4 DEF Finalize, Runs
  <2>2. i \in Job /\ exec[x].rep \in Outcome /\ exec[x].rep # None
    BY <2>1, Fields DEF Sound, Execution, Concluding
  <2>3. report[i] = exec[x].rep /\ (exec[x].rep = "cancelled" => state[i] = "cancelled")
    BY <2>1 DEF Reports, Concludes, Backed
  <2>4. CASE MoveTo(i, Finished(state[i], exec[x].rep))
    <3>1. CASE j = i
      BY <2>2, <2>3, <2>4, <3>1 DEF Life, MoveTo, Finished, Outcome, Typed, TypeOK
    <3> QED BY <2>2, <2>4, <3>1, MoveToLife
  <2>5. CASE UNCHANGED state
    BY <2>5, StillLife
  <2> QED BY <1>4, <2>4, <2>5 DEF Finalize
<1> QED BY <1>1, <1>2, <1>3, <1>4 DEF StepAction

LEMMA Lives ==
  ASSUME IInv, [Next]_vars, NEW j \in Job
  PROVE  Life(j)
<1>1. CASE Next
  BY <1>1, RequestsLive, RowLives, EngineLives, StepLives DEF Next, IInv, Inputs
<1>2. CASE UNCHANGED vars
  BY <1>2, StillLife DEF vars, row
<1> QED BY <1>1, <1>2

-----------------------------------------------------------------------------
(* Uploads.  Named: uploadOcrPage, putOcrArtifact and what startOcrJob admits. *)
Acknowledged == \A u \in Upload : Uploading(u, "stored") => pages[upload[u].job][upload[u].page] = upload[u].png
Named == \A j \in Job, n \in Page : pages[j][n] # None => png[j][n] = pages[j][n]

LEMMA InputParts ==
  ASSUME Complete
  PROVE  UploadsKept <=> Acknowledged /\ Named
  BY DEF UploadsKept, Acknowledged, Named, Complete, Running

LEMMA CompleteKept ==
  ASSUME Typed, Complete, \A j \in Job : Life(j),
         \A j \in Job : state[j] \notin {"absent", "preparing"} => pages'[j] = pages[j],
         \A j \in Job : state[j] \in {"absent", "preparing"} => state'[j] = state[j] \/ pages'[j] = pages[j]
  PROVE  Complete'
<1> SUFFICES ASSUME NEW j \in Job, state'[j] \notin {"absent", "preparing", "cancelled"}
             PROVE  AllPages(pages'[j])
  BY DEF Complete, AllPages
<1>1. Life(j)
  OBVIOUS
<1>2. CASE state[j] \notin {"absent", "preparing", "cancelled"}
  BY <1>2 DEF Complete
<1>3. CASE state[j] = "preparing"
  BY <1>1, <1>3 DEF Life, Running
<1> QED BY <1>1, <1>2, <1>3 DEF Life, Running

LEMMA InputsRest ==
  ASSUME Typed, Inputs, \A j \in Job : Life(j), UNCHANGED <<pages, png, upload>>, StarterSafe'
  PROVE  Inputs'
<1>1. Complete'
  BY CompleteKept DEF Inputs
<1>2. Acknowledged' /\ Named'
  BY InputParts DEF Inputs, Acknowledged, Named, Uploading
<1>3. UploadsKept'
  BY <1>1, <1>2 DEF UploadsKept, Acknowledged, Named, Complete, Running
<1>4. UploadSafe'
  BY DEF Inputs, UploadSafe
<1> QED BY <1>1, <1>3, <1>4 DEF Inputs

LEMMA StartersSafe ==
  ASSUME Typed, StarterSafe, NEW s \in Starter,
         \/ \E j \in Job : BeginStart(s, j)
         \/ Sweep(s) \/ Admit(s) \/ CreateInstance(s) \/ Unconfirmed(s) \/ StarterEnds(s)
  PROVE  StarterSafe'
<1>1. starter \in [Starter -> StartCall \cup {None}]
  BY DEF Typed, TypeOK
<1>2. CASE \E j \in Job : BeginStart(s, j)
  BY <1>1, <1>2 DEF BeginStart, Startable, StarterSafe, AllPages
<1>3. ASSUME NEW at, starter[s] # None, StarterTo(s, at)
      PROVE  StarterSafe'
  <2>1. starter[s] \in StartCall
    BY <1>1, <1>3
  <2>2. [starter[s] EXCEPT !.at = at].seen = starter[s].seen
    BY <2>1 DEF StartCall
  <2>3. \A r \in Starter \ {s} : starter'[r] = starter[r]
    BY <1>1, <1>3 DEF StarterTo
  <2>4. starter'[s].seen = starter[s].seen
    BY <1>1, <1>3, <2>2 DEF StarterTo
  <2> QED BY <1>3, <2>3, <2>4 DEF StarterSafe, AllPages
<1>4. CASE StarterEnds(s)
  BY <1>1, <1>4 DEF StarterEnds, StarterSafe, AllPages
<1> QED BY <1>2, <1>3, <1>4 DEF Sweep, Admit, CreateInstance, Unconfirmed, Starting

LEMMA UploadsSafe ==
  ASSUME Typed, Inputs, NEW u \in Upload,
         BeginUpload(u) \/ PutPng(u) \/ ReadPages(u) \/ SavePage(u) \/ (UploadEnds(u) /\ UNCHANGED <<row, objects>>),
         UNCHANGED starter
  PROVE  Inputs'
<1> DEFINE c == upload[u]
<1>1. /\ upload \in [Upload -> UploadCall \cup {None}]
      /\ pages \in [Job -> [Page -> Png \cup {None}]]
      /\ png \in [Job -> [Page -> Png \cup {None}]]
  BY DEF Typed, TypeOK
<1>2. UNCHANGED state
  BY DEF BeginUpload, PutPng, ReadPages, SavePage, row
<1>3. \A j \in Job : Life(j)
  BY <1>2, StillLife
<1>4. StarterSafe'
  BY DEF Inputs, StarterSafe
<1>5. Acknowledged /\ Named /\ UploadSafe /\ Complete
  BY InputParts DEF Inputs
<1>6. SUFFICES Acknowledged' /\ Named' /\ UploadSafe' /\ Complete'
  BY <1>4, <1>6 DEF Inputs, UploadsKept, Acknowledged, Named, Complete, Running
<1>7. ASSUME c # None
      PROVE  c \in UploadCall /\ c.job \in Job /\ c.page \in Page /\ c.png \in Png /\ c.png # None
  BY <1>1, <1>7, NoneAssumption DEF UploadCall
<1>8. ASSUME NEW at, UploadTo(u, at), c # None
      PROVE  /\ upload'[u] = [c EXCEPT !.at = at] /\ \A v \in Upload \ {u} : upload'[v] = upload[v]
             /\ upload'[u] # None => /\ upload'[u].job = c.job /\ upload'[u].page = c.page
                                     /\ upload'[u].png = c.png /\ upload'[u].seen = c.seen
                                     /\ upload'[u].at = at
  BY <1>1, <1>7, <1>8 DEF UploadTo, UploadCall
<1>9. ASSUME UploadEnds(u)
      PROVE  upload'[u] = None /\ \A v \in Upload \ {u} : upload'[v] = upload[v]
  BY <1>1, <1>9 DEF UploadEnds
<1>10. CASE BeginUpload(u)
  <2>1. PICK j \in Job, n \in Page, p \in Png :
          upload' = [upload EXCEPT ![u] = [job |-> j, page |-> n, png |-> p, at |-> "put", seen |-> NoPages]]
    BY <1>10 DEF BeginUpload
  <2>2. upload'[u].at = "put" /\ \A v \in Upload \ {u} : upload'[v] = upload[v]
    BY <1>1, <2>1
  <2>3. UNCHANGED <<pages, png, state>>
    BY <1>10 DEF BeginUpload, row, objects
  <2> QED BY <1>5, <2>2, <2>3 DEF Acknowledged, Named, UploadSafe, Complete, AllPages, Uploading
<1>11. CASE UploadEnds(u) /\ UNCHANGED <<pages, png>>
  BY <1>2, <1>5, <1>9, <1>11 DEF Acknowledged, Named, UploadSafe, Complete, AllPages, Uploading
<1>12. CASE PutPng(u) /\ png' # png
  <2>1. c # None /\ png[c.job][c.page] \in {None, c.png} /\ UNCHANGED pages
    BY <1>12 DEF PutPng, Uploading, row
  <2>2. png' = [png EXCEPT ![c.job][c.page] = c.png]
    BY <1>12 DEF PutPng
  <2>3. \A i \in Job, m \in Page : png'[i][m] = IF i = c.job /\ m = c.page THEN c.png ELSE png[i][m]
    BY <1>1, <1>7, <2>1, <2>2, PageChanged
  <2>4. \A i \in Job, m \in Page : png[i][m] # None => png'[i][m] = png[i][m]
    BY <2>1, <2>3
  <2>5. Named'
    BY <1>5, <2>1, <2>4 DEF Named
  <2>6. ASSUME NEW v \in Upload, v # u, upload[v] # None, upload[v].at \in {"read", "save", "stored"}
        PROVE  png'[upload[v].job][upload[v].page] = upload[v].png
    <3>1. upload[v] \in UploadCall
      BY <1>1, <2>6
    <3>2. upload[v].job \in Job /\ upload[v].page \in Page /\ upload[v].png # None
      BY <3>1, NoneAssumption DEF UploadCall
    <3> QED BY <1>5, <2>4, <2>6, <3>2 DEF UploadSafe
  <2>7. CASE UploadTo(u, "read")
    <3>1. /\ \A v \in Upload \ {u} : upload'[v] = upload[v]
          /\ upload'[u] # None => /\ upload'[u].job = c.job /\ upload'[u].page = c.page
                                  /\ upload'[u].png = c.png /\ upload'[u].at = "read"
      BY <1>8, <2>1, <2>7
    <3>2. png'[c.job][c.page] = c.png
      BY <1>7, <2>1, <2>3
    <3>3. UploadSafe'
      BY <1>5, <2>6, <3>1, <3>2 DEF UploadSafe
    <3>4. Acknowledged'
      BY <1>5, <2>1, <3>1 DEF Acknowledged, Uploading
    <3> QED BY <1>2, <1>5, <2>1, <2>5, <3>3, <3>4 DEF Complete, AllPages
  <2>8. CASE UploadEnds(u)
    <3>1. UploadSafe'
      BY <1>5, <1>9, <2>6, <2>8 DEF UploadSafe
    <3>2. Acknowledged'
      BY <1>5, <1>9, <2>1, <2>8 DEF Acknowledged, Uploading
    <3> QED BY <1>2, <1>5, <2>1, <2>5, <3>1, <3>2 DEF Complete, AllPages
  <2> QED BY <1>12, <2>7, <2>8 DEF PutPng
<1>13. CASE PutPng(u) /\ png' = png
  <2>1. c # None /\ UNCHANGED pages
    BY <1>13 DEF PutPng, Uploading, row
  <2>2. CASE png' = [png EXCEPT ![c.job][c.page] = c.png] /\ UploadTo(u, "read")
    <3>1. png'[c.job][c.page] = c.png
      BY <1>1, <1>7, <2>1, <2>2
    <3>2. /\ \A v \in Upload \ {u} : upload'[v] = upload[v]
          /\ upload'[u] # None => /\ upload'[u].job = c.job /\ upload'[u].page = c.page
                                  /\ upload'[u].png = c.png /\ upload'[u].at = "read"
      BY <1>8, <2>1, <2>2
    <3>3. UploadSafe'
      BY <1>5, <1>13, <3>1, <3>2 DEF UploadSafe
    <3>4. Acknowledged'
      BY <1>5, <2>1, <3>2 DEF Acknowledged, Uploading
    <3> QED BY <1>2, <1>5, <1>13, <2>1, <3>3, <3>4 DEF Complete, AllPages, Named
  <2>3. CASE UploadEnds(u)
    BY <1>11, <1>13, <2>1, <2>3
  <2> QED BY <1>13, <2>2, <2>3 DEF PutPng
<1>14. CASE ReadPages(u)
  <2>1. c # None /\ c.at = "read" /\ UNCHANGED <<pages, png>>
    BY <1>14 DEF ReadPages, Uploading, row, objects
  <2>2. Named' /\ Complete'
    BY <1>2, <1>5, <2>1 DEF Named, Complete, AllPages
  <2>3. png[c.job][c.page] = c.png
    BY <1>5, <2>1 DEF UploadSafe
  <2>4. CASE pages[c.job][c.page] = c.png /\ UploadTo(u, "stored")
    <3>1. /\ \A v \in Upload \ {u} : upload'[v] = upload[v]
          /\ upload'[u] # None => /\ upload'[u].job = c.job /\ upload'[u].page = c.page
                                  /\ upload'[u].png = c.png /\ upload'[u].at = "stored"
      BY <1>8, <2>1, <2>4
    <3>2. UploadSafe'
      BY <1>5, <2>1, <2>3, <3>1 DEF UploadSafe
    <3>3. Acknowledged'
      BY <1>5, <2>1, <2>4, <3>1 DEF Acknowledged, Uploading
    <3> QED BY <2>2, <3>2, <3>3
  <2>5. CASE UploadEnds(u)
    BY <1>11, <2>1, <2>5
  <2>6. CASE /\ pages[c.job][c.page] = None
             /\ upload' = [upload EXCEPT ![u].at = "save", ![u].seen = pages[c.job]]
    <3>1. /\ \A v \in Upload \ {u} : upload'[v] = upload[v]
          /\ upload'[u].job = c.job /\ upload'[u].page = c.page /\ upload'[u].png = c.png
          /\ upload'[u].at = "save" /\ upload'[u].seen = pages[c.job]
      BY <1>1, <1>7, <2>1, <2>6 DEF UploadCall
    <3>2. UploadSafe'
      BY <1>5, <2>1, <2>3, <2>6, <3>1 DEF UploadSafe
    <3>3. Acknowledged'
      BY <1>5, <2>1, <3>1 DEF Acknowledged, Uploading
    <3> QED BY <2>2, <3>2, <3>3
  <2> QED BY <1>14, <2>4, <2>5, <2>6 DEF ReadPages
<1>15. CASE SavePage(u) /\ CanSave(c)
  <2>1. c # None /\ c.at = "save" /\ UNCHANGED png
    BY <1>15 DEF SavePage, Uploading, objects
  <2>2. /\ state[c.job] = "preparing" /\ pages[c.job] = c.seen /\ c.seen[c.page] = None
        /\ png[c.job][c.page] = c.png
    BY <1>5, <1>15, <2>1 DEF CanSave, UploadSafe
  <2>3. pages' = [pages EXCEPT ![c.job] = [c.seen EXCEPT ![c.page] = c.png]]
    BY <1>15 DEF SavePage
  <2>4. pages' = [pages EXCEPT ![c.job][c.page] = c.png]
    BY <2>2, <2>3
  <2>5. \A i \in Job, m \in Page : pages'[i][m] = IF i = c.job /\ m = c.page THEN c.png ELSE pages[i][m]
    BY <1>1, <1>7, <2>1, <2>4, PageChanged
  <2>6. Named'
    BY <1>5, <2>1, <2>2, <2>5 DEF Named
  <2>7. \A j \in Job : state[j] # "preparing" => pages'[j] = pages[j]
    BY <1>1, <2>2, <2>3
  <2>8. Complete'
    BY <1>2, <1>5, <2>7 DEF Complete, AllPages
  <2>9. ASSUME NEW v \in Upload, v # u, upload[v] # None, upload[v].at = "stored"
        PROVE  pages'[upload[v].job][upload[v].page] = upload[v].png
    <3>1. upload[v] \in UploadCall
      BY <1>1, <2>9
    <3>2. upload[v].job \in Job /\ upload[v].page \in Page /\ upload[v].png # None
      BY <3>1, NoneAssumption DEF UploadCall
    <3>3. pages[upload[v].job][upload[v].page] = upload[v].png
      BY <1>5, <2>9 DEF Acknowledged, Uploading
    <3> QED BY <2>2, <2>5, <3>2, <3>3
  <2>10. CASE UploadTo(u, "stored")
    <3>1. /\ \A v \in Upload \ {u} : upload'[v] = upload[v]
          /\ upload'[u] # None => /\ upload'[u].job = c.job /\ upload'[u].page = c.page
                                  /\ upload'[u].png = c.png /\ upload'[u].at = "stored"
      BY <1>8, <2>1, <2>10
    <3>2. UploadSafe'
      BY <1>5, <2>1, <2>2, <3>1 DEF UploadSafe
    <3>3. pages'[c.job][c.page] = c.png
      BY <1>7, <2>1, <2>5
    <3>4. Acknowledged'
      BY <2>9, <3>1, <3>3 DEF Acknowledged, Uploading
    <3> QED BY <2>6, <2>8, <3>2, <3>4
  <2>11. CASE UploadEnds(u)
    <3>1. UploadSafe'
      BY <1>5, <1>9, <2>1, <2>11 DEF UploadSafe
    <3>2. Acknowledged'
      BY <1>9, <2>9, <2>11 DEF Acknowledged, Uploading
    <3> QED BY <2>6, <2>8, <3>1, <3>2
  <2> QED BY <1>15, <2>10, <2>11 DEF SavePage
<1>16. CASE SavePage(u) /\ ~CanSave(c)
  <2>1. c # None /\ c.at = "save" /\ UNCHANGED <<png, pages>>
    BY <1>16 DEF SavePage, Uploading, objects
  <2>2. CASE UploadTo(u, "read")
    <3>1. /\ \A v \in Upload \ {u} : upload'[v] = upload[v]
          /\ upload'[u] # None => /\ upload'[u].job = c.job /\ upload'[u].page = c.page
                                  /\ upload'[u].png = c.png /\ upload'[u].at = "read"
      BY <1>8, <2>1, <2>2
    <3>2. UploadSafe'
      BY <1>5, <2>1, <3>1 DEF UploadSafe
    <3>3. Acknowledged'
      BY <1>5, <2>1, <3>1 DEF Acknowledged, Uploading
    <3> QED BY <1>2, <1>5, <2>1, <3>2, <3>3 DEF Named, Complete, AllPages
  <2>3. CASE UploadEnds(u)
    BY <1>11, <2>1, <2>3
  <2> QED BY <1>16, <2>2, <2>3 DEF SavePage
<1> QED BY <1>10, <1>11, <1>12, <1>13, <1>14, <1>15, <1>16 DEF row, objects

(* Every step keeps the inputs.  Named: all of Next. *)
LEMMA InputsKept ==
  ASSUME IInv, [Next]_vars
  PROVE  Inputs'
<1>1. Typed /\ Inputs /\ StarterSafe /\ \A j \in Job : Life(j)
  BY Lives DEF IInv, Inputs
<1>2. CASE UNCHANGED <<upload, pages, png, starter>>
  <2>1. StarterSafe'
    BY <1>1, <1>2 DEF StarterSafe, AllPages
  <2> QED BY <1>1, <1>2, <2>1, InputsRest
<1>3. ASSUME NEW u \in Upload, BeginUpload(u) \/ PutPng(u) \/ ReadPages(u) \/ SavePage(u)
      PROVE  Inputs'
  <2>1. UNCHANGED starter
    BY <1>3 DEF BeginUpload, PutPng, ReadPages, SavePage
  <2> QED BY <1>1, <1>3, <2>1, UploadsSafe
<1>4. ASSUME NEW s \in Starter,
             \/ \E j \in Job : BeginStart(s, j)
             \/ Sweep(s) \/ Admit(s) \/ CreateInstance(s) \/ Unconfirmed(s)
      PROVE  Inputs'
  <2>1. StarterSafe'
    BY <1>1, <1>4, StartersSafe
  <2>2. UNCHANGED <<pages, png, upload>>
    BY <1>4 DEF BeginStart, Sweep, Admit, CreateInstance, Unconfirmed, row, objects
  <2> QED BY <1>1, <2>1, <2>2, InputsRest
<1>5. CASE RequestStops
  <2>1. CASE \E u \in Upload : UploadEnds(u) /\ UNCHANGED <<starter, row, objects>>
    BY <1>1, <2>1, UploadsSafe
  <2>2. CASE \E s \in Starter : StarterEnds(s) /\ UNCHANGED <<upload, row, objects>>
    <3>1. StarterSafe'
      BY <1>1, <2>2, StartersSafe
    <3> QED BY <1>1, <2>2, <3>1, InputsRest DEF row, objects
  <2> QED BY <1>5, <2>1, <2>2 DEF RequestStops
<1>6. CASE \/ SourceChanges
           \/ \E j \in Job : CreateJob(j) \/ Cancel(j) \/ Elapse(j) \/ Apply(j)
  BY <1>2, <1>6 DEF SourceChanges, CreateJob, Cancel, Elapse, Apply, objects, requests
<1>7. ASSUME NEW j \in Job, Engine(j)
      PROVE  UNCHANGED <<upload, pages, png, starter>>
  BY <1>7 DEF Engine, GiveUp, LastResort, Execute, row, objects, requests
<1>8. ASSUME NEW x \in Exec, StepAction(x)
      PROVE  UNCHANGED <<upload, pages, png, starter>>
  BY <1>8 DEF StepAction, Begin, LoadPage, Dispatch, Call, StorePage, Checkpoint, Settle, LoadJob,
              PutPreview, PutReport, Finalize, Dies, row, objects, requests
<1>9. CASE UNCHANGED vars
  BY <1>2, <1>9 DEF vars, row, objects, requests
<1> QED BY <1>2, <1>3, <1>4, <1>5, <1>6, <1>7, <1>8, <1>9 DEF Next, Request

-----------------------------------------------------------------------------
(* Purchases.  Named: runPage's dispatch, call, store, checkpoint and settlement. *)

(* What the types say of a job's row and of an execution of one of its pages. *)
LEMMA RowFields ==
  ASSUME Typed, NEW j \in Job, NEW n \in Page
  PROVE  /\ calls[j] \in Nat /\ completed[j] \in Nat /\ sent[j][n] \in Nat /\ n \in Nat
         /\ n >= 1 /\ n <= PageCount /\ PageCount \in Nat
         /\ completed[j] <= PageCount
  BY PageAssumption DEF Typed, TypeOK, Page

LEMMA BuyerFields ==
  ASSUME Typed, NEW x \in Exec, exec[x] # None, exec[x].at \in {"dispatch"} \cup Bought
  PROVE  exec[x].job \in Job /\ exec[x].page \in Page /\ exec[x].step = "page"
<1>1. exec[x] \in Sound
  BY Fields
<1>2. exec[x].step = "page"
  BY <1>1 DEF Sound, Execution, Step, Places, Bought, Paid
<1> QED BY <1>2, Fields

(* While a page is at the model, it is the last one dispatched: everything else of *)
(* its job is about earlier pages.                                            *)
LEMMA AtTheModel ==
  ASSUME Typed, Purchases, NEW x \in Exec, exec[x] # None, exec[x].at = "call"
  PROVE  LET j == exec[x].job
             n == exec[x].page
         IN  /\ j \in Job /\ n \in Page /\ calls[j] = n /\ completed[j] = n - 1 /\ usage[j] = None
             /\ sent[j][n] = 0
             /\ \A m \in Page : out[j][m] # None => m < n
             /\ \A y \in Exec \ {x} : (exec[y] # None /\ exec[y].at \in Bought /\ exec[y].job = j) => exec[y].page < n
             /\ \A y \in Exec : (exec[y] # None /\ exec[y].at = "dispatch" /\ exec[y].job = j) => exec[y].page - 1 < n
<1> DEFINE j == exec[x].job
<1> DEFINE n == exec[x].page
<1>1. j \in Job /\ n \in Page
  BY BuyerFields DEF Bought
<1>2. Buying(exec[x]) /\ InOrder(j)
  BY <1>1 DEF Purchases, Buyers, Ordered
<1>3. out[j][n] = None /\ n <= calls[j] /\ usage[j] = None /\ sent[j][n] = 0
  BY <1>2 DEF Buying, Bought
<1>4. calls[j] = n /\ completed[j] = n - 1
  BY <1>1, <1>2, <1>3, RowFields DEF InOrder
<1>5. \A m \in Page : out[j][m] # None => m < n
  BY <1>1, <1>2, <1>3, <1>4, RowFields DEF InOrder
<1>6. ASSUME NEW y \in Exec \ {x}, exec[y] # None, exec[y].at \in Bought, exec[y].job = j
      PROVE  exec[y].page < n
  <2>1. exec[y].page \in Page
    BY <1>6, BuyerFields
  <2>2. Buying(exec[y])
    BY <1>6 DEF Purchases, Buyers
  <2>3. exec[y].page <= calls[j]
    BY <1>6, <2>2 DEF Buying
  <2>4. exec[y].page # n
    BY <1>6 DEF Purchases, OneBuyer, Bought
  <2> QED BY <1>1, <1>4, <2>1, <2>3, <2>4, RowFields
<1>7. ASSUME NEW y \in Exec, exec[y] # None, exec[y].at = "dispatch", exec[y].job = j
      PROVE  exec[y].page - 1 < n
  <2>1. exec[y].page \in Page
    BY <1>7, BuyerFields
  <2>2. Buying(exec[y])
    BY <1>7 DEF Purchases, Buyers
  <2>3. exec[y].page <= completed[j] + 1
    BY <1>7, <2>2 DEF Buying
  <2> QED BY <1>1, <1>4, <2>1, <2>3, RowFields
<1> QED BY <1>1, <1>3, <1>4, <1>5, <1>6, <1>7

(* A step that changes no row keeps the purchases when its execution buys nothing *)
(* or begins to.                                                             *)
LEMMA PurchasesRest ==
  ASSUME Typed, Purchases, UNCHANGED <<calls, completed, usage, out, sent>>, NEW x \in Exec,
         \A y \in Exec \ {x} : exec'[y] = exec[y],
         exec'[x] # None => exec'[x].at \notin Bought /\ Buying(exec'[x])
  PROVE  Purchases'
<1>1. Ordered'
  BY DEF Purchases, Ordered, InOrder, Covers
<1>2. Buyers'
  <2> SUFFICES ASSUME NEW y \in Exec, exec'[y] # None
               PROVE  Buying(exec[y])'
    BY DEF Buyers
  <2>1. Buying(exec'[y])
    BY DEF Purchases, Buyers
  <2> QED BY <2>1 DEF Buying, Covers
<1>3. OneBuyer'
  BY DEF Purchases, OneBuyer
<1> QED BY <1>1, <1>2, <1>3 DEF Purchases

LEMMA PurchasesSame ==
  ASSUME Purchases, UNCHANGED <<calls, completed, usage, out, sent, exec>>
  PROVE  Purchases'
  BY DEF Purchases, Ordered, InOrder, Covers, Buyers, Buying, OneBuyer

LEMMA LoadPagePurchases ==
  ASSUME Typed, Purchases, NEW x \in Exec, LoadPage(x)
  PROVE  Purchases'
<1> DEFINE j == exec[x].job
<1> DEFINE n == exec[x].page
<1>1. exec[x] # None /\ exec[x].step = "page"
  BY DEF LoadPage, Runs
<1>2. exec[x] \in Sound /\ j \in Job /\ n \in Page
  BY <1>1, Fields
<1>3. UNCHANGED <<calls, completed, usage, out, sent>>
  BY DEF LoadPage, row, objects
<1>4. \A y \in Exec \ {x} : exec'[y] = exec[y]
  BY LoadPageMoves DEF Moved
<1>5. CASE exec'[x] = None
  BY <1>3, <1>4, <1>5, PurchasesRest
<1>6. CASE exec'[x] = [exec[x] EXCEPT !.at = "settle"]
  <2>1. exec'[x].at = "settle"
    BY <1>2, <1>6 DEF Sound, Execution
  <2>2. exec'[x].at \notin Bought /\ Buying(exec'[x])
    BY <2>1 DEF Buying, Bought, Paid
  <2> QED BY <1>3, <1>4, <2>2, PurchasesRest
<1>7. CASE /\ exec'[x] = [exec[x] EXCEPT !.at = "dispatch", !.seen = usage[j]]
           /\ calls[j] = n - 1 /\ completed[j] = n - 1
  <2>1. exec'[x].at = "dispatch" /\ exec'[x].job = j /\ exec'[x].page = n /\ exec'[x].seen = usage[j]
    BY <1>2, <1>7 DEF Sound, Execution
  <2>2. InOrder(j)
    BY <1>2 DEF Purchases, Ordered
  <2>3. Covers(j, n - 1, usage[j])
    BY <1>2, <2>2, RowFields DEF InOrder, Covers
  <2>4. exec'[x].at \notin Bought /\ Buying(exec'[x])
    BY <1>2, <1>7, <2>1, <2>3, RowFields DEF Buying, Bought, Paid, Covers
  <2> QED BY <1>3, <1>4, <2>4, PurchasesRest
<1> QED BY <1>5, <1>6, <1>7, LoadPageMoves

LEMMA DispatchPurchases ==
  ASSUME Typed, Purchases, NEW x \in Exec, Dispatch(x)
  PROVE  Purchases'
<1> DEFINE j == exec[x].job
<1> DEFINE n == exec[x].page
<1>1. exec[x] # None /\ exec[x].step = "page" /\ exec[x].at = "dispatch"
  BY DEF Dispatch, Runs
<1>2. exec[x] \in Sound /\ j \in Job /\ n \in Page
  BY <1>1, Fields
<1>3. UNCHANGED <<completed, out, sent>>
  BY DEF Dispatch, objects
<1>4. \A y \in Exec \ {x} : exec'[y] = exec[y]
  BY DispatchMoves DEF Moved
<1>5. CASE UNCHANGED <<calls, usage>> /\ exec'[x] = None
  BY <1>3, <1>4, <1>5, PurchasesRest
<1>6. CASE /\ CanDispatch(j, n)
           /\ calls' = [calls EXCEPT ![j] = n] /\ usage' = [usage EXCEPT ![j] = None]
           /\ exec'[x] # None => exec'[x] = [exec[x] EXCEPT !.at = "call"]
  <2>1. calls[j] = n - 1 /\ completed[j] = n - 1 /\ calls'[j] = n /\ usage'[j] = None
    BY <1>2, <1>6 DEF CanDispatch, Typed, TypeOK
  <2>2. \A i \in Job \ {j} : calls'[i] = calls[i] /\ usage'[i] = usage[i]
    BY <1>6 DEF Typed, TypeOK
  <2>3. InOrder(j)
    BY <1>2 DEF Purchases, Ordered
  <2>4. sent[j][n] = 0 /\ out[j][n] = None
    BY <1>2, <2>1, <2>3, RowFields DEF InOrder
  <2>5. Ordered'
    <3> SUFFICES ASSUME NEW i \in Job
                 PROVE  InOrder(i)'
      BY DEF Ordered
    <3>1. InOrder(i)
      BY DEF Purchases, Ordered
    <3>2. CASE i = j
      BY <1>2, <1>3, <2>1, <3>1, <3>2, RowFields DEF InOrder, Covers
    <3>3. CASE i # j
      BY <1>3, <2>2, <3>1, <3>3 DEF InOrder, Covers
    <3> QED BY <3>2, <3>3
  <2>6. ASSUME NEW y \in Exec, y # x, exec[y] # None
        PROVE  Buying(exec[y])'
    <3>1. Buying(exec[y]) /\ exec'[y] = exec[y] /\ exec[y].job \in Job
      BY <1>4, <2>6, Fields DEF Purchases, Buyers
    <3>2. CASE exec[y].job # j
      BY <1>3, <2>2, <3>1, <3>2 DEF Buying, Covers
    <3>3. CASE exec[y].job = j /\ exec[y].at \in Bought
      <4>1. exec[y].page \in Page /\ exec[y].page <= calls[j]
        BY <2>6, <3>1, <3>3, BuyerFields DEF Buying
      <4>2. exec[y].page <= calls'[j]
        BY <1>2, <2>1, <4>1, RowFields
      <4> QED BY <1>3, <2>1, <3>1, <3>3, <4>2 DEF Buying, Covers, Bought
    <3>4. CASE exec[y].at \notin Bought
      BY <1>3, <3>1, <3>4 DEF Buying, Covers, Bought, Paid
    <3> QED BY <3>2, <3>3, <3>4
  <2>7. CASE exec'[x] = None
    <3>1. Buyers'
      BY <1>4, <2>6, <2>7 DEF Buyers
    <3>2. OneBuyer'
      BY <1>4, <2>7 DEF Purchases, OneBuyer
    <3> QED BY <2>5, <3>1, <3>2 DEF Purchases
  <2>8. CASE exec'[x] = [exec[x] EXCEPT !.at = "call"]
    <3>1. /\ exec'[x].at = "call" /\ exec'[x].job = j /\ exec'[x].page = n
          /\ exec'[x].seen = exec[x].seen
      BY <1>2, <2>8 DEF Sound, Execution
    <3>2. Covers(j, n - 1, exec[x].seen)
      BY <1>1 DEF Purchases, Buyers, Buying
    <3>3. Buying(exec[x])'
      <4>1. n <= calls'[j]
        BY <1>2, <2>1, RowFields
      <4> QED BY <1>3, <2>1, <2>4, <3>1, <3>2, <4>1 DEF Buying, Covers, Paid
    <3>4. Buyers'
      BY <1>4, <2>6, <3>3 DEF Buyers
    <3>5. ASSUME NEW y \in Exec, y # x, exec[y] # None, exec[y].at \in Bought,
                 exec[y].job = j, exec[y].page = n
          PROVE  FALSE
      <4>1. n <= calls[j]
        BY <3>5 DEF Purchases, Buyers, Buying
      <4> QED BY <1>2, <2>1, <4>1, RowFields
    <3>6. OneBuyer'
      BY <1>4, <3>1, <3>5 DEF Purchases, OneBuyer
    <3> QED BY <2>5, <3>4, <3>6 DEF Purchases
  <2> QED BY <1>6, <2>7, <2>8
<1>7. \/ UNCHANGED <<calls, usage>> /\ Ends(x, FALSE)
      \/ /\ CanDispatch(j, n)
         /\ calls' = [calls EXCEPT ![j] = n] /\ usage' = [usage EXCEPT ![j] = None]
  BY DEF Dispatch, AfterDispatch
<1>8. Ends(x, FALSE) => exec'[x] = None
  BY <1>1, EndsMoves
<1> QED BY <1>5, <1>6, <1>7, <1>8, DispatchMoves

LEMMA CallPurchases ==
  ASSUME Typed, Purchases, NEW x \in Exec, Call(x)
  PROVE  Purchases'
<1>1. exec[x] # None /\ exec[x].step = "page" /\ exec[x].at = "call"
  BY DEF Call, Runs
<1>2. PICK j \in Job, n \in Page : j = exec[x].job /\ n = exec[x].page /\ exec[x] \in Sound
  BY <1>1, Fields
<1>3. UNCHANGED <<calls, completed, usage, out>>
  BY <1>2 DEF Call, row, objects
<1>4. \A y \in Exec \ {x} : exec'[y] = exec[y]
  BY <1>2, CallMoves DEF Moved
<1>5. /\ calls[j] = n /\ completed[j] = n - 1 /\ usage[j] = None /\ sent[j][n] = 0
      /\ \A m \in Page : out[j][m] # None => m < n
      /\ \A y \in Exec \ {x} : (exec[y] # None /\ exec[y].at \in Bought /\ exec[y].job = j) => exec[y].page < n
      /\ \A y \in Exec : (exec[y] # None /\ exec[y].at = "dispatch" /\ exec[y].job = j) => exec[y].page - 1 < n
  BY <1>2, <1>1, AtTheModel
<1>6. \A i \in Job, m \in Page : sent'[i][m] = IF i = j /\ m = n THEN 1 ELSE sent[i][m]
  <2>1. sent \in [Job -> [Page -> Nat]]
    BY <1>2 DEF Typed, TypeOK
  <2>2. sent' = [sent EXCEPT ![j][n] = 1]
    BY <1>2, <1>5, <2>1 DEF Call
  <2> QED BY <1>2, <2>1, <2>2, PageChanged
<1>7. Ordered'
  <2> SUFFICES ASSUME NEW i \in Job
               PROVE  InOrder(i)'
    BY <1>2 DEF Ordered
  <2>1. InOrder(i)
    BY <1>2 DEF Purchases, Ordered
  <2>2. CASE i = j
    <3>1. ASSUME NEW m \in Page, out[j][m] # None
          PROVE  m <= calls[j] /\ Covers(j, m, out[j][m].usage)'
      <4>1. m < n /\ Covers(j, m, out[j][m].usage) /\ m <= calls[j]
        BY <1>2, <1>5, <2>1, <2>2, <3>1 DEF InOrder
      <4>2. Covers(j, m, out[j][m].usage)'
        BY <1>2, <1>3, <1>6, <4>1, RowFields DEF Covers
      <4> QED BY <4>1, <4>2
    <3>2. \A m \in Page : sent'[j][m] <= 1 /\ (sent'[j][m] = 1 => m <= calls[j])
      BY <1>2, <1>5, <1>6, <2>1, <2>2, RowFields DEF InOrder
    <3>3. Covers(j, PageCount, usage[j])'
      BY <1>2, <1>3, <1>5 DEF Covers
    <3> QED BY <1>3, <2>1, <2>2, <3>1, <3>2, <3>3 DEF InOrder
  <2>3. CASE i # j
    <3>1. \A m \in Page : sent'[i][m] = sent[i][m]
      BY <1>2, <1>6, <2>3
    <3> QED BY <1>3, <2>1, <3>1 DEF InOrder, Covers
  <2> QED BY <2>2, <2>3
<1>8. ASSUME NEW y \in Exec, y # x, exec[y] # None
      PROVE  Buying(exec[y])'
  <2>1. Buying(exec[y]) /\ exec'[y] = exec[y] /\ exec[y].job \in Job
    BY <1>2, <1>4, <1>8, Fields DEF Purchases, Buyers
  <2>2. CASE exec[y].job # j
    <3>1. \A m \in Page : sent'[exec[y].job][m] = sent[exec[y].job][m]
      BY <1>2, <1>6, <2>1, <2>2
    <3>2. exec[y].at = "call" => exec[y].page \in Page
      BY <1>2, <1>8, BuyerFields DEF Bought
    <3> QED BY <1>3, <2>1, <3>1, <3>2 DEF Buying, Covers
  <2>3. CASE exec[y].job = j /\ exec[y].at \in Bought
    <3>1. exec[y].page \in Page /\ exec[y].page < n
      BY <1>2, <1>5, <1>8, <2>3, BuyerFields
    <3>2. sent'[j][exec[y].page] = sent[j][exec[y].page]
      BY <1>2, <1>6, <3>1, RowFields
    <3>3. \A m \in Page : (m <= exec[y].page \/ m <= exec[y].page - 1) => sent'[j][m] = sent[j][m]
      BY <1>2, <1>6, <3>1, RowFields
    <3> QED BY <1>3, <2>1, <2>3, <3>2, <3>3 DEF Buying, Covers, Bought, Paid
  <2>4. CASE exec[y].job = j /\ exec[y].at = "dispatch"
    <3>1. exec[y].page \in Page /\ exec[y].page - 1 < n
      BY <1>2, <1>5, <1>8, <2>4, BuyerFields
    <3>2. \A m \in Page : m <= exec[y].page - 1 => sent'[j][m] = sent[j][m]
      BY <1>2, <1>6, <3>1, RowFields
    <3> QED BY <1>3, <2>1, <2>4, <3>2 DEF Buying, Covers, Bought, Paid
  <2>5. CASE exec[y].at \notin {"dispatch"} \cup Bought
    BY <1>2, <2>1, <2>5 DEF Buying, Bought, Paid
  <2> QED BY <2>2, <2>3, <2>4, <2>5
<1>9. CASE exec'[x] = None
  <2>1. Buyers'
    BY <1>2, <1>4, <1>8, <1>9 DEF Buyers
  <2>2. OneBuyer'
    BY <1>2, <1>4, <1>9 DEF Purchases, OneBuyer
  <2> QED BY <1>7, <2>1, <2>2 DEF Purchases
<1>10. ASSUME NEW o \in Output, exec'[x] = [exec[x] EXCEPT !.at = "store", !.got = o],
              o.usage \in {None, Total(exec[x])}
       PROVE  Purchases'
  <2>1. /\ exec'[x].at = "store" /\ exec'[x].job = j /\ exec'[x].page = n
        /\ exec'[x].got = o
    BY <1>2, <1>10 DEF Sound, Execution
  <2>2. Buying(exec[x])
    BY <1>2, <1>1 DEF Purchases, Buyers
  <2>3. Covers(j, n - 1, exec[x].seen)
    BY <1>2, <1>1, <2>2 DEF Buying
  <2>4. Covers(j, n, o.usage)'
    <3> SUFFICES ASSUME o.usage # None, NEW m \in Page, m <= n, sent'[j][m] # 0
                 PROVE  m \in o.usage
      BY <1>2 DEF Covers
    <3>1. exec[x].seen # None /\ o.usage = exec[x].seen \cup {n}
      BY <1>2, <1>10 DEF Total
    <3>2. CASE m = n
      BY <1>2, <3>1, <3>2
    <3>3. CASE m # n
      BY <1>2, <1>6, <2>3, <3>1, <3>3, RowFields DEF Covers
    <3> QED BY <3>2, <3>3
  <2>5. out[j][n] = None /\ n <= calls[j]
    BY <1>2, <1>1, <2>2 DEF Buying, Bought
  <2>6. Buying(exec[x])'
    BY <1>2, <1>3, <2>1, <2>4, <2>5 DEF Buying, Covers, Bought, Paid
  <2>7. Buyers'
    BY <1>2, <1>4, <1>8, <2>6 DEF Buyers
  <2>8. OneBuyer'
    BY <1>2, <1>1, <1>4, <2>1 DEF Purchases, OneBuyer, Bought, Paid
  <2> QED BY <1>7, <2>7, <2>8 DEF Purchases
<1> QED BY <1>9, <1>10, CallMoves

LEMMA StorePagePurchases ==
  ASSUME Typed, Purchases, NEW x \in Exec, StorePage(x)
  PROVE  Purchases'
<1>1. exec[x] # None /\ exec[x].step = "page" /\ exec[x].at = "store"
  BY DEF StorePage, Runs
<1>2. PICK j \in Job, n \in Page : j = exec[x].job /\ n = exec[x].page /\ exec[x] \in Sound
  BY <1>1, Fields
<1>3. UNCHANGED <<calls, completed, usage, sent>>
  BY DEF StorePage, row
<1>4. \A y \in Exec \ {x} : exec'[y] = exec[y]
  BY StorePageMoves DEF Moved
<1>5. Buying(exec[x]) /\ exec[x].got # None
  BY <1>1, <1>2 DEF Purchases, Buyers, Sound, Paid
<1>6. n <= calls[j] /\ Covers(j, n, exec[x].got.usage) /\ out[j][n] = None
  BY <1>1, <1>2, <1>5 DEF Buying, Bought, Paid
<1>7. \A i \in Job, m \in Page : out'[i][m] = out[i][m] \/ (i = j /\ m = n /\ out'[i][m] = exec[x].got)
  <2>1. CASE UNCHANGED out
    BY <2>1
  <2>2. CASE out' = [out EXCEPT ![j][n] = exec[x].got]
    <3>1. out \in [Job -> [Page -> Output \cup {None}]] /\ exec[x].got \in Output \cup {None}
      BY <1>2 DEF Typed, TypeOK, Sound, Execution
    <3> QED BY <1>2, <2>2, <3>1, PageChanged
  <2> QED BY <1>2, <2>1, <2>2 DEF StorePage
<1>8. Ordered'
  <2> SUFFICES ASSUME NEW i \in Job
               PROVE  InOrder(i)'
    BY DEF Ordered
  <2>1. InOrder(i)
    BY DEF Purchases, Ordered
  <2>2. \A m \in Page : m <= completed[i] => out'[i][m] # None /\ out'[i][m].complete
    BY <1>6, <1>7, <2>1 DEF InOrder
  <2>3. ASSUME NEW m \in Page, out'[i][m] # None
        PROVE  m <= calls[i] /\ Covers(i, m, out'[i][m].usage)
    BY <1>6, <1>7, <2>1, <2>3 DEF InOrder
  <2> QED BY <1>3, <2>1, <2>2, <2>3 DEF InOrder, Covers
<1>9. ASSUME NEW y \in Exec, y # x, exec[y] # None
      PROVE  Buying(exec[y])'
  <2>1. Buying(exec[y]) /\ exec'[y] = exec[y]
    BY <1>4, <1>9 DEF Purchases, Buyers
  <2>2. CASE exec[y].at \in {"call", "store"}
    <3>1. exec[y].job \in Job /\ exec[y].page \in Page
      BY <1>9, <2>2, BuyerFields DEF Bought, Paid
    <3>2. exec[y].job # j \/ exec[y].page # n
      BY <1>1, <1>2, <1>9, <2>2 DEF Purchases, OneBuyer, Bought, Paid
    <3>3. out'[exec[y].job][exec[y].page] = out[exec[y].job][exec[y].page]
      BY <1>7, <3>1, <3>2
    <3> QED BY <1>3, <2>1, <2>2, <3>3 DEF Buying, Covers
  <2>3. CASE exec[y].at \notin {"call", "store"}
    BY <1>3, <2>1, <2>3 DEF Buying, Covers
  <2> QED BY <2>2, <2>3
<1>10. ASSUME NEW at \in {"count", "keep"}, exec'[x] = [exec[x] EXCEPT !.at = at]
       PROVE  Purchases'
  <2>1. /\ exec'[x].at = at /\ exec'[x].job = j /\ exec'[x].page = n /\ exec'[x].got = exec[x].got
        /\ exec'[x] # None
    BY <1>2, <1>10, StorePageMoves, NoneAssumption DEF Sound, Execution
  <2>2. Buying(exec[x])'
    BY <1>3, <1>6, <2>1 DEF Buying, Covers, Bought, Paid
  <2>3. Buyers'
    BY <1>4, <1>9, <2>2 DEF Buyers
  <2>4. OneBuyer'
    BY <1>1, <1>2, <1>4, <2>1 DEF Purchases, OneBuyer, Bought, Paid
  <2> QED BY <1>8, <2>3, <2>4 DEF Purchases
<1> QED BY <1>10, StorePageMoves

(* A checkpoint or a settlement of page n: what its row then counts covers every     *)
(* page that was sent, and no execution is at the model for this job.            *)
LEMMA CountsPurchases ==
  ASSUME Typed, Purchases, UNCHANGED <<calls, out, sent>>, NEW j \in Job, NEW n \in Page,
         calls[j] = n, completed[j] = n - 1,
         \A y \in Exec : ~(exec[y] # None /\ exec[y].at = "call" /\ exec[y].job = j),
         Covers(j, n, usage'[j]),
         completed'[j] \in {n - 1, n}, completed'[j] = n => out[j][n] # None /\ out[j][n].complete,
         \A i \in Job \ {j} : usage'[i] = usage[i] /\ completed'[i] = completed[i],
         \A y \in Exec : exec'[y] # None => exec[y] # None /\ (exec'[y] = exec[y] \/ exec'[y].at = "settle")
  PROVE  Purchases'
<1>1. Ordered'
  <2> SUFFICES ASSUME NEW i \in Job
               PROVE  InOrder(i)'
    BY DEF Ordered
  <2>1. InOrder(i)
    BY DEF Purchases, Ordered
  <2>2. CASE i = j
    <3>1. calls'[j] <= completed'[j] + 1
      BY RowFields
    <3>2. \A m \in Page : m <= completed'[j] => out'[j][m] # None /\ out'[j][m].complete
      BY <2>1, <2>2, RowFields DEF InOrder
    <3>3. Covers(j, PageCount, usage'[j])
      BY <2>1, <2>2, RowFields DEF InOrder, Covers
    <3> QED BY <2>1, <2>2, <3>1, <3>2, <3>3 DEF InOrder, Covers
  <2>3. CASE i # j
    BY <2>1, <2>3 DEF InOrder, Covers
  <2> QED BY <2>2, <2>3
<1>2. ASSUME NEW y \in Exec, exec'[y] # None
      PROVE  Buying(exec[y])'
  <2>1. CASE exec'[y].at = "settle"
    BY <2>1 DEF Buying, Bought, Paid
  <2>2. CASE exec'[y] = exec[y]
    <3>1. Buying(exec[y]) /\ exec[y].job \in Job
      BY <1>2, <2>2, Fields DEF Purchases, Buyers
    <3>2. CASE exec[y].job # j
      BY <2>2, <3>1, <3>2 DEF Buying, Covers
    <3>3. CASE exec[y].job = j /\ exec[y].at = "dispatch"
      <4>1. exec[y].page \in Page /\ exec[y].page <= completed[j] + 1
        BY <1>2, <2>2, <3>1, <3>3, BuyerFields DEF Buying
      <4>2. exec[y].page <= completed'[j] + 1
        BY <4>1, RowFields
      <4> QED BY <2>2, <3>1, <3>3, <4>2 DEF Buying, Covers, Bought, Paid
    <3>4. CASE exec[y].job = j /\ exec[y].at # "dispatch"
      BY <1>2, <2>2, <3>1, <3>4 DEF Buying, Covers
    <3> QED BY <3>2, <3>3, <3>4
  <2> QED BY <1>2, <2>1, <2>2
<1>3. Buyers'
  BY <1>2 DEF Buyers
<1>4. OneBuyer'
  BY DEF Purchases, OneBuyer, Bought, Paid
<1> QED BY <1>1, <1>3, <1>4 DEF Purchases

LEMMA CheckpointPurchases ==
  ASSUME Typed, Purchases, NEW x \in Exec, Checkpoint(x)
  PROVE  Purchases'
<1>1. exec[x] # None /\ exec[x].step = "page" /\ exec[x].at \in {"keep", "count"}
  BY DEF Checkpoint, Runs
<1>2. PICK j \in Job, n \in Page : j = exec[x].job /\ n = exec[x].page /\ exec[x] \in Sound
  BY <1>1, Fields
<1>3. UNCHANGED <<calls, completed, out, sent>>
  BY DEF Checkpoint, objects
<1>4. \A y \in Exec \ {x} : exec'[y] = exec[y]
  BY CheckpointMoves DEF Moved
<1>5. exec'[x] # None => exec'[x].at = "settle"
  BY <1>2, CheckpointMoves DEF Sound, Execution
<1>6. Buying(exec[x])
  BY <1>1 DEF Purchases, Buyers
<1>7. CASE UNCHANGED usage
  BY <1>3, <1>4, <1>5, <1>7, PurchasesRest DEF Buying, Bought, Paid
<1>8. CASE calls[j] = n /\ completed[j] = n - 1 /\ usage' = [usage EXCEPT ![j] = exec[x].got.usage]
  <2>1. Covers(j, n, exec[x].got.usage)
    BY <1>1, <1>2, <1>6 DEF Buying, Paid
  <2>2. usage'[j] = exec[x].got.usage /\ \A i \in Job \ {j} : usage'[i] = usage[i]
    BY <1>8 DEF Typed, TypeOK
  <2>3. Covers(j, n, usage'[j])
    BY <2>1, <2>2
  <2>4. ASSUME NEW y \in Exec, exec[y] # None, exec[y].at = "call", exec[y].job = j
        PROVE  FALSE
    <3>1. calls[j] = exec[y].page
      BY <2>4, AtTheModel
    <3>2. x = y
      BY <1>1, <1>2, <1>8, <2>4, <3>1 DEF Purchases, OneBuyer, Bought, Paid
    <3> QED BY <1>1, <2>4, <3>2
  <2>5. completed'[j] = n - 1 /\ completed'[j] # n
    BY <1>3, <1>8, RowFields
  <2>6. \A y \in Exec : exec'[y] # None => exec[y] # None /\ (exec'[y] = exec[y] \/ exec'[y].at = "settle")
    BY <1>1, <1>4, <1>5
  <2> QED BY <1>3, <1>8, <2>2, <2>3, <2>4, <2>5, <2>6, CountsPurchases
<1> QED BY <1>2, <1>7, <1>8 DEF Checkpoint

LEMMA SettlePurchases ==
  ASSUME Typed, Purchases, NEW x \in Exec, Settle(x)
  PROVE  Purchases'
<1>1. exec[x] # None /\ exec[x].step = "page" /\ exec[x].at = "settle"
  BY DEF Settle, Runs
<1>2. PICK j \in Job, n \in Page : j = exec[x].job /\ n = exec[x].page
  BY <1>1, Fields
<1>3. UNCHANGED <<calls, out, sent>>
  BY DEF Settle, objects
<1>4. \A y \in Exec \ {x} : exec'[y] = exec[y]
  BY SettleMoves DEF Moved
<1>5. exec'[x] = None
  BY SettleMoves
<1>6. out[j][n] # None
  BY <1>1, <1>2 DEF Typed, Settling, Stored
<1>7. CASE UNCHANGED <<completed, usage>>
  BY <1>3, <1>4, <1>5, <1>7, PurchasesRest
<1>8. CASE /\ CanSettle(j, n)
           /\ completed' = [completed EXCEPT ![j] = IF out[j][n].complete THEN @ + 1 ELSE @]
           /\ usage' = [usage EXCEPT ![j] = out[j][n].usage]
  <2>1. calls[j] = n /\ completed[j] = n - 1
    BY <1>8 DEF CanSettle
  <2>2. Covers(j, n, out[j][n].usage)
    BY <1>6 DEF Purchases, Ordered, InOrder
  <2>3. usage'[j] = out[j][n].usage /\ \A i \in Job \ {j} : usage'[i] = usage[i] /\ completed'[i] = completed[i]
    BY <1>8 DEF Typed, TypeOK
  <2>4. completed'[j] = IF out[j][n].complete THEN completed[j] + 1 ELSE completed[j]
    BY <1>8 DEF Typed, TypeOK
  <2>5. completed'[j] \in {n - 1, n} /\ (completed'[j] = n => out[j][n].complete)
    BY <2>1, <2>4, RowFields
  <2>6. Covers(j, n, usage'[j])
    BY <2>2, <2>3
  <2>7. ASSUME NEW y \in Exec, exec[y] # None, exec[y].at = "call", exec[y].job = j
        PROVE  FALSE
    <3>1. calls[j] = exec[y].page /\ \A m \in Page : out[j][m] # None => m < exec[y].page
      BY <2>7, AtTheModel
    <3> QED BY <1>6, <2>1, <3>1, RowFields
  <2>8. \A y \in Exec : exec'[y] # None => exec[y] # None /\ (exec'[y] = exec[y] \/ exec'[y].at = "settle")
    BY <1>4, <1>5
  <2> QED BY <1>3, <1>6, <2>1, <2>3, <2>5, <2>6, <2>7, <2>8, CountsPurchases
<1> QED BY <1>2, <1>7, <1>8 DEF Settle

(* Every step keeps the purchases.  Named: all of Next. *)
LEMMA PurchasesKept ==
  ASSUME Typed, Purchases, [Next]_vars
  PROVE  Purchases'
<1>1. ASSUME NEW x \in Exec, Begin(x) \/ LoadJob(x) \/ PutPreview(x) \/ PutReport(x) \/ Finalize(x) \/ Dies(x)
      PROVE  Purchases'
  <2>1. UNCHANGED <<calls, completed, usage, out, sent>>
    BY <1>1 DEF Begin, LoadJob, PutPreview, PutReport, Finalize, Dies, row, objects
  <2>2. exec[x] # None
    BY <1>1 DEF Begin, LoadJob, PutPreview, PutReport, Finalize, Dies, Runs
  <2>3. exec[x] \in Sound
    BY <2>2, Fields
  <2>4. Moved(x) /\ (exec'[x] # None => exec'[x].at \in Concluding)
    <3>1. ASSUME NEW r \in Outcome, NEW at \in Concluding, exec'[x] = [exec[x] EXCEPT !.at = at, !.rep = r]
          PROVE  exec'[x].at = at
      BY <2>3, <3>1 DEF Sound, Execution
    <3>2. ASSUME NEW at \in Concluding, exec'[x] = [exec[x] EXCEPT !.at = at]
          PROVE  exec'[x].at = at
      BY <2>3, <3>2 DEF Sound, Execution
    <3> QED BY <1>1, <3>1, <3>2, BeginMoves, LoadJobMoves, PutPreviewMoves, PutReportMoves, FinalizeMoves,
               DiesMoves DEF Concluding
  <2> QED BY <2>1, <2>4, PurchasesRest DEF Moved, Buying, Bought, Paid, Concluding
<1>2. ASSUME NEW j \in Job, NEW x \in Exec, Execute(j, x)
      PROVE  Purchases'
  <2>1. UNCHANGED <<calls, completed, usage, out, sent>>
    BY <1>2 DEF Execute, row, objects
  <2>2. Moved(x) /\ exec'[x].at = "start"
    BY <1>2, ExecuteMoves
  <2> QED BY <2>1, <2>2, PurchasesRest DEF Moved, Buying, Bought, Paid
<1>3. CASE Request
  BY <1>3, PurchasesSame DEF Request, BeginUpload, PutPng, ReadPages, SavePage, BeginStart, Sweep, Admit,
     CreateInstance, Unconfirmed, RequestStops, row, objects, engine
<1>4. CASE \/ SourceChanges
           \/ \E j \in Job : CreateJob(j) \/ Cancel(j) \/ Elapse(j) \/ Apply(j) \/ GiveUp(j) \/ LastResort(j)
  BY <1>4, PurchasesSame DEF SourceChanges, CreateJob, Cancel, Elapse, Apply, GiveUp, LastResort, row, objects, engine
<1>5. CASE UNCHANGED vars
  BY <1>5, PurchasesSame DEF vars, row, objects, engine
<1> QED BY <1>1, <1>2, <1>3, <1>4, <1>5, LoadPagePurchases, DispatchPurchases, CallPurchases, StorePagePurchases,
           CheckpointPurchases, SettlePurchases DEF Next, Engine, StepAction

-----------------------------------------------------------------------------
(* Reports.  Named: finishJob's report.json, written once, and the row after it. *)

(* What is stored of an ending is never taken back. *)
Forward(j) ==
  /\ completed'[j] >= completed[j] /\ completed'[j] <= PageCount
  /\ preview[j] => preview'[j]
  /\ report[j] # None => report'[j] = report[j]
  /\ state[j] = "cancelled" => state'[j] = "cancelled"

LEMMA MovesForward ==
  ASSUME IInv, [Next]_vars, NEW j \in Job
  PROVE  Forward(j)
<1>1. Typed /\ Typed' /\ Life(j)
  BY Lives, TypedKept DEF IInv
<1>2. completed[j] \in Nat /\ completed'[j] \in Nat /\ completed'[j] <= PageCount
  BY <1>1, PageAssumption DEF Typed, TypeOK
<1>3. state[j] = "cancelled" => state'[j] = "cancelled"
  BY <1>1 DEF Life, Running
<1>4. CASE UNCHANGED <<completed, preview, report>>
  BY <1>2, <1>3, <1>4 DEF Forward
<1>5. ASSUME NEW x \in Exec, Settle(x)
      PROVE  Forward(j)
  <2>1. UNCHANGED <<preview, report>>
    BY <1>5 DEF Settle, objects
  <2>2. completed'[j] \in {completed[j], completed[j] + 1}
    BY <1>1, <1>5 DEF Settle, Typed, TypeOK
  <2> QED BY <1>2, <1>3, <2>1, <2>2 DEF Forward
<1>6. ASSUME NEW x \in Exec, PutPreview(x)
      PROVE  Forward(j)
  <2>1. UNCHANGED <<completed, report>>
    BY <1>6 DEF PutPreview, row
  <2>2. preview[j] => preview'[j]
    BY <1>1, <1>6 DEF PutPreview, Typed, TypeOK
  <2> QED BY <1>2, <1>3, <2>1, <2>2 DEF Forward
<1>7. ASSUME NEW x \in Exec, PutReport(x)
      PROVE  Forward(j)
  <2>1. UNCHANGED <<completed, preview>>
    BY <1>7 DEF PutReport, row
  <2>2. report[j] # None => report'[j] = report[j]
    BY <1>1, <1>7 DEF PutReport, Typed, TypeOK
  <2> QED BY <1>2, <1>3, <2>1, <2>2 DEF Forward
<1>8. CASE Request
  BY <1>4, <1>8 DEF Request, BeginUpload, PutPng, ReadPages, SavePage, BeginStart, Sweep, Admit,
     CreateInstance, Unconfirmed, RequestStops, row, objects
<1>9. CASE \/ SourceChanges
           \/ \E i \in Job : CreateJob(i) \/ Cancel(i) \/ Elapse(i) \/ Apply(i) \/ Engine(i)
  BY <1>4, <1>9 DEF SourceChanges, CreateJob, Cancel, Elapse, Apply, Engine, GiveUp, LastResort, Execute, row, objects
<1>10. ASSUME NEW x \in Exec, \/ Begin(x) \/ LoadPage(x) \/ Dispatch(x) \/ Call(x) \/ StorePage(x)
                              \/ Checkpoint(x) \/ LoadJob(x) \/ Finalize(x) \/ Dies(x)
       PROVE  Forward(j)
  BY <1>4, <1>10 DEF Begin, LoadPage, Dispatch, Call, StorePage, Checkpoint, LoadJob, Finalize, Dies, row, objects
<1>11. CASE UNCHANGED vars
  BY <1>4, <1>11 DEF vars, row, objects
<1> QED BY <1>5, <1>6, <1>7, <1>8, <1>9, <1>10, <1>11 DEF Next, StepAction

(* What an execution knows of its job's ending stays true. *)
LEMMA ConcludesKept ==
  ASSUME IInv, [Next]_vars, NEW e \in Sound, Concludes(e)
  PROVE  Concludes(e)'
<1>1. e.job \in Job
  BY DEF Sound, Execution
<1>2. Forward(e.job) /\ completed[e.job] \in Nat /\ completed'[e.job] \in Nat /\ PageCount \in Nat
      /\ completed[e.job] <= PageCount
  BY <1>1, MovesForward, TypedKept, PageAssumption DEF IInv, Typed, TypeOK
<1>3. e.at = "final" => e.rep # None
  BY DEF Sound, Concluding
<1> QED BY <1>2, <1>3 DEF Concludes, Backed, Forward

LEMMA ReadyByReport ==
  ASSUME IInv, [Next]_vars, NEW j \in Job, state'[j] \in {"ready", "applied"}
  PROVE  report'[j] = "ready"
<1>1. Life(j) /\ Forward(j)
  BY Lives, MovesForward
<1>2. state[j] \in {"ready", "applied"} => report[j] = "ready"
  BY DEF IInv, Reports
<1>3. report[j] = "ready"
  BY <1>1, <1>2 DEF Life, Running
<1>4. "ready" # None
  BY NoneAssumption DEF Outcome
<1> QED BY <1>1, <1>3, <1>4 DEF Forward

(* A step that stores no report. *)
LEMMA ReportsRest ==
  ASSUME IInv, [Next]_vars, UNCHANGED report, NEW x \in Exec,
         \A y \in Exec \ {x} : exec'[y] = exec[y],
         exec'[x] # None => Concludes(exec[x])'
  PROVE  Reports'
<1>1. \A y \in Exec : exec[y] # None => exec[y] \in Sound /\ Concludes(exec[y])
  BY Fields DEF IInv, Reports
<1>2. ASSUME NEW y \in Exec, exec'[y] # None
      PROVE  Concludes(exec[y])'
  <2>1. CASE y = x
    BY <1>2, <2>1
  <2>2. CASE y # x
    <3>1. PICK e \in Sound : e = exec[y] /\ Concludes(e)
      BY <1>1, <1>2, <2>2
    <3>2. Concludes(e)' /\ exec'[y] = e
      BY <2>2, <3>1, ConcludesKept
    <3> QED BY <3>2 DEF Concludes, Backed
  <2> QED BY <2>1, <2>2
<1>3. ASSUME NEW j \in Job
      PROVE  Backed(j, report[j])' /\ (report'[j] = "ready" => preview'[j])
  <2>1. Forward(j) /\ completed[j] \in Nat /\ completed'[j] \in Nat /\ PageCount \in Nat
    BY MovesForward, TypedKept, PageAssumption DEF IInv, Typed, TypeOK
  <2> QED BY <2>1 DEF IInv, Reports, Backed, Forward
<1> QED BY <1>2, <1>3, ReadyByReport DEF Reports

LEMMA ReportsSame ==
  ASSUME IInv, [Next]_vars, UNCHANGED <<report, exec>>
  PROVE  Reports'
<1>1. ASSUME NEW y \in Exec, exec'[y] # None
      PROVE  Concludes(exec[y])'
  <2>1. PICK e \in Sound : e = exec[y] /\ Concludes(e)
    BY <1>1, Fields DEF IInv, Reports
  <2>2. Concludes(e)' /\ exec'[y] = e
    BY <2>1, ConcludesKept
  <2> QED BY <2>2 DEF Concludes, Backed
<1>2. ASSUME NEW j \in Job
      PROVE  Backed(j, report[j])' /\ (report'[j] = "ready" => preview'[j])
  <2>1. Forward(j) /\ completed[j] \in Nat /\ completed'[j] \in Nat /\ PageCount \in Nat
    BY MovesForward, TypedKept, PageAssumption DEF IInv, Typed, TypeOK
  <2> QED BY <2>1 DEF IInv, Reports, Backed, Forward
<1> QED BY <1>1, <1>2, ReadyByReport DEF Reports

LEMMA LoadJobReports ==
  ASSUME IInv, [Next]_vars, NEW x \in Exec, LoadJob(x)
  PROVE  Reports'
<1>1. Typed /\ Reports /\ exec[x] # None
  BY DEF IInv, LoadJob, Runs
<1>2. PICK j \in Job : j = exec[x].job /\ exec[x] \in Sound
  BY <1>1, Fields
<1>3. UNCHANGED <<report, state, completed, preview>>
  BY DEF LoadJob, row, objects
<1>4. \A y \in Exec \ {x} : exec'[y] = exec[y]
  BY <1>1, LoadJobMoves DEF Moved
<1>5. Backed(j, report[j]) /\ (report[j] = "ready" => preview[j])
  BY <1>1 DEF Reports
<1>6. ASSUME NEW r \in Outcome, NEW at, exec'[x] = [exec[x] EXCEPT !.at = at, !.rep = r]
      PROVE  exec'[x].at = at /\ exec'[x].rep = r /\ exec'[x].job = j
  BY <1>2, <1>6 DEF Sound, Execution
<1>7. ASSUME NEW r \in Outcome, report[j] = r,
             exec'[x] = [exec[x] EXCEPT !.at = "final", !.rep = r]
      PROVE  Concludes(exec[x])'
  <2>1. exec'[x].at = "final" /\ exec'[x].rep = r /\ exec'[x].job = j
    BY <1>6, <1>7
  <2> QED BY <1>3, <1>5, <1>7, <2>1 DEF Concludes, Backed
<1>8. ASSUME AllDone(j), exec'[x] = [exec[x] EXCEPT !.at = "preview", !.rep = "ready"]
      PROVE  Concludes(exec[x])'
  <2>1. exec'[x].at = "preview" /\ exec'[x].rep = "ready" /\ exec'[x].job = j
    BY <1>6, <1>8 DEF Outcome
  <2> QED BY <1>3, <1>8, <2>1 DEF Concludes, Backed, AllDone
<1>9. ASSUME NEW r \in Outcome, r = IF state[j] = "cancelled" THEN "cancelled" ELSE "failed",
             exec'[x] = [exec[x] EXCEPT !.at = "report", !.rep = r]
      PROVE  Concludes(exec[x])'
  <2>1. exec'[x].at = "report" /\ exec'[x].rep = r /\ exec'[x].job = j
    BY <1>6, <1>9
  <2> QED BY <1>3, <1>9, <2>1 DEF Concludes, Backed
<1>10. exec'[x] # None => Concludes(exec[x])'
  BY <1>1, <1>2, <1>7, <1>8, <1>9, LoadJobMoves
<1> QED BY <1>3, <1>4, <1>10, ReportsRest

LEMMA PutPreviewReports ==
  ASSUME IInv, [Next]_vars, NEW x \in Exec, PutPreview(x)
  PROVE  Reports'
<1>1. Typed /\ Reports /\ exec[x] # None
  BY DEF IInv, PutPreview, Runs
<1>2. PICK j \in Job : j = exec[x].job /\ exec[x] \in Sound
  BY <1>1, Fields
<1>3. UNCHANGED <<report, completed, state>>
  BY DEF PutPreview, row
<1>4. \A y \in Exec \ {x} : exec'[y] = exec[y]
  BY <1>1, PutPreviewMoves DEF Moved
<1>5. CASE /\ exec'[x] = [exec[x] EXCEPT !.at = "report"] /\ exec[x].at = "preview"
           /\ preview' = [preview EXCEPT ![j] = TRUE]
  <2>1. exec'[x].at = "report" /\ exec'[x].rep = exec[x].rep /\ exec'[x].job = j
    BY <1>2, <1>5 DEF Sound, Execution
  <2>2. exec[x].rep = "ready" /\ completed[j] = PageCount
    BY <1>1, <1>2, <1>5 DEF Reports, Concludes, Backed
  <2>3. preview'[j]
    BY <1>1, <1>5 DEF Typed, TypeOK
  <2>4. Concludes(exec[x])'
    BY <1>3, <2>1, <2>2, <2>3 DEF Concludes, Backed
  <2> QED BY <1>3, <1>4, <2>4, ReportsRest
<1>6. CASE exec'[x] = None
  BY <1>3, <1>4, <1>6, ReportsRest
<1> QED BY <1>1, <1>2, <1>5, <1>6, PutPreviewMoves

LEMMA PutReportReports ==
  ASSUME IInv, [Next]_vars, NEW x \in Exec, PutReport(x)
  PROVE  Reports'
<1>1. Typed /\ Reports /\ exec[x] # None /\ exec[x].at = "report"
  BY DEF IInv, PutReport, Runs
<1>2. PICK j \in Job : j = exec[x].job /\ exec[x] \in Sound
  BY <1>1, Fields
<1>3. UNCHANGED <<state, completed, preview>>
  BY DEF PutReport, row
<1>4. \A y \in Exec \ {x} : exec'[y] = exec[y]
  BY <1>1, PutReportMoves DEF Moved
<1>5. CASE UNCHANGED report /\ exec'[x] = None
  BY <1>4, <1>5, ReportsRest
<1>6. Backed(j, exec[x].rep) /\ (exec[x].rep = "ready" => preview[j])
  BY <1>1, <1>2 DEF Reports, Concludes
<1>7. CASE /\ report[j] = None /\ report' = [report EXCEPT ![j] = exec[x].rep]
           /\ exec'[x] # None => exec'[x] = [exec[x] EXCEPT !.at = "final"]
  <2>1. report'[j] = exec[x].rep /\ \A i \in Job \ {j} : report'[i] = report[i]
    BY <1>1, <1>7 DEF Typed, TypeOK
  <2>2. exec'[x] # None => exec'[x].at = "final" /\ exec'[x].rep = exec[x].rep /\ exec'[x].job = j
    BY <1>2, <1>7 DEF Sound, Execution
  <2>3. ASSUME NEW y \in Exec, exec'[y] # None
        PROVE  Concludes(exec[y])'
    <3>1. CASE y = x
      BY <1>3, <1>6, <2>1, <2>2, <2>3, <3>1 DEF Concludes, Backed
    <3>2. CASE y # x
      <4>1. PICK e \in Sound : e = exec[y] /\ Concludes(e)
        BY <1>1, <1>4, <2>3, <3>2, Fields DEF Reports
      <4>2. Concludes(e)' /\ exec'[y] = e
        BY <1>4, <3>2, <4>1, ConcludesKept
      <4> QED BY <4>2 DEF Concludes, Backed
    <3> QED BY <3>1, <3>2
  <2>4. ASSUME NEW i \in Job
        PROVE  Backed(i, report[i])' /\ (report'[i] = "ready" => preview'[i])
    BY <1>1, <1>3, <1>6, <2>1 DEF Reports, Backed
  <2> QED BY <2>3, <2>4, ReadyByReport DEF Reports
<1>8. \/ UNCHANGED report /\ Ends(x, FALSE)
      \/ report[j] = None /\ report' = [report EXCEPT ![j] = exec[x].rep]
  BY <1>2 DEF PutReport
<1>9. Ends(x, FALSE) => exec'[x] = None
  BY <1>1, EndsMoves
<1> QED BY <1>1, <1>2, <1>5, <1>7, <1>8, <1>9, PutReportMoves

(* Every step keeps the reports.  Named: all of Next. *)
LEMMA ReportsKept ==
  ASSUME IInv, [Next]_vars
  PROVE  Reports'
<1>1. Typed
  BY DEF IInv
<1>2. ASSUME NEW x \in Exec, Begin(x) \/ Settle(x) \/ Finalize(x) \/ Dies(x)
      PROVE  Reports'
  <2>1. UNCHANGED report
    BY <1>2 DEF Begin, Settle, Finalize, Dies, objects
  <2>2. Moved(x) /\ exec'[x] = None
    BY <1>1, <1>2, BeginMoves, SettleMoves, FinalizeMoves, DiesMoves
  <2> QED BY <2>1, <2>2, ReportsRest DEF Moved
<1>3. ASSUME NEW x \in Exec, LoadPage(x) \/ Dispatch(x) \/ Call(x) \/ StorePage(x) \/ Checkpoint(x)
      PROVE  Reports'
  <2>1. UNCHANGED report
    BY <1>3 DEF LoadPage, Dispatch, Call, StorePage, Checkpoint, row, objects
  <2>2. exec[x] # None /\ exec[x] \in Sound
    <3>1. exec[x] # None
      BY <1>3 DEF LoadPage, Dispatch, Call, StorePage, Checkpoint, Runs
    <3> QED BY <1>1, <3>1, Fields
  <2>3. ASSUME NEW at, at \notin Concluding, exec'[x] = [exec[x] EXCEPT !.at = at]
        PROVE  exec'[x].at \notin Concluding
    BY <2>2, <2>3 DEF Sound, Execution
  <2>4. ASSUME NEW at, at \notin Concluding, NEW s, exec'[x] = [exec[x] EXCEPT !.at = at, !.seen = s]
        PROVE  exec'[x].at \notin Concluding
    BY <2>2, <2>4 DEF Sound, Execution
  <2>5. ASSUME NEW at, at \notin Concluding, NEW o, exec'[x] = [exec[x] EXCEPT !.at = at, !.got = o]
        PROVE  exec'[x].at \notin Concluding
    BY <2>2, <2>5 DEF Sound, Execution
  <2>6. {"settle", "dispatch", "call", "store", "count", "keep"} \cap Concluding = {}
    BY DEF Concluding
  <2>7. CASE LoadPage(x)
    <3>1. Moved(x) /\ (exec'[x] # None => exec'[x].at \notin Concluding)
      <4>1. "settle" \notin Concluding /\ "dispatch" \notin Concluding
        BY <2>6
      <4>2. CASE exec'[x] = [exec[x] EXCEPT !.at = "settle"]
        BY <1>1, <2>3, <2>7, <4>1, <4>2, LoadPageMoves
      <4>3. CASE exec'[x] = [exec[x] EXCEPT !.at = "dispatch", !.seen = usage[exec[x].job]]
        BY <1>1, <2>4, <2>7, <4>1, <4>3, LoadPageMoves
      <4> QED BY <1>1, <2>7, <4>2, <4>3, LoadPageMoves
    <3> QED BY <2>1, <3>1, ReportsRest DEF Moved, Concludes, Concluding
  <2>8. CASE Dispatch(x)
    <3>1. Moved(x) /\ (exec'[x] # None => exec'[x].at \notin Concluding)
      BY <1>1, <2>3, <2>6, <2>8, DispatchMoves
    <3> QED BY <2>1, <3>1, ReportsRest DEF Moved, Concludes, Concluding
  <2>9. CASE Call(x)
    <3>1. Moved(x) /\ (exec'[x] # None => exec'[x].at \notin Concluding)
      BY <1>1, <2>5, <2>6, <2>9, CallMoves
    <3> QED BY <2>1, <3>1, ReportsRest DEF Moved, Concludes, Concluding
  <2>10. CASE StorePage(x)
    <3>1. Moved(x) /\ (exec'[x] # None => exec'[x].at \notin Concluding)
      BY <1>1, <2>3, <2>6, <2>10, StorePageMoves
    <3> QED BY <2>1, <3>1, ReportsRest DEF Moved, Concludes, Concluding
  <2>11. CASE Checkpoint(x)
    <3>1. Moved(x) /\ (exec'[x] # None => exec'[x].at \notin Concluding)
      BY <1>1, <2>3, <2>6, <2>11, CheckpointMoves
    <3> QED BY <2>1, <3>1, ReportsRest DEF Moved, Concludes, Concluding
  <2> QED BY <1>3, <2>7, <2>8, <2>9, <2>10, <2>11
<1>4. ASSUME NEW j \in Job, NEW x \in Exec, Execute(j, x)
      PROVE  Reports'
  <2>1. UNCHANGED report
    BY <1>4 DEF Execute, objects
  <2>2. Moved(x) /\ exec'[x].at = "start"
    BY <1>1, <1>4, ExecuteMoves
  <2> QED BY <2>1, <2>2, ReportsRest DEF Moved, Concludes
<1>5. CASE Request
  BY <1>5, ReportsSame DEF Request, BeginUpload, PutPng, ReadPages, SavePage, BeginStart, Sweep, Admit,
     CreateInstance, Unconfirmed, RequestStops, objects, engine
<1>6. CASE \/ SourceChanges
           \/ \E j \in Job : CreateJob(j) \/ Cancel(j) \/ Elapse(j) \/ Apply(j) \/ GiveUp(j) \/ LastResort(j)
  BY <1>6, ReportsSame DEF SourceChanges, CreateJob, Cancel, Elapse, Apply, GiveUp, LastResort, objects, engine
<1>7. CASE UNCHANGED vars
  BY <1>7, ReportsSame DEF vars, objects, engine
<1> QED BY <1>2, <1>3, <1>4, <1>5, <1>6, <1>7, LoadJobReports, PutPreviewReports, PutReportReports
        DEF Next, Engine, StepAction

-----------------------------------------------------------------------------
(* Versions.  Named: applyOcrJob, the one writer of an applied job. *)
LEMMA ApplyVersions ==
  ASSUME Typed, Versions, NEW j \in Job, Apply(j)
  PROVE  Versions'
<1>1. state[j] = "ready" /\ version = base[j] /\ version' = version + 1 /\ UNCHANGED base
  BY DEF Apply, CanApply
<1>2. applied'[j] = version + 1 /\ state'[j] = "applied"
  BY <1>1 DEF Apply, MoveTo, Typed, TypeOK
<1>3. \A i \in Job \ {j} : applied'[i] = applied[i] /\ state'[i] = state[i]
  BY DEF Apply, MoveTo, Typed, TypeOK
<1>4. version \in Nat /\ \A i \in Job : applied[i] \in Nat /\ applied[i] <= version
  BY DEF Typed, TypeOK, Versions
<1>5. \A i \in Job : applied'[i] <= version'
  BY <1>1, <1>2, <1>3, <1>4
<1>6. AppliedOnce'
  BY <1>1, <1>2, <1>3, <1>4 DEF Versions, AppliedOnce
<1> QED BY <1>5, <1>6 DEF Versions

LEMMA VersionsRest ==
  ASSUME Typed, Versions, UNCHANGED applied, version' \in Nat, version' >= version,
         \A j \in Job : state[j] # "absent" => base'[j] = base[j],
         \A j \in Job : Life(j), \A j \in Job : ~Apply(j)
  PROVE  Versions'
<1>1. \A j \in Job : state'[j] = "applied" <=> state[j] = "applied"
  BY DEF Life, Running
<1>2. version \in Nat /\ \A j \in Job : applied[j] \in Nat /\ applied[j] <= version
  BY DEF Typed, TypeOK, Versions
<1>3. AppliedOnce'
  BY <1>1 DEF Versions, AppliedOnce
<1> QED BY <1>2, <1>3 DEF Versions

LEMMA VersionsKept ==
  ASSUME IInv, [Next]_vars
  PROVE  Versions'
<1>1. Typed /\ Typed' /\ Versions /\ version \in Nat /\ version' \in Nat /\ \A j \in Job : Life(j)
  BY Lives, TypedKept DEF IInv, Typed, TypeOK
<1>2. CASE \E j \in Job : Apply(j)
  BY <1>1, <1>2, ApplyVersions
<1>3. ASSUME \A j \in Job : ~Apply(j), UNCHANGED <<version, base, applied>>
      PROVE  Versions'
  BY <1>1, <1>3, VersionsRest
<1>4. ASSUME \A j \in Job : ~Apply(j), SourceChanges
      PROVE  Versions'
  BY <1>1, <1>4, VersionsRest DEF SourceChanges
<1>5. ASSUME \A j \in Job : ~Apply(j), NEW i \in Job, CreateJob(i)
      PROVE  Versions'
  <2>1. \A j \in Job : state[j] # "absent" => base'[j] = base[j]
    BY <1>1, <1>5 DEF CreateJob, Typed, TypeOK
  <2>2. UNCHANGED <<version, applied>>
    BY <1>5 DEF CreateJob
  <2> QED BY <1>1, <1>5, <2>1, <2>2, VersionsRest
<1>6. CASE Request
  BY <1>2, <1>3, <1>6 DEF Request, BeginUpload, PutPng, ReadPages, SavePage, BeginStart, Sweep, Admit,
     CreateInstance, Unconfirmed, RequestStops, row
<1>7. CASE \E j \in Job : Cancel(j) \/ Elapse(j) \/ Engine(j)
  BY <1>2, <1>3, <1>7 DEF Cancel, Elapse, Engine, GiveUp, LastResort, Execute, row
<1>8. ASSUME NEW x \in Exec, StepAction(x)
      PROVE  UNCHANGED <<version, base, applied>>
  BY <1>8 DEF StepAction, Begin, LoadPage, Dispatch, Call, StorePage, Checkpoint, Settle, LoadJob,
              PutPreview, PutReport, Finalize, Dies, row
<1>9. CASE UNCHANGED vars
  BY <1>2, <1>3, <1>9 DEF vars, row
<1> QED BY <1>2, <1>3, <1>4, <1>5, <1>6, <1>7, <1>8, <1>9 DEF Next

-----------------------------------------------------------------------------
LEMMA Initial ==
  ASSUME Init
  PROVE  IInv
<1>1. TypeOK
  BY PageAssumption, ActiveAssumption, BoundAssumption
     DEF Init, TypeOK, NoPages, State, Usage, Place, Step
<1>2. wf \in [Job -> Placed]
  BY PageAssumption DEF Init, Placed, Place, Step
<1>3. Typed
  BY <1>1, <1>2 DEF Typed, Init, Settling
<1>4. Inputs
  BY DEF Init, Inputs, UploadsKept, Uploading, UploadSafe, StarterSafe, Complete, NoPages, Running
<1>5. Purchases
  <2>1. ASSUME NEW j \in Job
        PROVE  InOrder(j)
    BY PageAssumption DEF Init, InOrder, Covers, NoPages, Page
  <2> QED BY <2>1 DEF Init, Purchases, Ordered, Buyers, OneBuyer
<1>6. Reports
  BY NoneAssumption DEF Init, Reports, Backed, Outcome
<1>7. Versions
  BY DEF Init, Versions, AppliedOnce
<1> QED BY <1>3, <1>4, <1>5, <1>6, <1>7 DEF IInv

LEMMA Inductive ==
  ASSUME IInv, [Next]_vars
  PROVE  IInv'
BY TypedKept, InputsKept, PurchasesKept, ReportsKept, VersionsKept DEF IInv

(* The inductive invariant of OCR jobs: types, inputs, purchases, reports and       *)
(* versions, each as the code between two awaits leaves them.                 *)
THEOREM Invariance == Spec => []IInv
<1>1. Init => IInv
  BY Initial
<1>2. IInv /\ [Next]_vars => IInv'
  BY Inductive
<1> QED BY <1>1, <1>2, PTL DEF Spec

(* Every variable of OCR keeps its type: completed_pages never passes page_count,    *)
(* through overlapping settlements of one page.                               *)
THEOREM TypeCorrect == Spec => []TypeOK
<1>1. IInv => TypeOK
  BY DEF IInv, Typed
<1> QED BY <1>1, Invariance, PTL

(* No acknowledged upload is lost, and a started job has every page as stored:       *)
(* uploadOcrPage's comparison of pages_json and startOcrJob's admission.           *)
THEOREM UploadsAreKept == Spec => []UploadsKept
<1>1. IInv => UploadsKept
  BY DEF IInv, Inputs
<1> QED BY <1>1, Invariance, PTL

(* No page is sent to the model twice and recorded usage counts every page sent or   *)
(* is NULL: runPage's dispatch, checkpoint and settlement.                       *)
THEOREM UsageIsTrue == Spec => []UsageIsComplete
<1>1. ASSUME IInv, NEW j \in Job, NEW n \in Page
      PROVE  /\ sent[j][n] <= 1
             /\ sent[j][n] = 1 => n <= calls[j] /\ (usage[j] # None => n \in usage[j])
  <2>1. InOrder(j) /\ Typed
    BY <1>1 DEF IInv, Purchases, Ordered
  <2> QED BY <2>1, RowFields DEF InOrder, Covers
<1>2. IInv => UsageIsComplete
  BY <1>1 DEF UsageIsComplete
<1> QED BY <1>2, Invariance, PTL

(* What the owner reviews is finished and is applied once, to its own base:         *)
(* finishJob's last update and applyOcrJob's batch.                              *)
THEOREM ReviewsAreSound == Spec => []ReviewIsSound
<1>1. ASSUME IInv, NEW j \in Job, state[j] \in {"ready", "applied"}
      PROVE  /\ preview[j] /\ report[j] = "ready" /\ completed[j] = PageCount
             /\ \A n \in Page : out[j][n] # None /\ out[j][n].complete
  <2>1. report[j] = "ready" /\ preview[j] /\ completed[j] = PageCount
    BY <1>1 DEF IInv, Reports, Backed
  <2>2. InOrder(j) /\ Typed
    BY <1>1 DEF IInv, Purchases, Ordered
  <2>3. \A n \in Page : out[j][n] # None /\ out[j][n].complete
    BY <2>1, <2>2, RowFields DEF InOrder
  <2> QED BY <2>1, <2>3
<1>2. IInv => ReviewIsSound
  BY <1>1 DEF ReviewIsSound, ReadyIsComplete, IInv, Versions
<1> QED BY <1>2, Invariance, PTL

(* Stop, failure and Apply end a job; afterwards nothing is dispatched and no page    *)
(* is replaced.  Named: the guards of every UPDATE of source_ocr_job.               *)
THEOREM EndsAreFinal == Spec => StoppedIsFinal
<1> DEFINE Final(j) ==
       /\ state[j] \in {"cancelled", "applied"} => state'[j] = state[j]
       /\ state[j] \notin {"absent", "preparing"} => state'[j] \notin {"absent", "preparing"}
       /\ state[j] = "failed" => state'[j] \in {"failed", "ready"}
       /\ state[j] = "ready" => state'[j] \in {"ready", "cancelled", "applied"}
       /\ state[j] # "running" => calls'[j] = calls[j]
       /\ state[j] \notin {"absent", "preparing"} => pages'[j] = pages[j]
<1>1. ASSUME IInv, Next, NEW j \in Job
      PROVE  Final(j)
  <2>1. Typed /\ Life(j)
    BY <1>1, Lives DEF IInv
  <2>2. calls'[j] = calls[j] \/ state[j] = "running"
    <3>1. ASSUME NEW x \in Exec, Dispatch(x)
          PROVE  calls'[j] = calls[j] \/ state[j] = "running"
      BY <2>1, <3>1 DEF Dispatch, CanDispatch, Typed, TypeOK
    <3>2. ASSUME NEW x \in Exec, ~Dispatch(x), StepAction(x)
          PROVE  UNCHANGED calls
      BY <3>2 DEF StepAction, Begin, LoadPage, Call, StorePage, Checkpoint, Settle, LoadJob,
                  PutPreview, PutReport, Finalize, Dies, row
    <3>3. CASE Request
      BY <3>3 DEF Request, BeginUpload, PutPng, ReadPages, SavePage, BeginStart, Sweep, Admit,
         CreateInstance, Unconfirmed, RequestStops, row
    <3>4. CASE \/ SourceChanges
               \/ \E i \in Job : CreateJob(i) \/ Cancel(i) \/ Elapse(i) \/ Apply(i) \/ Engine(i)
      BY <3>4 DEF SourceChanges, CreateJob, Cancel, Elapse, Apply, Engine, GiveUp, LastResort, Execute, row
    <3> QED BY <1>1, <3>1, <3>2, <3>3, <3>4 DEF Next
  <2>3. pages'[j] = pages[j] \/ state[j] = "preparing"
    <3>1. ASSUME NEW u \in Upload, SavePage(u)
          PROVE  pages'[j] = pages[j] \/ state[j] = "preparing"
      BY <2>1, <3>1 DEF SavePage, CanSave, Typed, TypeOK
    <3>2. ASSUME NEW x \in Exec, StepAction(x)
          PROVE  UNCHANGED pages
      BY <3>2 DEF StepAction, Begin, LoadPage, Dispatch, Call, StorePage, Checkpoint, Settle, LoadJob,
                  PutPreview, PutReport, Finalize, Dies, row
    <3>3. CASE Request /\ \A u \in Upload : ~SavePage(u)
      BY <3>3 DEF Request, BeginUpload, PutPng, ReadPages, BeginStart, Sweep, Admit,
         CreateInstance, Unconfirmed, RequestStops, row
    <3>4. CASE \/ SourceChanges
               \/ \E i \in Job : CreateJob(i) \/ Cancel(i) \/ Elapse(i) \/ Apply(i) \/ Engine(i)
      BY <3>4 DEF SourceChanges, CreateJob, Cancel, Elapse, Apply, Engine, GiveUp, LastResort, Execute, row
    <3> QED BY <1>1, <3>1, <3>2, <3>3, <3>4 DEF Next
  <2> QED BY <2>1, <2>2, <2>3 DEF Life, Running
<1>2. IInv /\ [Next]_vars => [\A j \in Job : Final(j)]_vars
  BY <1>1
<1> QED BY <1>2, Invariance, PTL DEF Spec, StoppedIsFinal
=============================================================================
