---------------------------------- MODULE Ocr ----------------------------------
(***************************************************************************)
(* Explicit OCR of a PDF: preparation and admission (src/ocr.ts) and the      *)
(* OcrWorkflow (src/workflows/ocr.ts).                                       *)
(*                                                                          *)
(* A job is prepared by concurrent page uploads, started once, and executed by  *)
(* one Workflow instance whose steps have no retry.  The engine may execute a   *)
(* step again after it lost the isolate that ran it, or give a step up while it  *)
(* is still running: executions of old steps stay alive beside the current one.  *)
(* Cancel, the deadline sweep of another job's Start and Apply write the same    *)
(* row at any time.                                                          *)
(***************************************************************************)
EXTENDS Naturals, FiniteSets

CONSTANTS
  Job,          \* OCR jobs of one source
  PageCount,    \* pages of its PDF
  Png,          \* rendered pages a client may upload
  Upload,       \* concurrent executions of uploadOcrPage
  Starter,      \* concurrent executions of startOcrJob
  Exec,         \* concurrent executions of Workflow steps
  MaxActive,    \* jobs queued or running at a time
  MaxRestarts,  \* bound: steps the engine executes again
  MaxChanges,   \* bound: changes of the source beside Apply
  None

ASSUME PageAssumption == PageCount \in Nat \ {0}
ASSUME ActiveAssumption == MaxActive \in Nat \ {0}
ASSUME BoundAssumption == MaxRestarts \in Nat /\ MaxChanges \in Nat

VARIABLES
  version,   \* the source's latest revision and readable head, as one number
  state,     \* source_ocr_job.state; absent before INSERT
  base,      \* base_revision_id and base_current_revision_id
  pages,     \* pages_json
  calls, completed,   \* likewise
  usage,     \* pages whose tokens input_tokens counts; None for NULL
  late,      \* deadline_at has passed
  applied,   \* the version Apply created, 0 if none
  png,       \* R2 page-<n>.png
  out,       \* R2 page-<n>.md with its usage metadata
  preview,   \* R2 preview.md
  report,    \* state recorded in R2 report.json
  upload, starter,    \* requests in progress
  wf,        \* the instance: the step it is at
  awaits,    \* the execution the engine waits for
  exec,      \* executions of steps, abandoned ones included
  restarts,
  sent       \* history: generateText calls per page

Page == 1 .. PageCount
Usage == (SUBSET Page) \cup {None}

State == {"absent", "preparing", "queued", "running", "ready", "failed", "cancelled", "applied"}
Running == {"queued", "running"}
Outcome == {"ready", "failed", "cancelled"}

Output == [complete : BOOLEAN, usage : Usage]
UploadCall == [job : Job, page : Page, png : Png, at : {"put", "read", "save", "stored"},
               seen : [Page -> Png \cup {None}]]
StartCall == [job : Job, at : {"sweep", "admit", "create", "unconfirmed"},
              seen : [Page -> Png \cup {None}]]
Step == {"begin", "page", "assemble", "record"}
Place == [step : Step \cup {"absent", "last", "ended"}, page : 0 .. PageCount]
Execution == [job : Job, step : Step, page : 0 .. PageCount,
              at : {"start", "dispatch", "call", "store", "keep", "count", "settle",
                    "preview", "report", "final"},
              seen : Usage, got : Output \cup {None}, rep : Outcome \cup {None}]

ASSUME NoneAssumption ==
  None \notin Png \cup Exec \cup Outcome \cup Output \cup UploadCall \cup StartCall \cup Execution

row == <<version, state, base, pages, calls, completed, usage, late, applied>>
objects == <<png, out, preview, report>>
requests == <<upload, starter>>
engine == <<wf, awaits, exec, restarts, sent>>
vars == <<row, objects, requests, engine>>

TypeOK ==
  /\ version \in Nat
  /\ state \in [Job -> State]
  /\ base \in [Job -> Nat]
  /\ pages \in [Job -> [Page -> Png \cup {None}]]
  /\ calls \in [Job -> 0 .. PageCount]
  /\ completed \in [Job -> 0 .. PageCount]
  /\ usage \in [Job -> Usage]
  /\ late \in [Job -> BOOLEAN]
  /\ applied \in [Job -> Nat]
  /\ png \in [Job -> [Page -> Png \cup {None}]]
  /\ out \in [Job -> [Page -> Output \cup {None}]]
  /\ preview \in [Job -> BOOLEAN]
  /\ report \in [Job -> Outcome \cup {None}]
  /\ upload \in [Upload -> UploadCall \cup {None}]
  /\ starter \in [Starter -> StartCall \cup {None}]
  /\ wf \in [Job -> Place]
  /\ awaits \in [Job -> Exec \cup {None}]
  /\ exec \in [Exec -> Execution \cup {None}]
  /\ restarts \in 0 .. MaxRestarts
  /\ sent \in [Job -> [Page -> Nat]]

NoPages == [n \in Page |-> None]

Init ==
  /\ version = 0
  /\ state = [j \in Job |-> "absent"]
  /\ base = [j \in Job |-> 0]
  /\ pages = [j \in Job |-> NoPages]
  /\ calls = [j \in Job |-> 0]
  /\ completed = [j \in Job |-> 0]
  /\ usage = [j \in Job |-> {}]
  /\ late = [j \in Job |-> FALSE]
  /\ applied = [j \in Job |-> 0]
  /\ png = [j \in Job |-> NoPages]
  /\ out = [j \in Job |-> NoPages]
  /\ preview = [j \in Job |-> FALSE]
  /\ report = [j \in Job |-> None]
  /\ upload = [u \in Upload |-> None]
  /\ starter = [s \in Starter |-> None]
  /\ wf = [j \in Job |-> [step |-> "absent", page |-> 0]]
  /\ awaits = [j \in Job |-> None]
  /\ exec = [x \in Exec |-> None]
  /\ restarts = 0
  /\ sent = [j \in Job |-> [n \in Page |-> 0]]

-----------------------------------------------------------------------------
(* The row. *)
MoveTo(j, s) == state' = [state EXCEPT ![j] = s]

(* A capture, a commit or another Apply changes the latest revision or head. *)
SourceChanges ==
  /\ version < MaxChanges /\ version' = version + 1
  /\ UNCHANGED <<state, base, pages, calls, completed, usage, late, applied, objects, requests, engine>>

(* createOcrJob: INSERT ... ON CONFLICT DO NOTHING; a repeat reads the row.      *)
CreateJob(j) ==
  /\ state[j] = "absent"
  /\ MoveTo(j, "preparing") /\ base' = [base EXCEPT ![j] = version]
  /\ UNCHANGED <<version, pages, calls, completed, usage, late, applied, objects, requests, engine>>

(* cancelOcrJob. *)
Cancel(j) ==
  /\ state[j] \in {"preparing", "queued", "running", "ready"}
  /\ MoveTo(j, "cancelled")
  /\ UNCHANGED <<version, base, pages, calls, completed, usage, late, applied, objects, requests, engine>>

(* The clock passes deadline_at, which admission set and only an active job reads. *)
Elapse(j) ==
  /\ state[j] \in Running /\ ~late[j]
  /\ late' = [late EXCEPT ![j] = TRUE]
  /\ UNCHANGED <<version, state, base, pages, calls, completed, usage, applied, objects, requests, engine>>

CanApply_AnyBase(j) == state[j] = "ready"   \* fault: the replaced head not compared

(* applyOcrJob: a new revision, the head and the job in one guarded batch.      *)
CanApply(j) == state[j] = "ready" /\ version = base[j]
Apply(j) ==
  /\ CanApply(j)
  /\ version' = version + 1
  /\ applied' = [applied EXCEPT ![j] = version']
  /\ MoveTo(j, "applied")
  /\ UNCHANGED <<base, pages, calls, completed, usage, late, objects, requests, engine>>

-----------------------------------------------------------------------------
(* uploadOcrPage. *)
UploadTo(u, at) == upload' = [upload EXCEPT ![u].at = at]
UploadEnds(u) == upload' = [upload EXCEPT ![u] = None]
Uploading(u, at) == upload[u] # None /\ upload[u].at = at

BeginUpload(u) ==
  /\ upload[u] = None
  /\ \E j \in Job, n \in Page, p \in Png :
       /\ state[j] = "preparing"
       /\ upload' = [upload EXCEPT ![u] =
            [job |-> j, page |-> n, png |-> p, at |-> "put", seen |-> NoPages]]
  /\ UNCHANGED <<row, objects, starter, engine>>

(* putOcrArtifact: an existing object must be the same one. *)
PutPng(u) ==
  /\ Uploading(u, "put")
  /\ LET c == upload[u] IN
     IF png[c.job][c.page] \in {None, c.png}
       THEN /\ png' = [png EXCEPT ![c.job][c.page] = c.png]
            /\ UploadTo(u, "read") \/ UploadEnds(u)
       ELSE UNCHANGED png /\ UploadEnds(u)
  /\ UNCHANGED <<row, out, preview, report, starter, engine>>

(* Each of the eight attempts reads the row; a page that is there answers.      *)
ReadPages(u) ==
  /\ Uploading(u, "read")
  /\ LET c == upload[u] IN
     \/ pages[c.job][c.page] = c.png /\ UploadTo(u, "stored")
     \/ pages[c.job][c.page] \notin {None, c.png} /\ UploadEnds(u)
     \/ pages[c.job][c.page] = None /\ state[c.job] # "preparing" /\ UploadEnds(u)
     \/ /\ pages[c.job][c.page] = None /\ state[c.job] = "preparing"
        /\ upload' = [upload EXCEPT ![u].at = "save", ![u].seen = pages[c.job]]
  /\ UNCHANGED <<row, objects, starter, engine>>

CanSave_Anyway(c) == state[c.job] = "preparing"   \* fault: pages_json not compared

(* UPDATE ... SET pages_json WHERE state='preparing' AND pages_json=?. *)
CanSave(c) == state[c.job] = "preparing" /\ pages[c.job] = c.seen
SavePage(u) ==
  /\ Uploading(u, "save")
  /\ LET c == upload[u] IN
     IF CanSave(c)
       THEN /\ pages' = [pages EXCEPT ![c.job] = [c.seen EXCEPT ![c.page] = c.png]]
            /\ UploadTo(u, "stored") \/ UploadEnds(u)
       ELSE UNCHANGED pages /\ (UploadTo(u, "read") \/ UploadEnds(u))
  /\ UNCHANGED <<version, state, base, calls, completed, usage, late, applied, objects, starter, engine>>

-----------------------------------------------------------------------------
(* startOcrJob. *)
StarterTo(s, at) == starter' = [starter EXCEPT ![s].at = at]
StarterEnds(s) == starter' = [starter EXCEPT ![s] = None]
Starting(s, at) == starter[s] # None /\ starter[s].at = at
AllPages(p) == \A n \in Page : p[n] # None

Startable(j) == state[j] = "preparing" /\ AllPages(pages[j]) /\ version = base[j]
BeginStart(s, j) ==
  /\ starter[s] = None /\ Startable(j)
  /\ starter' = [starter EXCEPT ![s] = [job |-> j, at |-> "sweep", seen |-> pages[j]]]
  /\ UNCHANGED <<row, objects, upload, engine>>

Expired_Running(j) == state[j] = "running" /\ late[j]   \* fault: a job never begun is not swept
Expired(j) == state[j] \in Running /\ late[j]

(* Jobs whose deadline elapsed fail; their Workflows learn it at their next write. *)
Sweep(s) ==
  /\ Starting(s, "sweep")
  /\ state' = [j \in Job |-> IF Expired(j) THEN "failed" ELSE state[j]]
  /\ StarterTo(s, "admit")
  /\ UNCHANGED <<version, base, pages, calls, completed, usage, late, applied, objects, upload, engine>>

Active == {j \in Job : state[j] \in Running}
CanAdmit(c) ==
  /\ state[c.job] = "preparing" /\ pages[c.job] = c.seen
  /\ Cardinality(Active) < MaxActive
  /\ version = base[c.job]

Admit(s) ==
  /\ Starting(s, "admit")
  /\ IF CanAdmit(starter[s])
       THEN MoveTo(starter[s].job, "queued") /\ StarterTo(s, "create")
       ELSE UNCHANGED state /\ StarterEnds(s)
  /\ UNCHANGED <<version, base, pages, calls, completed, usage, late, applied, objects, upload, engine>>

(* OCR.create({ id: "ocr-<jobId>" }): done, done without an answer, or refused.   *)
CreateInstance(s) ==
  /\ Starting(s, "create")
  /\ LET j == starter[s].job IN
     \/ /\ wf' = [wf EXCEPT ![j] = [step |-> "begin", page |-> 0]]
        /\ StarterEnds(s) \/ StarterTo(s, "unconfirmed")
     \/ UNCHANGED wf /\ StarterTo(s, "unconfirmed")
  /\ UNCHANGED <<row, objects, upload, awaits, exec, restarts, sent>>

(* A start that cannot be confirmed fails the job, unless it is running already. *)
Unconfirmed(s) ==
  /\ Starting(s, "unconfirmed")
  /\ LET j == starter[s].job IN
     IF state[j] = "queued" /\ calls[j] = 0 THEN MoveTo(j, "failed") ELSE UNCHANGED state
  /\ StarterEnds(s)
  /\ UNCHANGED <<version, base, pages, calls, completed, usage, late, applied, objects, upload, engine>>

(* A request stops where it is. *)
RequestStops ==
  /\ \/ \E u \in Upload : upload[u] # None /\ UploadEnds(u) /\ UNCHANGED starter
     \/ \E s \in Starter : starter[s] # None /\ StarterEnds(s) /\ UNCHANGED upload
  /\ UNCHANGED <<row, objects, engine>>

-----------------------------------------------------------------------------
(* The Workflow engine.  After a step that succeeded, and after one that failed. *)
After(p) ==
  CASE p.step = "begin" -> [step |-> "page", page |-> 1]
    [] p.step = "page" /\ p.page < PageCount -> [step |-> "page", page |-> p.page + 1]
    [] p.step = "page" /\ p.page = PageCount -> [step |-> "assemble", page |-> 0]
    [] OTHER -> [step |-> "ended", page |-> 0]
AfterFailure(p) == [step |-> IF p.step = "record" THEN "last" ELSE "record", page |-> 0]

(* The step is executed, or executed again while an older execution lives on.    *)
Execute(j, x) ==
  /\ wf[j].step \in Step /\ exec[x] = None
  /\ IF awaits[j] = None THEN UNCHANGED restarts
       ELSE restarts < MaxRestarts /\ restarts' = restarts + 1
  /\ awaits' = [awaits EXCEPT ![j] = x]
  /\ exec' = [exec EXCEPT ![x] =
       [job |-> j, step |-> wf[j].step, page |-> wf[j].page, at |-> "start",
        seen |-> None, got |-> None, rep |-> None]]
  /\ UNCHANGED <<row, objects, requests, wf, sent>>

(* The step's time is over, or its isolate is lost: a step without retry fails.  *)
GiveUp(j) ==
  /\ wf[j].step \in Step /\ awaits[j] # None
  /\ wf' = [wf EXCEPT ![j] = AfterFailure(wf[j])]
  /\ awaits' = [awaits EXCEPT ![j] = None]
  /\ UNCHANGED <<row, objects, requests, exec, restarts, sent>>

Dies(x) ==
  /\ exec[x] # None
  /\ exec' = [exec EXCEPT ![x] = None]
  /\ awaits' = [awaits EXCEPT ![exec[x].job] = IF @ = x THEN None ELSE @]
  /\ wf' = [wf EXCEPT ![exec[x].job] = IF awaits[exec[x].job] = x THEN AfterFailure(@) ELSE @]
  /\ UNCHANGED <<row, objects, requests, restarts, sent>>

(* An execution returns; only the one the engine waits for moves the instance.   *)
Ends(x, ok) ==
  LET j == exec[x].job IN
  /\ exec' = [exec EXCEPT ![x] = None]
  /\ IF awaits[j] = x
       THEN /\ wf' = [wf EXCEPT ![j] = IF ok THEN After(@) ELSE AfterFailure(@)]
            /\ awaits' = [awaits EXCEPT ![j] = None]
       ELSE UNCHANGED <<wf, awaits>>

GoesTo(x, at) == exec' = [exec EXCEPT ![x].at = at] /\ UNCHANGED <<wf, awaits>>
Runs(x, step, at) == exec[x] # None /\ exec[x].step \in step /\ exec[x].at = at

(* "begin OCR". *)
Begin(x) ==
  /\ Runs(x, {"begin"}, "start")
  /\ LET j == exec[x].job IN
     \/ /\ state[j] = "queued" /\ ~late[j] /\ MoveTo(j, "running")
        /\ Ends(x, TRUE) \/ Ends(x, FALSE)
     \/ UNCHANGED state /\ Ends(x, FALSE)
  /\ UNCHANGED <<version, base, pages, calls, completed, usage, late, applied, objects, requests, restarts, sent>>

(* runPage: the row and a saved output decide whether the page is settled, to be  *)
(* settled, refused or to be dispatched.                                        *)
LoadPage(x) ==
  /\ Runs(x, {"page"}, "start")
  /\ LET j == exec[x].job
         n == exec[x].page
     IN
     \/ completed[j] >= n /\ Ends(x, TRUE)
     \/ completed[j] < n /\ out[j][n] # None /\ calls[j] = n /\ GoesTo(x, "settle")
     \/ completed[j] < n /\ out[j][n] # None /\ calls[j] # n /\ Ends(x, FALSE)
     \/ /\ out[j][n] = None
        /\ state[j] = "running" /\ calls[j] = n - 1 /\ completed[j] = n - 1 /\ ~late[j]
        /\ exec' = [exec EXCEPT ![x].at = "dispatch", ![x].seen = usage[j]]
        /\ UNCHANGED <<wf, awaits>>
     \/ completed[j] < n /\ out[j][n] = None /\ Ends(x, FALSE)
  /\ UNCHANGED <<row, objects, requests, restarts, sent>>

CanDispatch_Again(j, n) == state[j] = "running" /\ completed[j] = n - 1   \* fault: calls not compared

(* The deadline is compared with the clock as LoadPage read it. *)
CanDispatch(j, n) == state[j] = "running" /\ calls[j] = n - 1 /\ completed[j] = n - 1

AfterDispatch_Keeps(j) == usage[j]   \* fault: token counts not reset to NULL
AfterDispatch(j) == None

(* The dispatch is recorded before the call; if its answer is lost, no call.     *)
Dispatch(x) ==
  /\ Runs(x, {"page"}, "dispatch")
  /\ LET j == exec[x].job IN
     \/ /\ CanDispatch(j, exec[x].page)
        /\ calls' = [calls EXCEPT ![j] = exec[x].page]
        /\ usage' = [usage EXCEPT ![j] = AfterDispatch(j)]
        /\ GoesTo(x, "call") \/ Ends(x, FALSE)
     \/ UNCHANGED <<calls, usage>> /\ Ends(x, FALSE)
  /\ UNCHANGED <<version, state, base, pages, completed, late, applied, objects, requests, restarts, sent>>

(* generateText: the page, incomplete text, or an error; tokens known or not.    *)
Call(x) ==
  /\ Runs(x, {"page"}, "call")
  /\ sent' = [sent EXCEPT ![exec[x].job][exec[x].page] = @ + 1]
  /\ LET total == IF exec[x].seen = None THEN None ELSE exec[x].seen \cup {exec[x].page} IN
     \/ \E c \in BOOLEAN, u \in {None, total} :
          /\ exec' = [exec EXCEPT ![x].at = "store", ![x].got = [complete |-> c, usage |-> u]]
          /\ UNCHANGED <<wf, awaits>>
     \/ Ends(x, FALSE)
  /\ UNCHANGED <<row, objects, requests, restarts>>

(* putOcrArtifact; known usage survives a failure of it.                        *)
StorePage(x) ==
  /\ Runs(x, {"page"}, "store")
  /\ LET j == exec[x].job
         n == exec[x].page
     IN
     \/ out[j][n] = None /\ out' = [out EXCEPT ![j][n] = exec[x].got] /\ (GoesTo(x, "count") \/ GoesTo(x, "keep"))
     \/ UNCHANGED out /\ GoesTo(x, "keep")
  /\ UNCHANGED <<row, png, preview, report, requests, restarts, sent>>

(* checkpointPageUsage: a cumulative total, written while the page is the current one. *)
Checkpoint(x) ==
  /\ Runs(x, {"page"}, "keep") \/ Runs(x, {"page"}, "count")
  /\ LET j == exec[x].job
         n == exec[x].page
     IN
     /\ IF calls[j] = n /\ completed[j] = n - 1
          THEN usage' = [usage EXCEPT ![j] = exec[x].got.usage] ELSE UNCHANGED usage
     /\ (exec[x].at = "count" /\ GoesTo(x, "settle")) \/ Ends(x, FALSE)
  /\ UNCHANGED <<version, state, base, pages, calls, completed, late, applied, objects, requests, restarts, sent>>

CanSettle_Late(j, n) == calls[j] = n   \* fault: completed_pages not compared
CanSettle(j, n) == calls[j] = n /\ completed[j] = n - 1 /\ state[j] \in {"running", "cancelled", "failed"}

(* settlePage from the stored object, by its writer or by a replay of the step.  *)
Settle(x) ==
  /\ Runs(x, {"page"}, "settle")
  /\ LET j == exec[x].job
         n == exec[x].page
         o == out[j][n]
     IN
     /\ IF CanSettle(j, n)
          THEN /\ completed' = [completed EXCEPT ![j] = IF o.complete THEN @ + 1 ELSE @]
               /\ usage' = [usage EXCEPT ![j] = o.usage]
               /\ state' = [state EXCEPT ![j] = IF ~o.complete /\ @ = "running" THEN "failed" ELSE @]
          ELSE UNCHANGED <<completed, usage, state>>
     /\ Ends(x, o.complete) \/ Ends(x, FALSE)
  /\ UNCHANGED <<version, base, pages, calls, late, applied, objects, requests, restarts, sent>>

-----------------------------------------------------------------------------
(* finishJob, as "assemble OCR preview" and as "record OCR failure". *)
ReportTo(x, at, r) ==
  /\ exec' = [exec EXCEPT ![x].at = at, ![x].rep = r]
  /\ UNCHANGED <<wf, awaits>>

AllDone(j) == state[j] = "running" /\ calls[j] = PageCount /\ completed[j] = PageCount

LoadJob(x) ==
  /\ Runs(x, {"assemble", "record"}, "start")
  /\ LET j == exec[x].job IN
     \/ state[j] \in {"applied", "ready"} /\ Ends(x, TRUE)
     \/ /\ state[j] \notin {"applied", "ready"} /\ report[j] # None
        /\ ReportTo(x, "final", report[j])
     \/ /\ state[j] \notin {"applied", "ready"} /\ report[j] = None
        /\ IF exec[x].step = "assemble" /\ AllDone(j)
             THEN IF late[j] THEN Ends(x, FALSE) ELSE ReportTo(x, "preview", "ready")
             ELSE ReportTo(x, "report", IF state[j] = "cancelled" THEN "cancelled" ELSE "failed")
  /\ UNCHANGED <<row, objects, requests, restarts, sent>>

(* preview.md is the same for every execution. *)
PutPreview(x) ==
  /\ Runs(x, {"assemble"}, "preview")
  /\ \/ preview' = [preview EXCEPT ![exec[x].job] = TRUE] /\ (GoesTo(x, "report") \/ Ends(x, FALSE))
     \/ UNCHANGED preview /\ Ends(x, FALSE)
  /\ UNCHANGED <<row, png, out, report, requests, restarts, sent>>

PutReport_Overwrites(x) ==   \* fault: report.json without onlyIf
  /\ Runs(x, {"assemble", "record"}, "report")
  /\ report' = [report EXCEPT ![exec[x].job] = exec[x].rep] /\ GoesTo(x, "final")
  /\ UNCHANGED <<row, png, out, preview, requests, restarts, sent>>

(* report.json has one writer: two executions never agree on finishedAt.        *)
PutReport(x) ==
  /\ Runs(x, {"assemble", "record"}, "report")
  /\ LET j == exec[x].job IN
     \/ /\ report[j] = None /\ report' = [report EXCEPT ![j] = exec[x].rep]
        /\ GoesTo(x, "final") \/ Ends(x, FALSE)
     \/ UNCHANGED report /\ Ends(x, FALSE)
  /\ UNCHANGED <<row, png, out, preview, requests, restarts, sent>>

Finished_Uncancels(s, r) == IF s \in {"queued", "running", "failed", "cancelled"} THEN r ELSE s   \* fault: Stop overwritten

(* The final UPDATE: Stop wins, and a ready or applied job is left alone.        *)
Finished(s, r) == IF s \in {"queued", "running", "failed"} THEN r ELSE s
Finalize(x) ==
  /\ Runs(x, {"assemble", "record"}, "final")
  /\ LET j == exec[x].job IN
     \/ MoveTo(j, Finished(state[j], exec[x].rep)) /\ (Ends(x, TRUE) \/ Ends(x, FALSE))
     \/ UNCHANGED state /\ Ends(x, FALSE)
  /\ UNCHANGED <<version, base, pages, calls, completed, usage, late, applied, objects, requests, restarts, sent>>

(* The last resort of run(): the row fails without a report, if that is stored.  *)
LastResort(j) ==
  /\ wf[j].step = "last"
  /\ MoveTo(j, Finished(state[j], "failed")) \/ UNCHANGED state
  /\ wf' = [wf EXCEPT ![j] = [step |-> "ended", page |-> 0]]
  /\ UNCHANGED <<version, base, pages, calls, completed, usage, late, applied, objects, requests, awaits, exec, restarts, sent>>

-----------------------------------------------------------------------------
StepAction(x) ==
  \/ Begin(x) \/ LoadPage(x) \/ Dispatch(x) \/ Call(x) \/ StorePage(x) \/ Checkpoint(x) \/ Settle(x)
  \/ LoadJob(x) \/ PutPreview(x) \/ PutReport(x) \/ Finalize(x) \/ Dies(x)

Engine(j) == GiveUp(j) \/ LastResort(j) \/ \E x \in Exec : Execute(j, x)

Request ==
  \/ \E u \in Upload : BeginUpload(u) \/ PutPng(u) \/ ReadPages(u) \/ SavePage(u)
  \/ \E s \in Starter, j \in Job : BeginStart(s, j)
  \/ \E s \in Starter : Sweep(s) \/ Admit(s) \/ CreateInstance(s) \/ Unconfirmed(s)
  \/ RequestStops

Next ==
  \/ SourceChanges
  \/ \E j \in Job : CreateJob(j) \/ Cancel(j) \/ Elapse(j) \/ Apply(j)
  \/ Request
  \/ \E j \in Job : Engine(j)
  \/ \E x \in Exec : StepAction(x)

Spec == Init /\ [][Next]_vars

(* Time passes, the owner keeps pressing Start of a prepared job, and requests    *)
(* are not all cut off.                                                        *)
Fairness ==
  /\ \A j \in Job : /\ WF_vars(Elapse(j))
                    /\ SF_vars(\E s \in Starter : BeginStart(s, j))
                    /\ SF_vars(\E s \in Starter : /\ Starting(s, "admit") /\ starter[s].job = j
                                                 /\ CanAdmit(starter[s]) /\ Admit(s))
  /\ \A s \in Starter : SF_vars(Sweep(s)) /\ WF_vars(Admit(s) \/ CreateInstance(s) \/ Unconfirmed(s))
FairSpec == Spec /\ Fairness

-----------------------------------------------------------------------------
(* The PNG a started job sends is the one its uploader was told was stored: no    *)
(* acknowledged upload is lost to a concurrent one, pages_json never names an     *)
(* object that is missing or different, and a job starts with every page.        *)
UploadsKept ==
  /\ \A u \in Upload : Uploading(u, "stored") => pages[upload[u].job][upload[u].page] = upload[u].png
  /\ \A j \in Job, n \in Page : pages[j][n] # None => png[j][n] = pages[j][n]
  /\ \A j \in Job : state[j] \in Running \cup {"ready", "applied"} => AllPages(pages[j])

(* A page is sent to the model at most once, and only after its dispatch was     *)
(* counted; recorded usage is NULL or counts every page that was sent, through    *)
(* restarted and abandoned executions of a page's step.                         *)
UsageIsComplete ==
  \A j \in Job, n \in Page :
    /\ sent[j][n] <= 1
    /\ sent[j][n] = 1 => n <= calls[j] /\ (usage[j] # None => n \in usage[j])

(* A preview offered for review has every page, complete, and its report.        *)
ReadyIsComplete ==
  \A j \in Job : state[j] \in {"ready", "applied"} =>
    /\ preview[j] /\ report[j] = "ready" /\ completed[j] = PageCount
    /\ \A n \in Page : out[j][n] # None /\ out[j][n].complete

(* Stop, failure and Apply end a job: no state is left backwards, no further page *)
(* is dispatched, only a finished preview can still replace 'failed', and an upload *)
(* that raced Start or Stop changes no input any more.                           *)
StoppedIsFinal ==
  [][\A j \in Job :
       /\ state[j] \in {"cancelled", "applied"} => state'[j] = state[j]
       /\ state[j] \notin {"absent", "preparing"} => state'[j] \notin {"absent", "preparing"}
       /\ state[j] = "failed" => state'[j] \in {"failed", "ready"}
       /\ state[j] = "ready" => state'[j] \in {"ready", "cancelled", "applied"}
       /\ state[j] # "running" => calls'[j] = calls[j]
       /\ state[j] \notin {"absent", "preparing"} => pages'[j] = pages[j]]_vars

(* Two previews of one base never both replace it, and an applied job created    *)
(* exactly the version after its base.                                         *)
AppliedOnce ==
  \A j \in Job :
    /\ state[j] = "applied" <=> applied[j] # 0
    /\ state[j] = "applied" => applied[j] = base[j] + 1
    /\ \A k \in Job : state[j] = "applied" /\ state[k] = "applied" /\ applied[j] = applied[k] => j = k

(* What the owner reviews is finished, and what was reviewed is applied as itself:  *)
(* runOcrWorkflow's last update and applyOcrJob's batch.                          *)
ReviewIsSound == ReadyIsComplete /\ AppliedOnce

(* Dead jobs do not hold their slots: while its owner keeps pressing Start, a     *)
(* prepared job is admitted, or its base changes.                               *)
PreparedStarts ==
  \A j \in Job : Startable(j) ~> ~Startable(j)
=============================================================================
