-------------------------------- MODULE Ingest --------------------------------
(***************************************************************************)
(* From a captured revision to the readable head of its source:              *)
(*   - IngestWorkflow (src/workflows/ingest.ts), one instance per revision;   *)
(*   - commitRevision, recordStorageFailure and recoverIngest                 *)
(*     (src/ingest-completion.ts), run by the Workflow's retried storage       *)
(*     steps and, at any time, by readers that open the source (getSource);    *)
(*   - the two other writers of the head or of what depends on it: OCR Apply    *)
(*     (src/ocr.ts) and the publication of pages (src/pages.ts, proposals.ts).  *)
(*                                                                          *)
(* Capture is seen as in RevisionLedger.  A D1 batch is atomic but its reply   *)
(* can be lost; a storage step that timed out may still be executing while     *)
(* its retry, or a reader, runs the same code.                                *)
(***************************************************************************)
EXTENDS Naturals, FiniteSets

CONSTANTS
  Source, Rev, Page,
  Exec,      \* concurrent executions of the storage code
  Kind,      \* what the converter makes of a file
  MaxRuns,   \* bound: executions of one convert step (engine restarts)
  None

ASSUME KindAssumption == Kind \subseteq {"native", "document", "unsupported"}
ASSUME RunsAssumption == MaxRuns \in Nat \ {0}

VARIABLES
  row,       \* source_revision: capture identity
  state,     \* source_revision.readable_state
  error,     \* source_revision.error
  calls,     \* source_revision.conversion_calls
  conflict,  \* warning_summary carries "A newer revision is current"
  head,      \* source.current_revision_id
  page,      \* accepted page heads: the revisions they were made from, freshness
  text,      \* R2 text.md: the convert execution that wrote it, 0 if absent
  blocks,    \* R2 blocks.json, likewise
  wf,        \* the Workflow instance: absent, the step it is at, or its end
  runs,      \* executions of the convert step so far
  conv,      \* where each execution of convertAndStore is
  output,    \* the cached result of the convert step (Stored), or None
  sent,      \* history: calls of env.AI.toMarkdown
  exec,      \* commitRevision, recordStorageFailure or recoverIngest running, or None
  ocr        \* a ready OCR job: the base and head it was started from, or None

d1 == <<row, state, error, calls, conflict, head, page>>
vars == <<row, state, error, calls, conflict, head, page, text, blocks, wf, runs,
          conv, output, sent, exec, ocr>>
engine == <<wf, runs, conv, output, sent>>

(***************************************************************************)
(* 'readable' stands for readable and readable_with_warnings: the code never   *)
(* tells them apart except to carry the conflict warning, kept in `conflict`.  *)
(***************************************************************************)
ReadableState == {"pending", "readable", "needs_conversion", "failed"}
Error == {"none", "status_unavailable", "storage_failure", "conversion"}
Row == [src : Source, no : Nat \ {0}, kind : Kind \cup {"reviewed"}]
Stored == [outcome : {"readable", "needs_conversion", "failed"}, calls : 0 .. 1,
           text : 0 .. MaxRuns, blocks : 0 .. MaxRuns]

Active == {"load", "convert", "commit", "record"}
Stage == {"none", "begin", "claim", "claimed", "dispatched", "text", "blocks", "done"}
WfState == {"absent"} \cup Active \cup {"complete", "errored"}

(* One execution of storage code; `step` marks the Workflow's own attempts.    *)
Job == [rev : Rev, at : {"clear", "record", "read", "batch", "confirm"},
        step : BOOLEAN, seen : 0 .. 1]
AcceptedPage == [from : SUBSET Rev, current : BOOLEAN]
OcrJob == [src : Source, base : Rev, current : Rev \cup {None}]

ASSUME NoneAssumption ==
  None \notin Source \cup Rev \cup Row \cup Stored \cup Job \cup AcceptedPage \cup OcrJob

TypeOK ==
  /\ row \in [Rev -> Row \cup {None}]
  /\ state \in [Rev -> ReadableState]
  /\ error \in [Rev -> Error]
  /\ calls \in [Rev -> 0 .. 1]
  /\ conflict \in [Rev -> BOOLEAN]
  /\ head \in [Source -> Rev \cup {None}]
  /\ page \in [Page -> AcceptedPage \cup {None}]
  /\ text \in [Rev -> 0 .. MaxRuns]
  /\ blocks \in [Rev -> 0 .. MaxRuns]
  /\ wf \in [Rev -> WfState]
  /\ runs \in [Rev -> 0 .. MaxRuns]
  /\ conv \in [Rev -> [1 .. MaxRuns -> Stage]]
  /\ output \in [Rev -> Stored \cup {None}]
  /\ sent \in [Rev -> Nat]
  /\ exec \in [Exec -> Job \cup {None}]
  /\ ocr \in OcrJob \cup {None}

Init ==
  /\ row = [r \in Rev |-> None]
  /\ state = [r \in Rev |-> "pending"]
  /\ error = [r \in Rev |-> "none"]
  /\ calls = [r \in Rev |-> 0]
  /\ conflict = [r \in Rev |-> FALSE]
  /\ head = [s \in Source |-> None]
  /\ page = [p \in Page |-> None]
  /\ text = [r \in Rev |-> 0]
  /\ blocks = [r \in Rev |-> 0]
  /\ wf = [r \in Rev |-> "absent"]
  /\ runs = [r \in Rev |-> 0]
  /\ conv = [r \in Rev |-> [n \in 1 .. MaxRuns |-> "none"]]
  /\ output = [r \in Rev |-> None]
  /\ sent = [r \in Rev |-> 0]
  /\ exec = [e \in Exec |-> None]
  /\ ocr = None

-----------------------------------------------------------------------------
Recorded(r) == row[r] # None
RevsOf(s) == {r \in Rev : Recorded(r) /\ row[r].src = s}
Readable(r) == Recorded(r) /\ state[r] = "readable"
Latest(s) == {l \in RevsOf(s) : \A r \in RevsOf(s) : row[r].no <= row[l].no}
NextNos(s) == IF RevsOf(s) = {} THEN {1} ELSE {row[l].no + 1 : l \in Latest(s)}

(* EXISTS a later readable revision of the same source. *)
NewerReadable(r) ==
  \E l \in RevsOf(row[r].src) : state[l] = "readable" /\ row[l].no > row[r].no

(* The row may still take a result: pending, or failed by storage alone. *)
Writable(r) == state[r] = "pending" \/ (state[r] = "failed" /\ error[r] = "storage_failure")

(* `matches`: the row holds exactly the stored result. *)
HoldsResult(r) ==
  /\ state[r] = output[r].outcome
  /\ error[r] = IF output[r].outcome = "failed" THEN "conversion" ELSE "none"
  /\ calls[r] >= output[r].calls

(* PAGE_FRESHNESS_SQL: every input is the readable head of its source. *)
Fresh(from) == \A r \in from : Readable(r) /\ head[row[r].src] = r

AdvanceTo(r, l) == wf' = [wf EXCEPT ![r] = l]
MaxOf_Adds(a, b) == a + b   \* fault: usage accumulated instead of MAX
MaxOf(a, b) == IF a >= b THEN a ELSE b

-----------------------------------------------------------------------------
(* Capture, as RevisionLedger allows it. *)
Record(r) ==
  /\ ~Recorded(r)
  /\ \E s \in Source, k \in Kind : \E n \in NextNos(s) :
       row' = [row EXCEPT ![r] = [src |-> s, no |-> n, kind |-> k]]
  /\ UNCHANGED <<state, error, calls, conflict, head, page, text, blocks, engine, exec, ocr>>

(* INGEST.create({ id: `ingest-<revisionId>` }) *)
CreateInstance(r) ==
  /\ Recorded(r) /\ wf[r] = "absent" /\ row[r].kind # "reviewed"
  /\ AdvanceTo(r, "load")
  /\ UNCHANGED <<d1, text, blocks, runs, conv, output, sent, exec, ocr>>

(* addSource could not confirm the instance, whether or not it exists. *)
MarkUnavailable(r) ==
  /\ Recorded(r) /\ row[r].kind # "reviewed" /\ state[r] = "pending"
  /\ error' = [error EXCEPT ![r] = "status_unavailable"]
  /\ UNCHANGED <<row, state, calls, conflict, head, page, text, blocks, engine, exec, ocr>>

-----------------------------------------------------------------------------
(* The Workflow.  The step "load revision" reads an immutable row: it         *)
(* succeeds, or its attempts run out and the catch block records the failure. *)
Load(r) ==
  /\ wf[r] = "load"
  /\ AdvanceTo(r, "convert") \/ AdvanceTo(r, "record")
  /\ UNCHANGED <<d1, text, blocks, runs, conv, output, sent, exec, ocr>>

(* The engine executes "convert and store", again when it lost the isolate      *)
(* that ran it; the execution it gave up on may be alive.                      *)
BeginConvert(r) ==
  /\ wf[r] = "convert" /\ runs[r] < MaxRuns
  /\ runs' = [runs EXCEPT ![r] = @ + 1]
  /\ conv' = [conv EXCEPT ![r][runs'[r]] = "begin"]
  /\ UNCHANGED <<d1, text, blocks, wf, output, sent, exec, ocr>>

(* The step has no retry: failed or timed out, run() falls to its catch block. *)
StepFailed(r) ==
  /\ wf[r] = "convert" /\ runs[r] > 0
  /\ AdvanceTo(r, "record")
  /\ UNCHANGED <<d1, text, blocks, runs, conv, output, sent, exec, ocr>>

At(r, n, stage) == conv[r][n] = stage
ConvertTo(r, n, stage) == conv' = [conv EXCEPT ![r][n] = stage] /\ UNCHANGED <<wf, output>>

(* An execution returns.  The engine caches the result of the one it waits for. *)
Result(r, n, outcome, c, wrote) ==
  /\ conv' = [conv EXCEPT ![r][n] = "done"]
  /\ IF wf[r] = "convert" /\ runs[r] = n
       THEN /\ output' = [output EXCEPT ![r] =
                 [outcome |-> outcome, calls |-> c, text |-> wrote, blocks |-> wrote]]
            /\ AdvanceTo(r, "commit")
       ELSE UNCHANGED <<wf, output>>

(* An execution dies with its isolate, its result unreported. *)
Stopped(r, n) ==
  /\ conv[r][n] \notin {"none", "done"}
  /\ ConvertTo(r, n, "done")
  /\ UNCHANGED <<d1, text, blocks, runs, sent, exec, ocr>>

(* convertAndStore up to its first effect: the original, its decoding and the   *)
(* choice of a converter.                                                     *)
ReadOriginal(r, n) ==
  /\ At(r, n, "begin")
  /\ \/ Result(r, n, "failed", 0, 0)
     \/ row[r].kind = "unsupported" /\ Result(r, n, "needs_conversion", 0, 0)
     \/ row[r].kind = "native" /\ ConvertTo(r, n, "text")
     \/ row[r].kind = "document" /\ ConvertTo(r, n, "claim")
  /\ UNCHANGED <<d1, text, blocks, runs, sent, exec, ocr>>

CanClaim_Again(r) == state[r] = "pending"   \* fault: conversion_calls=0 not required

(* UPDATE ... SET conversion_calls=1 WHERE conversion_calls=0 AND 'pending';    *)
(* a claim whose acknowledgement is lost counts as refused.                    *)
CanClaim(r) == calls[r] = 0 /\ state[r] = "pending"
Claim(r, n) ==
  /\ At(r, n, "claim")
  /\ \/ /\ CanClaim(r)
        /\ calls' = [calls EXCEPT ![r] = 1]
        /\ ConvertTo(r, n, "claimed") \/ Result(r, n, "failed", 0, 0)
     \/ UNCHANGED calls /\ Result(r, n, "failed", 0, 0)
  /\ UNCHANGED <<row, state, error, conflict, head, page, text, blocks, runs, sent, exec, ocr>>

(* env.AI.toMarkdown().transform: billed when it is sent. *)
Dispatch(r, n) ==
  /\ At(r, n, "claimed")
  /\ sent' = [sent EXCEPT ![r] = @ + 1]
  /\ ConvertTo(r, n, "dispatched")
  /\ UNCHANGED <<d1, text, blocks, runs, exec, ocr>>

(* Markdown; an error, a timeout or an unexpected format; or no text at all.   *)
Converted(r, n) ==
  /\ At(r, n, "dispatched")
  /\ \/ ConvertTo(r, n, "text")
     \/ \E o \in {"failed", "needs_conversion"} : Result(r, n, o, 1, 0)
  /\ UNCHANGED <<d1, text, blocks, runs, sent, exec, ocr>>

CallsMade(r) == IF row[r].kind = "document" THEN 1 ELSE 0

PutOnce_Overwrites(old, n) == n   \* fault: no onlyIf

(* BUCKET.put under `onlyIf: { etagDoesNotMatch: "*" }`. *)
PutOnce(old, n) == IF old = 0 THEN n ELSE old

(* text.md; a refusal, or a throw that may hide the stored object, fails.       *)
PutText(r, n) ==
  /\ At(r, n, "text")
  /\ text' \in {text, [text EXCEPT ![r] = PutOnce(@, n)]}
  /\ \/ text' # text /\ ConvertTo(r, n, "blocks")
     \/ Result(r, n, "failed", CallsMade(r), 0)
  /\ UNCHANGED <<d1, blocks, runs, sent, exec, ocr>>

(* blocks.json likewise; the result then names the objects this execution wrote. *)
PutBlocks(r, n) ==
  /\ At(r, n, "blocks")
  /\ blocks' \in {blocks, [blocks EXCEPT ![r] = PutOnce(@, n)]}
  /\ \/ blocks' # blocks /\ Result(r, n, "readable", CallsMade(r), n)
     \/ Result(r, n, "failed", CallsMade(r), 0)
  /\ UNCHANGED <<d1, text, runs, sent, exec, ocr>>

(* A storage step starts an attempt; earlier attempts may still be running.    *)
Attempt(r, e) ==
  /\ wf[r] \in {"commit", "record"} /\ exec[e] = None
  /\ exec' = [exec EXCEPT ![e] =
       [rev |-> r, at |-> IF wf[r] = "commit" THEN "read" ELSE "record", step |-> TRUE, seen |-> 0]]
  /\ UNCHANGED <<d1, text, blocks, engine, ocr>>

(* The step's attempts are used up: commit falls to the catch block, and the   *)
(* Workflow ends with whatever it could store.                                *)
GiveUp(r) ==
  /\ wf[r] \in {"commit", "record"}
  /\ AdvanceTo(r, IF wf[r] = "commit" THEN "record" ELSE "complete")
  /\ UNCHANGED <<d1, text, blocks, runs, conv, output, sent, exec, ocr>>

(* The instance is terminated or fails outside run(). *)
EngineError(r) ==
  /\ wf[r] \in Active
  /\ AdvanceTo(r, "errored")
  /\ UNCHANGED <<d1, text, blocks, runs, conv, output, sent, exec, ocr>>

-----------------------------------------------------------------------------
NeedsRecovery_PendingOnly(r) == state[r] = "pending"   \* fault: a storage failure taken as final

(* getSource calls recoverIngest for a pending, storage-failed or unpublished  *)
(* revision; the instance's status decides what storage code runs.            *)
NeedsRecovery(r) ==
  \/ Writable(r)
  \/ state[r] = "readable" /\ head[row[r].src] # r /\ ~NewerReadable(r)

(* An unavailable status changes nothing, and so has no step here. *)
Reopen(r, e) ==
  /\ Recorded(r) /\ wf[r] # "absent" /\ NeedsRecovery(r) /\ exec[e] = None
  /\ exec' = [exec EXCEPT ![e] =
       [rev |-> r, step |-> FALSE, seen |-> 0,
        at |-> IF wf[r] \in Active THEN "clear"
               ELSE IF wf[r] = "complete" /\ output[r] # None THEN "read" ELSE "record"]]
  /\ UNCHANGED <<d1, text, blocks, engine, ocr>>

End(e) == exec' = [exec EXCEPT ![e] = None]

(* UPDATE source_revision SET error=NULL WHERE 'pending' AND error IN (...).   *)
ClearError(e) ==
  /\ exec[e] # None /\ exec[e].at = "clear"
  /\ LET r == exec[e].rev IN
     error' = IF state[r] = "pending" /\ error[r] \in {"status_unavailable", "storage_failure"}
                THEN [error EXCEPT ![r] = "none"] ELSE error
  /\ End(e)
  /\ UNCHANGED <<row, state, calls, conflict, head, page, text, blocks, engine, ocr>>

(* The Workflow passes the cached calls, a reader passes none. *)
KnownCalls(e) == IF exec[e].step /\ output[exec[e].rev] # None THEN output[exec[e].rev].calls ELSE 0

CanFail_Started(r) == state[r] = "pending" /\ wf[r] \in Active   \* fault: an ended instance skipped

(* Only a pending row; a terminal projection is not downgraded. *)
CanFail(r) == state[r] = "pending"

(* recordStorageFailure; the Workflow's own attempt then ends the instance.    *)
RecordFailure(e) ==
  /\ exec[e] # None /\ exec[e].at = "record"
  /\ LET r == exec[e].rev IN
     /\ IF CanFail(r)
          THEN /\ state' = [state EXCEPT ![r] = "failed"]
               /\ error' = [error EXCEPT ![r] = "storage_failure"]
               /\ calls' = [calls EXCEPT ![r] = MaxOf(@, KnownCalls(e))]
          ELSE UNCHANGED <<state, error, calls>>
     /\ IF exec[e].step /\ wf[r] = "record" THEN AdvanceTo(r, "complete") ELSE UNCHANGED wf
  /\ End(e)
  /\ UNCHANGED <<row, conflict, head, page, text, blocks, runs, conv, output, sent, ocr>>

-----------------------------------------------------------------------------
(* commitRevision, first half: the row as it is before, and both artifacts.   *)
ArtifactsIntact(r) ==
  output[r].outcome = "readable" =>
    text[r] # 0 /\ text[r] = output[r].text /\ blocks[r] # 0 /\ blocks[r] = output[r].blocks

CommitRead(e) ==
  /\ exec[e] # None /\ exec[e].at = "read"
  /\ LET r == exec[e].rev IN
     exec' = [exec EXCEPT ![e] =
       IF (Writable(r) \/ HoldsResult(r)) /\ ArtifactsIntact(r)
         THEN [exec[e] EXCEPT !.at = "batch", !.seen = calls[r]] ELSE None]
  /\ UNCHANGED <<d1, text, blocks, engine, ocr>>

RowAfter_KeepsError(r) ==   \* fault: error not reset with the result
  IF Writable(r)
    THEN [state |-> output[r].outcome, error |-> error[r], calls |-> MaxOf(calls[r], output[r].calls)]
    ELSE [state |-> state[r], error |-> error[r], calls |-> calls[r]]

(* The row after the first statement: the result if it may take one. *)
RowAfter(r) ==
  IF Writable(r)
    THEN [state |-> output[r].outcome,
          error |-> IF output[r].outcome = "failed" THEN "conversion" ELSE "none",
          calls |-> MaxOf(calls[r], output[r].calls)]
    ELSE [state |-> state[r], error |-> error[r], calls |-> calls[r]]

(* terminalGuard: that row is this result, with the usage read before. *)
Terminal(r, seen) ==
  /\ output[r].outcome = "readable"
  /\ RowAfter(r) = [state |-> "readable", error |-> "none", calls |-> MaxOf(seen, output[r].calls)]

HeadGuard_LastWriter(r, seen) == Terminal(r, seen)   \* fault: no order between revisions

(* headGuard: the head moves to a later revision, and only if no later one is    *)
(* readable already.                                                          *)
HeadGuard(r, seen) ==
  /\ Terminal(r, seen)
  /\ LET h == head[row[r].src] IN h = None \/ row[h].no < row[r].no
  /\ ~NewerReadable(r)

Invalidate_Never(h) == UNCHANGED page   \* fault: dependents not marked with the head

(* Accepted pages made from revision h become stale. *)
Invalidate(h) ==
  page' = [p \in Page |-> IF page[p] # None /\ h \in page[p].from
                            THEN [page[p] EXCEPT !.current = FALSE] ELSE page[p]]

(* The batch: the row, then dependent pages, the head and the conflict          *)
(* warning, each statement seeing those before it.                            *)
CommitBatch(e) ==
  /\ exec[e] # None /\ exec[e].at = "batch"
  /\ LET r == exec[e].rev
         s == row[r].src
     IN
     /\ state' = [state EXCEPT ![r] = RowAfter(r).state]
     /\ error' = [error EXCEPT ![r] = RowAfter(r).error]
     /\ calls' = [calls EXCEPT ![r] = RowAfter(r).calls]
     /\ IF HeadGuard(r, exec[e].seen)
          THEN Invalidate(head[s]) /\ head' = [head EXCEPT ![s] = r]
          ELSE UNCHANGED <<page, head>>
     /\ conflict' = [conflict EXCEPT ![r] = @ \/ (Terminal(r, exec[e].seen) /\ NewerReadable(r))]
  /\ exec' = [exec EXCEPT ![e].at = "confirm"]
  /\ UNCHANGED <<row, text, blocks, engine, ocr>>

(* D1 did not run the batch; the code cannot tell and confirms as well. *)
BatchLost(e) ==
  /\ exec[e] # None /\ exec[e].at = "batch"
  /\ exec' = [exec EXCEPT ![e].at = "confirm"]
  /\ UNCHANGED <<d1, text, blocks, engine, ocr>>

(* Read back: the row holds the result and the head is this or a later one.    *)
Confirmed(r) ==
  /\ HoldsResult(r)
  /\ output[r].outcome = "readable" => head[row[r].src] = r \/ NewerReadable(r)

CommitConfirm(e) ==
  /\ exec[e] # None /\ exec[e].at = "confirm"
  /\ LET r == exec[e].rev IN
     IF exec[e].step /\ wf[r] = "commit" /\ Confirmed(r) THEN AdvanceTo(r, "complete") ELSE UNCHANGED wf
  /\ End(e)
  /\ UNCHANGED <<d1, text, blocks, runs, conv, output, sent, ocr>>

(* A read throws or the isolate stops; what was stored stays. *)
Abort(e) ==
  /\ exec[e] # None
  /\ End(e)
  /\ UNCHANGED <<d1, text, blocks, engine, ocr>>

-----------------------------------------------------------------------------
(* startOcrJob froze the latest revision and the head it started from; of      *)
(* several jobs only the last started is followed.                            *)
StartOcr ==
  /\ \E s \in Source : \E b \in Latest(s) :
       /\ state[b] # "pending"
       /\ ocr' = [src |-> s, base |-> b, current |-> head[s]]
  /\ UNCHANGED <<d1, text, blocks, engine, exec>>

ApplyOcr_SameNumber(r) ==   \* fault: the reviewed text takes the number of its base
  /\ ocr # None /\ ~Recorded(r)
  /\ head[ocr.src] = ocr.current
  /\ ocr.base \in Latest(ocr.src)
  /\ row' = [row EXCEPT ![r] = [src |-> ocr.src, no |-> row[ocr.base].no, kind |-> "reviewed"]]
  /\ state' = [state EXCEPT ![r] = "readable"]
  /\ head' = [head EXCEPT ![ocr.src] = r]
  /\ UNCHANGED <<error, calls, conflict, page, text, blocks, engine, exec, ocr>>

(* applyOcrJob: text.md and blocks.json under a new revision, then one batch.   *)
ApplyOcr(r) ==
  /\ ocr # None /\ ~Recorded(r)
  /\ head[ocr.src] = ocr.current
  /\ ocr.base \in Latest(ocr.src)
  /\ row' = [row EXCEPT ![r] = [src |-> ocr.src, no |-> row[ocr.base].no + 1, kind |-> "reviewed"]]
  /\ state' = [state EXCEPT ![r] = "readable"]
  /\ text' = [text EXCEPT ![r] = 1]
  /\ blocks' = [blocks EXCEPT ![r] = 1]
  /\ head' = [head EXCEPT ![ocr.src] = r]
  /\ Invalidate(IF ocr.current = None THEN ocr.base ELSE ocr.current)
  /\ ocr' = None
  /\ UNCHANGED <<error, calls, conflict, engine, exec>>

(* The guarded head update of saveAnswer and decideProposal: the inputs were    *)
(* frozen from readable revisions earlier, freshness is computed here.         *)
Publish(p) ==
  /\ \E from \in SUBSET {r \in Rev : Readable(r)} :
       page' = [page EXCEPT ![p] = [from |-> from, current |-> Fresh(from)]]
  /\ UNCHANGED <<row, state, error, calls, conflict, head, text, blocks, engine, exec, ocr>>

-----------------------------------------------------------------------------
ConvertStep(r, n) ==
  \/ ReadOriginal(r, n) \/ Claim(r, n) \/ Dispatch(r, n) \/ Converted(r, n)
  \/ PutText(r, n) \/ PutBlocks(r, n) \/ Stopped(r, n)

WorkflowStep(r) ==
  \/ Load(r) \/ BeginConvert(r) \/ StepFailed(r) \/ GiveUp(r) \/ EngineError(r)
  \/ \E n \in 1 .. MaxRuns : ConvertStep(r, n)

StorageStep(e) ==
  \/ ClearError(e) \/ RecordFailure(e) \/ CommitRead(e) \/ CommitBatch(e)
  \/ BatchLost(e) \/ CommitConfirm(e) \/ Abort(e)

Executes(r, e) == exec[e] # None /\ exec[e].rev = r

Next ==
  \/ \E r \in Rev : Record(r) \/ CreateInstance(r) \/ MarkUnavailable(r)
  \/ \E r \in Rev : WorkflowStep(r)
  \/ \E r \in Rev, e \in Exec : Attempt(r, e) \/ Reopen(r, e)
  \/ \E e \in Exec : StorageStep(e)
  \/ StartOcr
  \/ \E r \in Rev : ApplyOcr(r)
  \/ \E p \in Page : Publish(p)

Spec == Init /\ [][Next]_vars

(* The owner keeps opening a source that still needs recovery, storage code     *)
(* that runs ends, and D1 does not fail every attempt of a revision.           *)
Fairness ==
  /\ \A e \in Exec : WF_vars(StorageStep(e))
  /\ \A r \in Rev :
       /\ SF_vars(\E e \in Exec : Reopen(r, e))
       /\ SF_vars(\E e \in Exec : Executes(r, e) /\ (CommitRead(e) \/ RecordFailure(e)))
       /\ SF_vars(\E e \in Exec : Executes(r, e) /\ CommitBatch(e))
FairSpec == Spec /\ Fairness

-----------------------------------------------------------------------------
(* Publication is atomic with the terminal row: the head of a source is always  *)
(* its newest readable revision, in whatever order the Workflows of several     *)
(* revisions finish and however many executions of commitRevision overlap.      *)
HeadIsNewestReadable ==
  /\ \A s \in Source : head[s] # None => Readable(head[s]) /\ row[head[s]].src = s
  /\ \A r \in Rev : Readable(r) =>
       head[row[r].src] # None /\ row[head[row[r].src]].no >= row[r].no

(* A page shown as current was made only from heads: every head advance (commit,*)
(* OCR Apply) marks its dependents in the same batch, and a publication that    *)
(* races it computes freshness inside its own batch.                          *)
CurrentPagesUseHeads ==
  \A p \in Page : page[p] # None /\ page[p].current =>
    \A r \in page[p].from : Recorded(r) /\ head[row[r].src] = r

(* The paid converter is called at most once per revision, and never before     *)
(* conversion_calls says so, through any number of step executions.            *)
ConvertedOnce == \A r \in Rev : sent[r] <= 1 /\ sent[r] <= calls[r]

(* A readable row has both canonical objects, and they are the ones its cached  *)
(* result was computed from: a later execution never overwrites them.          *)
ReadableIsIntact ==
  \A r \in Rev : Readable(r) /\ row[r].kind # "reviewed" =>
    /\ output[r] # None /\ output[r].outcome = "readable"
    /\ text[r] # 0 /\ text[r] = output[r].text
    /\ blocks[r] # 0 /\ blocks[r] = output[r].blocks

(* A row that claims a conversion outcome holds the one result the Workflow     *)
(* cached; only 'storage_failure' is written without one.                     *)
RowIsTheResult ==
  \A r \in Rev : Recorded(r) /\ row[r].kind # "reviewed" /\ ~Writable(r) =>
    output[r] # None /\ HoldsResult(r)

(* A late or repeated commit, a storage failure recorded after a lost reply or  *)
(* a reader's cleanup never changes a terminal row, and recovery never returns  *)
(* a row to 'pending'.                                                        *)
TerminalIsFinal ==
  [][\A r \in Rev : /\ Recorded(r) /\ ~Writable(r) => UNCHANGED <<state[r], error[r], calls[r]>>
                    /\ state[r] # "pending" => state'[r] # "pending"]_vars

(* A conversion that the Workflow finished but could not store is not lost: its *)
(* cached result reaches the row and the head, however its own commit attempts   *)
(* failed and although 'storage_failure' was recorded meanwhile; the converter   *)
(* is not called again for it.  No revision stays 'pending' for ever once its     *)
(* Workflow has ended.                                                         *)
PendingIsResolved ==
  \A r \in Rev : /\ (wf[r] = "complete" /\ output[r] # None)
                    ~> (output[r] # None /\ Confirmed(r))
                 /\ wf[r] \in {"complete", "errored"} ~> state[r] # "pending"

(* What capture and its readers were promised. *)
Ledger == INSTANCE RevisionLedger WITH
  created <- {r \in Rev : wf[r] # "absent"},
  settled <- {r \in Rev : Recorded(r) /\ state[r] # "pending"},
  marked  <- {r \in Rev : error[r] = "status_unavailable"}
LedgerSpec == Ledger!Spec
=============================================================================
