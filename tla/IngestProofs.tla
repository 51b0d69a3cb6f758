----------------------------- MODULE IngestProofs -----------------------------
(***************************************************************************)
(* Proofs about Ingest, for any number of sources, revisions, pages,         *)
(* concurrent executions of the storage code and executions of the convert    *)
(* step.                                                                    *)
(***************************************************************************)
EXTENDS Ingest, TLAPS

(* The inductive invariant, part by part. *)

(* A Workflow belongs to a captured revision; nothing is known of the others.    *)
Started == \A r \in Rev : wf[r] # "absent" => Recorded(r) /\ row[r].kind # "reviewed"
Untouched == \A r \in Rev : ~Recorded(r) => state[r] = "pending" /\ error[r] = "none" /\ calls[r] = 0

(* Executions of the convert step. *)
Executions == \A r \in Rev, n \in 1 .. MaxRuns :
  /\ conv[r][n] # "none" => wf[r] # "absent"
  /\ conv[r][n] \in {"claim", "claimed", "dispatched"} => row[r].kind = "document"
  /\ conv[r][n] = "blocks" => text[r] = n

(* The claim is the right to one call of the converter. *)
Claims == \A r \in Rev :
  /\ sent[r] <= calls[r]
  /\ calls[r] # 0 => row[r].kind = "document"
  /\ \A n \in 1 .. MaxRuns : conv[r][n] = "claimed" =>
       /\ calls[r] = 1 /\ sent[r] = 0
       /\ \A m \in 1 .. MaxRuns : conv[r][m] = "claimed" => m = n

(* A cached result names objects that are there, and is cached once. *)
Outputs == \A r \in Rev :
  /\ wf[r] = "commit" => output[r] # None
  /\ output[r] # None =>
       /\ wf[r] \notin {"absent", "load", "convert"}
       /\ output[r].calls # 0 => row[r].kind = "document"
       /\ output[r].outcome = "readable" =>
            /\ output[r].calls = CallsMade(r)
            /\ text[r] # 0 /\ text[r] = output[r].text
            /\ blocks[r] # 0 /\ blocks[r] = output[r].blocks

(* Storage code runs for a started Workflow, and commits only a cached result.   *)
Jobs == \A e \in Exec : exec[e] # None =>
  /\ wf[exec[e].rev] # "absent"
  /\ exec[e].at \in {"read", "batch", "confirm"} => output[exec[e].rev] # None
  /\ exec[e].seen # 0 => row[exec[e].rev].kind = "document"

Numbered == \A r, l \in Rev :
  Recorded(r) /\ Recorded(l) /\ row[r].src = row[l].src /\ row[r].no = row[l].no => r = l

IInv == /\ TypeOK /\ Started /\ Untouched /\ Executions /\ Claims /\ Outputs /\ Jobs
        /\ Numbered /\ HeadIsNewestReadable /\ CurrentPagesUseHeads /\ RowIsTheResult

-----------------------------------------------------------------------------
(* Frames: what an action that leaves some variables alone keeps.              *)
D1Parts == Untouched /\ Numbered /\ HeadIsNewestReadable /\ CurrentPagesUseHeads

LEMMA D1Frame == D1Parts /\ UNCHANGED d1 => D1Parts'
BY DEF D1Parts, d1, Untouched, Numbered, HeadIsNewestReadable, CurrentPagesUseHeads,
       Recorded, Readable

LEMMA ResultFrame == RowIsTheResult /\ UNCHANGED <<d1, output>> => RowIsTheResult'
BY DEF RowIsTheResult, d1, Recorded, Writable, HoldsResult

(* Actions that only start, advance or end storage code. *)
LEMMA JobFrame ==
  ASSUME IInv, UNCHANGED <<d1, text, blocks, runs, conv, output, sent, ocr>>,
         \A r \in Rev : wf'[r] = wf[r] \/ (wf[r] # "absent" /\ wf'[r] = "complete"
                                                        /\ wf[r] \in {"commit", "record"}),
         TypeOK', Jobs'
  PROVE  IInv'
<1>1. D1Parts' /\ RowIsTheResult'
  BY D1Frame, ResultFrame DEF IInv, D1Parts
<1>2. Started' /\ Executions'
  BY DEF IInv, Started, Executions, Recorded, d1
<1>3. Claims' /\ Outputs'
  BY DEF IInv, Claims, Outputs, CallsMade, d1
<1> QED BY <1>1, <1>2, <1>3 DEF IInv, D1Parts

LEMMA ExecSet ==
  ASSUME TypeOK, NEW e \in Exec, NEW x \in Job \cup {None}, exec' = [exec EXCEPT ![e] = x],
         UNCHANGED <<d1, text, blocks, engine, ocr>>
  PROVE  TypeOK' /\ exec'[e] = x /\ \A f \in Exec \ {e} : exec'[f] = exec[f]
<1>1. exec' \in [Exec -> Job \cup {None}]
  BY DEF TypeOK
<1> QED BY <1>1 DEF TypeOK, d1, engine

LEMMA JobStep ==
  ASSUME IInv, NEW e \in Exec,
         \/ \E r \in Rev : Attempt(r, e) \/ Reopen(r, e)
         \/ CommitRead(e) \/ BatchLost(e) \/ CommitConfirm(e) \/ Abort(e)
  PROVE  IInv'
<1> USE DEF engine
<1>1. ASSUME NEW r \in Rev, Attempt(r, e) PROVE IInv'
  <2>1. PICK at \in {"read", "record"} :
          /\ wf[r] = "commit" \/ at = "record"
          /\ exec' = [exec EXCEPT ![e] = [rev |-> r, at |-> at, step |-> TRUE, seen |-> 0]]
    BY <1>1 DEF Attempt
  <2>2. TypeOK' /\ exec'[e] = [rev |-> r, at |-> at, step |-> TRUE, seen |-> 0]
        /\ \A f \in Exec \ {e} : exec'[f] = exec[f]
    <3>1. [rev |-> r, at |-> at, step |-> TRUE, seen |-> 0] \in Job \cup {None}
      BY DEF Job
    <3> QED BY <1>1, <2>1, <3>1, ExecSet DEF Attempt, IInv
  <2>3. Jobs'
    BY <1>1, <2>1, <2>2 DEF Attempt, IInv, Jobs, Outputs, d1
  <2> QED BY <1>1, <2>2, <2>3, JobFrame DEF Attempt
<1>2. ASSUME NEW r \in Rev, Reopen(r, e) PROVE IInv'
  <2>1. PICK at \in {"clear", "read", "record"} :
          /\ at = "read" => output[r] # None
          /\ exec' = [exec EXCEPT ![e] = [rev |-> r, step |-> FALSE, seen |-> 0, at |-> at]]
    BY <1>2 DEF Reopen
  <2>2. TypeOK' /\ exec'[e] = [rev |-> r, step |-> FALSE, seen |-> 0, at |-> at]
        /\ \A f \in Exec \ {e} : exec'[f] = exec[f]
    <3>1. [rev |-> r, step |-> FALSE, seen |-> 0, at |-> at] \in Job \cup {None}
      BY DEF Job
    <3> QED BY <1>2, <2>1, <3>1, ExecSet DEF Reopen, IInv
  <2>3. Jobs'
    BY <1>2, <2>1, <2>2 DEF Reopen, IInv, Jobs, d1
  <2> QED BY <1>2, <2>2, <2>3, JobFrame DEF Reopen
<1>3. ASSUME CommitRead(e) PROVE IInv'
  <2> DEFINE j == exec[e]
  <2>1. j \in Job /\ j.at = "read"
    BY <1>3 DEF CommitRead, IInv, TypeOK
  <2>2. PICK x \in {None, [j EXCEPT !.at = "batch", !.seen = calls[j.rev]]} : exec' = [exec EXCEPT ![e] = x]
    BY <1>3 DEF CommitRead
  <2>3. [j EXCEPT !.at = "batch", !.seen = calls[j.rev]] \in Job
    BY <2>1 DEF IInv, TypeOK, Job
  <2>4. TypeOK' /\ exec'[e] = x /\ \A f \in Exec \ {e} : exec'[f] = exec[f]
    BY <1>3, <2>2, <2>3, ExecSet DEF CommitRead, IInv
  <2>5. x # None => x.rev = j.rev /\ x.seen = calls[j.rev] /\ output[j.rev] # None
          /\ j.rev \in Rev /\ wf[j.rev] # "absent" /\ (calls[j.rev] # 0 => row[j.rev].kind = "document")
    BY <1>3, <2>1, <2>2 DEF Job, IInv, Jobs, Claims, CommitRead
  <2>6. UNCHANGED <<row, wf, output>> /\ Jobs
    BY <1>3 DEF CommitRead, IInv, d1
  <2>7. ASSUME NEW f \in Exec \ {e}, exec'[f] # None
        PROVE  /\ wf'[exec'[f].rev] # "absent"
               /\ exec'[f].at \in {"read", "batch", "confirm"} => output'[exec'[f].rev] # None
               /\ exec'[f].seen # 0 => row'[exec'[f].rev].kind = "document"
    BY <2>4, <2>6, <2>7 DEF Jobs
  <2>8. ASSUME exec'[e] # None
        PROVE  /\ wf'[exec'[e].rev] # "absent"
               /\ output'[exec'[e].rev] # None
               /\ exec'[e].seen # 0 => row'[exec'[e].rev].kind = "document"
    <3>1. x # None /\ exec'[e] = x
      BY <2>4, <2>8
    <3>2. x.rev = j.rev /\ x.seen = calls[j.rev] /\ output[j.rev] # None
          /\ wf[j.rev] # "absent" /\ (calls[j.rev] # 0 => row[j.rev].kind = "document")
      BY <2>5, <3>1
    <3> HIDE DEF j
    <3> QED BY <2>6, <3>1, <3>2
  <2>9. Jobs'
    BY <2>7, <2>8 DEF Jobs
  <2> QED BY <1>3, <2>4, <2>9, JobFrame DEF CommitRead
<1>4. ASSUME BatchLost(e) PROVE IInv'
  <2>1. exec[e] \in Job
    BY <1>4 DEF BatchLost, IInv, TypeOK
  <2>2. TypeOK' /\ exec'[e] = [exec[e] EXCEPT !.at = "confirm"]
        /\ \A f \in Exec \ {e} : exec'[f] = exec[f]
    <3>1. [exec[e] EXCEPT !.at = "confirm"] \in Job
      BY <2>1 DEF Job
    <3> QED BY <1>4, <3>1, ExecSet DEF BatchLost, IInv
  <2>3. Jobs'
    BY <1>4, <2>1, <2>2 DEF BatchLost, IInv, Jobs, Job, d1
  <2> QED BY <1>4, <2>2, <2>3, JobFrame DEF BatchLost
<1>5. ASSUME Abort(e) \/ CommitConfirm(e) PROVE IInv'
  <2>1. exec' = [exec EXCEPT ![e] = None] /\ exec[e] \in Job
        /\ UNCHANGED <<d1, text, blocks, runs, conv, output, sent, ocr>>
    BY <1>5 DEF Abort, CommitConfirm, End, IInv, TypeOK
  <2>2. wf' = wf \/ (wf[exec[e].rev] = "commit" /\ wf' = [wf EXCEPT ![exec[e].rev] = "complete"])
    BY <1>5 DEF Abort, CommitConfirm, AdvanceTo
  <2>3. wf' \in [Rev -> WfState]
    <3>1. wf \in [Rev -> WfState] /\ "complete" \in WfState
      BY DEF IInv, TypeOK, WfState
    <3> QED BY <2>2, <3>1
  <2>4. TypeOK'
    BY <2>1, <2>3 DEF IInv, TypeOK, d1
  <2>5. \A r \in Rev : wf'[r] = wf[r] \/ (wf[r] = "commit" /\ wf'[r] = "complete")
    BY <2>2 DEF IInv, TypeOK
  <2>6. Jobs'
    BY <2>1, <2>5 DEF IInv, Jobs, TypeOK, Job, d1
  <2> QED BY <2>1, <2>4, <2>5, <2>6, JobFrame
<1> QED BY <1>1, <1>2, <1>3, <1>4, <1>5

-----------------------------------------------------------------------------
(* Executions of the convert step.  An action moves one execution to `stage`,    *)
(* may add an object under a free key, and may deliver the cached result.      *)
Grows == \A l \in Rev : /\ text[l] # 0 => text'[l] = text[l]
                        /\ blocks[l] # 0 => blocks'[l] = blocks[l]
Sound(r, x) ==
  /\ x.calls # 0 => row[r].kind = "document"
  /\ x.outcome = "readable" => /\ x.calls = CallsMade(r)
                               /\ text'[r] # 0 /\ text'[r] = x.text
                               /\ blocks'[r] # 0 /\ blocks'[r] = x.blocks
Delivers(r) ==
  \/ UNCHANGED <<wf, output>>
  \/ /\ wf[r] = "convert" /\ wf' = [wf EXCEPT ![r] = "commit"]
     /\ \E x \in Stored : Sound(r, x) /\ output' = [output EXCEPT ![r] = x]

Moves(r, n, stage) ==
  /\ conv[r][n] \notin {"none", "done"}
  /\ conv' = [conv EXCEPT ![r][n] = stage]
  /\ UNCHANGED <<row, state, error, conflict, head, page, runs, exec, ocr>>
  /\ calls' = calls \/ (state[r] = "pending" /\ calls' = [calls EXCEPT ![r] = 1])
  /\ text' \in [Rev -> 0 .. MaxRuns] /\ blocks' \in [Rev -> 0 .. MaxRuns] /\ Grows
  /\ sent' \in [Rev -> Nat] /\ Claims'
  /\ stage \in {"claim", "claimed", "dispatched"} => row[r].kind = "document"
  /\ stage = "blocks" => text'[r] = n
  /\ Delivers(r)

LEMMA ConvertFrame ==
  ASSUME IInv, NEW r \in Rev, NEW n \in 1 .. MaxRuns, NEW stage \in Stage, Moves(r, n, stage)
  PROVE  IInv'
<1>1. wf[r] # "absent" /\ Recorded(r) /\ row[r].kind # "reviewed"
  BY DEF IInv, Executions, Started, Moves
<1>2. /\ wf \in [Rev -> WfState] /\ output \in [Rev -> Stored \cup {None}]
      /\ calls \in [Rev -> 0 .. 1] /\ conv \in [Rev -> [1 .. MaxRuns -> Stage]]
      /\ exec \in [Exec -> Job \cup {None}]
  BY DEF IInv, TypeOK
<1>3. PICK x \in Stored :
        \/ UNCHANGED <<wf, output>>
        \/ /\ wf[r] = "convert" /\ wf' = [wf EXCEPT ![r] = "commit"]
           /\ Sound(r, x) /\ output' = [output EXCEPT ![r] = x]
  <2>1. [outcome |-> "failed", calls |-> 0, text |-> 0, blocks |-> 0] \in Stored
    BY RunsAssumption DEF Stored
  <2> QED BY <2>1 DEF Moves, Delivers
<1>4. \/ UNCHANGED <<wf, output>>
      \/ /\ wf[r] = "convert" /\ wf'[r] = "commit" /\ Sound(r, x) /\ output'[r] = x /\ x # None
         /\ output[r] = None
         /\ \A l \in Rev \ {r} : wf'[l] = wf[l] /\ output'[l] = output[l]
  BY <1>2, <1>3, NoneAssumption DEF IInv, Outputs
<1>5. /\ wf' \in [Rev -> WfState] /\ output' \in [Rev -> Stored \cup {None}]
      /\ calls' \in [Rev -> 0 .. 1] /\ conv' \in [Rev -> [1 .. MaxRuns -> Stage]]
  <2>1. wf' \in [Rev -> WfState] /\ output' \in [Rev -> Stored \cup {None}]
    <3>1. CASE UNCHANGED <<wf, output>>
      BY <1>2, <3>1
    <3>2. CASE wf' = [wf EXCEPT ![r] = "commit"] /\ output' = [output EXCEPT ![r] = x]
      BY <1>2, <3>2 DEF WfState, Active
    <3> QED BY <1>3, <3>1, <3>2
  <2>2. calls' \in [Rev -> 0 .. 1]
    <3>1. calls' = calls \/ calls' = [calls EXCEPT ![r] = 1]
      BY DEF Moves
    <3> QED BY <1>2, <3>1
  <2>3. conv' \in [Rev -> [1 .. MaxRuns -> Stage]]
    BY <1>2 DEF Moves
  <2> QED BY <2>1, <2>2, <2>3
<1>6. TypeOK'
  BY <1>5 DEF IInv, TypeOK, Moves
<1>7. Untouched'
  BY <1>1, <1>2 DEF IInv, Untouched, Recorded, Moves
<1>8. Numbered' /\ HeadIsNewestReadable' /\ CurrentPagesUseHeads'
  BY DEF IInv, Numbered, HeadIsNewestReadable, CurrentPagesUseHeads, Recorded, Readable, Moves
<1>9. \A l \in Rev : /\ wf'[l] = "absent" <=> wf[l] = "absent"
                     /\ output[l] # None => output'[l] = output[l]
  BY <1>4
<1>10. Started'
  BY <1>9 DEF IInv, Started, Recorded, Moves
<1>11. Jobs'
  BY <1>2, <1>9 DEF IInv, Jobs, Job, Moves
<1>12. Executions'
  <2>1. /\ conv'[r][n] = stage
        /\ \A l \in Rev, m \in 1 .. MaxRuns : conv'[l][m] = conv[l][m] \/ (l = r /\ m = n)
    BY <1>2 DEF Moves
  <2>2. \A l \in Rev, m \in 1 .. MaxRuns : text[l] = m => text'[l] = m
    BY DEF Moves, Grows
  <2>3. /\ stage \in {"claim", "claimed", "dispatched"} => row[r].kind = "document"
        /\ stage = "blocks" => text'[r] = n
        /\ row' = row
    BY DEF Moves
  <2> QED BY <1>1, <1>9, <2>1, <2>2, <2>3 DEF IInv, Executions
<1>13. Outputs'
  <2>1. row' = row /\ Grows
    BY DEF Moves
  <2>2. CASE UNCHANGED <<wf, output>>
    BY <2>1, <2>2 DEF IInv, Outputs, Grows, CallsMade
  <2>3. CASE ~UNCHANGED <<wf, output>>
    BY <1>4, <2>1, <2>3 DEF IInv, Outputs, Grows, CallsMade, Sound
  <2> QED BY <2>2, <2>3
<1>14. RowIsTheResult'
  <2>1. \A l \in Rev : calls'[l] = calls[l] \/ (l = r /\ state[r] = "pending")
    BY <1>2 DEF Moves
  <2>2. UNCHANGED <<row, state, error>>
    BY DEF Moves
  <2> QED BY <1>9, <2>1, <2>2 DEF IInv, RowIsTheResult, Recorded, Writable, HoldsResult
<1> QED BY <1>6, <1>7, <1>8, <1>10, <1>11, <1>12, <1>13, <1>14 DEF IInv, Moves

(* An execution that returns delivers a sound result or nothing. *)
LEMMA ResultDelivers ==
  ASSUME TypeOK, NEW r \in Rev, NEW n \in 1 .. MaxRuns,
         NEW o \in {"readable", "needs_conversion", "failed"}, NEW c \in 0 .. 1,
         NEW w \in 0 .. MaxRuns, Result(r, n, o, c, w),
         Sound(r, [outcome |-> o, calls |-> c, text |-> w, blocks |-> w])
  PROVE  Delivers(r) /\ conv' = [conv EXCEPT ![r][n] = "done"]
<1>1. [outcome |-> o, calls |-> c, text |-> w, blocks |-> w] \in Stored
  BY DEF Stored
<1> QED BY <1>1 DEF Result, Delivers, AdvanceTo

LEMMA ClaimsKept ==
  ASSUME IInv, NEW r \in Rev, NEW n \in 1 .. MaxRuns, NEW stage \in Stage \ {"claimed"},
         conv' = [conv EXCEPT ![r][n] = stage], UNCHANGED <<row, calls, sent>>
  PROVE  Claims'
<1>1. \A l \in Rev, m \in 1 .. MaxRuns : conv'[l][m] = "claimed" => conv[l][m] = "claimed"
  BY DEF IInv, TypeOK
<1> QED BY <1>1 DEF IInv, Claims

LEMMA ConvertStepKeeps ==
  ASSUME IInv, NEW r \in Rev, NEW n \in 1 .. MaxRuns, ConvertStep(r, n)
  PROVE  IInv'
<1>0. /\ text \in [Rev -> 0 .. MaxRuns] /\ blocks \in [Rev -> 0 .. MaxRuns]
      /\ sent \in [Rev -> Nat] /\ calls \in [Rev -> 0 .. 1]
      /\ conv \in [Rev -> [1 .. MaxRuns -> Stage]] /\ TypeOK /\ n \in 0 .. MaxRuns /\ n # 0
      /\ {"text", "claim", "claimed", "dispatched", "blocks", "done"} \subseteq Stage
  BY RunsAssumption DEF IInv, TypeOK, Stage
<1>1. ASSUME UNCHANGED <<d1, text, blocks, runs, sent, exec, ocr>>,
             conv[r][n] \notin {"none", "done"},
             NEW stage \in Stage \ {"claimed", "blocks"}, ConvertTo(r, n, stage),
             stage \in {"claim", "dispatched"} => row[r].kind = "document"
      PROVE  IInv'
  <2>1. Claims'
    BY <1>1, ClaimsKept DEF ConvertTo, d1
  <2>2. Moves(r, n, stage)
    BY <1>0, <1>1, <2>1 DEF Moves, ConvertTo, Delivers, Grows, d1
  <2> QED BY <2>2, ConvertFrame
<1>2. ASSUME UNCHANGED <<d1, runs, sent, exec, ocr>>, conv[r][n] \notin {"none", "done"},
             NEW o \in {"readable", "needs_conversion", "failed"}, NEW c \in 0 .. 1,
             NEW w \in 0 .. MaxRuns, Result(r, n, o, c, w),
             Sound(r, [outcome |-> o, calls |-> c, text |-> w, blocks |-> w]),
             text' \in [Rev -> 0 .. MaxRuns], blocks' \in [Rev -> 0 .. MaxRuns], Grows
      PROVE  IInv'
  <2>1. Delivers(r) /\ conv' = [conv EXCEPT ![r][n] = "done"]
    BY <1>0, <1>2, ResultDelivers
  <2>2. Claims'
    BY <1>0, <1>2, <2>1, ClaimsKept DEF d1
  <2>3. Moves(r, n, "done")
    BY <1>0, <1>2, <2>1, <2>2 DEF Moves, d1
  <2> QED BY <1>0, <2>3, ConvertFrame
<1>3. ASSUME UNCHANGED <<d1, runs, sent, exec, ocr>>, conv[r][n] \notin {"none", "done"},
             NEW o \in {"needs_conversion", "failed"}, NEW c \in 0 .. 1,
             c # 0 => row[r].kind = "document", Result(r, n, o, c, 0),
             text' \in [Rev -> 0 .. MaxRuns], blocks' \in [Rev -> 0 .. MaxRuns], Grows
      PROVE  IInv'
  <2>1. Sound(r, [outcome |-> o, calls |-> c, text |-> 0, blocks |-> 0])
    BY <1>3 DEF Sound
  <2>2. 0 \in 0 .. MaxRuns /\ o \in {"readable", "needs_conversion", "failed"}
    BY RunsAssumption
  <2> QED BY <1>2, <1>3, <2>1, <2>2
<1>4. UNCHANGED <<text, blocks>> =>
        text' \in [Rev -> 0 .. MaxRuns] /\ blocks' \in [Rev -> 0 .. MaxRuns] /\ Grows
  BY <1>0 DEF Grows
<1>5. CASE ReadOriginal(r, n)
  <2>1. UNCHANGED <<d1, text, blocks, runs, sent, exec, ocr>> /\ conv[r][n] = "begin"
    BY <1>5 DEF ReadOriginal, At
  <2>2. CASE \E o \in {"failed", "needs_conversion"} : Result(r, n, o, 0, 0)
    <3>1. PICK o \in {"failed", "needs_conversion"} : Result(r, n, o, 0, 0)
      BY <2>2
    <3>2. 0 \in 0 .. 1 /\ o \in {"needs_conversion", "failed"} /\ conv[r][n] \notin {"none", "done"}
      BY <2>1
    <3> QED BY <1>3, <1>4, <2>1, <3>1, <3>2
  <2>3. CASE ConvertTo(r, n, "text")
    BY <1>0, <1>1, <2>1, <2>3
  <2>4. CASE row[r].kind = "document" /\ ConvertTo(r, n, "claim")
    BY <1>0, <1>1, <2>1, <2>4
  <2> QED BY <1>5, <2>2, <2>3, <2>4 DEF ReadOriginal
<1>6. CASE Claim(r, n)
  <2>1. /\ UNCHANGED <<row, state, error, conflict, head, page, text, blocks, runs, sent, exec, ocr>>
        /\ conv[r][n] = "claim" /\ row[r].kind = "document"
    BY <1>6 DEF Claim, At, IInv, Executions
  <2>2. CASE UNCHANGED calls /\ Result(r, n, "failed", 0, 0)
    <3>1. 0 \in 0 .. 1 /\ conv[r][n] \notin {"none", "done"}
          /\ UNCHANGED <<d1, text, blocks, runs, sent, exec, ocr>>
      BY <2>1, <2>2 DEF d1
    <3> QED BY <1>3, <1>4, <2>2, <3>1
  <2>3. CASE CanClaim(r) /\ calls' = [calls EXCEPT ![r] = 1] /\ ConvertTo(r, n, "claimed")
    <3>1. calls[r] = 0 /\ state[r] = "pending"
      BY <2>3 DEF CanClaim
    <3>2. sent[r] = 0 /\ \A m \in 1 .. MaxRuns : conv[r][m] # "claimed"
      BY <1>0, <3>1 DEF IInv, Claims
    <3>3. conv' = [conv EXCEPT ![r][n] = "claimed"]
      BY <2>3 DEF ConvertTo
    <3>4. \A m \in 1 .. MaxRuns : conv'[r][m] = "claimed" => m = n
      BY <1>0, <3>2, <3>3
    <3>5. \A l \in Rev \ {r} : conv'[l] = conv[l] /\ calls'[l] = calls[l]
      BY <1>0, <2>3, <3>3
    <3>6. calls'[r] = 1
      BY <1>0, <2>3
    <3>7. Claims'
      BY <2>1, <3>2, <3>4, <3>5, <3>6 DEF IInv, Claims
    <3>8. Moves(r, n, "claimed")
      BY <1>0, <1>4, <2>1, <2>3, <3>1, <3>3, <3>7 DEF Moves, ConvertTo, Delivers
    <3> QED BY <1>0, <3>8, ConvertFrame
  <2>4. CASE CanClaim(r) /\ calls' = [calls EXCEPT ![r] = 1] /\ Result(r, n, "failed", 0, 0)
    <3>1. calls[r] = 0 /\ state[r] = "pending"
      BY <2>4 DEF CanClaim
    <3>2. sent[r] = 0 /\ \A m \in 1 .. MaxRuns : conv[r][m] # "claimed"
      BY <1>0, <3>1 DEF IInv, Claims
    <3>3. Delivers(r) /\ conv' = [conv EXCEPT ![r][n] = "done"]
      <4>1. Sound(r, [outcome |-> "failed", calls |-> 0, text |-> 0, blocks |-> 0])
        BY DEF Sound
      <4>2. 0 \in 0 .. 1 /\ 0 \in 0 .. MaxRuns
        BY RunsAssumption
      <4> QED BY <1>0, <2>4, <4>1, <4>2, ResultDelivers
    <3>4. \A m \in 1 .. MaxRuns : conv'[r][m] # "claimed"
      BY <1>0, <3>2, <3>3
    <3>5. \A l \in Rev \ {r} : conv'[l] = conv[l] /\ calls'[l] = calls[l]
      BY <1>0, <2>4, <3>3
    <3>6. calls'[r] = 1
      BY <1>0, <2>4
    <3>7. Claims'
      BY <2>1, <3>2, <3>4, <3>5, <3>6 DEF IInv, Claims
    <3>8. Moves(r, n, "done")
      BY <1>0, <1>4, <2>1, <2>4, <3>1, <3>3, <3>7 DEF Moves
    <3> QED BY <1>0, <3>8, ConvertFrame
  <2> QED BY <1>6, <2>2, <2>3, <2>4 DEF Claim
<1>7. CASE Dispatch(r, n)
  <2>1. /\ UNCHANGED <<d1, text, blocks, runs, exec, ocr>> /\ conv[r][n] = "claimed"
        /\ sent' = [sent EXCEPT ![r] = @ + 1] /\ ConvertTo(r, n, "dispatched")
    BY <1>7 DEF Dispatch, At
  <2>2. /\ calls[r] = 1 /\ sent[r] = 0 /\ row[r].kind = "document"
        /\ \A m \in 1 .. MaxRuns : conv[r][m] = "claimed" => m = n
    BY <2>1 DEF IInv, Claims, Executions
  <2>3. conv' = [conv EXCEPT ![r][n] = "dispatched"]
    BY <2>1 DEF ConvertTo
  <2>4. \A m \in 1 .. MaxRuns : conv'[r][m] # "claimed"
    BY <1>0, <2>2, <2>3
  <2>5. \A l \in Rev \ {r} : conv'[l] = conv[l] /\ sent'[l] = sent[l]
    BY <1>0, <2>1, <2>3
  <2>6. sent'[r] = 1 /\ sent' \in [Rev -> Nat]
    BY <1>0, <2>1, <2>2
  <2>7. UNCHANGED <<row, calls>>
    BY <2>1 DEF d1
  <2>8. Claims'
    BY <2>2, <2>4, <2>5, <2>6, <2>7 DEF IInv, Claims
  <2>9. Moves(r, n, "dispatched")
    BY <1>4, <2>1, <2>2, <2>3, <2>6, <2>8 DEF Moves, ConvertTo, Delivers, d1
  <2> QED BY <1>0, <2>9, ConvertFrame
<1>8. CASE Converted(r, n)
  <2>1. /\ UNCHANGED <<d1, text, blocks, runs, sent, exec, ocr>> /\ conv[r][n] = "dispatched"
        /\ row[r].kind = "document"
    BY <1>8 DEF Converted, At, IInv, Executions
  <2>2. CASE \E o \in {"failed", "needs_conversion"} : Result(r, n, o, 1, 0)
    <3>1. PICK o \in {"failed", "needs_conversion"} : Result(r, n, o, 1, 0)
      BY <2>2
    <3>2. 1 \in 0 .. 1 /\ o \in {"needs_conversion", "failed"} /\ conv[r][n] \notin {"none", "done"}
      BY <2>1
    <3> QED BY <1>3, <1>4, <2>1, <3>1, <3>2
  <2>3. CASE ConvertTo(r, n, "text")
    BY <1>0, <1>1, <2>1, <2>3
  <2> QED BY <1>8, <2>2, <2>3 DEF Converted
<1>9. CallsMade(r) \in 0 .. 1 /\ (CallsMade(r) # 0 => row[r].kind = "document")
  BY DEF CallsMade
<1>10. CASE PutText(r, n)
  <2>1. UNCHANGED <<d1, blocks, runs, sent, exec, ocr>> /\ conv[r][n] = "text"
    BY <1>10 DEF PutText, At
  <2>2. text' = text \/ (text[r] = 0 /\ text' = [text EXCEPT ![r] = n])
    BY <1>0, <1>10 DEF PutText, PutOnce
  <2>3. text' \in [Rev -> 0 .. MaxRuns] /\ blocks' \in [Rev -> 0 .. MaxRuns] /\ Grows
    BY <1>0, <2>1, <2>2 DEF Grows
  <2>4. CASE Result(r, n, "failed", CallsMade(r), 0)
    BY <1>3, <1>9, <2>1, <2>3, <2>4
  <2>5. CASE text' # text /\ ConvertTo(r, n, "blocks")
    <3>1. text'[r] = n
      BY <1>0, <2>2, <2>5
    <3>2. Claims'
      <4>1. conv' = [conv EXCEPT ![r][n] = "blocks"] /\ UNCHANGED <<row, calls, sent>>
        BY <2>1, <2>5 DEF ConvertTo, d1
      <4> QED BY <1>0, <4>1, ClaimsKept
    <3>3. Moves(r, n, "blocks")
      BY <1>0, <2>1, <2>3, <2>5, <3>1, <3>2 DEF Moves, ConvertTo, Delivers, d1
    <3> QED BY <1>0, <3>3, ConvertFrame
  <2> QED BY <1>10, <2>4, <2>5 DEF PutText
<1>11. CASE PutBlocks(r, n)
  <2>1. /\ UNCHANGED <<d1, text, runs, sent, exec, ocr>> /\ conv[r][n] = "blocks"
        /\ text[r] = n
    BY <1>11 DEF PutBlocks, At, IInv, Executions
  <2>2. blocks' = blocks \/ (blocks[r] = 0 /\ blocks' = [blocks EXCEPT ![r] = n])
    BY <1>0, <1>11 DEF PutBlocks, PutOnce
  <2>3. text' \in [Rev -> 0 .. MaxRuns] /\ blocks' \in [Rev -> 0 .. MaxRuns] /\ Grows
    BY <1>0, <2>1, <2>2 DEF Grows
  <2>4. CASE Result(r, n, "failed", CallsMade(r), 0)
    BY <1>3, <1>9, <2>1, <2>3, <2>4
  <2>5. CASE blocks' # blocks /\ Result(r, n, "readable", CallsMade(r), n)
    <3>1. blocks'[r] = n
      BY <1>0, <2>2, <2>5
    <3>2. Sound(r, [outcome |-> "readable", calls |-> CallsMade(r), text |-> n, blocks |-> n])
      BY <1>0, <1>9, <2>1, <3>1 DEF Sound
    <3> QED BY <1>0, <1>2, <1>9, <2>1, <2>3, <2>5, <3>2
  <2> QED BY <1>11, <2>4, <2>5 DEF PutBlocks
<1>12. CASE Stopped(r, n)
  BY <1>0, <1>1, <1>12 DEF Stopped
<1> QED BY <1>5, <1>6, <1>7, <1>8, <1>10, <1>11, <1>12 DEF ConvertStep

-----------------------------------------------------------------------------
(* The instance is created, advances or ends. *)
LEMMA EngineStep ==
  ASSUME IInv, NEW r \in Rev,
         CreateInstance(r) \/ Load(r) \/ StepFailed(r) \/ GiveUp(r) \/ EngineError(r)
  PROVE  IInv'
<1>1. /\ UNCHANGED <<d1, text, blocks, runs, conv, output, sent, exec, ocr>>
      /\ Recorded(r) /\ row[r].kind # "reviewed"
  BY DEF CreateInstance, Load, StepFailed, GiveUp, EngineError, IInv, Started, Active
<1>2. PICK l \in {"load", "convert", "record", "complete", "errored"} :
        /\ wf' = [wf EXCEPT ![r] = l]
        /\ l \in {"load", "convert"} => wf[r] \in {"absent", "load"}
  BY DEF CreateInstance, Load, StepFailed, GiveUp, EngineError, AdvanceTo
<1>3. wf \in [Rev -> WfState] /\ l \in WfState
  BY DEF IInv, TypeOK, WfState, Active
<1>4. wf' \in [Rev -> WfState] /\ wf'[r] = l /\ \A s \in Rev \ {r} : wf'[s] = wf[s]
  BY <1>2, <1>3
<1>5. TypeOK'
  BY <1>1, <1>4 DEF IInv, TypeOK, d1
<1>6. D1Parts' /\ RowIsTheResult'
  BY <1>1, D1Frame, ResultFrame DEF IInv, D1Parts
<1>7. \A s \in Rev : wf[s] # "absent" => wf'[s] # "absent"
  BY <1>4
<1>8. Started'
  BY <1>1, <1>4 DEF IInv, Started, Recorded, d1
<1>9. Executions'
  BY <1>1, <1>7 DEF IInv, Executions, d1
<1>10. Claims'
  BY <1>1 DEF IInv, Claims, d1
<1>11. Outputs'
  BY <1>1, <1>2, <1>4 DEF IInv, Outputs, CallsMade, d1
<1>12. Jobs'
  BY <1>1, <1>7 DEF IInv, Jobs, TypeOK, Job, d1
<1> QED BY <1>5, <1>6, <1>8, <1>9, <1>10, <1>11, <1>12 DEF IInv, D1Parts

LEMMA BeginConvertStep ==
  ASSUME IInv, NEW r \in Rev, BeginConvert(r)
  PROVE  IInv'
<1> DEFINE n == runs[r] + 1
<1>1. /\ UNCHANGED <<d1, text, blocks, wf, output, sent, exec, ocr>> /\ wf[r] = "convert"
      /\ runs' = [runs EXCEPT ![r] = n] /\ runs[r] < MaxRuns
      /\ conv' = [conv EXCEPT ![r][runs'[r]] = "begin"]
  BY DEF BeginConvert
<1>2. runs \in [Rev -> 0 .. MaxRuns] /\ conv \in [Rev -> [1 .. MaxRuns -> Stage]] /\ "begin" \in Stage
  BY DEF IInv, TypeOK, Stage
<1>3. n \in 1 .. MaxRuns /\ runs'[r] = n /\ runs' \in [Rev -> 0 .. MaxRuns]
  BY <1>1, <1>2, RunsAssumption
<1>4. conv' \in [Rev -> [1 .. MaxRuns -> Stage]]
      /\ \A l \in Rev, m \in 1 .. MaxRuns :
            conv'[l][m] = conv[l][m] \/ (l = r /\ conv'[l][m] = "begin")
  BY <1>1, <1>2, <1>3
<1>5. TypeOK'
  BY <1>1, <1>3, <1>4 DEF IInv, TypeOK, d1
<1>6. D1Parts' /\ RowIsTheResult'
  BY <1>1, D1Frame, ResultFrame DEF IInv, D1Parts
<1>7. Started' /\ Outputs' /\ Jobs'
  BY <1>1 DEF IInv, Started, Recorded, Outputs, CallsMade, Jobs, d1
<1>8. Executions'
  BY <1>1, <1>4 DEF IInv, Executions, d1
<1>9. Claims'
  BY <1>1, <1>4 DEF IInv, Claims, d1
<1> QED BY <1>5, <1>6, <1>7, <1>8, <1>9 DEF IInv, D1Parts

-----------------------------------------------------------------------------
(* Rows. *)
LEMMA RecordStep ==
  ASSUME IInv, NEW r \in Rev, Record(r)
  PROVE  IInv'
<1>0. PICK s \in Source, k \in Kind : \E n \in NextNos(s) :
        row' = [row EXCEPT ![r] = [src |-> s, no |-> n, kind |-> k]]
  BY DEF Record
<1>1. PICK n \in NextNos(s) : row' = [row EXCEPT ![r] = [src |-> s, no |-> n, kind |-> k]]
  BY <1>0
<1>2. /\ UNCHANGED <<state, error, calls, conflict, head, page, text, blocks, engine, exec, ocr>>
      /\ ~Recorded(r)
  BY DEF Record
<1>3. row \in [Rev -> Row \cup {None}]
  BY DEF IInv, TypeOK
<1>4. n \in Nat \ {0} /\ \A l \in RevsOf(s) : row[l].no < n
  BY <1>1, <1>3 DEF NextNos, Latest, RevsOf, Recorded, Row
<1>5. [src |-> s, no |-> n, kind |-> k] \in Row
  BY <1>4 DEF Row
<1>6. /\ row' \in [Rev -> Row \cup {None}] /\ row'[r] # None
      /\ row'[r].src = s /\ row'[r].no = n
      /\ \A l \in Rev \ {r} : row'[l] = row[l]
  BY <1>1, <1>3, <1>5, NoneAssumption
<1>7. wf[r] = "absent" /\ state[r] = "pending" /\ calls[r] = 0
  BY <1>2 DEF IInv, Started, Untouched
<1>8. \A l \in Rev : wf[l] # "absent" => l # r /\ Recorded(l)
  BY <1>2 DEF IInv, Started
<1>9. TypeOK'
  BY <1>2, <1>6 DEF IInv, TypeOK, engine
<1>10. Started' /\ Untouched'
  BY <1>2, <1>6, <1>8 DEF IInv, Started, Untouched, Recorded, engine
<1>11. Executions'
  BY <1>2, <1>6, <1>8 DEF IInv, Executions, engine
<1>12. Claims'
  <2>1. \A l \in Rev, m \in 1 .. MaxRuns : conv[l][m] = "claimed" => l # r
    BY <1>8 DEF IInv, Executions
  <2> QED BY <1>2, <1>6, <1>7, <2>1 DEF IInv, Claims, engine
<1>13. Outputs'
  <2>1. output[r] = None
    BY <1>7 DEF IInv, Outputs
  <2> QED BY <1>2, <1>6, <2>1 DEF IInv, Outputs, CallsMade, engine
<1>14. Jobs'
  BY <1>2, <1>6, <1>8 DEF IInv, Jobs, TypeOK, Job, engine
<1>15. Numbered'
  <2>1. \A l \in Rev \ {r} : row[l] # None /\ row[l].src = s => row[l].no < n /\ row[l].no # n
    BY <1>3, <1>4 DEF RevsOf, Recorded, Row
  <2> QED BY <1>6, <2>1 DEF IInv, Numbered, Recorded
<1>16. \A l \in Rev : Readable(l) => l # r
  BY <1>2 DEF Readable
<1>17. HeadIsNewestReadable'
  <2>1. \A l \in Rev : row'[l] # None /\ state'[l] = "readable" <=> Readable(l)
    BY <1>2, <1>6, <1>7 DEF Readable, Recorded
  <2>2. \A l \in Rev : Readable(l) => row'[l] = row[l]
    BY <1>6, <1>16
  <2>3. \A t \in Source : head[t] # None => head[t] \in Rev
    BY DEF IInv, TypeOK
  <2>4. \A l \in Rev : Readable(l) => row[l].src \in Source
    BY <1>3 DEF Readable, Recorded, Row
  <2> QED BY <1>2, <2>1, <2>2, <2>3, <2>4 DEF IInv, HeadIsNewestReadable, Readable, Recorded
<1>18. CurrentPagesUseHeads'
  BY <1>2, <1>6 DEF IInv, CurrentPagesUseHeads, Recorded, TypeOK, AcceptedPage
<1>19. RowIsTheResult'
  BY <1>2, <1>6, <1>7 DEF IInv, RowIsTheResult, Recorded, Writable, HoldsResult, engine
<1> QED BY <1>9, <1>10, <1>11, <1>12, <1>13, <1>14, <1>15, <1>17, <1>18, <1>19 DEF IInv

(* An update of the row of a captured revision, and an execution that advances   *)
(* or ends.                                                                   *)
Writes(r, st, er, ca) ==
  /\ Recorded(r)
  /\ state' = [state EXCEPT ![r] = st] /\ error' = [error EXCEPT ![r] = er]
  /\ calls' = [calls EXCEPT ![r] = ca]
  /\ ca >= calls[r] /\ (ca # 0 => row[r].kind = "document")
  /\ UNCHANGED <<row, text, blocks, runs, conv, output, sent, ocr>>
  /\ \A l \in Rev : wf'[l] = wf[l] \/ (wf[l] = "record" /\ wf'[l] = "complete")
  /\ wf' \in [Rev -> WfState]
  /\ exec' \in [Exec -> Job \cup {None}]
  /\ \A e \in Exec : exec'[e] # None =>
       /\ exec[e] # None /\ exec'[e].rev = exec[e].rev /\ exec'[e].seen = exec[e].seen
       /\ exec'[e].at \in {"clear", "record"} \/ exec[e].at \in {"read", "batch", "confirm"}

LEMMA WriteFrame ==
  ASSUME IInv, NEW r \in Rev, NEW st \in ReadableState, NEW er \in Error, NEW ca \in 0 .. 1,
         Writes(r, st, er, ca)
  PROVE  /\ state' \in [Rev -> ReadableState] /\ error' \in [Rev -> Error] /\ calls' \in [Rev -> 0 .. 1]
         /\ state'[r] = st /\ error'[r] = er /\ calls'[r] = ca
         /\ \A l \in Rev \ {r} : state'[l] = state[l] /\ error'[l] = error[l] /\ calls'[l] = calls[l]
         /\ Started' /\ Untouched' /\ Executions' /\ Claims' /\ Outputs' /\ Jobs' /\ Numbered'
<1>1. state \in [Rev -> ReadableState] /\ error \in [Rev -> Error] /\ calls \in [Rev -> 0 .. 1]
  BY DEF IInv, TypeOK
<1>2. /\ state' \in [Rev -> ReadableState] /\ error' \in [Rev -> Error] /\ calls' \in [Rev -> 0 .. 1]
      /\ state'[r] = st /\ error'[r] = er /\ calls'[r] = ca
      /\ \A l \in Rev \ {r} : state'[l] = state[l] /\ error'[l] = error[l] /\ calls'[l] = calls[l]
  BY <1>1 DEF Writes
<1>3. /\ UNCHANGED <<row, text, blocks, runs, conv, output, sent, ocr>>
      /\ \A l \in Rev : wf'[l] = wf[l] \/ (wf[l] = "record" /\ wf'[l] = "complete")
  BY DEF Writes
<1>4. Started' /\ Executions'
  BY <1>3 DEF IInv, Started, Executions, Recorded
<1>5. Untouched'
  BY <1>2, <1>3 DEF IInv, Untouched, Recorded, Writes
<1>6. Claims'
  <2>1. \A l \in Rev : calls'[l] >= calls[l] /\ calls'[l] \in 0 .. 1 /\ calls[l] \in 0 .. 1
    BY <1>1, <1>2 DEF Writes
  <2>2. \A l \in Rev : calls'[l] # 0 => row[l].kind = "document"
    BY <1>2 DEF IInv, Claims, Writes
  <2>3. sent \in [Rev -> Nat]
    BY DEF IInv, TypeOK
  <2> QED BY <1>3, <2>1, <2>2, <2>3 DEF IInv, Claims
<1>7. Outputs'
  BY <1>3 DEF IInv, Outputs, CallsMade
<1>8. Jobs'
  <2> SUFFICES ASSUME NEW e \in Exec, exec'[e] # None
               PROVE  /\ wf'[exec'[e].rev] # "absent"
                      /\ exec'[e].at \in {"read", "batch", "confirm"} => output'[exec'[e].rev] # None
                      /\ exec'[e].seen # 0 => row'[exec'[e].rev].kind = "document"
    BY DEF Jobs
  <2>1. /\ exec[e] # None /\ exec'[e].rev = exec[e].rev /\ exec'[e].seen = exec[e].seen
        /\ exec'[e].at \in {"clear", "record"} \/ exec[e].at \in {"read", "batch", "confirm"}
        /\ exec'[e].rev \in Rev
    BY DEF Writes, Job
  <2> QED BY <1>3, <2>1 DEF IInv, Jobs
<1>9. Numbered'
  BY <1>3 DEF IInv, Numbered, Recorded
<1> QED BY <1>2, <1>4, <1>5, <1>6, <1>7, <1>8, <1>9

(* A pending row that stays open to a result. *)
LEMMA PendingFrame ==
  ASSUME IInv, NEW r \in Rev, NEW st \in {"pending", "failed"}, NEW er \in Error, NEW ca \in 0 .. 1,
         Writes(r, st, er, ca), state[r] = "pending", st = "failed" => er = "storage_failure",
         UNCHANGED <<conflict, head, page>>
  PROVE  IInv'
<1>0. st \in ReadableState
  BY DEF ReadableState
<1>1. /\ state' \in [Rev -> ReadableState] /\ error' \in [Rev -> Error] /\ calls' \in [Rev -> 0 .. 1]
      /\ state'[r] = st /\ error'[r] = er /\ calls'[r] = ca
      /\ \A l \in Rev \ {r} : state'[l] = state[l] /\ error'[l] = error[l] /\ calls'[l] = calls[l]
      /\ Started' /\ Untouched' /\ Executions' /\ Claims' /\ Outputs' /\ Jobs' /\ Numbered'
  BY <1>0, WriteFrame
<1>2. TypeOK'
  BY <1>1 DEF IInv, TypeOK, Writes
<1>3. UNCHANGED <<row, output, head, page>>
  BY DEF Writes
<1>4. \A l \in Rev : state'[l] = "readable" <=> state[l] = "readable"
  BY <1>1
<1>5. \A t \in Source : head[t] # None => head[t] \in Rev
  BY DEF IInv, TypeOK
<1>6. HeadIsNewestReadable' /\ CurrentPagesUseHeads'
  BY <1>3, <1>4, <1>5 DEF IInv, HeadIsNewestReadable, CurrentPagesUseHeads, Readable, Recorded
<1>7. RowIsTheResult'
  BY <1>1, <1>3 DEF IInv, RowIsTheResult, Writable, HoldsResult, Recorded
<1> QED BY <1>1, <1>2, <1>6, <1>7 DEF IInv

LEMMA MarkStep ==
  ASSUME IInv, NEW r \in Rev, MarkUnavailable(r)
  PROVE  IInv'
<1>1. /\ Recorded(r) /\ state[r] = "pending" /\ error' = [error EXCEPT ![r] = "status_unavailable"]
      /\ UNCHANGED <<row, state, calls, conflict, head, page, text, blocks, exec, ocr>>
      /\ UNCHANGED <<wf, runs, conv, output, sent>>
  BY DEF MarkUnavailable, engine
<1>2. /\ state \in [Rev -> ReadableState] /\ calls \in [Rev -> 0 .. 1] /\ wf \in [Rev -> WfState]
      /\ exec \in [Exec -> Job \cup {None}]
  BY DEF IInv, TypeOK
<1>3. calls[r] # 0 => row[r].kind = "document"
  BY DEF IInv, Claims
<1>4. \A e \in Exec : exec[e] # None =>
        exec[e].at \in {"clear", "record"} \/ exec[e].at \in {"read", "batch", "confirm"}
  BY <1>2 DEF Job
<1>5. /\ state' = [state EXCEPT ![r] = "pending"] /\ calls' = [calls EXCEPT ![r] = calls[r]]
      /\ calls[r] >= calls[r]
  BY <1>1, <1>2
<1>6. Writes(r, "pending", "status_unavailable", calls[r])
  BY <1>1, <1>2, <1>3, <1>4, <1>5 DEF Writes
<1>7. "status_unavailable" \in Error /\ calls[r] \in 0 .. 1
  BY <1>2 DEF Error
<1> QED BY <1>1, <1>6, <1>7, PendingFrame

LEMMA ClearErrorStep ==
  ASSUME IInv, NEW e \in Exec, ClearError(e)
  PROVE  IInv'
<1> DEFINE r == exec[e].rev
<1>0. /\ UNCHANGED <<row, state, calls, conflict, head, page, text, blocks, ocr>>
      /\ UNCHANGED <<wf, runs, conv, output, sent>>
      /\ error' = error \/ (state[r] = "pending" /\ error' = [error EXCEPT ![r] = "none"])
  BY DEF ClearError, engine
<1>1. r \in Rev /\ Recorded(r)
  BY DEF ClearError, IInv, TypeOK, Job, Jobs, Started
<1>2. /\ exec' \in [Exec -> Job \cup {None}]
      /\ \A f \in Exec : exec'[f] # None => exec[f] # None /\ exec'[f] = exec[f]
  BY DEF ClearError, End, IInv, TypeOK
<1>3. CASE error' = error
  <2>1. Jobs' /\ TypeOK'
    BY <1>0, <1>2, <1>3 DEF IInv, Jobs, TypeOK
  <2> QED BY <1>0, <1>3, <2>1, JobFrame DEF d1
<1>4. CASE state[r] = "pending" /\ error' = [error EXCEPT ![r] = "none"]
  <2>1. \A f \in Exec : exec'[f] # None =>
          exec'[f].at \in {"clear", "record"} \/ exec[f].at \in {"read", "batch", "confirm"}
    BY <1>2 DEF Job
  <2>2. state \in [Rev -> ReadableState] /\ calls \in [Rev -> 0 .. 1] /\ wf \in [Rev -> WfState]
    BY DEF IInv, TypeOK
  <2>3. calls[r] # 0 => row[r].kind = "document"
    BY <1>1 DEF IInv, Claims
  <2>4. /\ state' = [state EXCEPT ![r] = "pending"] /\ calls' = [calls EXCEPT ![r] = calls[r]]
        /\ calls[r] \in 0 .. 1 /\ calls[r] >= calls[r]
    BY <1>0, <1>1, <1>4, <2>2
  <2>5. Writes(r, "pending", "none", calls[r])
    <3> HIDE DEF r
    <3> QED BY <1>0, <1>1, <1>2, <1>4, <2>1, <2>2, <2>3, <2>4 DEF Writes
  <2>6. "none" \in Error
    BY DEF Error
  <2> QED BY <1>0, <1>1, <1>4, <2>4, <2>5, <2>6, PendingFrame
<1> QED BY <1>0, <1>3, <1>4

(* Conversion usage only grows, and only a document has any. *)
LEMMA UsageGrows ==
  ASSUME IInv, NEW r \in Rev, output[r] # None
  PROVE  /\ MaxOf(calls[r], output[r].calls) \in 0 .. 1 /\ MaxOf(calls[r], output[r].calls) >= calls[r]
         /\ MaxOf(calls[r], output[r].calls) >= output[r].calls
         /\ MaxOf(calls[r], output[r].calls) # 0 => row[r].kind = "document"
<1>1. calls[r] \in 0 .. 1 /\ output[r] \in Stored
  BY DEF IInv, TypeOK
<1>2. output[r].calls \in 0 .. 1
  BY <1>1 DEF Stored
<1> QED BY <1>1, <1>2 DEF IInv, Claims, Outputs, MaxOf

LEMMA RecordFailureStep ==
  ASSUME IInv, NEW e \in Exec, RecordFailure(e)
  PROVE  IInv'
<1> DEFINE r == exec[e].rev
<1> DEFINE ca == MaxOf(calls[r], KnownCalls(e))
<1>1. /\ UNCHANGED <<row, conflict, head, page, text, blocks, runs, conv, output, sent, ocr>>
      /\ \/ UNCHANGED <<state, error, calls>>
         \/ /\ state[r] = "pending" /\ state' = [state EXCEPT ![r] = "failed"]
            /\ error' = [error EXCEPT ![r] = "storage_failure"] /\ calls' = [calls EXCEPT ![r] = ca]
      /\ wf' = wf \/ (wf[r] = "record" /\ wf' = [wf EXCEPT ![r] = "complete"])
  BY DEF RecordFailure, CanFail, AdvanceTo
<1>2. r \in Rev /\ Recorded(r)
  BY DEF RecordFailure, IInv, TypeOK, Job, Jobs, Started
<1>3. /\ exec' \in [Exec -> Job \cup {None}]
      /\ \A f \in Exec : exec'[f] # None =>
            exec[f] # None /\ exec'[f] = exec[f] /\ exec[f].rev \in Rev
  BY DEF RecordFailure, End, IInv, TypeOK, Job
<1>4. wf' \in [Rev -> WfState] /\ \A l \in Rev : wf'[l] = wf[l] \/ (wf[l] = "record" /\ wf'[l] = "complete")
  BY <1>1, <1>2 DEF IInv, TypeOK, WfState
<1>5. CASE UNCHANGED <<state, error, calls>>
  <2>1. TypeOK'
    BY <1>1, <1>3, <1>4, <1>5 DEF IInv, TypeOK
  <2>2. Jobs'
    BY <1>1, <1>3, <1>4, <1>5 DEF IInv, Jobs
  <2> QED BY <1>1, <1>4, <1>5, <2>1, <2>2, JobFrame DEF d1
<1>6. CASE /\ state[r] = "pending" /\ state' = [state EXCEPT ![r] = "failed"]
           /\ error' = [error EXCEPT ![r] = "storage_failure"] /\ calls' = [calls EXCEPT ![r] = ca]
  <2>1. \A f \in Exec : exec'[f] # None =>
          exec'[f].at \in {"clear", "record"} \/ exec[f].at \in {"read", "batch", "confirm"}
    BY <1>3 DEF Job
  <2>2. calls[r] \in 0 .. 1 /\ (calls[r] # 0 => row[r].kind = "document")
    BY <1>2 DEF IInv, TypeOK, Claims
  <2>3. ca \in 0 .. 1 /\ ca >= calls[r] /\ (ca # 0 => row[r].kind = "document")
    <3>1. CASE exec[e].step /\ output[r] # None
      BY <1>2, <3>1, UsageGrows DEF KnownCalls
    <3>2. CASE ~(exec[e].step /\ output[r] # None)
      BY <2>2, <3>2 DEF KnownCalls, MaxOf
    <3> QED BY <3>1, <3>2
  <2>4. Writes(r, "failed", "storage_failure", ca)
    <3> HIDE DEF r, ca
    <3> QED BY <1>1, <1>2, <1>3, <1>4, <1>6, <2>1, <2>3 DEF Writes
  <2>5. "storage_failure" \in Error
    BY DEF Error
  <2> QED BY <1>1, <1>2, <1>6, <2>3, <2>4, <2>5, PendingFrame
<1> QED BY <1>1, <1>5, <1>6

(* A head that moves, with the marking of its dependents. *)
LEMMA InvalidateFrame ==
  ASSUME TypeOK, CurrentPagesUseHeads, NEW s \in Source, NEW r \in Rev, NEW h, Invalidate(h),
         head[s] = h \/ head[s] = None, head' = [head EXCEPT ![s] = r],
         \A l \in Rev : row[l] # None => row'[l] = row[l]
  PROVE  /\ head' \in [Source -> Rev \cup {None}] /\ page' \in [Page -> AcceptedPage \cup {None}]
         /\ CurrentPagesUseHeads'
<1>1. head \in [Source -> Rev \cup {None}] /\ page \in [Page -> AcceptedPage \cup {None}]
  BY DEF TypeOK
<1>2. head' \in [Source -> Rev \cup {None}] /\ \A t \in Source \ {s} : head'[t] = head[t]
  BY <1>1
<1>3. \A p \in Page : page[p] # None => [page[p] EXCEPT !.current = FALSE] \in AcceptedPage
  BY <1>1 DEF AcceptedPage
<1>4. page' \in [Page -> AcceptedPage \cup {None}]
  BY <1>1, <1>3 DEF Invalidate
<1>5. ASSUME NEW p \in Page, page'[p] # None, page'[p].current, NEW x \in page'[p].from
      PROVE  row'[x] # None /\ head'[row'[x].src] = x
  <2>1. page'[p] = page[p] /\ page[p] # None /\ ~(h \in page[p].from)
    <3>1. CASE page[p] # None /\ h \in page[p].from
      <4>1. page'[p] = [page[p] EXCEPT !.current = FALSE]
        BY <3>1 DEF Invalidate
      <4>2. page[p] \in AcceptedPage
        BY <1>1, <3>1
      <4> QED BY <1>5, <4>1, <4>2 DEF AcceptedPage
    <3>2. CASE ~(page[p] # None /\ h \in page[p].from)
      BY <1>5, <3>2 DEF Invalidate
    <3> QED BY <3>1, <3>2
  <2>2. row[x] # None /\ head[row[x].src] = x /\ x \in Rev
    BY <1>1, <1>5, <2>1 DEF CurrentPagesUseHeads, AcceptedPage, Recorded
  <2>3. row[x].src \in Source \ {s}
    BY <1>5, <2>1, <2>2, NoneAssumption DEF TypeOK, Row
  <2> QED BY <1>2, <2>2, <2>3
<1> QED BY <1>2, <1>4, <1>5 DEF CurrentPagesUseHeads, Recorded

(* When the row becomes readable, its terminal guard holds. *)
LEMMA TerminalHolds ==
  ASSUME IInv, NEW r \in Rev, NEW seen \in 0 .. 1, output[r] # None,
         seen # 0 => row[r].kind = "document",
         Writable(r), output[r].outcome = "readable"
  PROVE  Terminal(r, seen)
<1>1. output[r].calls = CallsMade(r) /\ calls[r] \in 0 .. 1 /\ (calls[r] # 0 => row[r].kind = "document")
  BY DEF IInv, Outputs, TypeOK, Claims
<1>2. MaxOf(calls[r], output[r].calls) = MaxOf(seen, output[r].calls)
  BY <1>1 DEF CallsMade, MaxOf
<1> QED BY <1>2 DEF Terminal, RowAfter

(* The batch on the rows and the head alone. *)
LEMMA BatchHeads ==
  ASSUME IInv, NEW r \in Rev, NEW seen \in 0 .. 1, output[r] # None, Recorded(r),
         seen # 0 => row[r].kind = "document",
         state' = [state EXCEPT ![r] = RowAfter(r).state], UNCHANGED row,
         \/ HeadGuard(r, seen) /\ head' = [head EXCEPT ![row[r].src] = r]
         \/ ~HeadGuard(r, seen) /\ UNCHANGED head
  PROVE  HeadIsNewestReadable'
<1> DEFINE s == row[r].src
<1> DEFINE Open(l) == row[l] # None /\ state'[l] = "readable"   \* readable after the batch
<1>0. /\ state \in [Rev -> ReadableState] /\ head \in [Source -> Rev \cup {None}]
      /\ row \in [Rev -> Row \cup {None}]
  BY DEF IInv, TypeOK
<1>1. s \in Source /\ \A l \in Rev : Recorded(l) => row[l].src \in Source /\ row[l].no \in Nat
  BY <1>0 DEF Recorded, Row
<1>2. state'[r] = RowAfter(r).state /\ \A l \in Rev \ {r} : state'[l] = state[l]
  BY <1>0
<1>3. row' = row
  OBVIOUS
<1>4. \A l \in Rev \ {r} : Open(l) <=> Readable(l)
  BY <1>2 DEF Readable, Recorded
<1>5. Readable(r) => Open(r)
  BY <1>2 DEF Readable, Recorded, RowAfter, Writable
<1>6. HeadIsNewestReadable
  BY DEF IInv
<1>7. CASE HeadGuard(r, seen) /\ head' = [head EXCEPT ![s] = r]
  <2>1. Open(r) /\ ~NewerReadable(r)
    BY <1>2, <1>7 DEF HeadGuard, Terminal, Recorded
  <2>2. head'[s] = r /\ \A t \in Source \ {s} : head'[t] = head[t]
    BY <1>0, <1>1, <1>7
  <2>3. ASSUME NEW t \in Source, head'[t] # None PROVE Open(head'[t]) /\ row[head'[t]].src = t
    <3>1. CASE t = s
      BY <2>1, <2>2, <3>1
    <3>2. CASE t # s
      <4>1. head'[t] = head[t] /\ Readable(head[t]) /\ row[head[t]].src = t /\ head[t] \in Rev \ {r}
        BY <1>0, <1>6, <2>2, <2>3, <3>2 DEF HeadIsNewestReadable
      <4> QED BY <1>4, <4>1
    <3> QED BY <3>1, <3>2
  <2>4. ASSUME NEW l \in Rev, Open(l)
        PROVE  head'[row[l].src] # None /\ row[head'[row[l].src]].no >= row[l].no
    <3>1. Recorded(l) /\ row[l].src \in Source
      BY <1>1, <2>4 DEF Recorded
    <3>2. CASE row[l].src = s
      <4>1. l # r => Readable(l)
        BY <1>4, <2>4
      <4>2. row[l].no <= row[r].no
        BY <1>1, <2>1, <3>1, <3>2, <4>1 DEF NewerReadable, RevsOf, Readable
      <4> QED BY <1>0, <1>1, <2>2, <3>1, <3>2, <4>2, NoneAssumption
    <3>3. CASE row[l].src # s
      <4>1. l # r /\ Readable(l)
        BY <1>4, <2>4, <3>3
      <4> QED BY <1>6, <2>2, <3>1, <3>3, <4>1 DEF HeadIsNewestReadable
    <3> QED BY <3>2, <3>3
  <2> QED BY <1>3, <2>3, <2>4 DEF HeadIsNewestReadable, Readable, Recorded
<1>8. CASE ~HeadGuard(r, seen) /\ UNCHANGED head
  <2>1. ASSUME NEW t \in Source, head[t] # None PROVE Open(head[t]) /\ row[head[t]].src = t
    BY <1>0, <1>4, <1>5, <1>6, <2>1 DEF HeadIsNewestReadable
  <2>2. ASSUME Open(r) PROVE head[s] # None /\ row[head[s]].no >= row[r].no
    <3>1. CASE Readable(r)
      BY <1>6, <3>1 DEF HeadIsNewestReadable
    <3>2. CASE ~Readable(r)
      <4>1. Writable(r) /\ output[r].outcome = "readable"
        BY <1>2, <2>2, <3>2 DEF Readable, Recorded, RowAfter
      <4>2. Terminal(r, seen)
        BY <4>1, TerminalHolds
      <4>3. CASE NewerReadable(r)
        <5>1. PICK l \in Rev : Readable(l) /\ row[l].src = s /\ row[l].no > row[r].no
          BY <4>3 DEF NewerReadable, RevsOf, Readable
        <5>2. head[s] # None /\ row[head[s]].no >= row[l].no
          BY <1>6, <5>1 DEF HeadIsNewestReadable
        <5>3. Recorded(head[s]) /\ head[s] \in Rev
          BY <1>0, <1>1, <1>6, <5>2 DEF HeadIsNewestReadable, Readable
        <5> QED BY <1>1, <5>1, <5>2, <5>3 DEF Readable
      <4>4. CASE head[s] # None /\ ~(row[head[s]].no < row[r].no)
        <5>1. Recorded(head[s]) /\ head[s] \in Rev
          BY <1>0, <1>1, <1>6, <4>4 DEF HeadIsNewestReadable, Readable
        <5> QED BY <1>1, <4>4, <5>1
      <4> QED BY <1>8, <4>2, <4>3, <4>4 DEF HeadGuard
    <3> QED BY <3>1, <3>2
  <2>3. ASSUME NEW l \in Rev, Open(l) PROVE head[row[l].src] # None /\ row[head[row[l].src]].no >= row[l].no
    <3>1. CASE l = r
      BY <2>2, <2>3, <3>1
    <3>2. CASE l # r
      BY <1>4, <1>6, <2>3, <3>2 DEF HeadIsNewestReadable
    <3> QED BY <3>1, <3>2
  <2> QED BY <1>3, <1>8, <2>1, <2>3 DEF HeadIsNewestReadable, Readable, Recorded
<1> QED BY <1>7, <1>8

LEMMA CommitBatchStep ==
  ASSUME IInv, NEW e \in Exec, CommitBatch(e)
  PROVE  IInv'
<1> DEFINE r == exec[e].rev
<1> DEFINE seen == exec[e].seen
<1> DEFINE after == RowAfter(r)
<1>1. /\ exec[e] \in Job /\ r \in Rev /\ seen \in 0 .. 1 /\ exec[e].at = "batch"
      /\ exec \in [Exec -> Job \cup {None}] /\ conflict \in [Rev -> BOOLEAN]
      /\ state \in [Rev -> ReadableState] /\ error \in [Rev -> Error] /\ calls \in [Rev -> 0 .. 1]
      /\ output \in [Rev -> Stored \cup {None}] /\ row \in [Rev -> Row \cup {None}]
      /\ wf \in [Rev -> WfState]
  BY DEF CommitBatch, IInv, TypeOK, Job
<1>2. /\ state' = [state EXCEPT ![r] = after.state] /\ error' = [error EXCEPT ![r] = after.error]
      /\ calls' = [calls EXCEPT ![r] = after.calls]
      /\ \/ HeadGuard(r, seen) /\ Invalidate(head[row[r].src]) /\ head' = [head EXCEPT ![row[r].src] = r]
         \/ ~HeadGuard(r, seen) /\ UNCHANGED <<page, head>>
      /\ conflict' = [conflict EXCEPT ![r] = @ \/ (Terminal(r, seen) /\ NewerReadable(r))]
      /\ exec' = [exec EXCEPT ![e].at = "confirm"]
      /\ UNCHANGED <<row, text, blocks, wf, runs, conv, output, sent, ocr>>
  BY DEF CommitBatch, engine
<1>3. /\ Recorded(r) /\ output[r] # None /\ output[r] \in Stored
      /\ seen # 0 => row[r].kind = "document"
  BY <1>1 DEF CommitBatch, IInv, Jobs, Started
<1>4. after.state \in ReadableState /\ after.error \in Error /\ after.calls \in 0 .. 1
      /\ after.calls >= calls[r] /\ (after.calls # 0 => row[r].kind = "document")
  <2>1. CASE Writable(r)
    <3>1. after = [state |-> output[r].outcome,
                   error |-> IF output[r].outcome = "failed" THEN "conversion" ELSE "none",
                   calls |-> MaxOf(calls[r], output[r].calls)]
      BY <2>1 DEF RowAfter
    <3>2. output[r].outcome \in ReadableState
      BY <1>3 DEF Stored, ReadableState
    <3> QED BY <1>1, <1>3, <3>1, <3>2, UsageGrows DEF Error
  <2>2. CASE ~Writable(r)
    <3>1. calls[r] # 0 => row[r].kind = "document"
      BY <1>1 DEF IInv, Claims
    <3> QED BY <1>1, <2>2, <3>1 DEF RowAfter
  <2> QED BY <2>1, <2>2
<1>5. /\ exec' \in [Exec -> Job \cup {None}]
      /\ \A f \in Exec : exec'[f] # None =>
           /\ exec[f] # None /\ exec'[f].rev = exec[f].rev /\ exec'[f].seen = exec[f].seen
           /\ exec'[f].at \in {"clear", "record"} \/ exec[f].at \in {"read", "batch", "confirm"}
  <2>1. [exec[e] EXCEPT !.at = "confirm"] \in Job
    BY <1>1 DEF Job
  <2>2. exec'[e] = [exec[e] EXCEPT !.at = "confirm"] /\ \A f \in Exec \ {e} : exec'[f] = exec[f]
    BY <1>1, <1>2
  <2>3. exec' \in [Exec -> Job \cup {None}]
    BY <1>1, <1>2, <2>1
  <2>4. exec[e] # None
    BY DEF CommitBatch
  <2>5. \A f \in Exec \ {e} : exec[f] # None => exec[f].at \in {"clear", "record", "read", "batch", "confirm"}
    BY <1>1 DEF Job
  <2>6. exec'[e].rev = exec[e].rev /\ exec'[e].seen = exec[e].seen
    BY <1>1, <2>2 DEF Job
  <2> QED BY <1>1, <2>2, <2>3, <2>4, <2>5, <2>6
<1>6. Writes(r, after.state, after.error, after.calls)
  <2> HIDE DEF r, after
  <2> QED BY <1>1, <1>2, <1>3, <1>4, <1>5 DEF Writes
<1>7. /\ state' \in [Rev -> ReadableState] /\ error' \in [Rev -> Error] /\ calls' \in [Rev -> 0 .. 1]
      /\ state'[r] = after.state /\ error'[r] = after.error /\ calls'[r] = after.calls
      /\ \A l \in Rev \ {r} : state'[l] = state[l] /\ error'[l] = error[l] /\ calls'[l] = calls[l]
      /\ Started' /\ Untouched' /\ Executions' /\ Claims' /\ Outputs' /\ Jobs' /\ Numbered'
  <2> HIDE DEF r, after
  <2> QED BY <1>1, <1>4, <1>6, WriteFrame
<1>8. row[r].src \in Source
  BY <1>1, <1>3 DEF Recorded, Row
<1>9. HeadIsNewestReadable'
  BY <1>1, <1>2, <1>3, BatchHeads
<1>10. /\ head' \in [Source -> Rev \cup {None}] /\ page' \in [Page -> AcceptedPage \cup {None}]
       /\ CurrentPagesUseHeads'
  <2>1. CASE Invalidate(head[row[r].src]) /\ head' = [head EXCEPT ![row[r].src] = r]
    BY <1>1, <1>2, <1>8, <2>1, InvalidateFrame DEF IInv
  <2>2. CASE UNCHANGED <<page, head>>
    BY <1>2, <2>2 DEF IInv, TypeOK, CurrentPagesUseHeads, Recorded
  <2> QED BY <1>2, <2>1, <2>2
<1>11. conflict' \in [Rev -> BOOLEAN]
  <2>1. (conflict[r] \/ (Terminal(r, seen) /\ NewerReadable(r))) \in BOOLEAN
    OBVIOUS
  <2> QED BY <1>1, <1>2, <2>1
<1>12. TypeOK'
  BY <1>2, <1>5, <1>7, <1>10, <1>11 DEF IInv, TypeOK
<1>13. RowIsTheResult'
  <2> SUFFICES ASSUME NEW l \in Rev, row[l] # None, row[l].kind # "reviewed",
                      state'[l] # "pending", state'[l] # "failed" \/ error'[l] # "storage_failure"
               PROVE  /\ output[l] # None /\ state'[l] = output[l].outcome
                      /\ error'[l] = IF output[l].outcome = "failed" THEN "conversion" ELSE "none"
                      /\ calls'[l] >= output[l].calls
    BY <1>2 DEF RowIsTheResult, Recorded, Writable, HoldsResult
  <2>1. CASE l # r \/ ~Writable(r)
    <3>1. state'[l] = state[l] /\ error'[l] = error[l] /\ calls'[l] = calls[l]
      BY <1>7, <2>1 DEF RowAfter
    <3>2. ~Writable(l)
      BY <3>1 DEF Writable
    <3> QED BY <3>1, <3>2 DEF IInv, RowIsTheResult, Recorded, HoldsResult
  <2>2. CASE l = r /\ Writable(r)
    <3>1. after = [state |-> output[r].outcome,
                   error |-> IF output[r].outcome = "failed" THEN "conversion" ELSE "none",
                   calls |-> MaxOf(calls[r], output[r].calls)]
      BY <2>2 DEF RowAfter
    <3>2. MaxOf(calls[r], output[r].calls) >= output[r].calls
      BY <1>1, <1>3, UsageGrows
    <3> QED BY <1>3, <1>7, <2>2, <3>1, <3>2
  <2> QED BY <2>1, <2>2
<1> QED BY <1>7, <1>9, <1>10, <1>12, <1>13 DEF IInv

-----------------------------------------------------------------------------
(* Pages and OCR. *)
LEMMA StartOcrStep ==
  ASSUME IInv, StartOcr
  PROVE  IInv'
<1>1. UNCHANGED <<d1, text, blocks, wf, runs, conv, output, sent, exec>>
  BY DEF StartOcr, engine
<1>2. PICK s \in Source : \E b \in Latest(s) : ocr' = [src |-> s, base |-> b, current |-> head[s]]
  BY DEF StartOcr
<1>3. PICK b \in Rev : ocr' = [src |-> s, base |-> b, current |-> head[s]]
  BY <1>2 DEF Latest, RevsOf
<1>4. ocr' \in OcrJob
  BY <1>3 DEF IInv, TypeOK, OcrJob
<1>5. TypeOK'
  BY <1>1, <1>4 DEF IInv, TypeOK, d1
<1>6. D1Parts' /\ RowIsTheResult'
  BY <1>1, D1Frame, ResultFrame DEF IInv, D1Parts
<1>7. Started' /\ Executions' /\ Claims' /\ Outputs' /\ Jobs'
  BY <1>1 DEF IInv, Started, Recorded, Executions, Claims, Outputs, CallsMade, Jobs, d1
<1> QED BY <1>5, <1>6, <1>7 DEF IInv, D1Parts

LEMMA PublishStep ==
  ASSUME IInv, NEW p \in Page, Publish(p)
  PROVE  IInv'
<1>1. /\ UNCHANGED <<row, state, error, calls, conflict, head, text, blocks, exec, ocr>>
      /\ UNCHANGED <<wf, runs, conv, output, sent>>
  BY DEF Publish, engine
<1>2. PICK from \in SUBSET {r \in Rev : Readable(r)} :
        page' = [page EXCEPT ![p] = [from |-> from, current |-> Fresh(from)]]
  BY DEF Publish
<1>3. Fresh(from) \in BOOLEAN /\ (Fresh(from) => \A x \in from : row[x] # None /\ head[row[x].src] = x)
  BY DEF Fresh, Readable, Recorded
<1>4. page \in [Page -> AcceptedPage \cup {None}]
  BY DEF IInv, TypeOK
<1>5. [from |-> from, current |-> Fresh(from)] \in AcceptedPage
  BY <1>3 DEF AcceptedPage
<1>6. /\ page' \in [Page -> AcceptedPage \cup {None}]
      /\ page'[p] = [from |-> from, current |-> Fresh(from)]
      /\ \A q \in Page \ {p} : page'[q] = page[q]
  BY <1>2, <1>4, <1>5
<1>7. TypeOK'
  BY <1>1, <1>6 DEF IInv, TypeOK
<1>8. CurrentPagesUseHeads'
  BY <1>1, <1>3, <1>6 DEF IInv, CurrentPagesUseHeads, Recorded
<1>9. /\ Started' /\ Untouched' /\ Executions' /\ Claims' /\ Outputs' /\ Jobs'
  BY <1>1 DEF IInv, Started, Untouched, Recorded, Executions, Claims, Outputs, CallsMade, Jobs
<1>10. Numbered' /\ HeadIsNewestReadable' /\ RowIsTheResult'
  BY <1>1 DEF IInv, Numbered, HeadIsNewestReadable, Readable, Recorded, RowIsTheResult, Writable, HoldsResult
<1> QED BY <1>7, <1>8, <1>9, <1>10 DEF IInv

LEMMA ApplyOcrStep ==
  ASSUME IInv, NEW r \in Rev, ApplyOcr(r)
  PROVE  IInv'
<1> DEFINE s == ocr.src
<1> DEFINE n == row[ocr.base].no + 1
<1>1. /\ UNCHANGED <<error, calls, conflict, exec>> /\ UNCHANGED <<wf, runs, conv, output, sent>>
      /\ row[r] = None /\ ocr # None /\ ocr' = None
      /\ head[s] = ocr.current /\ ocr.base \in Latest(s)
      /\ row' = [row EXCEPT ![r] = [src |-> s, no |-> n, kind |-> "reviewed"]]
      /\ state' = [state EXCEPT ![r] = "readable"] /\ head' = [head EXCEPT ![s] = r]
      /\ text' = [text EXCEPT ![r] = 1] /\ blocks' = [blocks EXCEPT ![r] = 1]
      /\ Invalidate(IF ocr.current = None THEN ocr.base ELSE ocr.current)
  BY DEF ApplyOcr, Recorded, engine
<1>2. /\ row \in [Rev -> Row \cup {None}] /\ state \in [Rev -> ReadableState]
      /\ head \in [Source -> Rev \cup {None}] /\ ocr \in OcrJob
      /\ text \in [Rev -> 0 .. MaxRuns] /\ blocks \in [Rev -> 0 .. MaxRuns]
  BY <1>1 DEF IInv, TypeOK
<1>3. s \in Source
  BY <1>2 DEF OcrJob
<1>4. /\ n \in Nat \ {0}
      /\ \A l \in Rev : row[l] # None /\ row[l].src = s => row[l].no < n /\ row[l].no # n
  BY <1>1, <1>2 DEF Latest, RevsOf, Recorded, Row
<1>5. [src |-> s, no |-> n, kind |-> "reviewed"] \in Row
  BY <1>3, <1>4 DEF Row
<1>6. /\ row' \in [Rev -> Row \cup {None}] /\ row'[r] # None
      /\ row'[r].src = s /\ row'[r].no = n /\ row'[r].kind = "reviewed"
      /\ \A l \in Rev \ {r} : row'[l] = row[l]
  BY <1>1, <1>2, <1>5, NoneAssumption
<1>7. /\ state' \in [Rev -> ReadableState] /\ state'[r] = "readable"
      /\ \A l \in Rev \ {r} : state'[l] = state[l]
  BY <1>1, <1>2 DEF ReadableState
<1>8. /\ text' \in [Rev -> 0 .. MaxRuns] /\ blocks' \in [Rev -> 0 .. MaxRuns]
      /\ \A l \in Rev \ {r} : text'[l] = text[l] /\ blocks'[l] = blocks[l]
  BY <1>1, <1>2, RunsAssumption
<1>9. /\ head' \in [Source -> Rev \cup {None}] /\ page' \in [Page -> AcceptedPage \cup {None}]
      /\ CurrentPagesUseHeads'
  <2>1. \A l \in Rev : row[l] # None => row'[l] = row[l]
    BY <1>1, <1>6
  <2> QED BY <1>1, <1>3, <2>1, InvalidateFrame DEF IInv
<1>10. TypeOK'
  BY <1>1, <1>6, <1>7, <1>8, <1>9 DEF IInv, TypeOK
<1>11. wf[r] = "absent" /\ calls[r] = 0
  BY <1>1 DEF IInv, Started, Untouched, Recorded
<1>12. \A l \in Rev : wf[l] # "absent" => l # r /\ row[l] # None
  BY <1>1 DEF IInv, Started, Recorded
<1>13. Started' /\ Untouched'
  BY <1>1, <1>6, <1>7, <1>12 DEF IInv, Started, Untouched, Recorded
<1>14. Executions'
  BY <1>1, <1>6, <1>8, <1>12 DEF IInv, Executions
<1>15. Claims'
  <2>1. \A l \in Rev, m \in 1 .. MaxRuns : conv[l][m] = "claimed" => l # r
    BY <1>12 DEF IInv, Executions
  <2> QED BY <1>1, <1>6, <1>11, <2>1 DEF IInv, Claims
<1>16. Outputs'
  <2>1. output[r] = None
    BY <1>11 DEF IInv, Outputs
  <2> QED BY <1>1, <1>6, <1>8, <2>1 DEF IInv, Outputs, CallsMade
<1>17. Jobs'
  BY <1>1, <1>6, <1>12 DEF IInv, Jobs, TypeOK, Job
<1>18. Numbered'
  BY <1>1, <1>4, <1>6 DEF IInv, Numbered, Recorded
<1>19. HeadIsNewestReadable'
  <2>1. head'[s] = r /\ \A t \in Source \ {s} : head'[t] = head[t]
    BY <1>1, <1>2, <1>3
  <2>2. ASSUME NEW t \in Source, head'[t] # None
        PROVE  row'[head'[t]] # None /\ state'[head'[t]] = "readable" /\ row'[head'[t]].src = t
    <3>1. CASE t = s
      BY <1>6, <1>7, <2>1, <3>1
    <3>2. CASE t # s
      <4>1. head'[t] = head[t] /\ head[t] \in Rev /\ row[head[t]] # None
            /\ state[head[t]] = "readable" /\ row[head[t]].src = t
        BY <1>2, <2>1, <2>2, <3>2 DEF IInv, HeadIsNewestReadable, Readable, Recorded
      <4> QED BY <1>1, <1>6, <1>7, <4>1
    <3> QED BY <3>1, <3>2
  <2>3. ASSUME NEW l \in Rev, row'[l] # None, state'[l] = "readable"
        PROVE  head'[row'[l].src] # None /\ row'[head'[row'[l].src]].no >= row'[l].no
    <3>1. CASE row'[l].src = s
      <4>1. row'[l].no <= n /\ row'[l].no \in Nat
        BY <1>2, <1>4, <1>6, <2>3, <3>1 DEF Row
      <4> QED BY <1>4, <1>6, <2>1, <3>1, <4>1, NoneAssumption
    <3>2. CASE row'[l].src # s
      <4>1. l # r /\ row'[l] = row[l] /\ state[l] = "readable" /\ row[l].src \in Source \ {s}
        BY <1>2, <1>6, <1>7, <2>3, <3>2 DEF Row
      <4>2. head[row[l].src] # None /\ row[head[row[l].src]].no >= row[l].no
        BY <2>3, <4>1 DEF IInv, HeadIsNewestReadable, Readable, Recorded
      <4>3. head[row[l].src] \in Rev /\ row[head[row[l].src]] # None
        BY <1>2, <4>1, <4>2 DEF IInv, HeadIsNewestReadable, Readable, Recorded
      <4> QED BY <1>1, <1>6, <2>1, <4>1, <4>2, <4>3
    <3> QED BY <3>1, <3>2
  <2> QED BY <2>2, <2>3 DEF HeadIsNewestReadable, Readable, Recorded
<1>20. RowIsTheResult'
  BY <1>1, <1>6, <1>7 DEF IInv, RowIsTheResult, Recorded, Writable, HoldsResult
<1> QED BY <1>9, <1>10, <1>13, <1>14, <1>15, <1>16, <1>17, <1>18, <1>19, <1>20 DEF IInv

-----------------------------------------------------------------------------
LEMMA Initial == Init => IInv
<1> SUFFICES ASSUME Init PROVE IInv
  OBVIOUS
<1>1. TypeOK
  BY RunsAssumption DEF Init, TypeOK, ReadableState, Error, WfState, Active, Stage
<1>2. Started /\ Untouched /\ Executions /\ Claims /\ Outputs /\ Jobs
  BY DEF Init, Started, Untouched, Recorded, Executions, Claims, Outputs, Jobs
<1>3. Numbered /\ HeadIsNewestReadable /\ CurrentPagesUseHeads /\ RowIsTheResult
  BY DEF Init, Numbered, HeadIsNewestReadable, Readable, Recorded, CurrentPagesUseHeads, RowIsTheResult
<1> QED BY <1>1, <1>2, <1>3 DEF IInv

LEMMA Inductive == IInv /\ [Next]_vars => IInv'
<1> SUFFICES ASSUME IInv, [Next]_vars PROVE IInv'
  OBVIOUS
<1>1. CASE UNCHANGED vars
  <2>1. TypeOK' /\ Jobs'
    BY <1>1 DEF vars, IInv, TypeOK, Jobs
  <2> QED BY <1>1, <2>1, JobFrame DEF vars, d1
<1>2. ASSUME NEW r \in Rev, Record(r) \/ CreateInstance(r) \/ MarkUnavailable(r) PROVE IInv'
  BY <1>2, RecordStep, EngineStep, MarkStep
<1>3. ASSUME NEW r \in Rev, WorkflowStep(r) PROVE IInv'
  BY <1>3, EngineStep, BeginConvertStep, ConvertStepKeeps DEF WorkflowStep
<1>4. ASSUME NEW r \in Rev, NEW e \in Exec, Attempt(r, e) \/ Reopen(r, e) PROVE IInv'
  BY <1>4, JobStep
<1>5. ASSUME NEW e \in Exec, StorageStep(e) PROVE IInv'
  BY <1>5, JobStep, ClearErrorStep, RecordFailureStep, CommitBatchStep DEF StorageStep
<1>6. ASSUME NEW r \in Rev, ApplyOcr(r) PROVE IInv'
  BY <1>6, ApplyOcrStep
<1>7. ASSUME NEW p \in Page, Publish(p) PROVE IInv'
  BY <1>7, PublishStep
<1> QED BY <1>1, <1>2, <1>3, <1>4, <1>5, <1>6, <1>7, StartOcrStep DEF Next

LEMMA Invariance == Spec => []IInv
BY Initial, Inductive, PTL DEF Spec

(* Every variable of the ingest pipeline keeps its type, for any number of        *)
(* revisions, executions and retries.                                          *)
THEOREM TypeCorrect == Spec => []TypeOK
BY Invariance, PTL DEF IInv

(* commitRevision's batch publishes a head atomically with the terminal row: the  *)
(* head is always the newest readable revision of its source.                   *)
THEOREM HeadIsNewest == Spec => []HeadIsNewestReadable
BY Invariance, PTL DEF IInv

(* Head advances of commitRevision and applyOcrJob mark their dependent pages in   *)
(* the same batch: a page is current only while every input is a head.           *)
THEOREM PagesAreCurrent == Spec => []CurrentPagesUseHeads
BY Invariance, PTL DEF IInv

(* The compare-and-set on conversion_calls in convertAndStore bounds the paid       *)
(* conversions of a revision, however often its step is executed.                *)
THEOREM PaidOnce == Spec => []ConvertedOnce
<1>1. IInv => ConvertedOnce
  <2> SUFFICES ASSUME IInv, NEW r \in Rev PROVE sent[r] <= 1 /\ sent[r] <= calls[r]
    BY DEF ConvertedOnce
  <2>1. sent[r] <= calls[r] /\ calls[r] \in 0 .. 1 /\ sent[r] \in Nat
    BY DEF IInv, Claims, TypeOK
  <2> QED BY <2>1
<1> QED BY <1>1, Invariance, PTL

(* A row that is neither pending nor a storage failure holds the cached result of  *)
(* its Workflow, whichever execution of commitRevision wrote it.                 *)
THEOREM RowHoldsResult == Spec => []RowIsTheResult
BY Invariance, PTL DEF IInv

(* A readable row's text.md and blocks.json are the objects its result was         *)
(* computed from: storeReadable writes under onlyIf, so nothing replaces them.   *)
THEOREM ReadableObjects == Spec => []ReadableIsIntact
<1>1. IInv => ReadableIsIntact
  <2> SUFFICES ASSUME IInv, NEW r \in Rev, Readable(r), row[r].kind # "reviewed"
               PROVE  /\ output[r] # None /\ output[r].outcome = "readable"
                      /\ text[r] # 0 /\ text[r] = output[r].text
                      /\ blocks[r] # 0 /\ blocks[r] = output[r].blocks
    BY DEF ReadableIsIntact
  <2>1. output[r] # None /\ output[r].outcome = "readable"
    BY DEF IInv, RowIsTheResult, Readable, Writable, HoldsResult
  <2> QED BY <2>1 DEF IInv, Outputs
<1> QED BY <1>1, Invariance, PTL

-----------------------------------------------------------------------------
LEMMA TerminalStep ==
  ASSUME IInv, [Next]_vars, NEW r \in Rev
  PROVE  /\ Recorded(r) /\ ~Writable(r) => UNCHANGED <<state[r], error[r], calls[r]>>
         /\ state[r] # "pending" => state'[r] # "pending"
<1> DEFINE Kept == /\ Recorded(r) /\ ~Writable(r) => UNCHANGED <<state[r], error[r], calls[r]>>
                   /\ state[r] # "pending" => state'[r] # "pending"
<1>0. /\ state \in [Rev -> ReadableState] /\ error \in [Rev -> Error] /\ calls \in [Rev -> 0 .. 1]
      /\ exec \in [Exec -> Job \cup {None}] /\ output \in [Rev -> Stored \cup {None}]
  BY DEF IInv, TypeOK
<1>1. ASSUME UNCHANGED <<state, error, calls>> PROVE Kept
  BY <1>1
<1>2. ASSUME NEW l \in Rev, \E n \in 1 .. MaxRuns : ConvertStep(l, n) PROVE Kept
  <2>1. UNCHANGED <<state, error>> /\ (calls' = calls \/ (state[l] = "pending" /\ calls' = [calls EXCEPT ![l] = 1]))
    BY <1>2 DEF ConvertStep, ReadOriginal, Claim, CanClaim, Dispatch, Converted, PutText, PutBlocks, Stopped, d1
  <2> QED BY <1>0, <2>1 DEF Writable
<1>3. ASSUME NEW l \in Rev, MarkUnavailable(l) PROVE Kept
  BY <1>0, <1>3 DEF MarkUnavailable, Writable
<1>4. ASSUME NEW e \in Exec, ClearError(e) \/ RecordFailure(e) PROVE Kept
  BY <1>0, <1>4 DEF ClearError, RecordFailure, CanFail, Writable
<1>5. ASSUME NEW e \in Exec, CommitBatch(e) PROVE Kept
  <2> DEFINE l == exec[e].rev
  <2>1. /\ l \in Rev /\ output[l] \in Stored
        /\ state' = [state EXCEPT ![l] = RowAfter(l).state]
        /\ error' = [error EXCEPT ![l] = RowAfter(l).error]
        /\ calls' = [calls EXCEPT ![l] = RowAfter(l).calls]
    BY <1>0, <1>5 DEF CommitBatch, IInv, Jobs, Job
  <2>2. CASE Writable(l)
    <3>1. RowAfter(l).state # "pending"
      BY <2>1, <2>2 DEF RowAfter, Stored
    <3> QED BY <1>0, <2>1, <2>2, <3>1
  <2>3. CASE ~Writable(l)
    BY <1>0, <2>1, <2>3 DEF RowAfter
  <2> QED BY <2>2, <2>3
<1>6. ASSUME NEW l \in Rev, ApplyOcr(l) PROVE Kept
  BY <1>0, <1>6 DEF ApplyOcr
<1> QED
  <2>1. CASE UNCHANGED vars
    BY <1>1, <2>1 DEF vars
  <2>2. ASSUME NEW l \in Rev, Record(l) \/ CreateInstance(l) \/ MarkUnavailable(l) PROVE Kept
    BY <1>1, <1>3, <2>2 DEF Record, CreateInstance, d1
  <2>3. ASSUME NEW l \in Rev, WorkflowStep(l) PROVE Kept
    BY <1>1, <1>2, <2>3 DEF WorkflowStep, Load, BeginConvert, StepFailed, GiveUp, EngineError, d1
  <2>4. ASSUME NEW l \in Rev, NEW e \in Exec, Attempt(l, e) \/ Reopen(l, e) PROVE Kept
    BY <1>1, <2>4 DEF Attempt, Reopen, d1
  <2>5. ASSUME NEW e \in Exec, StorageStep(e) PROVE Kept
    BY <1>1, <1>4, <1>5, <2>5 DEF StorageStep, CommitRead, BatchLost, CommitConfirm, Abort, d1
  <2>6. ASSUME StartOcr PROVE Kept
    BY <1>1, <2>6 DEF StartOcr, d1
  <2>7. ASSUME NEW p \in Page, Publish(p) PROVE Kept
    BY <1>1, <2>7 DEF Publish
  <2> QED BY <1>6, <2>1, <2>2, <2>3, <2>4, <2>5, <2>6, <2>7 DEF Next

(* Late, repeated and overlapping commits, recorded storage failures and readers'  *)
(* cleanups leave a terminal row as it is, for any number of them.               *)
THEOREM TerminalRowsStay == Spec => TerminalIsFinal
<1>1. IInv /\ [Next]_vars =>
        [\A r \in Rev : /\ Recorded(r) /\ ~Writable(r) => UNCHANGED <<state[r], error[r], calls[r]>>
                        /\ state[r] # "pending" => state'[r] # "pending"]_vars
  BY TerminalStep
<1> QED BY <1>1, Invariance, PTL DEF Spec, TerminalIsFinal

-----------------------------------------------------------------------------
(* Refinement.  The three sets the revision ledger is seen through. *)
Created == {r \in Rev : wf[r] # "absent"}
Settled == {r \in Rev : Recorded(r) /\ state[r] # "pending"}
Marked  == {r \in Rev : error[r] = "status_unavailable"}

(* A step that leaves rows, states and errors alone, and starts no Workflow. *)
LEMMA LedgerStutter ==
  ASSUME UNCHANGED <<row, state, error>>, \A r \in Rev : wf'[r] = "absent" <=> wf[r] = "absent"
  PROVE  UNCHANGED <<row, Created, Settled, Marked>>
BY DEF Created, Settled, Marked, Recorded

(* The row of r is appended as the newest of its source. *)
LEMMA LedgerAppend ==
  ASSUME TypeOK, NEW r \in Rev, row[r] = None, NEW s \in Source, NEW n \in NextNos(s),
         NEW k \in Kind \cup {"reviewed"}, row' = [row EXCEPT ![r] = [src |-> s, no |-> n, kind |-> k]]
  PROVE  Ledger!Append(r)
<1>1. row \in [Rev -> Row \cup {None}]
  BY DEF TypeOK
<1>2. n \in Nat \ {0} /\ \A l \in Rev : row[l] # None /\ row[l].src = s => row[l].no < n
  BY <1>1 DEF NextNos, Latest, RevsOf, Recorded, Row
<1>3. n = 1 \/ \E l \in Rev : row[l] # None /\ row[l].src = s /\ n = row[l].no + 1
  BY DEF NextNos, Latest, RevsOf, Recorded
<1>4. [src |-> s, no |-> n, kind |-> k] \in Row
  BY <1>2 DEF Row
<1>5. /\ row'[r] # None /\ row'[r].src = s /\ row'[r].no = n /\ row' = [row EXCEPT ![r] = row'[r]]
      /\ \A l \in Rev \ {r} : row'[l] = row[l]
  BY <1>1, <1>4, NoneAssumption
<1>6. Ledger!Newest(r)'
  BY <1>2, <1>3, <1>5 DEF Ledger!Newest, Ledger!Others, Ledger!Recorded
<1> QED BY <1>5, <1>6 DEF Ledger!Append, Ledger!Recorded

LEMMA RecordIsRecord ==
  ASSUME IInv, NEW r \in Rev, Record(r)
  PROVE  Ledger!Record(r)
<1>1. PICK s \in Source, k \in Kind : \E n \in NextNos(s) :
        row' = [row EXCEPT ![r] = [src |-> s, no |-> n, kind |-> k]]
  BY DEF Record
<1>2. PICK n \in NextNos(s) : row' = [row EXCEPT ![r] = [src |-> s, no |-> n, kind |-> k]]
  BY <1>1
<1>3. row[r] = None /\ UNCHANGED <<wf, error, state>> /\ state[r] = "pending"
  BY DEF Record, Recorded, engine, IInv, Untouched
<1>4. Ledger!Append(r)
  BY <1>2, <1>3, LedgerAppend DEF IInv
<1>5. \A l \in Rev \ {r} : row'[l] = row[l]
  BY <1>2 DEF IInv, TypeOK
<1>6. UNCHANGED <<Created, Settled, Marked>>
  BY <1>3, <1>5 DEF Created, Settled, Marked, Recorded
<1> QED BY <1>4, <1>6 DEF Ledger!Record, Created, Settled, Marked

LEMMA ApplyIsRecordSettled ==
  ASSUME IInv, NEW r \in Rev, ApplyOcr(r)
  PROVE  Ledger!RecordSettled(r)
<1>1. /\ ocr \in OcrJob /\ row[r] = None /\ UNCHANGED <<wf, error>>
      /\ row' = [row EXCEPT ![r] = [src |-> ocr.src, no |-> row[ocr.base].no + 1, kind |-> "reviewed"]]
      /\ state' = [state EXCEPT ![r] = "readable"] /\ ocr.base \in Latest(ocr.src)
  BY DEF ApplyOcr, Recorded, engine, IInv, TypeOK
<1>2. ocr.src \in Source /\ row[ocr.base].no + 1 \in NextNos(ocr.src)
  BY <1>1 DEF OcrJob, NextNos, Latest
<1>3. Ledger!Append(r)
  BY <1>1, <1>2, LedgerAppend DEF IInv
<1>4. /\ row'[r] # None /\ state'[r] = "readable"
      /\ \A l \in Rev \ {r} : row'[l] = row[l] /\ state'[l] = state[l]
  BY <1>1, <1>3 DEF Ledger!Append, Ledger!Newest, Ledger!Recorded, IInv, TypeOK
<1>5. Settled' = Settled \cup {r}
  BY <1>4 DEF Settled, Recorded
<1>6. UNCHANGED <<Created, Marked>>
  BY <1>1 DEF Created, Marked
<1> QED BY <1>3, <1>5, <1>6 DEF Ledger!RecordSettled, Created, Settled, Marked

(* A row that receives a result or a storage failure settles, or was settled. *)
LEMMA SettleOrStay ==
  ASSUME IInv, NEW r \in Rev, Recorded(r), wf[r] # "absent",
         NEW STATE st, NEW STATE er, st # "pending", er # "status_unavailable",
         state[r] # "pending" => error[r] # "status_unavailable",
         state' = [state EXCEPT ![r] = st], error' = [error EXCEPT ![r] = er], UNCHANGED row,
         \A l \in Rev : wf'[l] = "absent" <=> wf[l] = "absent"
  PROVE  Ledger!Settle(r) \/ UNCHANGED <<row, Created, Settled, Marked>>
<1>1. /\ state'[r] = st /\ error'[r] = er
      /\ \A l \in Rev \ {r} : state'[l] = state[l] /\ error'[l] = error[l]
  BY DEF IInv, TypeOK
<1>2. UNCHANGED Created /\ Settled' = Settled \cup {r} /\ Marked' = Marked \ {r} /\ r \in Created
  BY <1>1 DEF Created, Settled, Marked, Recorded
<1>3. CASE r \notin Settled
  BY <1>2, <1>3 DEF Ledger!Settle, Created, Settled, Marked
<1>4. CASE r \in Settled
  BY <1>2, <1>4 DEF Settled, Marked
<1> QED BY <1>3, <1>4

LEMMA UnmarkedWhenSettled ==
  ASSUME IInv, NEW r \in Rev, Recorded(r), wf[r] # "absent", state[r] # "pending"
  PROVE  error[r] # "status_unavailable"
BY DEF IInv, RowIsTheResult, Started, Writable, HoldsResult

LEMMA StorageIsSettle ==
  ASSUME IInv, NEW e \in Exec, RecordFailure(e) \/ CommitBatch(e)
  PROVE  \/ \E r \in Rev : Ledger!Settle(r)
         \/ UNCHANGED <<row, Created, Settled, Marked>>
<1>0. PICK r \in Rev : r = exec[e].rev
  BY DEF RecordFailure, CommitBatch, IInv, TypeOK, Job
<1>1. /\ Recorded(r) /\ wf[r] # "absent" /\ row' = row
      /\ exec[e].at = "batch" => output[r] \in Stored
  BY <1>0 DEF RecordFailure, CommitBatch, IInv, TypeOK, Job, Jobs, Started
<1>2. \A l \in Rev : wf'[l] = "absent" <=> wf[l] = "absent"
  BY <1>0, <1>1 DEF RecordFailure, CommitBatch, AdvanceTo, engine, IInv, TypeOK
<1>3. state[r] # "pending" => error[r] # "status_unavailable"
  BY <1>1, UnmarkedWhenSettled
<1>4. CASE UNCHANGED <<state, error>>
  BY <1>1, <1>2, <1>4, LedgerStutter
<1>5. ASSUME NEW STATE st, NEW STATE er, st # "pending", er # "status_unavailable",
             state' = [state EXCEPT ![r] = st], error' = [error EXCEPT ![r] = er]
      PROVE  Ledger!Settle(r) \/ UNCHANGED <<row, Created, Settled, Marked>>
  BY <1>1, <1>2, <1>3, <1>5, SettleOrStay
<1>6. CASE RecordFailure(e)
  <2>1. CASE state' = [state EXCEPT ![r] = "failed"] /\ error' = [error EXCEPT ![r] = "storage_failure"]
    BY <1>1, <1>5, <2>1
  <2> QED BY <1>0, <1>4, <1>6, <2>1 DEF RecordFailure
<1>7. CASE CommitBatch(e)
  <2>1. state' = [state EXCEPT ![r] = RowAfter(r).state] /\ error' = [error EXCEPT ![r] = RowAfter(r).error]
        /\ output[r] \in Stored
    BY <1>0, <1>1, <1>7 DEF CommitBatch
  <2>2. CASE Writable(r)
    <3>1. RowAfter(r).state # "pending" /\ RowAfter(r).error # "status_unavailable"
      BY <2>1, <2>2 DEF RowAfter, Stored
    <3> QED BY <1>1, <1>5, <2>1, <3>1
  <2>3. CASE ~Writable(r)
    <3>1. UNCHANGED <<state, error>>
      BY <1>1, <2>1, <2>3 DEF RowAfter, IInv, TypeOK
    <3> QED BY <1>4, <3>1
  <2> QED BY <2>2, <2>3
<1> QED BY <1>6, <1>7

LEMMA ClearErrorIsClear ==
  ASSUME IInv, NEW e \in Exec, ClearError(e)
  PROVE  \/ \E r \in Rev : Ledger!ClearMark(r)
         \/ UNCHANGED <<row, Created, Settled, Marked>>
<1> DEFINE r == exec[e].rev
<1>1. r \in Rev /\ wf[r] # "absent" /\ UNCHANGED <<row, state, wf>>
  BY DEF ClearError, IInv, TypeOK, Job, Jobs, engine
<1>2. CASE error' = error
  BY <1>1, <1>2, LedgerStutter
<1>3. CASE error' = [error EXCEPT ![r] = "none"]
  <2>1. error'[r] = "none" /\ \A l \in Rev \ {r} : error'[l] = error[l]
    BY <1>1, <1>3 DEF IInv, TypeOK
  <2>2. Marked' = Marked \ {r} /\ r \in Created /\ UNCHANGED <<row, Created, Settled>>
    BY <1>1, <2>1 DEF Created, Settled, Marked, Recorded
  <2> QED BY <1>1, <2>2 DEF Ledger!ClearMark, Created, Settled, Marked
<1> QED BY <1>2, <1>3 DEF ClearError

LEMMA LedgerStep ==
  ASSUME IInv, [Next]_vars
  PROVE  [Ledger!Next]_(Ledger!vars)
<1> DEFINE Step == Ledger!Next \/ UNCHANGED <<row, Created, Settled, Marked>>
<1>0. Step => [Ledger!Next]_(Ledger!vars)
  BY DEF Ledger!vars, Created, Settled, Marked
<1> HIDE DEF Step
<1>1. ASSUME UNCHANGED <<row, Created, Settled, Marked>> PROVE Step
  BY <1>1 DEF Step
<1>2. ASSUME NEW r \in Rev, Ledger!Record(r) \/ Ledger!RecordSettled(r) \/ Ledger!Start(r) \/ Ledger!Settle(r)
                            \/ Ledger!Mark(r) \/ Ledger!ClearMark(r)
      PROVE  Step
  BY <1>2 DEF Step, Ledger!Next
<1>3. ASSUME UNCHANGED <<row, state, error>>, \A r \in Rev : wf'[r] = "absent" <=> wf[r] = "absent" PROVE Step
  BY <1>1, <1>3, LedgerStutter
<1>4. wf \in [Rev -> WfState]
  BY DEF IInv, TypeOK
<1>5. ASSUME NEW r \in Rev, CreateInstance(r) PROVE Step
  <2>1. Created' = Created \cup {r} /\ r \notin Created /\ UNCHANGED <<row, Settled, Marked>>
    BY <1>4, <1>5 DEF CreateInstance, AdvanceTo, d1, Created, Settled, Marked, Recorded
  <2>2. Ledger!Start(r)
    BY <1>5, <2>1 DEF CreateInstance, Recorded, Ledger!Start, Ledger!Recorded, Created, Settled, Marked
  <2> QED BY <1>2, <2>2
<1>6. ASSUME NEW r \in Rev, MarkUnavailable(r) PROVE Step
  <2>1. error'[r] = "status_unavailable" /\ \A l \in Rev \ {r} : error'[l] = error[l]
    BY <1>6 DEF MarkUnavailable, IInv, TypeOK
  <2>2. Marked' = Marked \cup {r} /\ r \notin Settled /\ UNCHANGED <<row, Created, Settled>>
    BY <1>6, <2>1 DEF MarkUnavailable, engine, Created, Settled, Marked, Recorded
  <2>3. Ledger!Mark(r)
    BY <1>6, <2>2 DEF MarkUnavailable, Recorded, Ledger!Mark, Ledger!Recorded, Created, Settled, Marked
  <2> QED BY <1>2, <2>3
<1>7. ASSUME NEW r \in Rev, WorkflowStep(r) PROVE Step
  <2>1. UNCHANGED <<row, state, error>>
    BY <1>7 DEF WorkflowStep, Load, BeginConvert, StepFailed, GiveUp, EngineError, ConvertStep,
                ReadOriginal, Claim, Dispatch, Converted, PutText, PutBlocks, Stopped, d1
  <2>2. wf' = wf \/ \E l \in Active \cup {"complete", "errored"} :
                      wf[r] # "absent" /\ wf' = [wf EXCEPT ![r] = l]
    <3>1. CASE Load(r) \/ BeginConvert(r) \/ StepFailed(r) \/ GiveUp(r) \/ EngineError(r)
      BY <3>1 DEF Load, BeginConvert, StepFailed, GiveUp, EngineError, AdvanceTo, Active
    <3>2. CASE \E n \in 1 .. MaxRuns : ConvertStep(r, n)
      BY <3>2 DEF ConvertStep, ReadOriginal, Claim, Dispatch, Converted, PutText, PutBlocks, Stopped,
                  ConvertTo, Result, AdvanceTo, Active
    <3> QED BY <1>7, <3>1, <3>2 DEF WorkflowStep
  <2>3. \A l \in Rev : wf'[l] = "absent" <=> wf[l] = "absent"
    BY <1>4, <2>2 DEF Active
  <2> QED BY <1>3, <2>1, <2>3
<1>8. ASSUME NEW e \in Exec, StorageStep(e) PROVE Step
  <2>1. CASE ClearError(e)
    BY <1>1, <1>2, <2>1, ClearErrorIsClear
  <2>2. CASE RecordFailure(e) \/ CommitBatch(e)
    BY <1>1, <1>2, <2>2, StorageIsSettle
  <2>3. CASE CommitRead(e) \/ BatchLost(e) \/ Abort(e)
    BY <1>3, <2>3 DEF CommitRead, BatchLost, Abort, d1, engine
  <2>4. CASE CommitConfirm(e)
    BY <1>3, <1>4, <2>4 DEF CommitConfirm, AdvanceTo, d1
  <2> QED BY <1>8, <2>1, <2>2, <2>3, <2>4 DEF StorageStep
<1> QED
  <2>1. ASSUME UNCHANGED vars PROVE Step
    BY <1>3, <2>1 DEF vars
  <2>2. ASSUME NEW r \in Rev, Record(r) \/ CreateInstance(r) \/ MarkUnavailable(r) PROVE Step
    BY <1>2, <1>5, <1>6, <2>2, RecordIsRecord
  <2>3. ASSUME NEW r \in Rev, NEW e \in Exec, Attempt(r, e) \/ Reopen(r, e) PROVE Step
    BY <1>3, <2>3 DEF Attempt, Reopen, d1, engine
  <2>4. ASSUME StartOcr PROVE Step
    BY <1>3, <2>4 DEF StartOcr, d1, engine
  <2>5. ASSUME NEW r \in Rev, ApplyOcr(r) PROVE Step
    BY <1>2, <2>5, ApplyIsRecordSettled
  <2>6. ASSUME NEW p \in Page, Publish(p) PROVE Step
    BY <1>3, <2>6 DEF Publish, engine
  <2> QED BY <1>0, <1>7, <1>8, <2>1, <2>2, <2>3, <2>4, <2>5, <2>6 DEF Next

(* The ingest pipeline treats captured revisions as capture and its readers were    *)
(* promised: every step of it is a step of the revision ledger or none.          *)
THEOREM IngestKeepsLedger == Spec => LedgerSpec
<1>1. Init => Ledger!Init
  BY DEF Init, Ledger!Init, Recorded
<1>2. IInv /\ [Next]_vars => [Ledger!Next]_(Ledger!vars)
  BY LedgerStep
<1> QED BY <1>1, <1>2, Invariance, PTL DEF Spec, LedgerSpec, Ledger!Spec
=============================================================================
