----------------------------- MODULE Understanding -----------------------------
(***************************************************************************)
(* Source understanding: two paid model calls per attempt, made by a Workflow     *)
(* (src/workflows/distill.ts), admitted two revisions at a time (src/cost.ts),    *)
(* retried and re-saved only by the owner (src/understanding-attempts.ts).        *)
(*                                                                          *)
(* One D1 row per revision holds its current attempt.  Workflow executions,       *)
(* scheduler passes (cron, the end of a Workflow, a request) and owner requests    *)
(* run concurrently, and each write is guarded by the row it read.                *)
(***************************************************************************)
EXTENDS Naturals, Sequences, FiniteSets

CONSTANTS
  Rev,
  Attempt,    \* retry identities, chosen by clients
  Pass,       \* scheduler passes at work at once
  Req,        \* retry and save requests
  Answers,    \* what a model call can return: subset of {"full", "thin", "bad"}
  MayCrash,   \* whether a pass can be cut off between two awaits
  None

(* An attempt's identity is coalesce(distill_attempt_id, id). *)
Id == Rev \cup Attempt
Worker == Id \cup Pass

ASSUME IdAssumption == Rev \cap Attempt = {} /\ Pass \cap Id = {}
ASSUME AnswersAssumption == Answers \subseteq {"full", "thin", "bad"} /\ MayCrash \in BOOLEAN

VARIABLES
  row,      \* source_revision: the current attempt
  claims,   \* claim rows of each revision: the attempt that wrote them last
  hist,     \* distill_history
  bucket,   \* R2 objects of each attempt
  snap,     \* R2 history/<retry>.json beneath an attempt
  age,      \* time since each attempt was admitted
  paid,     \* the calls each attempt made, in order (history)
  at,       \* Workflow instance of each attempt: where its run() is
  loose,    \* where the callback is that outlived the timeout of its step
  fin,      \* finish() in progress, by Workflow or pass
  pass,     \* scheduler passes in progress
  req       \* owner requests

vars == <<row, claims, hist, bucket, snap, age, paid, at, loose, fin, pass, req>>
db == <<row, claims, hist>>
r2 == <<bucket, snap>>
run == <<age, paid>>
wf == <<at, loose>>

State == {"none", "queued", "running", "paused", "done", "partial", "failed"}
Settled == {"done", "partial", "failed"}
Tokens == 0 .. 2 \cup {None}   \* how many calls' usage a count sums; None is unknown
Body == [rev : Rev, prev : Id]
Row == [id : Id, body : Body \cup {None}, st : State, calls : 0 .. 2,
        limit : {"unset", "held", "released"}, tok : Tokens,
        sum : BOOLEAN, kept : BOOLEAN, key : {None, "own", "checked"}]
Report == [st : Settled, kept : BOOLEAN, calls : 0 .. 2, tok : Tokens]
Objects == [call : [1 .. 2 -> Answers \cup {"bad", None}],
            report : Report \cup {None}, checked : Report \cup {None}]
Steps == {"prepare1", "send1", "answer1", "verify", "prepare2", "send2", "answer2", "commit"}
Stage == Steps \cup {"absent", "finish", "catch", "schedule", "ended"}
Finish == [at : {"row", "objects", "put", "update"}, id : Id, err : BOOLEAN, full : BOOLEAN,
           seen : Row \cup {None}, report : Report \cup {None}]
Visit == [at : {"admit", "create", "undo", "status", "finish", "caught"}, id : Id]
Call == [op : {"retry", "save"}, rev : Rev, t : Attempt \cup {None}, prev : Id \cup {None}, seen : Row,
         at : {"check", "status", "settle", "put", "switch", "reply", "reject", "save", "saved", "done"},
         claims : Id \cup {None}, sure : BOOLEAN, out : {None, "accepted", "rejected", "saved", "error"}]
Fresh(i) == [id |-> i, body |-> None, st |-> "none", calls |-> 0, limit |-> "unset", tok |-> None,
             sum |-> FALSE, kept |-> FALSE, key |-> None]
Archive == [rev : Rev, body : Body \cup {None}, snap : Attempt \cup {None}]
Copy == [row : Row, claims : Id \cup {None}]

ASSUME NoneAssumption ==
  None \notin Id \cup Row \cup Report \cup Archive \cup Copy \cup Steps
            \cup {"full", "thin", "bad", "own", "checked", "accepted", "rejected", "over"}

TypeOK ==
  /\ row \in [Rev -> Row]
  /\ claims \in [Rev -> Id \cup {None}]
  /\ hist \in [Id -> Archive \cup {None}]
  /\ bucket \in [Id -> Objects]
  /\ snap \in [Id \X Attempt -> Copy \cup {None}]
  /\ age \in [Id -> {"new", "stale", "late"}]
  /\ paid \in [Id -> {<<>>, <<1>>, <<1, 2>>}]
  /\ at \in [Id -> Stage]
  /\ loose \in [Id -> Steps \cup {None, "over"}]
  /\ fin \in [Worker -> Finish \cup {None}]
  /\ pass \in [Pass -> Visit \cup {None}]
  /\ req \in [Req -> Call \cup {None}]

Init ==
  /\ row = [r \in Rev |-> Fresh(r)]
  /\ claims = [r \in Rev |-> None]
  /\ hist = [i \in Id |-> None]
  /\ bucket = [i \in Id |-> [call |-> [n \in 1 .. 2 |-> None], report |-> None, checked |-> None]]
  /\ snap = [k \in Id \X Attempt |-> None]
  /\ age = [i \in Id |-> "new"]
  /\ paid = [i \in Id |-> <<>>]
  /\ at = [i \in Id |-> "absent"]
  /\ loose = [i \in Id |-> None]
  /\ fin = [w \in Worker |-> None]
  /\ pass = [p \in Pass |-> None]
  /\ req = [q \in Req |-> None]

(* WHERE distill_state = 'running' AND distill_attempt_id IS ? *)
Owns_Settled(i, r) == row[r].id = i                                   \* fault: state not tested
Owns(i, r) == row[r].id = i /\ row[r].st = "running"
Running(i) == \E r \in Rev : Owns(i, r)

-----------------------------------------------------------------------------
(* Time passes while an attempt runs: 5 minutes, then the 15-minute deadline. *)
Age(i) ==
  /\ Running(i) /\ age[i] # "late"
  /\ age' = [age EXCEPT ![i] = IF @ = "new" THEN "stale" ELSE "late"]
  /\ UNCHANGED <<db, r2, paid, wf, fin, pass, req>>

(* The plain request: only an untouched or paused row is queued. *)
Request(r) ==
  /\ row[r].st \in {"none", "paused"} /\ row[r].calls = 0
  /\ row' = [row EXCEPT ![r].st = "queued"]
  /\ UNCHANGED <<claims, hist, r2, run, wf, fin, pass, req>>

-----------------------------------------------------------------------------
(* Scheduler passes.                                                         *)
Visits(p, i, stage) == pass' = [pass EXCEPT ![p] = [at |-> stage, id |-> i]]
Leaves(p) == pass' = [pass EXCEPT ![p] = None]

ListRunning(p, r) ==
  /\ pass[p] = None
  /\ row[r].st = "running" /\ age[row[r].id] # "new"
  /\ Visits(p, row[r].id, "status")
  /\ UNCHANGED <<db, r2, run, wf, fin, req>>

ListQueued(p, r) ==
  /\ pass[p] = None
  /\ row[r].st = "queued" /\ row[r].calls = 0
  /\ Visits(p, row[r].id, "admit")
  /\ UNCHANGED <<db, r2, run, wf, fin, req>>

Queued(i, r) == row[r].id = i /\ row[r].st = "queued" /\ row[r].calls = 0
RunningRows == {r \in Rev : row[r].st = "running"}

Admissible(i, r) == Queued(i, r) /\ Cardinality(RunningRows) < 2

(* The model is unavailable: park the row. *)
Pause(p) ==
  /\ pass[p] # None /\ pass[p].at = "admit"
  /\ row' = [r \in Rev |-> IF Queued(pass[p].id, r) THEN [row[r] EXCEPT !.st = "paused"] ELSE row[r]]
  /\ Leaves(p)
  /\ UNCHANGED <<claims, hist, r2, run, wf, fin, req>>

Admit(p) ==
  /\ pass[p] # None /\ pass[p].at = "admit"
  /\ LET i == pass[p].id IN
       /\ row' = [r \in Rev |-> IF Admissible(i, r) THEN [row[r] EXCEPT !.st = "running", !.limit = "held"] ELSE row[r]]
       /\ IF \E r \in Rev : Admissible(i, r) THEN Visits(p, i, "create") ELSE Leaves(p)
  /\ UNCHANGED <<claims, hist, r2, run, wf, fin, req>>

(* DISTILL.create: it may throw whether or not the instance was created. *)
Create(p) ==
  /\ pass[p] # None /\ pass[p].at = "create"
  /\ LET i == pass[p].id IN
       \/ /\ at[i] = "absent" /\ at' = [at EXCEPT ![i] = "prepare1"]
          /\ Leaves(p) \/ Visits(p, i, "undo")
       \/ Visits(p, i, "undo") /\ UNCHANGED at
  /\ UNCHANGED <<db, r2, run, loose, fin, req>>

Unpaid(i, r) == Owns(i, r) /\ row[r].calls = 0

(* failUndispatchedDistill *)
Release(i) ==
  row' = [r \in Rev |-> IF Unpaid(i, r)
            THEN [row[r] EXCEPT !.st = "failed", !.limit = "released", !.tok = 0] ELSE row[r]]

Undo(p) ==
  /\ pass[p] # None /\ pass[p].at = "undo"
  /\ Release(pass[p].id) /\ Leaves(p)
  /\ UNCHANGED <<claims, hist, r2, run, wf, fin, req>>

NewFinish(i, err, full) ==
  [at |-> "row", id |-> i, err |-> err, full |-> full, seen |-> None, report |-> None]
Begin(w, f) == fin' = [fin EXCEPT ![w] = f]

FinishIfLate_Never(p, i, stage) == Leaves(p) /\ UNCHANGED fin          \* fault: no deadline

(* Finish the attempt past its deadline; a younger one is left alone. *)
FinishIfLate(p, i, stage) ==
  IF age[i] = "late" THEN Visits(p, i, stage) /\ Begin(p, NewFinish(i, TRUE, FALSE))
                     ELSE Leaves(p) /\ UNCHANGED fin

(* The instance's status: ended, active, unknown, or an error reading it. *)
StatusKnown(p) ==
  /\ pass[p] # None /\ pass[p].at = "status"
  /\ LET i == pass[p].id IN
       /\ at[i] # "absent"
       /\ IF at[i] = "ended" THEN Visits(p, i, "finish") /\ Begin(p, NewFinish(i, TRUE, FALSE))
                             ELSE FinishIfLate(p, i, "finish")
  /\ UNCHANGED <<db, r2, run, wf, req>>

StatusUnknown(p) ==
  /\ pass[p] # None /\ pass[p].at = "status"
  /\ LET i == pass[p].id IN
       /\ Release(i)
       /\ IF \E r \in Rev : Unpaid(i, r) THEN Leaves(p) /\ UNCHANGED fin
          ELSE \E stage \in {"finish", "caught"} : FinishIfLate(p, i, stage)
  /\ UNCHANGED <<claims, hist, r2, run, wf, req>>

(* finish() threw inside the try, then again inside the catch. *)
Caught(p) ==
  /\ pass[p] # None /\ pass[p].at = "finish" /\ fin[p] # None
  /\ LET i == pass[p].id IN
       /\ Release(i)
       /\ IF \E r \in Rev : Unpaid(i, r) THEN Leaves(p) /\ Begin(p, None)
          ELSE IF age[i] = "late" THEN Visits(p, i, "caught") /\ Begin(p, NewFinish(i, TRUE, FALSE))
          ELSE Leaves(p) /\ Begin(p, None)
  /\ UNCHANGED <<claims, hist, r2, run, wf, req>>

LastResort(p) ==
  /\ pass[p] # None /\ pass[p].at = "caught" /\ fin[p] # None
  /\ row' = [r \in Rev |-> IF Owns(pass[p].id, r) THEN [row[r] EXCEPT !.st = "failed"] ELSE row[r]]
  /\ Leaves(p) /\ Begin(p, None)
  /\ UNCHANGED <<claims, hist, r2, run, wf, req>>

Crash(p) ==
  /\ MayCrash /\ pass[p] # None
  /\ Leaves(p) /\ Begin(p, None)
  /\ UNCHANGED <<db, r2, run, wf, req>>

-----------------------------------------------------------------------------
(* finish(): read the row, then the stored objects, write the immutable report    *)
(* distill.json, then the row.  Workflows and passes run it concurrently.          *)
Finishing(w, stage) == fin[w] # None /\ fin[w].at = stage
(* run() goes on to a scheduler pass of its own; a pass goes on to the next row. *)
Returns(w) ==
  /\ Begin(w, None)
  /\ IF w \in Id THEN at' = [at EXCEPT ![w] = "schedule"] /\ UNCHANGED <<loose, pass>>
                 ELSE Leaves(w) /\ UNCHANGED wf

ReadRow(w) ==
  /\ Finishing(w, "row")
  /\ LET i == fin[w].id IN
       IF Running(i)
         THEN /\ \E r \in Rev : Owns(i, r) /\ Begin(w, [fin[w] EXCEPT !.at = "objects", !.seen = row[r]])
              /\ UNCHANGED <<wf, pass>>
         ELSE Returns(w)
  /\ UNCHANGED <<db, r2, run, req>>

FinalState(f) ==
  IF f.err /\ ~f.seen.sum THEN "failed"
  ELSE IF f.err \/ ~f.seen.kept \/ ~f.seen.sum \/ ~f.full THEN "partial" ELSE "done"

Usage_Stored(i, n) ==                                        \* fault: a missing answer goes unnoticed
  Cardinality({k \in 1 .. 2 : bucket[i].call[k] # None})

(* The sum of the stored usages, when there is one for every counted call. *)
Usage(i, n) ==
  LET measured == Cardinality({k \in 1 .. 2 : bucket[i].call[k] # None})
  IN  IF measured = n THEN n ELSE None

ReadObjects(w) ==
  /\ Finishing(w, "objects")
  /\ LET f == fin[w] IN
       IF bucket[f.id].report # None
         THEN Begin(w, [f EXCEPT !.at = "update", !.report = bucket[f.id].report])
         ELSE Begin(w, [f EXCEPT !.at = "put",
                !.report = [st |-> FinalState(f), kept |-> f.seen.kept,
                            calls |-> f.seen.calls, tok |-> Usage(f.id, f.seen.calls)]])
  /\ UNCHANGED <<db, r2, run, wf, pass, req>>

(* onlyIf: an existing report stays; it passes only for the same bytes. *)
PutReport(w) ==
  /\ Finishing(w, "put")
  /\ LET f == fin[w] IN
       /\ bucket[f.id].report \in {None, f.report}
       /\ bucket' = [bucket EXCEPT ![f.id].report = f.report]
       /\ Begin(w, [f EXCEPT !.at = "update"])
  /\ UNCHANGED <<db, snap, run, wf, pass, req>>

OwnKey(i) == IF i \in Attempt THEN "own" ELSE None

UpdateRow(w) ==
  /\ Finishing(w, "update")
  /\ LET f == fin[w] IN
       row' = [r \in Rev |-> IF Owns(f.id, r)
                 THEN [row[r] EXCEPT !.st = f.report.st, !.tok = f.report.tok, !.key = OwnKey(f.id)] ELSE row[r]]
  /\ Returns(w)
  /\ UNCHANGED <<claims, hist, r2, run, req>>

-----------------------------------------------------------------------------
(* The Workflow of one attempt.  When a step times out, run() goes on to its catch,   *)
(* while the step's callback goes on as well: with reads, the dispatch, the answer.   *)
Goes(i, stage) == at' = [at EXCEPT ![i] = stage]
Strays(i, stage) == loose' = [loose EXCEPT ![i] = stage]

(* A callback at a stage of its step, still awaited or not. *)
In(i, stage) == at[i] = stage \/ loose[i] = stage
Awaited(i) == at[i] \in Steps

Moves(i, stage) ==
  IF Awaited(i) THEN Goes(i, stage) /\ UNCHANGED loose ELSE Strays(i, stage) /\ UNCHANGED at
(* What a callback returns, run() goes on with only where it still waits. *)
Resolves(i, stage) ==
  IF Awaited(i) THEN Goes(i, stage) /\ UNCHANGED loose ELSE Strays(i, "over") /\ UNCHANGED at

(* A step failed for good: finish outside any step. *)
ToCatch(i) == Goes(i, "catch") /\ Begin(i, NewFinish(i, TRUE, FALSE))
Throws(i) ==
  IF Awaited(i) THEN ToCatch(i) /\ UNCHANGED loose ELSE Strays(i, "over") /\ UNCHANGED <<at, fin>>

Prepare(i, n) ==
  /\ In(i, <<"prepare1", "prepare2">>[n])
  /\ IF Running(i) /\ age[i] # "late"
       THEN Moves(i, <<"send1", "send2">>[n]) /\ UNCHANGED fin
       ELSE Throws(i)
  /\ UNCHANGED <<db, r2, run, pass, req>>

CanSend_Twice(i, n, r) == Owns(i, r) /\ row[r].calls \in {n - 1, n}    \* fault: a replay pays again
CanSend_Stopped(i, n, r) == row[r].id = i /\ row[r].calls = n - 1      \* fault: state not tested
CanSend(i, n, r) == Owns(i, r) /\ row[r].calls = n - 1

(* The dispatch compare-and-set, then generateText. The reply may be lost. *)
Send(i, n) ==
  /\ In(i, <<"send1", "send2">>[n])
  /\ row' = [r \in Rev |-> IF CanSend(i, n, r) THEN [row[r] EXCEPT !.calls = n] ELSE row[r]]
  /\ \/ /\ \E r \in Rev : CanSend(i, n, r)
        /\ Moves(i, <<"answer1", "answer2">>[n]) /\ UNCHANGED fin
        /\ paid' = [paid EXCEPT ![i] = Append(@, n)]
     \/ Throws(i) /\ UNCHANGED paid
  /\ UNCHANGED <<claims, hist, r2, age, pass, req>>

(* The model's answer, usable or not, is stored unless the store fails. *)
Answer(i, n) ==
  /\ In(i, <<"answer1", "answer2">>[n])
  /\ \/ \E a \in Answers \ {"bad"} :
          /\ bucket' = [bucket EXCEPT ![i].call[n] = a]
          /\ \/ Resolves(i, <<"verify", "commit">>[n]) /\ UNCHANGED fin
             \/ Throws(i)
     \/ bucket' = [bucket EXCEPT ![i].call[n] = "bad"] /\ "bad" \in Answers /\ Throws(i)
     \/ UNCHANGED bucket /\ Throws(i)
  /\ UNCHANGED <<db, snap, run, pass, req>>

(* The platform runs an interrupted paid step again from its start. *)
Replay(i, n) ==
  /\ at[i] \in {<<"send1", "send2">>[n], <<"answer1", "answer2">>[n]}
  /\ Goes(i, <<"prepare1", "prepare2">>[n])
  /\ UNCHANGED <<db, r2, run, loose, fin, pass, req>>

VerifyAndStore(i) ==
  /\ In(i, "verify")
  /\ row' = [r \in Rev |-> IF Owns(i, r) THEN [row[r] EXCEPT !.tok = 1] ELSE row[r]]
  /\ Resolves(i, "prepare2")
  /\ UNCHANGED <<claims, hist, r2, run, fin, pass, req>>

Publishes(i, r) == Owns(i, r)

(* Claims, summary and count in one batch, which changes nothing once the       *)
(* attempt is settled.                                                         *)
CommitSynthesis(i) ==
  /\ In(i, "commit")
  /\ LET full == bucket[i].call[2] = "full" IN
       /\ row' = [r \in Rev |-> IF Publishes(i, r) THEN [row[r] EXCEPT !.sum = TRUE, !.kept = full] ELSE row[r]]
       /\ claims' = [r \in Rev |-> IF Publishes(i, r) /\ full THEN i ELSE claims[r]]
       /\ Resolves(i, "finish")
       /\ IF Awaited(i) THEN Begin(i, NewFinish(i, FALSE, full)) ELSE UNCHANGED fin
  /\ UNCHANGED <<hist, r2, run, pass, req>>

(* A step ran out of retries. *)
StepFails(i) ==
  /\ at[i] \in {"prepare1", "verify", "prepare2", "commit", "finish"}
  /\ ToCatch(i)
  /\ UNCHANGED <<db, r2, run, loose, pass, req>>

PaidSteps == Steps \ {"verify", "commit"}
(* A step timed out (a paid one after 7 minutes, when the attempt is older than 5), and   *)
(* nothing stops its callback.                                                  *)
TimesOut(i) ==
  /\ Awaited(i) /\ (at[i] \in PaidSteps => age[i] # "new")
  /\ ToCatch(i) /\ Strays(i, at[i])
  /\ UNCHANGED <<db, r2, run, pass, req>>

(* finish is retried as a step; outside a step its failure ends the Workflow. *)
FinishRetried(i) ==
  /\ at[i] = "finish" /\ fin[i] # None
  /\ Begin(i, [fin[i] EXCEPT !.at = "row"])
  /\ UNCHANGED <<db, r2, run, wf, pass, req>>

(* What is left of an instance that has ended does nothing more. *)
Ends(i) ==
  /\ at' = [at EXCEPT ![i] = "ended"]
  /\ loose' = [loose EXCEPT ![i] = IF @ = None THEN None ELSE "over"]

(* run() returns, or the instance is lost or terminated wherever it is. *)
Stopped(i) ==
  /\ at[i] \notin {"absent", "ended"}
  /\ Ends(i) /\ Begin(i, None)
  /\ UNCHANGED <<db, r2, run, pass, req>>

-----------------------------------------------------------------------------
(* The owner's explicit retry: decide the identity once, archive the settled     *)
(* attempt exactly, then switch the row to the new attempt.                        *)
Step(q, c) == req' = [req EXCEPT ![q] = c]
AtStep(q, stage) == req[q] # None /\ req[q].at = stage
Archived(i) == hist[i] # None /\ hist[i].snap # None
Rejected(t) == hist[t] # None /\ hist[t].snap = None
Wants(c) == [rev |-> c.rev, prev |-> c.prev]

(* `replay`: what is already stored under the retry identity. *)
Current(t) == {r \in Rev : row[r].id = t}
Decided(t) == Current(t) # {} \/ hist[t] # None
StoredBody(t) == IF hist[t] # None THEN hist[t].body ELSE row[CHOOSE r \in Current(t) : TRUE].body
Outcome(c) ==
  IF StoredBody(c.t) # Wants(c) THEN "error" ELSE IF Rejected(c.t) THEN "rejected" ELSE "accepted"
Done(c, out) == [c EXCEPT !.at = "done", !.out = out]
Replayed(c, stage) == IF Decided(c.t) THEN Done(c, Outcome(c)) ELSE [c EXCEPT !.at = stage]

RetryRead(q, r, t, prev) ==
  /\ req[q] = None
  /\ prev = row[r].id \/ Archived(prev)
  /\ Step(q, [op |-> "retry", rev |-> r, t |-> t, prev |-> prev, seen |-> row[r],
              at |-> "check", claims |-> None, sure |-> FALSE, out |-> None])
  /\ UNCHANGED <<db, r2, run, wf, fin, pass>>

MustAsk_Unpaid(s) == s.st = "done"                                      \* fault: paid failures not asked about
MustAsk(s) == s.st = "done" \/ s.calls > 0

RetryCheck(q) ==
  /\ AtStep(q, "check")
  /\ LET c == req[q] IN
       Step(q, Replayed(c, IF c.seen.st \notin Settled \/ c.seen.id # c.prev THEN "reject"
                           ELSE IF MustAsk(c.seen) THEN "status" ELSE "settle"))
  /\ UNCHANGED <<db, r2, run, wf, fin, pass>>

(* The predecessor's Workflow must be known to have stopped. *)
RetryStatus(q) ==
  /\ AtStep(q, "status")
  /\ \/ at[req[q].seen.id] = "ended" /\ Step(q, [req[q] EXCEPT !.at = "settle", !.sure = TRUE])
     \/ Step(q, [req[q] EXCEPT !.at = "reject"])
  /\ UNCHANGED <<db, r2, run, wf, fin, pass>>

(* readUnderstandingClaims: the ordinal prefix below claim_count. *)
VisibleClaims(r) == IF row[r].kept THEN claims[r] ELSE None

Settles(c) ==
  /\ row[c.rev].id = c.seen.id /\ row[c.rev].st \in Settled
  /\ c.sure \/ ~MustAsk(row[c.rev])

(* Reread the row and its claims, choose the model. *)
RetrySettle(q) ==
  /\ AtStep(q, "settle")
  /\ LET c == req[q] IN
       \/ /\ Settles(c)
          /\ Step(q, [c EXCEPT !.at = "put", !.seen = row[c.rev], !.claims = VisibleClaims(c.rev)])
       \/ Settles(c) /\ Step(q, [c EXCEPT !.at = "reject"])      \* no usable model
       \/ Settles(c) /\ Step(q, Done(c, "error"))               \* claims changed
       \/ ~Settles(c) /\ Step(q, Replayed(c, "reject"))
  /\ UNCHANGED <<db, r2, run, wf, fin, pass>>

Snapshot(c) == [row |-> c.seen, claims |-> c.claims]
SnapKey(c) == <<c.seen.id, c.t>>

(* Unequal bytes under the key, or a failing store, stop the retry. *)
RetryPut(q) ==
  /\ AtStep(q, "put")
  /\ LET c == req[q] IN
       \/ /\ snap[SnapKey(c)] \in {None, Snapshot(c)}
          /\ snap' = [snap EXCEPT ![SnapKey(c)] = Snapshot(c)]
          /\ \E stage \in {"switch", "reply"} : Step(q, [c EXCEPT !.at = stage])
       \/ Step(q, [c EXCEPT !.at = "reply"]) /\ UNCHANGED snap
  /\ UNCHANGED <<db, bucket, run, wf, fin, pass>>

CanSwitch_Head(c) ==                                          \* fault: report head not compared
  /\ row[c.rev].id = c.seen.id /\ row[c.rev].st = c.seen.st
  /\ ~Decided(c.t) /\ hist[c.seen.id] = None
(* The guards of both statements of the batch, the unique index and the trigger. *)
CanSwitch(c) ==
  /\ row[c.rev].id = c.seen.id /\ row[c.rev].st = c.seen.st /\ row[c.rev].key = c.seen.key
  /\ ~Decided(c.t) /\ hist[c.seen.id] = None

RetrySwitch(q) ==
  /\ AtStep(q, "switch")
  /\ LET c == req[q] IN
       /\ IF CanSwitch(c)
            THEN /\ hist' = [hist EXCEPT ![c.seen.id] = [rev |-> c.rev, body |-> row[c.rev].body, snap |-> c.t]]
                 /\ row' = [row EXCEPT ![c.rev] = [Fresh(c.t) EXCEPT !.body = Wants(c), !.st = "queued"]]
            ELSE UNCHANGED <<hist, row>>
       /\ Step(q, [c EXCEPT !.at = "reply"])
  /\ UNCHANGED <<claims, r2, run, wf, fin, pass>>

RetryReply(q) ==
  /\ AtStep(q, "reply") /\ Step(q, Replayed(req[q], "reject"))
  /\ UNCHANGED <<db, r2, run, wf, fin, pass>>

RejectedInsert_Late(t) == hist[t] = None                     \* fault: an accepted identity is rejected
RejectedInsert(t) == hist[t] = None /\ Current(t) = {}

RetryReject(q) ==
  /\ AtStep(q, "reject")
  /\ LET c == req[q] IN
       IF RejectedInsert(c.t)
         THEN /\ hist' = [hist EXCEPT ![c.t] = [rev |-> c.rev, body |-> Wants(c), snap |-> None]]
              /\ Step(q, Done(c, "rejected"))
         ELSE Step(q, Done(c, Outcome(c))) /\ UNCHANGED hist
  /\ UNCHANGED <<row, claims, r2, run, wf, fin, pass>>

-----------------------------------------------------------------------------
(* Save available output: no model call; one immutable checked report. *)
SaveRead(q, r) ==
  /\ req[q] = None
  /\ row[r].st \in Settled /\ row[r].key # "checked"
  /\ Step(q, [op |-> "save", rev |-> r, t |-> None, prev |-> None, seen |-> row[r],
              at |-> "save", claims |-> None, sure |-> FALSE, out |-> None])
  /\ UNCHANGED <<db, r2, run, wf, fin, pass>>

Available(i) ==
  /\ bucket[i].call[1] \in {"full", "thin"} /\ bucket[i].call[2] \in {"full", "thin"}
  /\ bucket[i].report # None

Checked(i) ==
  LET full == bucket[i].call[2] = "full" IN
    [bucket[i].report EXCEPT !.st = IF full THEN "done" ELSE "partial", !.kept = full]

SavePut(q) ==
  /\ AtStep(q, "save")
  /\ LET c == req[q] IN
       LET i == c.seen.id IN
       \/ /\ Available(i) /\ bucket[i].checked \in {None, Checked(i)}
          /\ bucket' = [bucket EXCEPT ![i].checked = Checked(i)]
          /\ \/ Step(q, [c EXCEPT !.at = "saved"])
             \/ Step(q, Done(c, "error"))
       \/ Step(q, Done(c, "error")) /\ UNCHANGED bucket
  /\ UNCHANGED <<db, snap, run, wf, fin, pass>>

CanSave_Attempt(c) == row[c.rev].key = c.seen.key            \* fault: attempt not compared
CanSave(c) ==
  /\ row[c.rev].st = c.seen.st /\ row[c.rev].key = c.seen.key /\ row[c.rev].id = c.seen.id

SaveSwitch(q) ==
  /\ AtStep(q, "saved")
  /\ LET c == req[q] IN
       LET report == bucket[c.seen.id].checked IN
       /\ IF CanSave(c)
            THEN /\ row' = [row EXCEPT ![c.rev] =
                              [@ EXCEPT !.st = report.st, !.key = "checked", !.sum = TRUE, !.kept = report.kept]]
                 /\ claims' = [claims EXCEPT ![c.rev] = IF report.kept THEN c.seen.id ELSE @]
            ELSE UNCHANGED <<row, claims>>
       /\ \E out \in {"saved", "error"} : Step(q, Done(c, out))
  /\ UNCHANGED <<hist, r2, run, wf, fin, pass>>

-----------------------------------------------------------------------------
PassNext(p) ==
  \/ \E r \in Rev : ListRunning(p, r) \/ ListQueued(p, r)
  \/ Pause(p) \/ Admit(p) \/ Create(p) \/ Undo(p)
  \/ StatusKnown(p) \/ StatusUnknown(p) \/ Caught(p) \/ LastResort(p) \/ Crash(p)

FinishNext(w) == ReadRow(w) \/ ReadObjects(w) \/ PutReport(w) \/ UpdateRow(w)

WorkflowNext(i) ==
  \/ \E n \in 1 .. 2 : Prepare(i, n) \/ Send(i, n) \/ Answer(i, n) \/ Replay(i, n)
  \/ VerifyAndStore(i) \/ CommitSynthesis(i) \/ StepFails(i) \/ TimesOut(i) \/ FinishRetried(i) \/ Stopped(i)

OwnerNext(q) ==
  \/ \E r \in Rev : SaveRead(q, r) \/ \E t \in Attempt, prev \in Id : RetryRead(q, r, t, prev)
  \/ RetryCheck(q) \/ RetryStatus(q) \/ RetrySettle(q) \/ RetryPut(q) \/ RetrySwitch(q)
  \/ RetryReply(q) \/ RetryReject(q) \/ SavePut(q) \/ SaveSwitch(q)

Next ==
  \/ \E r \in Rev : Request(r)
  \/ \E i \in Id : Age(i) \/ WorkflowNext(i)
  \/ \E p \in Pass : PassNext(p)
  \/ \E w \in Worker : FinishNext(w)
  \/ \E q \in Req : OwnerNext(q)

Spec == Init /\ [][Next]_vars

(* Time passes; cron lists every running row again and again, and a pass that    *)
(* is not cut off goes on to its end. Nothing is asked of a Workflow.               *)
PassSteps(p) ==
  \/ Pause(p) \/ Admit(p) \/ Create(p) \/ Undo(p) \/ StatusKnown(p) \/ StatusUnknown(p)
  \/ Caught(p) \/ LastResort(p) \/ FinishNext(p)
Fairness ==
  /\ \A i \in Id : WF_vars(Age(i))
  /\ \A p \in Pass : WF_vars(PassSteps(p)) /\ \A r \in Rev : SF_vars(ListRunning(p, r))
FairSpec == Spec /\ Fairness

-----------------------------------------------------------------------------
(* The owner pays for two calls per attempt, in order, each once, whatever is     *)
(* replayed, and no retry begins to pay while its predecessor may still be        *)
(* paying: call()'s compare-and-set and the retry's terminal-status check.         *)
Paid == INSTANCE PaidAttempts WITH
  current <- [r \in Rev |-> row[r].id],
  bought <- paid,
  buying <- {i \in Id : In(i, "answer1") \/ In(i, "answer2")}
PaidSpec == Paid!Spec

(* An admitted attempt settles, if its Workflow is lost, hangs or never began:    *)
(* no slot is held forever.                                                     *)
SlotFreed == \A r \in Rev : row[r].st = "running" ~> row[r].st \in Settled

(* Finish may be overtaken: past the deadline, or once a paid step has timed out, a     *)
(* dispatch can land after the row was read that the report is made from.         *)
Overtaken(i) == age[i] = "late" \/ loose[i] # None

(* What a row says was paid.  It never counts fewer calls than were made; a             *)
(* reservation given back (failUndispatchedDistill) was not drawn on and cannot be,      *)
(* by a Workflow created late or still alive.  Usage recorded when an attempt was         *)
(* settled is that of stored answers, of all counted calls; where finish was overtaken,  *)
(* or failed for good, it may lack the last one, never more.                      *)
UsageTrue ==
  \A r \in Rev : LET i == row[r].id IN
    /\ Len(paid[i]) <= row[r].calls
    /\ row[r].limit = "released" => row[r].calls = 0
    /\ row[r].st \in Settled /\ row[r].tok # None =>
         /\ \A n \in 1 .. row[r].tok : bucket[i].call[n] # None
         /\ \/ row[r].tok = row[r].calls
            \/ Overtaken(i) /\ row[r].tok + 1 = row[r].calls

(* Superseding an attempt archives its row and claims exactly as they stood,      *)
(* though the snapshot was written before the switch, from an earlier read.         *)
ArchivedExactly == [][\A r \in Rev :
  row'[r].id # row[r].id =>
    LET i == row[r].id IN
      /\ hist'[i] # None /\ hist'[i].snap # None
      /\ snap[<<i, hist'[i].snap>>] = [row |-> row[r], claims |-> VisibleClaims(r)]]_vars

(* A retry identity is accepted or rejected, never both, and every answer given   *)
(* for it says which: duplicate requests, lost replies and losers of the race       *)
(* included.                                                                   *)
OneOutcome ==
  /\ \A t \in Attempt : Rejected(t) => Current(t) = {}
  /\ \A q \in Req : req[q] # None =>
       /\ req[q].out = "accepted" => Current(req[q].t) # {} \/ Archived(req[q].t)
       /\ req[q].out = "rejected" => Rejected(req[q].t)

(* The claims a reader sees belong to the attempt the row shows, never to one it  *)
(* superseded, and a saved head points at a report of it that says what the row      *)
(* says: commitSynthesis and Save fence every write by the attempt.                  *)
ClaimsOwned ==
  \A r \in Rev :
    /\ row[r].kept => claims[r] = row[r].id
    /\ row[r].key = "checked" =>
         LET report == bucket[row[r].id].checked IN
           report # None /\ report.st = row[r].st /\ report.kept = row[r].kept
=============================================================================
