# Eliot Research: TLA+ models and proofs

This directory holds TLA+ models of the Eliot Research Worker (`src/src`,
`src/migrations`), the TLC configurations that check them on small instances,
and TLAPS proofs of their main invariants for every instance.

Eliot Research is a research workspace of one owner. It runs as one Cloudflare
Worker: rows in D1 (SQLite), objects in R2, background jobs in Workflows, one
Durable Object per chat. Nearly every difficulty comes from that shape:

* a handler is a sequence of awaits; other handlers run between any two of them,
  and an isolate may stop at any of them;
* a D1 batch is atomic, but its reply may be lost after it committed;
* R2 and D1 are written separately, so one may be written without the other;
* a Workflow step may be executed again, and an execution the engine has given up
  may still be running;
* a model or conversion call is paid for and must not be repeated.

## Inventory

| Component | State | Operations | Interacts with |
|---|---|---|---|
| Source capture, `library.ts` | `source`, `source_revision`, R2 `original` | `addSource`; projects and scope | starts the ingest Workflow |
| Ingest, `workflows/ingest.ts`, `ingest-completion.ts` | readable state, error, calls, `source.current_revision_id`, R2 `text.md`, `blocks.json` | load, claim, convert, store, commit, record failure, recover | page freshness; readers run recovery |
| PDF OCR, `ocr.ts`, `workflows/ocr.ts` | `source_ocr_job`, R2 pages, preview, report | create, upload, start, cancel, run, apply | appends a revision and moves the head |
| Pages, `pages.ts`, `proposals.ts` | `page`, `page_revision`, R2 bodies | save answer, propose, accept, reject | stale when a head moves |
| Understanding, `workflows/distill.ts`, `understanding*.ts`, `cost.ts` | `distill_*` columns, `claim`, `distill_history`, R2 reports | request, admit, dispatch, finish, cron, retry, save available | one paid Workflow per attempt |
| Chat, `chat.ts` | Durable Object turns and state, `chat_turn` | submit, queue, run, stop, settle, recover | admits a paid call, reads the sources in scope |
| Models, `models.ts`, `model-catalog.ts`, `model-quota.ts` | providers, Gateway and defaults in the `settings` row, R2 `catalog/models.json` | edit providers, connect a Gateway, refresh, save defaults, admit a model | read by every paid job |
| Grounding (`context`, `quotes`, `citations`, `blocks`, `numbers`) | none | pure functions | used by chat and understanding |
| Tools, MCP, HTTP, auth, web UI | none of their own | route to the above | |

Hard behaviours and the properties that answer them are listed at their lines in
`PROJECT.json` under `hazards`.

## Modules

    RevisionLedger   what the system promises of revision rows
      ^        ^
    Capture   Ingest   PageLedger   Ocr   PaidAttempts       Chat   ModelCatalog
      |        |         ^           |       ^                |         |
      |        |       Pages         |     Understanding      |         |
    MCCapture MCIngest MCPages     MCOcr   MCUnderstanding  MCChat  MCModelCatalog
    CaptureProofs  IngestProofs                                     ModelCatalogProofs
                  PagesProofs   OcrProofs  UnderstandingProofs ChatProofs
                                                               ChatQueueProofs

`MC*` modules only add symmetry sets and constraints.

### RevisionLedger

The abstract specification shared by capture and ingest: a revision row appears
once, as the newest of its source, and keeps its identity; its Workflow is
created at most once and never before the row; a settled revision stays settled
and carries no "status unavailable" mark. `Capture` and `Ingest` each define a
mapping of their variables and are checked (`LedgerSpec`) and proved to implement
it. Each module views the other's half through it: Capture's `Settle` and
`ClearMark` are what ingest may do, Ingest's `Record`, `CreateInstance` and
`MarkUnavailable` what capture may do.

### Capture

One execution of `addSource` is a record with a program counter; each await of
the function is one action (`Reserve`, `PutOriginal`, `InsertBatch`, `Reconcile`,
`DeleteOwnKey`, `CreateInstance`, `CheckInstance`, `MarkUnavailable`), and `Crash`
ends it anywhere. `InsertBatch` may commit with or without its reply. File
contents are model values; `sameHash` is equality of them.

### Ingest

`row`, `state`, `error`, `calls`, `conflict`, `head` are the columns; `text` and
`blocks` name the execution that wrote the R2 object. `wf` is the Workflow's step,
`conv` the stage of each execution of the convert step, `exec` the executions of
the storage code, run by the Workflow (`Attempt`) or by a reader (`Reopen`).
`CommitBatch` contains the three guarded statements of the publication batch.
`StartOcr` and `ApplyOcr` are the other writer of heads, `Publish` of pages.
'readable' stands for `readable` and `readable_with_warnings`, the conflict warning
is kept apart in `conflict`.

### Ocr

A job's row, its R2 objects, the requests in progress (`upload`, `starter`), the
Workflow instance (`wf`, `awaits`) and the executions of its steps (`exec`). The
instance waits for one execution; the others are abandoned ones that still run.
Token amounts are abstracted to the set of pages they count, `None` being NULL;
the latest revision and the readable head, which every guard compares together,
are one number, `version`; the deadline is a boolean that becomes true.

### Pages and PageLedger

A request (`req`) is a record with a program counter for `saveAnswer`,
`proposePage` and `decideProposal`. The two R2 objects of a revision, its row and
its page are written in the order of the code. `PageLedger` is the promise: heads
change by compare-and-swap from the base a revision was written against, a decision
is made once, and a revision is numbered after all the others of its page. The texts of a
source are numbered in the order in which they become its head.

Every save is answered by `getPage` (`pages.ts:109`, `139`, `145`, `149`; `GetPage`): with the head the page
has by then, whoever recorded the mutation id. After a proposal was accepted on that page, a
repeated save names another revision than the first one did. `AnsweredOnce` therefore says that all
answers of one mutation id are of one page, a proposal's of the one revision recorded with the id, a
save's an accepted revision of that page.

### Understanding and PaidAttempts

`row` is the current attempt of a revision as `source_revision` holds it, under the
identity `coalesce(distill_attempt_id, id)`; `hist` is `distill_history`; `bucket` and
`snap` are the R2 objects of an attempt, which name its calls' results, its report,
its checked report and the snapshots taken of it. `at` is the step of an attempt's
Workflow. `fin` is one execution of `finish`, by a Workflow or by a scheduler pass:
read the row, read the objects, put the report, update the row. A pass (`pass`)
handles one row; the loop over rows keeps nothing between two of them. `req` is an
owner's retry or Save with its awaits; the plain request is one guarded update.
Token counts are the number of calls they cover, `None` being NULL. Each attempt
ages from new to stale (5 minutes: cron looks at it) to late (15: no dispatch).
`Prepare` reads the clock, `Send` lands later. The engine may re-execute a paid step
(`Replay`), lose an instance (`Stopped`) or answer any status question with
"unknown" or an error. `paid` is a history variable: the calls really made.

`PaidAttempts` is the promise to the owner: the current attempt buys the first and
then the second call, and it is replaced only while it is not buying one.

A step that times out (`TimesOut`; a paid one after 7 minutes, `distill.ts:23`) makes `run()`
go on to its catch and `finish`, but nothing stops the step's callback. `loose` is the stage of that
callback, of the one step that timed out: it may still read, pass the dispatch's compare-and-set, receive
and store the answer, verify or commit, while the catch finishes the row and until `run()` has
made its own scheduling pass (`schedule`) and returned. `In(i, stage)` holds of both the awaited and the left callback;
`Moves`, `Resolves` and `Throws` say what each outcome means for the one and for the other.

Assumed: that callback does nothing more once the Workflow reports an ended status. The code relies on
this too: it takes the status as quiescence. Not modelled: an earlier try of a storage step that still
runs beside its retry, and one of `finish` beside the catch; a pass's `finish` runs beside it anyway.

What recorded usage is worth (`UsageTrue`). The count of calls on a row never lacks a call
that was made, a released attempt made none and can make none, and usage recorded with a settled attempt rests
on stored answers of all counted calls, or is unknown. The exception is an attempt whose `finish` can be
overtaken (`Overtaken`): `finish` reads the calls on the row before it writes the report and the row, and a
dispatch that passed the deadline test just before, or the callback of a paid step that timed out, can land in
between. The report then says zero calls and zero tokens beside a row with one call. The
last resort of cron fails the row without touching the usage that `verifyAndStore` left there, of one call
where two may be counted; it acts past the deadline only. In each case exactly the last call is missing,
never more: that is the second half of `UsageTrue`, and the code promises nothing stronger.

Nor does the code promise that no report precedes a release, as the comment at
`src/src/cost.ts:59-60` has it: `finish` may have stored the report of an attempt
without calls and then failed on the row, and the catch of `scheduleDistillation`
releases the row afterwards. Nothing is paid then (`UsageTrue`).

### Chat

`store` is the SQLite of one conversation's Durable Object: the payload of each turn and
the Agent state `{active, queued, stopRequested}`; `row` is D1's `chat_turn`. `current`
is the promise of the running turn. Four kinds of executions are under way at once, each
a record with a program counter: `task` (`runTurn`), `heal` (`recoverFinishedTurn`, by a
call, by a turn or by `onStart`), `settle` (`settleTurn`) and `call` (submit, wait, stop,
page, answer). One step is the synchronous code between two awaits of D1 or of the model.
A write to SQLite may throw inside such a step and end its function there: a block of
synchronous code is an operator from a store to its possible outcomes (`Write`, `Then`),
so that `onStart` or the end of a recovery stops after any of its writes. The columns
of a turn that the properties tell apart are its state, whether it has text, the
admission (`kind`, `limit`), the frozen scope, usage (unknown, known zero, reported) and
`end`, which stands for its timing and error. `AdmissionKept` is the trigger of
migration 0012 that guards every settlement; the terminal-row trigger of 0006 is met
by the `state='started'` test of the same update. `sent`, `accepted` and
`stopped` are history variables: model calls, acknowledged questions, owner's stops.

Assumed: `onStart` ends before a call is delivered (the Agents SDK does this); no D1
statement commits after its caller has gone on; when an await of a recovery resumes,
the code that waited for that recovery runs before another event is delivered (they are
chained promises of one isolate: `Continue` and `Quiet`).

The code clears the state after awaiting the settlement of the active turn
(`src/src/chat.ts:266-269`), without saving a question that was queued meanwhile.
It is the only step that can lose one (`LostOnlyByClear`), and only where two recoveries
overlap that began while different turns were active (`KeptUnlessStale`). In a
conversation of three turns it does (`chat_lost`): question B has
ended, its last payload write failed, so that it is pending without a recorded error
and nothing runs. Two calls recover at once; the one that settles B first lets the other
queue C behind it, then clears the state. C was acknowledged and is gone.
Two readers that settle one turn may also leave `SETTLEMENT_MISMATCH` on it for a while:
the slower one compares an older copy with the row the faster one wrote. The next
recovery settles it; both records are intact (`Truthful`).

Only the active turn's result is ever pending (the third part of `OneRun`): the queue does
not move on, and the state is not cleared, before it was settled. So the loop of
`recoverFinishedTurn` over older pending turns has one turn to settle at most
(`HealNextIs`), and the activation of an older pending turn at its end never acts
(`HealEndIs`). Both are modelled as the code has them.

### ModelCatalog

`settings`, `gateway` and `defaults` are columns of the one `settings` row, `snapshot` is the R2
object. A provider stands for its models; a route is the configuration that
`sameProviderRoute` compares. In a snapshot `route[p]` is the stored configuration
and `slice[p]` the one at which the listed models were published: the code does not
store the latter, it is what the property speaks of. A refresh reads the snapshot, then
the providers, and puts once; any of its providers may fail (`Answers`). A request makes
the three reads of `readModelCatalog` in any order (`ReadSnapshot`, `ReadGateway`,
`ReadSettings`) and then admits a model with a frozen routing (`Admit`) or, for a save, looks up the next
changed field and writes both with COALESCE (`UpdateDefaults`). `End` covers every
refusal: unusable metadata, a published API base outside the provider's root, a failed read.
The Gateway a refresh reads only decides whether a protected catalogue answers.

Two promises of `docs/IMPLEMENTATION.md` are kept only by one refresh at a time or without
such edits, and so are not stated. "A provider refresh failure preserves that provider's prior
slice" (1360): of two overlapping refreshes the one that read the older snapshot may
put last, and takes a provider that failed for it back to that older slice. "Stored quota
values are tied to their provider route and Gateway ID" (1375): a refresh that fails
after an edit stores the old configuration beside quotas read for the new one, and
after the edit is undone they are shown. Both end with the next refresh; neither
touches `RouteIsDiscovered`.

## Runs

| Run | Question | Instance |
|---|---|---|
| `capture` | no original lost, one source per file, every receipt names the caller's file, the attempt on the row leaves a Workflow or a mark, ledger | 2 sources, 3 revisions, 3 concurrent executions |
| `ingest_publish` | the head is the newest readable revision, rows hold the cached result, a current page uses heads only, ledger | 2 revisions of one source, 2 overlapping executions, a page, OCR Apply (`Alone`) |
| `ingest_recovery` | one paid conversion, published objects stay intact; a cached result is published, nothing stays pending (liveness) | 1 revision, convert step executed twice, every kind of file, one or two storage executions |
| `ocr_run` | no acknowledged page lost, no page paid twice, usage complete or unknown, previews complete, starts and ends final; one of two previews of one base is applied | 1 job of 2 pages, 2 uploads, 2 renderings, then a restarted step (`OneJob`); or 2 jobs in turn (`TwoJobs`) |
| `ocr_slots` | a dead job's slot is taken over (liveness) | 2 jobs, 1 slot, 2 Starts |
| `pages` | recorded bodies kept, answers of one mutation id of one page (a proposal's of one revision), a page current exactly while its texts are, ledger | 3 revisions, 2 pages, 2 requests, a source with 2 texts (`FewTexts`) |
| `understand` | each call bought once and in order (PaidAttempts), no paid call uncounted, usage of all counted calls or, where `finish` was overtaken, of all but the last, releases free, one outcome per retry identity, exact archives, claims and saved heads owned by their attempt | 1 revision, 3 attempts, 1 pass, 2 owner requests (`InTurn`) |
| `understand_freed` | a slot is never held for ever (liveness) | 1 revision, 2 passes, a Workflow that may hang |
| `chat` | one turn runs and only its result is pending, none is sent twice or after its stop, acknowledged questions kept, both stores truthful and never rewritten | 2 questions, 2 calls of submit and stop, 1 failed write, 1 restart (`Alone`) |
| `chat_settles` | a pending result is settled (liveness) | 2 questions, 1 call at a time of submit, wait, page, answer; 1 failed write, 1 restart |
| `chat_lost` | an acknowledged question is kept when three are in play (violated) | 3 questions, 2 submits, 1 failed write |
| `catalog` | a model is admitted only with metadata published at the configuration frozen with it; overlapping saves keep each other's fields | 1 external provider with 2 configurations and the native one, 1 Gateway, 2 refreshes, 2 requests (`Pairs`) |

`chat_lost` fails on purpose, for the
question lost at `src/src/chat.ts:268` described above; `docs/IMPLEMENTATION.md:1207-1208`
says that a queued question is saved before it is cleared.

The chat runs check for deadlock. The others do not: their identities (revisions,
requests, jobs) are finite sets that run out, and a quiet system may rest.

That at most two understandings or OCR jobs hold a slot is not checked: one conditional
UPDATE counts them and admits (`Admissible`, `CanAdmit`), nothing else makes a row
active, and a property would repeat that guard. That the slots come free again is checked.

### Why the bounds are enough

The properties relate one entity with itself or with one competitor: two
revisions of a source, two requests on one row, two executions of one step. Each
instance has both competitors and, where an order matters, a third. Bounds
written into guards: `MaxRuns` (executions of a convert step), `MaxRestarts` (OCR
steps executed again), `MaxChanges` (source changes beside Apply), `MaxText`
(texts a source publishes). Retries of storage steps are not counted: the model
allows any number. Constraints, each in its `MC` module, keep a run on the
interleavings its question is about:

* `OneJob` (`ocr_run`): with one job, its steps execute once its uploads have been
  answered. Uploads race each other, Start and Stop without restriction.
* `TwoJobs` (`ocr_run`): with two jobs, one request or step at a time and both jobs succeed.
  What happens inside a job is the subject of `OneJob`; here it is the order of two
  jobs' executions and Apply.
* `Alone` (`ingest_publish`): once a page is published, one storage execution at a time.
* `FewTexts` (`pages`): once a text was replaced, one request at a time.
* `InTurn` (`understand`): while two owner requests race, and after a thin answer, the
  scheduler rests and no retry's attempt begins. One that begins follows an attempt whose
  answers, if any, were usable, once its owner has been answered; it runs to its end. A step times
  out where answers are full, with one owner request at most, and not in a retry's attempt; a retry may
  begin beside the callback that is left. The run explores about 1.9 million states.
* `Alone` (`chat`): two calls recover at the same time only before the first failed write or
  restart; afterwards one call at a time runs beside the turn, its settlement and
  `onStart`. Three questions with two calls and no failure, or with one call, one
  failed write and one restart, keep the same invariants (too large to be kept as
  runs); what fails with all of it is the subject of `chat_lost`.

* `Pairs` (`catalog`): two executions at a time, two refreshes, a refresh and an admission or two
  saves: admissions change nothing, so that two of them never meet, and refreshes and
  saves write different stores. Two saves meet while every provider is on. The native
  provider is edited beside refreshes only: it has one configuration. The proofs assume none of it.

In the chat runs `MaxFaults` and `MaxCrashes` bound the writes to SQLite that throw and the
restarts; D1 statements fail or lose their replies any number of times. A second failure
meets the state a first one left in every place, since `Arrive` and `Boot` begin from it.
`ocr_slots` has one slot where the code has two: the race is between two Starts that
both saw room for one more job, whatever the limit.

### Fairness

`ingest_recovery` (`FairSpec` of Ingest): the owner keeps reopening a source that is
not published (strong fairness of `Reopen`, which the library view calls on every
read), storage code that has started ends, and D1 does not fail for ever (strong
fairness of the successful outcomes of its statements). Nothing is assumed of the
Workflow engine: it may end an instance at any step.
`ocr_slots`: time passes, the owner keeps pressing Start of a job that could be
started, and not every one of these requests is cut off. Nothing is assumed of
Workflows.
`understand_freed`: time passes, cron lists every running row again and again (strong
fairness: with several passes a row may be listed by another one first), and a
pass that is not cut off ends. Passes are not cut off in this run (`MayCrash`), since
one that always is would never settle anything. `finish` may fail every time: the
last resort then settles the row.
`chat_settles`: what has begun goes on, except the model's stream, which may hang; the owner
keeps reopening the conversation; and D1 answers a statement that is repeated for ever
(strong fairness of the settlement's read, update and read-back). A pending result of a
turn that no longer runs is then settled.

## Proofs

| Theorem | Statement |
|---|---|
| `CaptureProofs` | type correctness, numbering, originals kept, receipts name the caller's file, the attempt on the row leaves a Workflow or a mark (`ReceiptsHold`), and `Spec => LedgerSpec` |
| `ModelCatalogProofs` | type correctness, admitted metadata belongs to the frozen configuration, saves keep each other's fields |
| `IngestProofs` | type correctness, head is the newest readable revision, pages current, one paid conversion, rows hold the result, objects intact, terminal rows stay, and `Spec => LedgerSpec` |
| `PagesProofs` | type correctness, bodies kept, freshness exact, answers of one mutation id of one page (`AnswersAgree`), heads move forward only, and `Spec => LedgerSpec` (`PageLedger`) |
| `OcrProofs` | type correctness, acknowledged uploads kept, usage complete or unknown, previews complete, ends final |
| `UnderstandingProofs` | type correctness, paid calls counted and usage true but for the last call of an overtaken `finish` (`UsageIsTrue`), one outcome per retry identity, claims owned, archives exact, and `Spec => PaidSpec` |
| `ChatProofs` | type correctness, what both stores say is what happened, results stay, stops honoured |
| `ChatQueueProofs` | at most one turn runs, none is sent twice and only the active one is pending; the one step that can lose an acknowledged question; none is lost without overlapping recoveries of different turns |

The exact list is under `theorems` in `PROJECT.json`. Each hangs on an inductive
invariant `IInv`, a conjunction of named parts, because the properties are not
inductive alone. What each needs beside the property:

* `CaptureProofs`: that a deletion never meets a recorded original needs what is known of
  each execution at each program counter (whose key it holds, what it has read).
* `IngestProofs`: that the head is the newest needs that a settled readable row is at or
  below the head.
* `ModelCatalogProofs`: that an admitted model's metadata belongs to its configuration needs
  the same of the snapshot and of every older copy a refresh or a view carries.
* `PagesProofs`: that a recorded revision has its bodies needs that only one request writes
  under a revision (`OneWriter`), that one which may still delete objects has not recorded
  it, and that one about to insert has put both (`Writer`). The ledger also needs that the
  numbers of a page have no gap and that no accepted revision is newer than the head,
  so that a replaced head never returns (`Contiguous`, `HeadNewest`).
* `OcrProofs`: that usage is complete needs that at most one execution holds the purchase of a page
  (`OneBuyer`), that calls are at most one ahead of settled pages and that a stored output, or one on its way
  to the store, counts every page sent up to its own (`InOrder`, `Buyers`). Uploads need that a request
  about to write the row put its own object and read the row before; reviews that an execution about to
  conclude, and the stored report, are backed by the pages and the preview (`Reports`).
* `UnderstandingProofs`: that usage lacks at most one call needs two stages of the end of an attempt: once
  `Final`, no step of it dispatches but the one it is at or the callback left behind, so that a count read now can
  fall behind by one; once `Spent`, not even that one will, so that a count behind by one stays so (`Level`,
  `Near`). `Backed` ties a count to stored answers, `Fits` the place of a callback to what was paid
  and received, `Tidy` a left callback to the catch. Archives need that an archived row never changes, that the
  report a `finish` carries agrees with the stored one, and what each pass and request read that later
  guards compare.
* `ChatProofs`: that one turn runs needs who waits for whom: a settlement belongs to a turn's end or
  to a recovery, a recovery to a turn, a call or `onStart` (`SettleOwned`, `HealOwned`). That a question
  is sent once, and never after its stop, needs that a queued one has no row and was never sent
  (`StateSound`) and what a running turn knows at each place (`TaskSound`). That results stay
  needs that a settlement's copy and the stored payload are of one result and become equal once the
  row's values are added to both (`Closing`, `SameResult`).
* `ChatQueueProofs` adds `Tidy` to the `IInv` of `ChatProofs`: what `{active, queued}` says of the payloads
  (`Orderly`), that one recovery at a time is between two awaits (`OneAwake`), what one knows after a
  settlement it awaited (`Waits`) and when it returns (`Done`). That a question is kept needs
  that no recovery is about to clear the state under it (`NoDanger`). Every step keeps this but
  one (`MovesNoDanger`): a question comes to wait behind a turn that another recovery is about to clear
  only by a submit whose own recovery began while a different turn was active (`Stale`).

Every `IInv` was model-checked as an invariant on the instance of a run before it was proved. `Init => IInv`, one
lemma per action or per part for `IInv /\ [Next]_vars => IInv'`, and the properties follow. The proofs
use none of the constraints of the runs: `OneJob`, `TwoJobs`, `FewTexts`, `InTurn` and the two `Alone` bound
what TLC explores, and the theorems hold of all interleavings, so that nothing is hidden
behind those constraints.

Assumptions are the named `ASSUME`s of the modules: `None` is not among the other values, identities of
different kinds differ (`IdAssumption`), the native provider is a provider and the bounds are
numbers. Nothing is assumed of the sizes of the sets.

Only model-checked: everything temporal beyond invariants, step properties and refinements:
`Published`, `SlotFreed` and the other liveness properties need fairness, which is out of the prover's reach.
`AcceptedKept` of Chat fails in a conversation of three turns (`chat_lost`), so its theorem
`KeptUnlessStale` states it under a condition on the run, `[]~Stale`.

## What the models leave out

* Lifecycle columns no code writes: `deleted_at` of a revision, `archived` and `deleted`
  states of a source. Guards that test them are constantly true.
* Membership of a source in a project, titles, kinds, sizes, MIME types, model limits:
  validation that refuses a request before it changes anything.
* A D1 read that follows a failed batch is taken to see the batch if it committed at all
  (D1 serves a database from one primary in order). Capture, Ingest and Pages read back
  before they delete or record a failure and rely on it.
* Reads before an R2 write are merged into one step where the rows they read are only ever
  added to; where the value can change (numbers, heads, pages_json, usage) read and use are
  separate steps.
* Wording of errors, timestamps, amounts of tokens.
* A revision whose capture crashed between the batch and `INGEST.create` stays without a
  Workflow: `docs/IMPLEMENTATION.md` describes that as the accepted outcome, shown to the
  owner as unavailable. `StartedOrMarked` (in `ReceiptHolds`) states what remains promised, of the
  attempt on the row only: a caller that replays that revision later gets a receipt with neither.
* An OCR job failed by the deadline sweep while its preview was being finished may still
  become `ready`, and a row failed by the last resort may have a `ready` report. Both are
  allowed by `StoppedIsFinal`, which excludes every other way back.

* Of the chat: citations, warnings and texts of errors; the project check of a call, which
  refuses it before anything changes; a turn identity that is repeated with other input
  (an error); the page of eight turns a recovery handles at once (two or three exist).

## Not modelled

* Of `models.ts`, `model-*.ts`, `native-model-catalog.ts`: parsing catalogues and metadata, arithmetic on
  limits, HTTP transport and the quotas stored for display. Every job module takes
  admission as "admitted with a published limit, with an unknown one, or refused";
  what an admitted model carries is the subject of `ModelCatalog`.
* A project's settings (`src/src/index.ts:107-114`) are read and written as a whole without a
  guard: of two edits of different fields at once the later one undoes the earlier, which
  the defaults avoid with COALESCE (`DefaultsKept`).
* `context.ts`, `quotes.ts`, `citations.ts`, `blocks.ts`, `numbers.ts`, `code-ranges.ts`,
  `ingest.ts`: text algorithms on the data of one request. Their loops read characters
  and offsets, keep no state between requests and meet no other actor; the property-based
  and fuzz tests of the repository exercise them better than small instances would.
* `tools.ts`, `mcp.ts`, `index.ts`, `auth.ts`, `url-guard.ts`, `production.ts`, `web/`: routing,
  validation, reads and presentation in front of the components above.
* `apps`, `packages`, `crates`, `infra`: donor and import material, "not implementation
  instructions" (`docs/MAP.md`), with `scripts`, `eval` and `fuzz` more than nine tenths of the
  repository's lines. No part of it runs in the deployed Worker, so that the modelled
  share of the repository stays small however much of the Worker is modelled.

## Left open

An abstract specification of a paid call (admitted, dispatched, stopped, settled) that OCR, chat and
understanding all implement. `PaidAttempts` says it of understanding. For OCR and chat it would give
a common form to what `UsageIsComplete`, `StoppedIsFinal`, `OneRun` and `StopHonoured` state
and their theorems prove.
