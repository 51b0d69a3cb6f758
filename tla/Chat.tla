--------------------------------- MODULE Chat ---------------------------------
(***************************************************************************)
(* chat.ts: one conversation, a Durable Object.  Its SQLite holds the turns and  *)
(* the state {active, queued, stopRequested}; D1 holds one accounting row per    *)
(* turn that reached admission.  Code between two awaits of D1 or of the model   *)
(* is one step, in which a write to SQLite may throw (MaxFaults) and end its        *)
(* function there; other calls run at every such await, and a restart loses      *)
(* what is only in memory.  A D1 statement may fail, or commit and lose its      *)
(* reply; none commits after its caller has gone on.                             *)
(***************************************************************************)
EXTENDS Naturals, FiniteSets

CONSTANTS
  Turn,        \* turn identities, chosen by the composer
  Call,        \* concurrent calls of the object's methods
  Op,          \* the methods called: "submit", "wait", "stop", "page", "answer"
  Kinds,       \* token_limit_kind of the models: "unknown", "published"
  MaxFaults,   \* bound: writes to SQLite that throw
  MaxCrashes,  \* bound: restarts of the object
  None

ASSUME BoundAssumption == MaxFaults \in Nat /\ MaxCrashes \in Nat
ASSUME IdAssumption == Call \cap Turn = {} /\ "boot" \notin Call \cup Turn

VARIABLES
  store,    \* SQLite: turn payloads and the Agent state
  row,      \* D1 chat_turn
  up,       \* "boot": onStart runs and no call is delivered
  current,  \* turn of the promise this.current
  task,     \* executions of runTurn
  heal,     \* executions of recoverFinishedTurn
  settle,   \* executions of settleTurn
  call,     \* executions of the other methods
  crashes,
  sent, accepted, stopped   \* history: model calls, acknowledged turns, owner's stops

memory == <<current, task, heal, settle, call>>
history == <<sent, accepted, stopped>>
vars == <<store, row, up, memory, crashes, history>>

Terminal == {"completed", "partial", "failed", "cancelled"}
Count == {None, 0, 1}    \* unknown, known to be zero, reported or published
(* What chat_turn records of a turn; `end` stands for its timing and error.      *)
Columns == [st : Terminal \cup {"started"}, ans : BOOLEAN, kind : Kinds \cup {None}, limit : Count,
            scope : BOOLEAN, use : Count, end : {None, "run", "interrupted", "unsent"}]
(* A stored payload: input is kept for a question that was never sent.            *)
Payload == [col : Columns, input : BOOLEAN, pend : BOOLEAN, err : {None, "pending", "mismatch"}]
Store == [turn : [Turn -> Payload \cup {None}], active : Turn \cup {None},
          queued : Turn \cup {None}, stop : BOOLEAN, faults : 0 .. MaxFaults]   \* faults so far

Blank == [st |-> "started", ans |-> FALSE, kind |-> None, limit |-> None,
          scope |-> FALSE, use |-> None, end |-> None]
Started == [col |-> Blank, input |-> FALSE, pend |-> FALSE, err |-> None]
Unsent == [Started EXCEPT !.input = TRUE,
             !.col = [Blank EXCEPT !.st = "failed", !.limit = 0, !.use = 0, !.end = "unsent"]]
IsStarted(v) == v.col.st = "started"
Interrupted(v) ==
  [v EXCEPT !.col.st = IF v.col.ans THEN "partial" ELSE "failed", !.col.end = "interrupted"]

Worker == Call \cup Turn \cup {"boot"}
Task == [at : {"project", "settings", "insert", "admit", "recheck", "heal", "scope", "stream",
               "final", "settle", "advance"},
         v : Payload, abort : BOOLEAN, disp : BOOLEAN, used : BOOLEAN, lost : BOOLEAN]
Heal == [at : {"settle", "next", "done", "threw"}, active : Turn \cup {None}, todo : SUBSET Turn]
Settle == [at : {"row", "update", "check"}, id : Turn, v : Payload]
Asked == [op : Op, t : Turn \cup {None}]
ASSUME NoneAssumption ==
  /\ None \notin {"pending", "mismatch"}
  /\ None \notin Turn \cup {0} \cup Columns \cup Payload \cup Task \cup Heal \cup Settle \cup Asked

TypeOK ==
  /\ store \in Store
  /\ row \in [Turn -> Columns \cup {None}]
  /\ up \in {"up", "boot", "down"}
  /\ current \in Turn \cup {None}
  /\ task \in [Turn -> Task \cup {None}]
  /\ heal \in [Worker -> Heal \cup {None}]
  /\ settle \in [Worker -> Settle \cup {None}]
  /\ call \in [Call -> Asked \cup {None}]
  /\ crashes \in 0 .. MaxCrashes
  /\ sent \in [Turn -> 0 .. 2]
  /\ accepted \in [Turn -> BOOLEAN]
  /\ stopped \in [Turn -> {None, "waiting", "active"}]

Init ==
  /\ store = [turn |-> [t \in Turn |-> None], active |-> None, queued |-> None, stop |-> FALSE,
               faults |-> 0]
  /\ row = [t \in Turn |-> None]
  /\ up = "up" /\ current = None
  /\ task = [t \in Turn |-> None]
  /\ heal = [w \in Worker |-> None] /\ settle = [w \in Worker |-> None]
  /\ call = [c \in Call |-> None]
  /\ crashes = 0
  /\ sent = [t \in Turn |-> 0]
  /\ accepted = [t \in Turn |-> FALSE]
  /\ stopped = [t \in Turn |-> None]

-----------------------------------------------------------------------------
(* Synchronous code.  A block maps a store to its possible outcomes: the store      *)
(* it leaves, and whether it ran to its end or a write threw.                    *)
Did(s) == {[s |-> s, ok |-> TRUE]}
Threw(s) == {[s |-> s, ok |-> FALSE]}
Write(s, written) ==
  Did(written) \cup IF s.faults < MaxFaults THEN Threw([s EXCEPT !.faults = @ + 1]) ELSE {}
Then(outcomes, Block(_)) == UNION {IF o.ok THEN Block(o.s) ELSE {o} : o \in outcomes}

WriteTurn(s, t, v) == Write(s, [s EXCEPT !.turn[t] = v])
ChangeState(s, a, q, stop) == Write(s, [s EXCEPT !.active = a, !.queued = q, !.stop = stop])
Idle(s) == ChangeState(s, None, None, FALSE)
DropQueued(s) == ChangeState(s, s.active, None, s.stop)

Stored(s, t) == s.turn[t] # None
Pending(s) == {t \in Turn : Stored(s, t) /\ s.turn[t].pend}

(* preserveUndispatched: a question that was accepted and never sent.            *)
Handoff(s, t) ==
  /\ s.active = t /\ s.queued = t
  /\ LET c == s.turn[t].col IN c.st = "started" /\ ~c.ans /\ c.limit = None /\ ~c.scope
Preserve(s, t) ==
  IF Stored(s, t) /\ ~Handoff(s, t) THEN Did(s) ELSE WriteTurn(s, t, Unsent)

PreserveWaiting(s) ==
  IF s.queued \notin {None, s.active} THEN Then(Preserve(s, s.queued), DropQueued) ELSE Did(s)

(* recoverStoppedHandoff, `cur` being this.current; it reports success.            *)
StoppedHandoff(s, cur) ==
  IF cur # None \/ s.queued = None \/ s.active # s.queued THEN Did(s)
  ELSE Then(Preserve(s, s.queued),
            LAMBDA x : IF IsStarted(x.turn[x.queued]) THEN Threw(x) ELSE Idle(x))

-----------------------------------------------------------------------------
(* settleTurn: the turn's result into its D1 row, by one conditional update.       *)
SettleFrom(w, id, v) == settle' = [settle EXCEPT ![w] = [at |-> "row", id |-> id, v |-> v]]

(* Values a started row may know that the payload missed.                         *)
Known(a, b) == IF a # None THEN a ELSE b
Recovered_NoKind(v, r) ==   \* fault: an admission that lost its reply is not adopted
  [v EXCEPT !.col.limit = Known(@, r.limit), !.col.use = Known(@, r.use), !.col.scope = @ \/ r.scope]
Recovered(v, r) ==
  [v EXCEPT !.col.limit = Known(@, r.limit), !.col.kind = Known(@, r.kind),
            !.col.use = Known(@, r.use), !.col.scope = @ \/ r.scope]

(* The caller of settleTurn goes on: runTurn, or the loop of recoverFinishedTurn.   *)
SettleReturns(w, ok) ==
  /\ settle' = [settle EXCEPT ![w] = None]
  /\ IF w \in Turn /\ heal[w] = None
       THEN task' = [task EXCEPT ![w].at = "advance"] /\ UNCHANGED heal
       ELSE heal' = [heal EXCEPT ![w].at = IF ok THEN "next" ELSE "threw"] /\ UNCHANGED task

(* The failure is noted on the latest payload, if that is still pending.            *)
Note(s, id, failure) ==
  IF s.turn[id].pend THEN WriteTurn(s, id, [s.turn[id] EXCEPT !.err = failure]) ELSE Did(s)

Fails(w, s, failure) ==
  \E o \in Note(s, settle[w].id, failure) : store' = o.s /\ SettleReturns(w, o.ok)

NeverAdmitted(v) == v.col.kind = None /\ v.col.limit = 0 /\ v.col.use = 0
(* The checkpoint before INSERT cannot have been dispatched.                       *)
Zeroed(v, r) ==
  IF r = None /\ v.col.kind = None /\ v.col.limit = None /\ v.col.use = None /\ ~v.col.ans /\ ~v.col.scope
    THEN [v EXCEPT !.col.limit = 0, !.col.use = 0] ELSE v
Agree(v, r) == IF r = None THEN NeverAdmitted(v) ELSE v.col = r

Conclude(w, v, r) ==
  LET id == settle[w].id
      u == Zeroed(v, r)
  IN IF Agree(u, r)
       THEN \E o \in WriteTurn(store, id, [u EXCEPT !.pend = FALSE, !.err = None]) :
              IF o.ok THEN store' = o.s /\ SettleReturns(w, TRUE) ELSE Fails(w, o.s, "pending")
       ELSE Fails(w, store, IF r # None /\ r.st # "started" THEN "mismatch" ELSE "pending")

Settling(w, at) == settle[w] # None /\ settle[w].at = at
elsewhere == <<row, up, current, call, crashes, history>>

SettleRow(w) ==
  /\ Settling(w, "row")
  /\ LET id == settle[w].id
         r == row[id]
         v == Recovered(settle[w].v, r)
     IN IF r = None \/ r.st # "started" THEN Conclude(w, settle[w].v, r)
        ELSE IF r.kind # v.col.kind THEN Fails(w, store, "mismatch")
        ELSE \E o \in WriteTurn(store, id, v) :
               IF o.ok
                 THEN /\ store' = o.s
                      /\ settle' = [settle EXCEPT ![w].at = "update", ![w].v = v]
                      /\ UNCHANGED <<task, heal>>
                 ELSE Fails(w, o.s, "pending")
  /\ UNCHANGED elsewhere

(* Trigger chat_turn_admission_immutable: the limit that was admitted can only be      *)
(* replaced by the zero of a turn that was never dispatched.                        *)
AdmissionKept(old, new) ==
  \/ old.kind = None /\ old.limit = None
  \/ new.limit = old.limit
  \/ new.limit = 0 /\ new.use = 0 /\ ~new.ans

SettleUpdate(w) ==
  /\ Settling(w, "update")
  /\ LET id == settle[w].id
         new == [settle[w].v.col EXCEPT !.kind = row[id].kind]
     IN \/ row[id].st = "started" /\ AdmissionKept(row[id], new) /\ row' = [row EXCEPT ![id] = new]
        \/ UNCHANGED row
  /\ settle' = [settle EXCEPT ![w].at = "check"]
  /\ UNCHANGED <<store, up, current, task, heal, call, crashes, history>>

SettleCheck(w) ==
  /\ Settling(w, "check")
  /\ Conclude(w, settle[w].v, row[settle[w].id])
  /\ UNCHANGED elsewhere

(* D1 does not answer one of the two reads.                                       *)
SettleUnread(w) ==
  /\ Settling(w, "row") \/ Settling(w, "check")
  /\ Fails(w, store, "pending")
  /\ UNCHANGED elsewhere

-----------------------------------------------------------------------------
(* recoverFinishedTurn: settle what is pending, oldest first, then release the    *)
(* conversation.  The turns are claimed one at a time; each is read when claimed. *)
Away(w, at, a, todo) == heal' = [heal EXCEPT ![w] = [at |-> at, active |-> a, todo |-> todo]]

HealEnd(s, a) ==
  Then(IF /\ a # None /\ s.active = a /\ current = None /\ s.queued # a
          /\ Stored(s, a) /\ ~IsStarted(s.turn[a]) /\ ~s.turn[a].pend
         THEN Idle(s) ELSE Did(s),
       LAMBDA x : IF current # None \/ x.active # None \/ Pending(x) = {} THEN Did(x)
                  ELSE Then(PreserveWaiting(x),
                            LAMBDA y : UNION {ChangeState(y, p, None, FALSE) : p \in Pending(x)}))

(* The running turn is skipped when its place in the list comes.                  *)
HealNext(w, s, a, todo) ==
  LET skip == IF current = None THEN {} ELSE {s.active}
      live == (todo \cap Pending(s)) \ skip
      first == IF a \in live THEN {a} ELSE live
  IN IF live = {}
       THEN /\ \E o \in HealEnd(s, a) :
                  store' = o.s /\ Away(w, IF o.ok THEN "done" ELSE "threw", a, {})
            /\ UNCHANGED settle
       ELSE \E t \in first, passed \in SUBSET (todo \cap skip) :
            \E o \in IF IsStarted(s.turn[t]) THEN WriteTurn(s, t, Interrupted(s.turn[t])) ELSE Did(s) :
              /\ store' = o.s
              /\ Away(w, IF o.ok THEN "settle" ELSE "threw", a, (todo \cap Pending(s)) \ ({t} \cup passed))
              /\ IF o.ok THEN SettleFrom(w, t, o.s.turn[t]) ELSE UNCHANGED settle

HealStart(w, s) ==
  LET a == s.active
      finished == /\ current = None /\ a # None /\ s.queued # a /\ Stored(s, a)
                  /\ (~IsStarted(s.turn[a]) \/ s.turn[a].pend)
  IN \E o \in IF finished THEN PreserveWaiting(s) ELSE Did(s) :
       IF o.ok THEN HealNext(w, o.s, a, Pending(o.s) \ IF current = None THEN {} ELSE {a})
       ELSE store' = o.s /\ Away(w, "threw", a, {}) /\ UNCHANGED settle

Healing(w, at) == heal[w] # None /\ heal[w].at = at
Healed(w) == heal' = [heal EXCEPT ![w] = None]

HealContinue(w) ==
  /\ Healing(w, "next")
  /\ HealNext(w, store, heal[w].active, heal[w].todo)
  /\ UNCHANGED <<row, up, current, task, call, crashes, history>>

-----------------------------------------------------------------------------
(* runTurn and the queue.                                                        *)
Fresh == [at |-> "project", v |-> Started, abort |-> FALSE, disp |-> FALSE, used |-> FALSE, lost |-> FALSE]
Running(t, at) == task[t] # None /\ task[t].at = at
TaskTo(t, k, at) == task' = [task EXCEPT ![t] = [k EXCEPT !.at = at]]
taskless == <<row, up, current, heal, settle, call, crashes, history>>

(* The catch of runTurn: what the owner sees of a turn that did not complete.     *)
Ended(k) ==
  [k EXCEPT !.v.col.st = IF k.v.col.ans THEN "partial"
                         ELSE IF k.abort /\ store.stop /\ ~k.lost THEN "cancelled" ELSE "failed",
            !.abort = FALSE, !.lost = FALSE]   \* not read again
TaskFails(t, k) == TaskTo(t, Ended(k), "final")

(* A write to SQLite, then the next await, or the catch.                          *)
Checkpoint(t, k, next) ==
  \E o \in WriteTurn(store, t, k.v) :
    store' = o.s /\ IF o.ok THEN TaskTo(t, k, next) ELSE TaskFails(t, k)

TaskProject(t) ==
  /\ Running(t, "project")
  /\ \/ /\ store.active = t
        /\ \E o \in Then(WriteTurn(store, t, Started),
                        LAMBDA x : IF x.queued = t THEN DropQueued(x) ELSE Did(x)) :
             /\ store' = o.s
             /\ IF o.ok THEN TaskTo(t, [task[t] EXCEPT !.abort = o.s.stop], "settings")
                ELSE TaskTo(t, Fresh, "advance")
     \/ /\ store.active = t /\ store.queued = t   \* the chat was not found
        /\ \E o \in Then(Preserve(store, t), DropQueued) : store' = o.s
        /\ TaskTo(t, Fresh, "advance")
     \/ /\ ~(store.active = t /\ store.queued = t)   \* nor was it active
        /\ TaskTo(t, Fresh, "advance") /\ UNCHANGED store
  /\ UNCHANGED taskless

TaskSettings(t) ==
  /\ Running(t, "settings")
  /\ \/ Checkpoint(t, [task[t] EXCEPT !.v.pend = TRUE], "insert")
     \/ TaskFails(t, task[t]) /\ UNCHANGED store
  /\ UNCHANGED taskless

TaskInsert(t) ==
  /\ Running(t, "insert")
  /\ \/ row' = [row EXCEPT ![t] = Blank] /\ TaskTo(t, task[t], "admit")
     \/ row' \in {row, [row EXCEPT ![t] = Blank]} /\ TaskFails(t, task[t])
  /\ UNCHANGED <<store, up, current, heal, settle, call, crashes, history>>

(* admitTurn: one conditional update claims the row and records the limit.         *)
TaskAdmit(t) ==
  /\ Running(t, "admit")
  /\ \/ /\ row[t].st = "started" /\ row[t].kind = None
        /\ \E kind \in Kinds :
             LET limit == IF kind = "published" THEN 1 ELSE None
                 k == [task[t] EXCEPT !.v.col.kind = kind, !.v.col.limit = limit]
             IN /\ row' = [row EXCEPT ![t].kind = kind, ![t].limit = limit]
                /\ \/ Checkpoint(t, k, "recheck")
                   \/ TaskFails(t, task[t]) /\ UNCHANGED store
     \/ TaskFails(t, task[t]) /\ UNCHANGED <<store, row>>
  /\ UNCHANGED <<up, current, heal, settle, call, crashes, history>>

TaskRecheck(t) ==
  /\ Running(t, "recheck")
  /\ \/ HealStart(t, store) /\ TaskTo(t, task[t], "heal")
     \/ TaskFails(t, task[t]) /\ UNCHANGED <<store, heal, settle>>
  /\ UNCHANGED <<row, up, current, call, crashes, history>>

(* buildContext freezes the scope (a context without sources changes nothing).     *)
TaskContext(t) ==
  /\ Running(t, "heal") /\ (Healing(t, "done") \/ Healing(t, "threw"))
  /\ Healed(t)
  /\ \/ heal[t].at = "done" /\ Checkpoint(t, [task[t] EXCEPT !.v.col.scope = TRUE], "scope")
     \/ /\ \E scoped \in BOOLEAN : TaskFails(t, [task[t] EXCEPT !.v.col.scope = scoped])
        /\ UNCHANGED store
  /\ UNCHANGED <<row, up, current, settle, call, crashes, history>>

(* The scope reaches D1, a stop is honoured, and the model is called; an SDK that   *)
(* refuses the prompt locally sends nothing.                                     *)
TaskDispatch(t) ==
  LET scoped == IF row[t].st = "started" THEN [row EXCEPT ![t].scope = TRUE] ELSE row IN
  /\ Running(t, "scope")
  /\ \/ row' \in {row, scoped} /\ TaskFails(t, task[t]) /\ UNCHANGED sent
     \/ /\ ~task[t].abort
        /\ row' = scoped
        /\ task' = [task EXCEPT ![t].at = "stream", ![t].disp = TRUE]
        /\ sent' = [sent EXCEPT ![t] = @ + 1]
  /\ UNCHANGED <<store, up, current, heal, settle, call, crashes, accepted, stopped>>

(* First text of the answer, and its checkpoint.                                  *)
TaskText(t) ==
  /\ Running(t, "stream") /\ ~task[t].v.col.ans /\ ~task[t].abort
  /\ LET k == [task[t] EXCEPT !.v.col.ans = TRUE] IN
     \E o \in WriteTurn(store, t, k.v) :
       /\ store' = o.s
       /\ TaskTo(t, IF o.ok THEN k ELSE [k EXCEPT !.abort = TRUE, !.lost = TRUE], "stream")
  /\ UNCHANGED taskless

(* The stream ends: normally, by an error, or because it was aborted.              *)
TaskStreamed(t) ==
  /\ Running(t, "stream")
  /\ \E used \in BOOLEAN :
       LET k == [task[t] EXCEPT !.used = used] IN
       \/ TaskFails(t, k)
       \/ /\ ~k.abort
          /\ \E st \in IF k.v.col.ans THEN {"completed", "partial"} ELSE {"failed"} :
               TaskTo(t, [k EXCEPT !.v.col.st = st], "final")
  /\ UNCHANGED <<store, taskless>>

(* turnUsageProjection                                                           *)
Projected_Adds(k) ==   \* fault: reported usage added to the recorded limit
  [k.v EXCEPT !.col.use = IF k.used /\ k.v.col.limit # None THEN 1 + k.v.col.limit ELSE @, !.col.end = "run"]
Projected_Zero(k) ==   \* fault: usage that was not reported counted as none
  [k.v EXCEPT !.col.use = IF k.used THEN 1 ELSE 0, !.col.end = "run"]
Projected(k) ==
  IF ~k.disp THEN [k.v EXCEPT !.col.limit = 0, !.col.use = 0, !.col.end = "run"]
  ELSE [k.v EXCEPT !.col.use = IF k.used THEN 1 ELSE @, !.col.end = "run"]

TaskFinal(t) ==
  /\ Running(t, "final")
  /\ LET v == Projected(task[t]) IN
     \E o \in WriteTurn(store, t, v) :
       /\ store' = o.s
       /\ IF o.ok /\ v.pend
            THEN SettleFrom(t, t, v) /\ TaskTo(t, Fresh, "settle")
            ELSE TaskTo(t, Fresh, "advance") /\ UNCHANGED settle
  /\ UNCHANGED <<row, up, current, heal, call, crashes, history>>

Over(t) == task' = [task EXCEPT ![t] = None]

(* advanceQueue                                                                  *)
TaskAdvance(t) ==
  LET q == store.queued
      pending == Stored(store, t) /\ store.turn[t].pend
      released == IF q = t THEN StoppedHandoff(store, None)
                  ELSE IF pending THEN PreserveWaiting(store) ELSE Idle(store)
  IN /\ Running(t, "advance")
     /\ IF store.active # t THEN Over(t) /\ UNCHANGED <<store, current>>
        ELSE IF q \in {t, None} \/ pending
          THEN Over(t) /\ current' = None /\ \E o \in released : store' = o.s
        ELSE \E o \in ChangeState(store, q, q, FALSE) :   \* the queued question begins
               /\ store' = o.s
               /\ current' = IF o.ok THEN q ELSE None
               /\ task' = [task EXCEPT ![t] = None, ![q] = IF o.ok THEN Fresh ELSE @]
     /\ UNCHANGED <<row, up, heal, settle, call, crashes, history>>

-----------------------------------------------------------------------------
(* The other methods.  The first step follows the reply of ensureProject, the       *)
(* second the recovery; "answer" is getStoredTurn, "page" getTurnPage.             *)
Arrive(c, op, t) ==
  /\ up = "up" /\ call[c] = None
  /\ \E o \in IF op = "answer" THEN Did(store) ELSE StoppedHandoff(store, current) :
       IF o.ok THEN HealStart(c, o.s) /\ call' = [call EXCEPT ![c] = [op |-> op, t |-> t]]
       ELSE store' = o.s /\ UNCHANGED <<heal, settle, call>>
  /\ UNCHANGED <<row, up, current, task, crashes, history>>

Returning(c, ops, at) == call[c] # None /\ call[c].op \in ops /\ Healing(c, at)
Return(c) == Healed(c) /\ call' = [call EXCEPT ![c] = None]
Accept(t) == accepted' = [accepted EXCEPT ![t] = TRUE] /\ stopped' = [stopped EXCEPT ![t] = None]

(* submitTurn: start at once, or wait behind the running turn.                     *)
Starts_Anyway(c) ==   \* fault: the active turn not looked at
  Returning(c, {"submit", "wait"}, "done") /\ ~Stored(store, call[c].t)
Starts(c) ==
  Returning(c, {"submit", "wait"}, "done") /\ ~Stored(store, call[c].t) /\ store.active = None
Queues(c) ==
  /\ Returning(c, {"submit"}, "done") /\ ~Stored(store, call[c].t)
  /\ store.active \notin {None, call[c].t} /\ store.queued = None
  /\ current # None \/ ~Stored(store, store.active) \/ store.turn[store.active].err = None

SubmitStarts(c) ==
  LET t == call[c].t IN
  /\ Starts(c)
  /\ \E o \in ChangeState(store, t, t, FALSE) :
       /\ store' = o.s
       /\ IF o.ok THEN task' = [task EXCEPT ![t] = Fresh] /\ current' = t /\ Accept(t)
          ELSE UNCHANGED <<task, current, accepted, stopped>>
  /\ Return(c)
  /\ UNCHANGED <<row, up, settle, crashes, sent>>

SubmitQueues(c) ==
  LET t == call[c].t IN
  /\ Queues(c)
  /\ \E o \in ChangeState(store, store.active, t, store.stop) :
       store' = o.s /\ IF o.ok THEN Accept(t) ELSE UNCHANGED <<accepted, stopped>>
  /\ Return(c)
  /\ UNCHANGED <<row, up, current, task, settle, crashes, sent>>

(* stopTurn: withdraw a waiting question, or stop the running one, whose            *)
(* controller exists once its project was checked.                                *)
Withdraws(c) == Returning(c, {"stop"}, "done") /\ store.queued = call[c].t /\ store.active # call[c].t
Stops(c) == Returning(c, {"stop"}, "done") /\ store.active = call[c].t

Stoppable_Streaming(k) == k # None /\ k.at = "stream"   \* fault: no controller before the stream
Stoppable(k) == k # None /\ k.at \in {"settings", "insert", "admit", "recheck", "heal", "scope", "stream"}

StopTurn(c) ==
  LET t == call[c].t IN
  /\ \/ /\ Withdraws(c)
        /\ \E o \in DropQueued(store) :
             store' = o.s /\ stopped' = [stopped EXCEPT ![t] = IF o.ok THEN "waiting" ELSE @]
        /\ UNCHANGED task
     \/ /\ Stops(c)
        /\ \E o \in ChangeState(store, store.active, store.queued, TRUE) :
             /\ store' = o.s
             /\ stopped' = [stopped EXCEPT ![t] = IF o.ok THEN "active" ELSE @]
             /\ task' = IF o.ok /\ Stoppable(task[t]) THEN [task EXCEPT ![t].abort = TRUE] ELSE task
  /\ Return(c)
  /\ UNCHANGED <<row, up, current, settle, crashes, sent, accepted>>

(* A busy reply, the reply of a turn already known, a page, or an error.            *)
Replies(c) ==
  /\ Returning(c, Op, "done") \/ Returning(c, Op, "threw")
  /\ ~Starts(c) /\ ~Queues(c) /\ ~Withdraws(c) /\ ~Stops(c)
  /\ Return(c)
  /\ UNCHANGED <<store, row, up, current, task, settle, crashes, history>>

-----------------------------------------------------------------------------
(* A restart, and onStart, which runs before any call is delivered: an accepted     *)
(* question is kept as unsent and an interrupted turn is marked for settlement.     *)
Crash ==
  /\ up # "down" /\ crashes < MaxCrashes
  /\ up' = "down" /\ crashes' = crashes + 1
  /\ current' = None
  /\ task' = [t \in Turn |-> None]
  /\ heal' = [w \in Worker |-> None] /\ settle' = [w \in Worker |-> None]
  /\ call' = [c \in Call |-> None]
  /\ UNCHANGED <<store, row, history>>

KeepQueued_Clears(s) == Did(s)   \* fault: the waiting question dropped with the state
KeepQueued(s) == IF s.queued = None THEN Did(s) ELSE Preserve(s, s.queued)
MarkActive_Terminal(s) ==   \* fault: a turn that had ended is marked interrupted too
  LET v == s.turn[s.active] IN
  IF s.active = None \/ v = None THEN Did(s)
  ELSE IF v.input THEN Did(s) ELSE WriteTurn(s, s.active, [Interrupted(v) EXCEPT !.pend = TRUE])
MarkActive(s) ==
  LET v == s.turn[s.active] IN
  IF s.active = None \/ v = None THEN Did(s)
  ELSE IF IsStarted(v) THEN WriteTurn(s, s.active, [Interrupted(v) EXCEPT !.pend = TRUE])
  ELSE IF v.input THEN Did(s) ELSE WriteTurn(s, s.active, [v EXCEPT !.pend = TRUE])
ClearState(s) ==
  IF s.active = None /\ s.queued = None THEN Did(s)
  ELSE ChangeState(s, IF s.active \in Pending(s) THEN s.active ELSE None, None, FALSE)

Boot ==
  /\ up = "down"
  /\ \E o \in Then(Then(KeepQueued(store), MarkActive), ClearState) :
       IF o.ok THEN HealStart("boot", o.s) /\ up' = "boot"
       ELSE store' = o.s /\ UNCHANGED <<up, heal, settle>>
  /\ UNCHANGED <<row, current, task, call, crashes, history>>

BootDone ==
  /\ up = "boot" /\ heal["boot"].at \in {"done", "threw"}
  /\ up' = IF heal["boot"].at = "done" THEN "up" ELSE "down"
  /\ Healed("boot")
  /\ UNCHANGED <<store, row, current, task, settle, call, crashes, history>>

-----------------------------------------------------------------------------
(* What an await of recoverFinishedTurn resumes runs before any other event.        *)
Continue ==
  \/ \E w \in Worker : HealContinue(w)
  \/ \E t \in Turn : TaskContext(t)
  \/ \E c \in Call : SubmitStarts(c) \/ SubmitQueues(c) \/ StopTurn(c) \/ Replies(c)
  \/ BootDone
Quiet == \A w \in Worker : heal[w] # None => heal[w].at = "settle"

SettleStep(w) == SettleRow(w) \/ SettleUpdate(w) \/ SettleCheck(w) \/ SettleUnread(w)
TaskStep(t) ==
  \/ TaskProject(t) \/ TaskSettings(t) \/ TaskInsert(t) \/ TaskAdmit(t) \/ TaskRecheck(t)
  \/ TaskDispatch(t) \/ TaskText(t) \/ TaskStreamed(t) \/ TaskFinal(t) \/ TaskAdvance(t)
Asks(c) == \E op \in Op : \E t \in IF op \in {"page", "answer"} THEN {None} ELSE Turn : Arrive(c, op, t)

Next ==
  \/ Continue
  \/ Quiet /\ \/ \E w \in Worker : SettleStep(w)
              \/ \E t \in Turn : TaskStep(t)
              \/ \E c \in Call : Asks(c)
              \/ Boot
              \/ Crash

Spec == Init /\ [][Next]_vars

(* What has begun goes on, the model's stream apart; D1 does answer a statement      *)
(* that is repeated for ever, and the owner keeps reopening the conversation.      *)
Fairness ==
  /\ WF_vars(Continue)
  /\ WF_vars(Quiet /\ (Boot \/ \E c \in Call : Asks(c)))
  /\ WF_vars(Quiet /\ \E w \in Worker : SettleStep(w))
  /\ WF_vars(Quiet /\ \E t \in Turn : TaskStep(t) /\ ~Running(t, "stream"))
  /\ SF_vars(Quiet /\ \E w \in Worker : SettleRow(w))
  /\ SF_vars(Quiet /\ \E w \in Worker : SettleUpdate(w) /\ row' # row)
  /\ SF_vars(Quiet /\ \E w \in Worker : SettleCheck(w))
FairSpec == Spec /\ Fairness

-----------------------------------------------------------------------------
(* A question that submitTurn acknowledged is never lost: it waits, or it has a      *)
(* stored turn, or its owner withdrew it while it waited.                         *)
AcceptedKept ==
  \A t \in Turn : accepted[t] => Stored(store, t) \/ store.queued = t \/ stopped[t] = "waiting"

(* One turn runs at a time, it is the active one, its model is called at most once,  *)
(* and only its result is ever pending: promotion, repeated submits and recovery    *)
(* never start a turn beside it, nor leave it before its result is settled.        *)
OneRun ==
  \A t \in Turn :
    /\ sent[t] <= 1
    /\ task[t] # None => current = t /\ store.active = t
    /\ Stored(store, t) /\ store.turn[t].pend => store.active = t

(* What is stored of a turn is what happened, in both stores: a terminal D1 row      *)
(* repeats a payload that was durable first, a settled payload has such a row or    *)
(* was never sent, known zero usage means no model call, and only an owner cancels. *)
Truthful ==
  \A t \in Turn :
    /\ row[t] # None /\ row[t].st # "started" => store.turn[t].col = row[t]
    /\ Stored(store, t) =>
         LET v == store.turn[t] IN
         /\ ~IsStarted(v) /\ ~v.pend => row[t] = v.col \/ (row[t] = None /\ sent[t] = 0)
         /\ v.col.use = 0 => sent[t] = 0
         /\ v.col.st = "cancelled" => stopped[t] = "active"

(* Recovery, restarts and late writers rewrite no result and forget nothing known:   *)
(* a terminal payload keeps its outcome, known usage and limit stay in both stores. *)
ResultsStay ==
  [][\A t \in Turn :
       /\ Stored(store, t) /\ ~IsStarted(store.turn[t]) =>
            LET v == store.turn[t].col
                u == store'.turn[t].col
            IN /\ u.st = v.st /\ u.ans = v.ans /\ u.end = v.end
               /\ v.use # None => u.use = v.use
       /\ row[t] # None =>
            /\ row[t].limit # None => row'[t].limit # None
            /\ row[t].scope => row'[t].scope]_vars

(* A turn stopped, waiting or running, before its dispatch is never dispatched,     *)
(* unless it is submitted again.                                                *)
StopHonoured == [][\A t \in Turn : stopped[t] # None /\ sent[t] = 0 => sent'[t] = 0]_vars

(* A result whose accounting could not be confirmed is settled in the end, by the     *)
(* turn's own end or by a later reader, after lost replies, a failed write, a restart. *)
PendingSettles ==
  \A t \in Turn : (Stored(store, t) /\ store.turn[t].pend /\ task[t] = None)
                   ~> (Stored(store, t) /\ ~store.turn[t].pend)
==============================================================================
