------------------------------- MODULE ChatProofs -------------------------------
(***************************************************************************)
(* Proofs about Chat, for any number of questions, calls, failed writes and    *)
(* restarts: both stores tell what happened, no result is rewritten, a stop is  *)
(* honoured.  ChatQueueProofs goes on from here.                               *)
(***************************************************************************)
EXTENDS Chat, TLAPS

Unsaved == {"project", "settle", "advance"}    \* the turn's payload is not in its task's hands
Busy == {"settings", "insert", "admit", "recheck", "heal", "scope", "stream"}
Before == {"project", "settings", "insert", "admit", "recheck", "heal", "scope"}
Admitted == {"recheck", "heal", "scope", "stream"}

(* Who waits for whom: a settlement belongs to its turn's end or to a recovery, a    *)
(* recovery to a running turn, to a call or to onStart.                         *)
SettleOwned == \A w \in Worker : settle[w] # None =>
  \/ heal[w] # None /\ heal[w].at = "settle"
  \/ w \in Turn /\ heal[w] = None /\ task[w] # None /\ task[w].at = "settle"
HealOwned == \A w \in Worker : heal[w] # None =>
  \/ w \in Turn /\ task[w] # None /\ task[w].at = "heal"
  \/ w \in Call /\ call[w] # None
  \/ w = "boot" /\ up = "boot"
Resting == up # "up" => current = None /\ \A c \in Call : call[c] = None
OneTask == /\ current # None => task[current] # None
           /\ \A t \in Turn : task[t] # None => current = t
Named == \A c \in Call :
  call[c] # None /\ call[c].op \notin {"page", "answer"} => call[c].t \in Turn
Processes == SettleOwned /\ HealOwned /\ Resting /\ Named /\ OneTask

-----------------------------------------------------------------------------
(* What the rows promise. *)
Open(r) == r # None => r.st = "started"
RowsAre == \A t \in Turn :
  /\ sent[t] <= 1
  /\ sent[t] # 0 => row[t] # None
  /\ row[t] # None /\ row[t].st = "started" => row[t].use = None

(* The state {active, queued, stopRequested} of a store. *)
StateSound(s) ==
  /\ s.stop => s.active # None /\ stopped[s.active] = "active"
  /\ s.queued # None =>
       /\ row[s.queued] = None /\ sent[s.queued] = 0
       /\ s.turn[s.queued] \in {None, Started, Unsent}
       /\ s.queued # s.active => stopped[s.queued] = None

(* The payloads of a store. *)
PayloadSound(s) == \A t \in Turn :
  /\ row[t] # None => Stored(s, t) /\ (row[t].st # "started" => s.turn[t].col = row[t])
  /\ Stored(s, t) =>
       LET v == s.turn[t] IN
       /\ ~IsStarted(v) /\ ~v.pend => row[t] = v.col \/ (row[t] = None /\ sent[t] = 0)
       /\ v.col.use = 0 => sent[t] = 0
       /\ v.col.st = "cancelled" => stopped[t] = "active"

(* What a running turn knows. *)
TaskSound(s, t, k) ==
  /\ s.active = t
  /\ s.queued \notin {None, t} => ~Stored(s, s.queued)
  /\ k.at \in Before => sent[t] = 0 /\ ~k.disp
  /\ k.at = "project" => k = Fresh /\ ~Stored(s, t) /\ row[t] = None /\ (stopped[t] # None => s.stop)
  /\ k.at \in Busy \cup {"final"} =>
       /\ Stored(s, t) /\ IsStarted(s.turn[t]) /\ s.turn[t].col.use = None
       /\ s.queued # t /\ Open(row[t])
       /\ sent[t] # 0 => k.disp
       /\ k.v.col.use = None
  /\ k.at \in Busy =>
       /\ IsStarted(k.v)
       /\ k.at # "settings" => k.v.pend
       /\ k.at \in Before /\ stopped[t] # None => k.abort
       /\ k.abort /\ ~k.lost => stopped[t] = "active"
  /\ k.at \in {"settings", "insert"} => row[t] = None
  /\ k.at = "admit" => row[t] = Blank
  /\ k.at \in Admitted => row[t] # None
  /\ k.at = "final" =>
       /\ ~IsStarted(k.v)
       /\ ~k.v.pend => row[t] = None
       /\ k.v.col.st = "cancelled" => stopped[t] = "active"
TasksSound(s) == \A t \in Turn : task[t] # None => TaskSound(s, t, task[t])

(* What a settlement knows: its copy and the stored payload are of one result, and    *)
(* become equal once what the row knows is added.                              *)
SameResult(v, x, r) ==
  /\ v.col.st = x.col.st /\ v.col.ans = x.col.ans /\ v.col.end = x.col.end
  /\ r # None => v.col.use = x.col.use
  /\ r = None => Zeroed(v, r).col = Zeroed(x, r).col
  /\ r # None /\ r.st = "started" => Recovered(v, r).col = Recovered(x, r).col
Closing(s, e) ==
  LET t == e.id
      r == row[t]
  IN /\ Stored(s, t) /\ s.queued # t
     /\ task[t] # None => task[t].at \in {"settle", "advance"}
     /\ e.v.pend /\ ~IsStarted(e.v) /\ ~IsStarted(s.turn[t])
     /\ e.v.col.use = 0 => sent[t] = 0
     /\ SameResult(e.v, s.turn[t], r)
     /\ e.at = "update" =>
          /\ r # None
          /\ r.st = "started" => e.v.col = s.turn[t].col /\ e.v.col = Recovered(e.v, r).col
                                 /\ e.v.col.kind = r.kind
SettlesSound(s) == \A w \in Worker : settle[w] # None => Closing(s, settle[w])

(* A store that is sound in the present state, running turns apart. *)
Base(s) == s \in Store /\ StateSound(s) /\ PayloadSound(s) /\ SettlesSound(s)

IInv == TypeOK /\ Processes /\ RowsAre /\ Base(store) /\ TasksSound(store)

(* No result is rewritten and no known usage forgotten between two stores. *)
Kept(s, x) == \A t \in Turn : Stored(s, t) =>
  /\ Stored(x, t)
  /\ ~IsStarted(s.turn[t]) =>
       LET v == s.turn[t].col
           u == x.turn[t].col
       IN /\ u.st = v.st /\ u.ans = v.ans /\ u.end = v.end
          /\ v.use # None => u.use = v.use

-----------------------------------------------------------------------------
(* Payloads.  Named: the values of turns in runTurn, settleTurn and recovery.      *)
LEMMA PayloadFields ==
  ASSUME NEW v \in Payload
  PROVE  /\ v.col \in Columns /\ v.input \in BOOLEAN /\ v.pend \in BOOLEAN
         /\ v.err \in {None, "pending", "mismatch"} /\ v # None
         /\ v.col.st \in Terminal \cup {"started"} /\ v.col.ans \in BOOLEAN
         /\ v.col.kind \in Kinds \cup {None} /\ v.col.limit \in Count /\ v.col.scope \in BOOLEAN
         /\ v.col.use \in Count /\ v.col.end \in {None, "run", "interrupted", "unsent"}
<1>1. v.col \in Columns /\ v.input \in BOOLEAN /\ v.pend \in BOOLEAN
      /\ v.err \in {None, "pending", "mismatch"}
  BY DEF Payload
<1>2. v # None
  BY NoneAssumption
<1> QED BY <1>1, <1>2 DEF Columns

LEMMA FixedPayloads ==
  /\ Blank \in Columns /\ Started \in Payload /\ Unsent \in Payload
  /\ Blank.st = "started" /\ Blank.use = None /\ Blank # None
  /\ IsStarted(Started) /\ ~Started.pend /\ Started.col.use = None
  /\ ~IsStarted(Unsent) /\ ~Unsent.pend /\ Unsent.col.st = "failed" /\ Unsent.col.use = 0
  /\ Unsent.input
<1>1. Blank \in Columns
  BY DEF Blank, Columns, Count, Terminal
<1>2. Started \in Payload
  BY <1>1 DEF Started, Payload
<1>3. [Blank EXCEPT !.st = "failed", !.limit = 0, !.use = 0, !.end = "unsent"] \in Columns
  BY <1>1 DEF Columns, Count, Terminal
<1>4. Unsent \in Payload
  BY <1>2, <1>3 DEF Unsent, Payload
<1>5. Blank.st = "started" /\ Blank.use = None /\ Blank # None
  BY <1>1, NoneAssumption DEF Blank
<1>6. IsStarted(Started) /\ ~Started.pend /\ Started.col.use = None
  BY DEF Started, Blank, IsStarted
<1>7. Unsent.input /\ ~Unsent.pend /\ Unsent.col.st = "failed" /\ Unsent.col.use = 0
  BY DEF Unsent, Started, Blank
<1>8. ~IsStarted(Unsent)
  BY <1>7 DEF IsStarted
<1> QED BY <1>1, <1>2, <1>4, <1>5, <1>6, <1>7, <1>8

LEMMA InterruptedFields ==
  ASSUME NEW v \in Payload
  PROVE  /\ Interrupted(v) \in Payload
         /\ ~IsStarted(Interrupted(v)) /\ Interrupted(v).col.st # "cancelled"
         /\ Interrupted(v).pend = v.pend /\ Interrupted(v).input = v.input
         /\ Interrupted(v).col.use = v.col.use
<1> DEFINE st == IF v.col.ans THEN "partial" ELSE "failed"
           c == [v.col EXCEPT !.st = st, !.end = "interrupted"]
<1>1. v.col \in Columns
  BY PayloadFields
<1>2. c \in Columns /\ c.st = st /\ c.use = v.col.use
  BY <1>1 DEF Columns, Terminal
<1>3. Interrupted(v) = [v EXCEPT !.col = c]
  BY <1>1 DEF Interrupted, Payload, Columns
<1>4. Interrupted(v) \in Payload /\ Interrupted(v).col = c
      /\ Interrupted(v).pend = v.pend /\ Interrupted(v).input = v.input
  BY <1>2, <1>3 DEF Payload
<1> QED BY <1>2, <1>4 DEF IsStarted

(* Recovered adds what the row knows; adding it twice changes nothing. *)
Joined(c, r) == [c EXCEPT !.limit = Known(@, r.limit), !.kind = Known(@, r.kind),
                          !.use = Known(@, r.use), !.scope = @ \/ r.scope]
LEMMA RecoveredFields ==
  ASSUME NEW v \in Payload, NEW r \in Columns
  PROVE  /\ Recovered(v, r) \in Payload
         /\ Recovered(v, r).col = Joined(v.col, r)
         /\ Recovered(v, r).pend = v.pend
<1>1. v.col \in Columns
  BY PayloadFields
<1>2. Joined(v.col, r) \in Columns
  BY <1>1 DEF Joined, Columns, Known
<1>3. Recovered(v, r) = [v EXCEPT !.col = Joined(v.col, r)]
  BY <1>1 DEF Recovered, Joined, Payload, Columns
<1> QED BY <1>2, <1>3 DEF Payload

LEMMA JoinedFields ==
  ASSUME NEW c \in Columns, NEW r \in Columns
  PROVE  /\ Joined(c, r) \in Columns
         /\ Joined(c, r).st = c.st /\ Joined(c, r).ans = c.ans /\ Joined(c, r).end = c.end
         /\ r.use = None => Joined(c, r).use = c.use
         /\ r.limit # None => Joined(c, r).limit # None
         /\ r.scope => Joined(c, r).scope
         /\ Joined(Joined(c, r), r) = Joined(c, r)
<1>1. Joined(c, r) \in Columns
  BY DEF Joined, Columns, Known
<1>2. /\ Joined(c, r).st = c.st /\ Joined(c, r).ans = c.ans /\ Joined(c, r).end = c.end
      /\ Joined(c, r).limit = Known(c.limit, r.limit) /\ Joined(c, r).kind = Known(c.kind, r.kind)
      /\ Joined(c, r).use = Known(c.use, r.use) /\ Joined(c, r).scope = (c.scope \/ r.scope)
  BY DEF Joined, Columns
<1>3. Joined(Joined(c, r), r) = Joined(c, r)
  <2> DEFINE j == Joined(c, r)
  <2>1. Known(j.limit, r.limit) = j.limit /\ Known(j.kind, r.kind) = j.kind /\ Known(j.use, r.use) = j.use
    BY <1>2 DEF Known
  <2>2. (j.scope \/ r.scope) = j.scope
    BY <1>2, <1>1 DEF Columns
  <2>3. j \in Columns
    BY <1>1
  <2> HIDE DEF j
  <2>4. Joined(j, r) = j
    BY <2>1, <2>2, <2>3 DEF Joined, Columns
  <2> QED BY <2>4 DEF j
<1>4. /\ r.use = None => Joined(c, r).use = c.use
      /\ r.limit # None => Joined(c, r).limit # None
      /\ r.scope => Joined(c, r).scope
  BY <1>2 DEF Known
<1> QED BY <1>1, <1>2, <1>3, <1>4

(* Zeroed changes limit and usage at most, of a copy that knows nothing.         *)
LEMMA ZeroedFields ==
  ASSUME NEW v \in Payload, NEW r
  PROVE  /\ Zeroed(v, r) \in Payload
         /\ r # None => Zeroed(v, r) = v
         /\ Zeroed(v, r).col.st = v.col.st /\ Zeroed(v, r).col.ans = v.col.ans
         /\ Zeroed(v, r).col.end = v.col.end
         /\ v.col.use # None => Zeroed(v, r) = v
         /\ Zeroed(v, r).pend = v.pend
<1> DEFINE c == [v.col EXCEPT !.limit = 0, !.use = 0]
<1>1. v.col \in Columns
  BY PayloadFields
<1>2. c \in Columns /\ c.st = v.col.st /\ c.ans = v.col.ans /\ c.end = v.col.end
  BY <1>1 DEF Columns, Count
<1>3. Zeroed(v, r) = v \/ Zeroed(v, r) = [v EXCEPT !.col = c]
  BY <1>1 DEF Zeroed, Payload, Columns
<1>4. [v EXCEPT !.col = c] \in Payload /\ [v EXCEPT !.col = c].col = c
      /\ [v EXCEPT !.col = c].pend = v.pend
  BY <1>2 DEF Payload
<1>5. (r # None => Zeroed(v, r) = v) /\ (v.col.use # None => Zeroed(v, r) = v)
  BY DEF Zeroed
<1> QED BY <1>2, <1>3, <1>4, <1>5

-----------------------------------------------------------------------------
(* Stores.                                                                       *)
TurnSet(s, t, v) == [s EXCEPT !.turn[t] = v]
StateSet(s, a, q, stop) == [s EXCEPT !.active = a, !.queued = q, !.stop = stop]
Faulted(s) == [s EXCEPT !.faults = @ + 1]

LEMMA StoreFields ==
  ASSUME NEW s \in Store
  PROVE  /\ s.turn \in [Turn -> Payload \cup {None}]
         /\ s.active \in Turn \cup {None} /\ s.queued \in Turn \cup {None}
         /\ s.stop \in BOOLEAN /\ s.faults \in 0 .. MaxFaults
         /\ \A t \in Turn : Stored(s, t) => s.turn[t] \in Payload
BY DEF Store, Stored

LEMMA TurnSetFields ==
  ASSUME NEW s \in Store, NEW t \in Turn, NEW v \in Payload
  PROVE  LET x == TurnSet(s, t, v) IN
         /\ x \in Store
         /\ x.active = s.active /\ x.queued = s.queued /\ x.stop = s.stop
         /\ x.turn[t] = v /\ Stored(x, t)
         /\ \A u \in Turn \ {t} : x.turn[u] = s.turn[u] /\ (Stored(x, u) <=> Stored(s, u))
<1> DEFINE f == [s.turn EXCEPT ![t] = v]
           x == TurnSet(s, t, v)
<1>1. f \in [Turn -> Payload \cup {None}] /\ f[t] = v /\ \A u \in Turn \ {t} : f[u] = s.turn[u]
  BY StoreFields
<1>2. x = [s EXCEPT !.turn = f]
  BY DEF TurnSet, Store
<1>3. x \in Store /\ x.active = s.active /\ x.queued = s.queued /\ x.stop = s.stop /\ x.turn = f
  BY <1>1, <1>2 DEF Store
<1>4. v # None
  BY NoneAssumption
<1> QED BY <1>1, <1>3, <1>4 DEF Stored

LEMMA StateSetFields ==
  ASSUME NEW s \in Store, NEW a \in Turn \cup {None}, NEW q \in Turn \cup {None}, NEW stop \in BOOLEAN
  PROVE  LET x == StateSet(s, a, q, stop) IN
         /\ x \in Store
         /\ x.active = a /\ x.queued = q /\ x.stop = stop /\ x.turn = s.turn
         /\ \A u \in Turn : Stored(x, u) <=> Stored(s, u)
BY DEF StateSet, Store, Stored

(* A write does what it says, or throws. *)
LEMMA Writes ==
  ASSUME NEW s \in Store, NEW written \in Store, NEW o \in Write(s, written)
  PROVE  \/ o.ok /\ o.s = written
         \/ ~o.ok /\ o.s = Faulted(s) /\ s.faults < MaxFaults
BY DEF Write, Did, Threw, Faulted

LEMMA FaultedFields ==
  ASSUME NEW s \in Store, s.faults < MaxFaults
  PROVE  /\ Faulted(s) \in Store
         /\ Faulted(s).turn = s.turn /\ Faulted(s).active = s.active
         /\ Faulted(s).queued = s.queued /\ Faulted(s).stop = s.stop
<1>1. s.faults + 1 \in 0 .. MaxFaults
  BY BoundAssumption, StoreFields
<1> QED BY <1>1 DEF Faulted, Store

LEMMA NoQuestion ==
  ASSUME NEW s \in Store, NEW a \in Turn \cup {None}, NEW stop \in BOOLEAN
  PROVE  LET x == StateSet(s, a, None, stop) IN
         /\ x \in Store
         /\ x.active = a /\ x.queued = None /\ x.stop = stop /\ x.turn = s.turn
         /\ \A u \in Turn : Stored(x, u) <=> Stored(s, u)
BY DEF StateSet, Store, Stored

(* Soundness does not depend on the failed writes so far. *)
LEMMA BaseOfSame ==
  ASSUME NEW s \in Store, NEW x \in Store, Base(s),
         x.turn = s.turn, x.active = s.active, x.queued = s.queued, x.stop = s.stop
  PROVE  Base(x) /\ Kept(s, x)
<1>1. StateSound(x)
  BY DEF Base, StateSound, Stored
<1>2. PayloadSound(x)
  BY DEF Base, PayloadSound, Stored
<1>3. SettlesSound(x)
  BY DEF Base, SettlesSound, Closing, Stored
<1>4. Kept(s, x)
  BY DEF Kept, Stored
<1> QED BY <1>1, <1>2, <1>3, <1>4 DEF Base

LEMMA FaultKeepsBase ==
  ASSUME NEW s, Base(s), s.faults < MaxFaults
  PROVE  Base(Faulted(s)) /\ Kept(s, Faulted(s))
<1>1. s \in Store
  BY DEF Base
<1> QED BY <1>1, FaultedFields, BaseOfSame

LEMMA KeptItself ==
  ASSUME NEW s PROVE Kept(s, s)
BY DEF Kept

LEMMA KeptTwice ==
  ASSUME NEW s, NEW x, NEW y, Kept(s, x), Kept(x, y)
  PROVE  Kept(s, y)
<1> SUFFICES ASSUME NEW t \in Turn, Stored(s, t)
             PROVE  /\ Stored(y, t)
                    /\ ~IsStarted(s.turn[t]) =>
                         LET v == s.turn[t].col
                             u == y.turn[t].col
                         IN /\ u.st = v.st /\ u.ans = v.ans /\ u.end = v.end
                            /\ v.use # None => u.use = v.use
  BY DEF Kept
<1>1. Stored(x, t) /\ Stored(y, t)
  BY DEF Kept
<1>2. ~IsStarted(s.turn[t]) => ~IsStarted(x.turn[t])
  BY DEF Kept, IsStarted
<1> QED BY <1>1, <1>2 DEF Kept

OnlyTurn(s, x, t) ==
  /\ x.active = s.active /\ x.queued = s.queued /\ x.stop = s.stop
  /\ \A u \in Turn \ {t} : x.turn[u] = s.turn[u]

LEMMA TurnSetKept ==
  ASSUME NEW s \in Store, NEW t \in Turn, NEW v \in Payload,
         Stored(s, t) /\ ~IsStarted(s.turn[t]) =>
           LET c == s.turn[t].col
           IN /\ v.col.st = c.st /\ v.col.ans = c.ans /\ v.col.end = c.end
              /\ c.use # None => v.col.use = c.use
  PROVE  Kept(s, TurnSet(s, t, v)) /\ OnlyTurn(s, TurnSet(s, t, v), t) /\ TurnSet(s, t, v) \in Store
<1> DEFINE x == TurnSet(s, t, v)
<1>1. /\ x \in Store /\ x.active = s.active /\ x.queued = s.queued /\ x.stop = s.stop
      /\ x.turn[t] = v /\ Stored(x, t)
      /\ \A u \in Turn \ {t} : x.turn[u] = s.turn[u] /\ (Stored(x, u) <=> Stored(s, u))
  BY TurnSetFields
<1> HIDE DEF x
<1>2. Kept(s, x)
  BY <1>1 DEF Kept
<1> QED BY <1>1, <1>2 DEF OnlyTurn, x

(* Writing one payload: what it must respect. *)
LEMMA TurnSetBase ==
  ASSUME TypeOK, NEW s, Base(s), NEW t \in Turn, NEW v \in Payload,
         s.queued = t => v \in {Started, Unsent},
         row[t] # None /\ row[t].st # "started" => v.col = row[t],
         ~IsStarted(v) /\ ~v.pend => row[t] = v.col \/ (row[t] = None /\ sent[t] = 0),
         v.col.use = 0 => sent[t] = 0,
         v.col.st = "cancelled" => stopped[t] = "active",
         \A w \in Worker : settle[w] # None /\ settle[w].id = t => Closing(TurnSet(s, t, v), settle[w])
  PROVE  Base(TurnSet(s, t, v))
<1> DEFINE x == TurnSet(s, t, v)
<1>1. s \in Store
  BY DEF Base
<1>2. /\ x \in Store
      /\ x.active = s.active /\ x.queued = s.queued /\ x.stop = s.stop
      /\ x.turn[t] = v /\ Stored(x, t)
      /\ \A u \in Turn \ {t} : x.turn[u] = s.turn[u] /\ (Stored(x, u) <=> Stored(s, u))
  BY <1>1, TurnSetFields
<1> HIDE DEF x
<1>3. StateSound(x)
  <2>1. s.queued \in Turn \cup {None}
    BY <1>1, StoreFields
  <2>2. CASE s.queued = t
    BY <1>2, <2>2 DEF Base, StateSound
  <2>3. CASE s.queued # t
    BY <1>2, <2>1, <2>3 DEF Base, StateSound
  <2> QED BY <2>2, <2>3
<1>4. PayloadSound(x)
  <2> SUFFICES ASSUME NEW u \in Turn
               PROVE /\ row[u] # None => Stored(x, u) /\ (row[u].st # "started" => x.turn[u].col = row[u])
                     /\ Stored(x, u) =>
                          LET p == x.turn[u] IN
                          /\ ~IsStarted(p) /\ ~p.pend => row[u] = p.col \/ (row[u] = None /\ sent[u] = 0)
                          /\ p.col.use = 0 => sent[u] = 0
                          /\ p.col.st = "cancelled" => stopped[u] = "active"
    BY DEF PayloadSound
  <2>1. CASE u = t
    BY <1>2, <2>1
  <2>2. CASE u # t
    BY <1>2, <2>2 DEF Base, PayloadSound
  <2> QED BY <2>1, <2>2
<1>5. SettlesSound(x)
  <2> SUFFICES ASSUME NEW w \in Worker, settle[w] # None PROVE Closing(x, settle[w])
    BY DEF SettlesSound
  <2>1. CASE settle[w].id = t
    BY <2>1 DEF x
  <2>2. CASE settle[w].id # t
    <3>1. Closing(s, settle[w])
      BY DEF Base, SettlesSound
    <3>2. settle[w].id \in Turn
      BY DEF TypeOK, Settle
    <3>3. x.turn[settle[w].id] = s.turn[settle[w].id]
      BY <1>2, <2>2, <3>2
    <3> QED BY <1>2, <3>1, <3>3 DEF Closing, Stored
  <2> QED BY <2>1, <2>2
<1> QED BY <1>2, <1>3, <1>4, <1>5 DEF Base, x

(* Writing the state without a waiting question. *)
LEMMA StateSetBase ==
  ASSUME TypeOK, NEW s, Base(s), NEW a \in Turn \cup {None}, NEW stop \in BOOLEAN,
         stop => a # None /\ stopped[a] = "active"
  PROVE  Base(StateSet(s, a, None, stop)) /\ Kept(s, StateSet(s, a, None, stop))
<1> DEFINE x == StateSet(s, a, None, stop)
<1>1. s \in Store
  BY DEF Base
<1>2. /\ x \in Store /\ x.active = a /\ x.queued = None /\ x.stop = stop /\ x.turn = s.turn
      /\ \A u \in Turn : Stored(x, u) <=> Stored(s, u)
  BY <1>1, NoQuestion
<1> HIDE DEF x
<1>3. StateSound(x)
  BY <1>2 DEF StateSound
<1>4. PayloadSound(x)
  BY <1>2 DEF Base, PayloadSound
<1>5. SettlesSound(x)
  <2> SUFFICES ASSUME NEW w \in Worker, settle[w] # None PROVE Closing(x, settle[w])
    BY DEF SettlesSound
  <2>1. Closing(s, settle[w])
    BY DEF Base, SettlesSound
  <2>2. settle[w].id \in Turn
    BY DEF TypeOK, Settle
  <2>3. settle[w].id # None
    BY <2>2, NoneAssumption
  <2> QED BY <1>2, <2>1, <2>3 DEF Closing, Stored
<1>6. Kept(s, x)
  BY <1>2 DEF Kept
<1> QED BY <1>2, <1>3, <1>4, <1>5, <1>6 DEF Base, x

(* What a step does to a store of which no turn runs, or not the one concerned.     *)
Leads(s, x) == Base(x) /\ Kept(s, x)

LEMMA LeadsOn ==
  ASSUME NEW s, NEW x, NEW y, Leads(s, x), Leads(x, y)
  PROVE  Leads(s, y)
BY KeptTwice DEF Leads

LEMMA IdleLeads ==
  ASSUME TypeOK, NEW s, Base(s), NEW o \in Idle(s)
  PROVE  Leads(s, o.s)
<1>1. s \in Store
  BY DEF Base
<1>2. StateSet(s, None, None, FALSE) \in Store
  BY <1>1, NoQuestion
<1>3. o \in Write(s, StateSet(s, None, None, FALSE))
  BY DEF Idle, ChangeState, StateSet
<1>4. o.s = StateSet(s, None, None, FALSE) \/ (o.s = Faulted(s) /\ s.faults < MaxFaults)
  BY <1>1, <1>2, <1>3, Writes
<1> QED BY <1>4, StateSetBase, FaultKeepsBase DEF Leads

LEMMA DropQueuedLeads ==
  ASSUME TypeOK, NEW s, Base(s), NEW o \in DropQueued(s)
  PROVE  /\ Leads(s, o.s)
         /\ o.s.active = s.active /\ o.s.stop = s.stop /\ o.s.turn = s.turn
         /\ IF o.ok THEN o.s.queued = None ELSE o.s.queued = s.queued
<1>1. s \in Store
  BY DEF Base
<1>2. s.active \in Turn \cup {None} /\ s.stop \in BOOLEAN
  BY <1>1, StoreFields
<1> DEFINE x == StateSet(s, s.active, None, s.stop)
<1>3. x \in Store /\ x.active = s.active /\ x.queued = None /\ x.stop = s.stop /\ x.turn = s.turn
  BY <1>1, <1>2, NoQuestion
<1>4. o \in Write(s, x)
  BY DEF DropQueued, ChangeState, StateSet
<1>5. s.stop => s.active # None /\ stopped[s.active] = "active"
  BY DEF Base, StateSound
<1>6. Leads(s, x)
  BY <1>2, <1>5, StateSetBase DEF Leads
<1> HIDE DEF x
<1>7. CASE o.ok /\ o.s = x
  BY <1>3, <1>6, <1>7
<1>8. CASE ~o.ok /\ o.s = Faulted(s) /\ s.faults < MaxFaults
  BY <1>1, <1>8, FaultedFields, FaultKeepsBase DEF Leads
<1> QED BY <1>1, <1>3, <1>4, <1>7, <1>8, Writes

(* preserveUndispatched, of the waiting question or of a handoff. *)
LEMMA PreserveLeads ==
  ASSUME TypeOK, NEW s, Base(s), s.queued # None, NEW o \in Preserve(s, s.queued)
  PROVE  /\ Leads(s, o.s)
         /\ o.s.active = s.active /\ o.s.queued = s.queued /\ o.s.stop = s.stop
         /\ \A u \in Turn : u # s.queued => o.s.turn[u] = s.turn[u]
         /\ o.ok => Stored(o.s, s.queued) /\ ~Handoff(o.s, s.queued)
<1> DEFINE t == s.queued
           x == TurnSet(s, t, Unsent)
<1>1. s \in Store /\ t \in Turn
  BY StoreFields DEF Base
<1>2. /\ x \in Store /\ x.active = s.active /\ x.queued = s.queued /\ x.stop = s.stop
      /\ x.turn[t] = Unsent /\ Stored(x, t)
      /\ \A u \in Turn \ {t} : x.turn[u] = s.turn[u]
  BY <1>1, FixedPayloads, TurnSetFields
<1>3. CASE Stored(s, t) /\ ~Handoff(s, t)
  <2>1. o.s = s
    BY <1>3 DEF Preserve, Did
  <2> QED BY <1>3, <2>1, KeptItself DEF Leads
<1>4. CASE ~(Stored(s, t) /\ ~Handoff(s, t))
  <2>1. row[t] = None /\ sent[t] = 0
    BY DEF Base, StateSound
  <2>2. \A w \in Worker : settle[w] # None => settle[w].id # t
    BY DEF Base, SettlesSound, Closing
  <2>3. Base(x)
    BY <1>1, <2>1, <2>2, FixedPayloads, TurnSetBase
  <2>4. Stored(s, t) => IsStarted(s.turn[t])
    BY <1>4 DEF Handoff, IsStarted
  <2>5. Kept(s, x)
    BY <1>2, <2>4 DEF Kept, Stored
  <2>6. o \in Write(s, x)
    BY <1>4 DEF Preserve, WriteTurn, TurnSet
  <2>7. ~Handoff(x, t)
    BY <1>2, FixedPayloads DEF Handoff, IsStarted
  <2> HIDE DEF x
  <2>8. CASE o.ok /\ o.s = x
    BY <1>2, <2>3, <2>5, <2>7, <2>8 DEF Leads
  <2>9. CASE ~o.ok /\ o.s = Faulted(s) /\ s.faults < MaxFaults
    BY <1>1, <2>9, FaultedFields, FaultKeepsBase DEF Leads
  <2> QED BY <1>1, <1>2, <2>6, <2>8, <2>9, Writes
<1> QED BY <1>3, <1>4

LEMMA PreserveWaitingLeads ==
  ASSUME TypeOK, NEW s, Base(s), NEW o \in PreserveWaiting(s)
  PROVE  /\ Leads(s, o.s)
         /\ o.s.active = s.active /\ o.s.stop = s.stop
         /\ s.active # None => o.s.turn[s.active] = s.turn[s.active]
<1>1. s.active \in Turn \cup {None}
  BY StoreFields DEF Base
<1>2. CASE s.queued \notin {None, s.active}
  <2>1. PICK p \in Preserve(s, s.queued) : o \in IF p.ok THEN DropQueued(p.s) ELSE {p}
    BY <1>2 DEF PreserveWaiting, Then
  <2>2. /\ Leads(s, p.s) /\ p.s.active = s.active /\ p.s.stop = s.stop
        /\ \A u \in Turn : u # s.queued => p.s.turn[u] = s.turn[u]
    BY <1>2, PreserveLeads
  <2>3. s.active # None => p.s.turn[s.active] = s.turn[s.active]
    BY <1>1, <1>2, <2>2
  <2>4. CASE p.ok
    <3>1. Base(p.s) /\ o \in DropQueued(p.s)
      BY <2>1, <2>2, <2>4 DEF Leads
    <3>2. Leads(p.s, o.s) /\ o.s.active = p.s.active /\ o.s.stop = p.s.stop /\ o.s.turn = p.s.turn
      BY <3>1, DropQueuedLeads
    <3> QED BY <2>2, <2>3, <3>2, LeadsOn
  <2>5. CASE ~p.ok
    BY <2>1, <2>2, <2>3, <2>5
  <2> QED BY <2>4, <2>5
<1>3. CASE s.queued \in {None, s.active}
  BY <1>3, KeptItself DEF PreserveWaiting, Did, Leads
<1> QED BY <1>2, <1>3

LEMMA StoppedHandoffLeads ==
  ASSUME TypeOK, NEW s, Base(s), NEW cur, NEW o \in StoppedHandoff(s, cur)
  PROVE  Leads(s, o.s) /\ (cur # None => o.s = s)
<1>1. CASE cur # None \/ s.queued = None \/ s.active # s.queued
  BY <1>1, KeptItself DEF StoppedHandoff, Did, Leads
<1>2. CASE ~(cur # None \/ s.queued = None \/ s.active # s.queued)
  <2>1. PICK p \in Preserve(s, s.queued) :
          o \in IF p.ok THEN IF IsStarted(p.s.turn[p.s.queued]) THEN Threw(p.s) ELSE Idle(p.s)
                ELSE {p}
    BY <1>2 DEF StoppedHandoff, Then
  <2>2. Leads(s, p.s)
    BY <1>2, PreserveLeads
  <2>3. o.s = p.s \/ o \in Idle(p.s)
    BY <2>1 DEF Threw
  <2>4. o \in Idle(p.s) => Leads(p.s, o.s)
    BY <2>2, IdleLeads DEF Leads
  <2> QED BY <1>2, <2>2, <2>3, <2>4, LeadsOn
<1> QED BY <1>1, <1>2

-----------------------------------------------------------------------------
(* One payload rewritten beside settlements of the same turn.                     *)
Unknowing(c) == c.kind = None /\ c.limit = None /\ c.use = None /\ ~c.ans /\ ~c.scope
Numbered(c, r) == IF r = None /\ Unknowing(c) THEN [c EXCEPT !.limit = 0, !.use = 0] ELSE c

LEMMA ZeroedCol ==
  ASSUME NEW v \in Payload, NEW r
  PROVE  Zeroed(v, r).col = Numbered(v.col, r)
<1>1. v.col \in Columns
  BY PayloadFields
<1>2. CASE r = None /\ Unknowing(v.col)
  <2>1. Zeroed(v, r) = [v EXCEPT !.col = [v.col EXCEPT !.limit = 0, !.use = 0]]
    BY <1>1, <1>2 DEF Zeroed, Unknowing, Payload, Columns
  <2> QED BY <1>2, <2>1 DEF Numbered, Payload
<1>3. CASE ~(r = None /\ Unknowing(v.col))
  BY <1>3 DEF Zeroed, Numbered, Unknowing
<1> QED BY <1>2, <1>3

LEMMA NumberedTwice ==
  ASSUME NEW c \in Columns
  PROVE  /\ Numbered(Numbered(c, None), None) = Numbered(c, None)
         /\ c.use # None => Numbered(c, None) = c
         /\ c.limit # None => Numbered(c, None) = c
<1>1. CASE Unknowing(c)
  <2>1. Numbered(c, None) = [c EXCEPT !.limit = 0, !.use = 0]
    BY <1>1 DEF Numbered
  <2>2. [c EXCEPT !.limit = 0, !.use = 0].limit = 0
    BY DEF Columns
  <2>3. ~Unknowing([c EXCEPT !.limit = 0, !.use = 0])
    BY <2>2, NoneAssumption DEF Unknowing
  <2> QED BY <1>1, <2>1, <2>3 DEF Numbered, Unknowing
<1>2. CASE ~Unknowing(c)
  BY <1>2 DEF Numbered
<1> QED BY <1>1, <1>2

LEMMA SameResultOf ==
  ASSUME NEW v \in Payload, NEW x \in Payload, NEW y \in Payload, NEW r \in Columns \cup {None},
         x.col = y.col, SameResult(v, x, r)
  PROVE  SameResult(v, y, r)
<1>1. Zeroed(x, r).col = Zeroed(y, r).col
  BY ZeroedCol
<1>2. r # None => Recovered(x, r).col = Recovered(y, r).col
  BY RecoveredFields
<1> QED BY <1>1, <1>2 DEF SameResult

LEMMA SameResultItself ==
  ASSUME NEW v \in Payload, NEW r PROVE SameResult(v, v, r)
BY DEF SameResult

LEMMA TurnSetClosing ==
  ASSUME NEW s \in Store, NEW t \in Turn, NEW v \in Payload, NEW e \in Settle,
         Closing(s, e), e.id = t, ~IsStarted(v), SameResult(e.v, v, row[t]),
         e.at = "update" /\ row[t].st = "started" => v.col = s.turn[t].col
  PROVE  Closing(TurnSet(s, t, v), e)
<1> DEFINE x == TurnSet(s, t, v)
<1>1. x.queued = s.queued /\ x.turn[t] = v /\ Stored(x, t)
  BY TurnSetFields
<1> HIDE DEF x
<1>2. Closing(x, e)
  BY <1>1 DEF Closing
<1> QED BY <1>2 DEF x

LEMMA ClosingFacts ==
  ASSUME TypeOK, NEW s, Base(s), NEW w \in Worker, settle[w] # None
  PROVE  /\ settle[w] \in Settle /\ settle[w].id \in Turn /\ settle[w].v \in Payload
         /\ Closing(s, settle[w]) /\ Stored(s, settle[w].id) /\ s.turn[settle[w].id] \in Payload
         /\ s.queued # settle[w].id
         /\ row[settle[w].id] \in Columns \cup {None}
<1>1. settle[w] \in Settle
  BY DEF TypeOK
<1>2. settle[w].id \in Turn /\ settle[w].v \in Payload
  BY <1>1 DEF Settle
<1>3. Closing(s, settle[w])
  BY DEF Base, SettlesSound
<1>4. Stored(s, settle[w].id) /\ s.queued # settle[w].id
  BY <1>3 DEF Closing
<1>5. s.turn[settle[w].id] \in Payload
  BY <1>2, <1>4, StoreFields DEF Base
<1> QED BY <1>1, <1>2, <1>3, <1>4, <1>5 DEF TypeOK

(* An interrupted turn is marked: nobody settles it yet. *)
LEMMA InterruptLeads ==
  ASSUME TypeOK, NEW s, Base(s), NEW t \in Turn, Stored(s, t), IsStarted(s.turn[t]), s.queued # t,
         NEW v \in Payload, v.col = Interrupted(s.turn[t]).col, v.pend
  PROVE  Leads(s, TurnSet(s, t, v))
<1>1. s \in Store /\ s.turn[t] \in Payload
  BY StoreFields DEF Base
<1>2. ~IsStarted(v) /\ v.col.st # "cancelled" /\ v.col.use = s.turn[t].col.use
  BY <1>1, InterruptedFields DEF IsStarted
<1>3. \A w \in Worker : settle[w] # None => settle[w].id # t
  BY DEF Base, SettlesSound, Closing
<1>4. row[t] # None => row[t].st = "started"
  BY DEF Base, PayloadSound, IsStarted
<1>5. v.col.use = 0 => sent[t] = 0
  BY <1>2 DEF Base, PayloadSound
<1>6. Base(TurnSet(s, t, v))
  BY <1>2, <1>3, <1>4, <1>5, TurnSetBase
<1>7. Kept(s, TurnSet(s, t, v))
  BY <1>1, TurnSetFields DEF Kept
<1> QED BY <1>6, <1>7 DEF Leads

(* A payload keeps its columns: an error noted, or marked for settlement. *)
LEMMA NoteLeads ==
  ASSUME TypeOK, NEW s, Base(s), NEW t \in Turn, Stored(s, t), s.queued # t,
         NEW v \in Payload, v.col = s.turn[t].col, ~v.pend => ~s.turn[t].pend
  PROVE  Leads(s, TurnSet(s, t, v))
<1>1. s \in Store /\ s.turn[t] \in Payload
  BY StoreFields DEF Base
<1>2. ASSUME NEW w \in Worker, settle[w] # None, settle[w].id = t
      PROVE  Closing(TurnSet(s, t, v), settle[w])
  <2>1. settle[w] \in Settle /\ settle[w].v \in Payload /\ Closing(s, settle[w])
        /\ row[t] \in Columns \cup {None}
    BY <1>2, ClosingFacts
  <2>2. SameResult(settle[w].v, s.turn[t], row[t]) /\ ~IsStarted(s.turn[t])
    BY <1>2, <2>1 DEF Closing
  <2>3. SameResult(settle[w].v, v, row[t]) /\ ~IsStarted(v)
    BY <1>1, <2>1, <2>2, SameResultOf DEF IsStarted
  <2> QED BY <1>1, <1>2, <2>1, <2>3, TurnSetClosing
<1>3. /\ row[t] # None /\ row[t].st # "started" => v.col = row[t]
      /\ ~IsStarted(v) /\ ~v.pend => row[t] = v.col \/ (row[t] = None /\ sent[t] = 0)
      /\ v.col.use = 0 => sent[t] = 0
      /\ v.col.st = "cancelled" => stopped[t] = "active"
  BY DEF Base, PayloadSound, IsStarted
<1>4. Base(TurnSet(s, t, v))
  BY <1>2, <1>3, TurnSetBase
<1>5. Kept(s, TurnSet(s, t, v))
  BY <1>1, TurnSetFields DEF Kept
<1> QED BY <1>4, <1>5 DEF Leads

-----------------------------------------------------------------------------
(* recoverFinishedTurn.                                                          *)
LEMMA HealEndLeads ==
  ASSUME TypeOK, NEW s, Base(s), NEW a, NEW o \in HealEnd(s, a)
  PROVE  Leads(s, o.s) /\ (current # None => o.s = s)
<1> DEFINE finished == /\ a # None /\ s.active = a /\ current = None /\ s.queued # a
                       /\ Stored(s, a) /\ ~IsStarted(s.turn[a]) /\ ~s.turn[a].pend
           Reopened(y) == UNION {ChangeState(y, p, None, FALSE) : p \in Pending(y)}
           Rest(x, out) == IF current # None \/ x.active # None \/ Pending(x) = {} THEN out \in Did(x)
                           ELSE \E i \in PreserveWaiting(x) :
                                  out \in IF i.ok THEN UNION {ChangeState(i.s, p, None, FALSE) : p \in Pending(x)}
                                          ELSE {i}
<1>1. PICK p \in IF finished THEN Idle(s) ELSE Did(s) :
        IF p.ok THEN Rest(p.s, o) ELSE o = p
  <2>1. PICK p \in IF finished THEN Idle(s) ELSE Did(s) :
          o \in IF p.ok THEN IF current # None \/ p.s.active # None \/ Pending(p.s) = {} THEN Did(p.s)
                             ELSE Then(PreserveWaiting(p.s),
                                       LAMBDA y : UNION {ChangeState(y, i, None, FALSE) : i \in Pending(p.s)})
                ELSE {p}
    BY DEF HealEnd, Then
  <2>2. CASE p.ok /\ ~(current # None \/ p.s.active # None \/ Pending(p.s) = {})
    BY <2>1, <2>2 DEF Then
  <2>3. CASE ~(p.ok /\ ~(current # None \/ p.s.active # None \/ Pending(p.s) = {}))
    BY <2>1, <2>3
  <2> QED BY <2>2, <2>3
<1>2. Leads(s, p.s) /\ (current # None => p.s = s)
  BY <1>1, IdleLeads, KeptItself DEF Did, Leads
<1>3. CASE o = p
  BY <1>2, <1>3
<1>4. CASE p.ok /\ Rest(p.s, o)
  <2>1. Base(p.s)
    BY <1>2 DEF Leads
  <2>2. CASE o \in Did(p.s)
    BY <1>2, <2>2 DEF Did
  <2>3. CASE current = None /\ o \notin Did(p.s)
    <3>1. PICK i \in PreserveWaiting(p.s) :
            o \in IF i.ok THEN UNION {ChangeState(i.s, g, None, FALSE) : g \in Pending(p.s)} ELSE {i}
      BY <1>4, <2>3
    <3>2. Leads(p.s, i.s)
      BY <2>1, PreserveWaitingLeads
    <3>3. Leads(s, i.s) /\ Base(i.s) /\ i.s \in Store
      BY <1>2, <3>2, LeadsOn DEF Leads, Base
    <3>4. CASE o = i
      BY <2>3, <3>3, <3>4
    <3>5. CASE o \in UNION {ChangeState(i.s, g, None, FALSE) : g \in Pending(p.s)}
      <4>1. PICK g \in Turn : o \in Write(i.s, StateSet(i.s, g, None, FALSE))
        BY <3>5 DEF Pending, ChangeState, StateSet
      <4>2. StateSet(i.s, g, None, FALSE) \in Store
        BY <3>3, NoQuestion
      <4>3. o.s = StateSet(i.s, g, None, FALSE) \/ (o.s = Faulted(i.s) /\ i.s.faults < MaxFaults)
        BY <3>3, <4>1, <4>2, Writes
      <4>4. Leads(i.s, o.s)
        BY <3>3, <4>3, StateSetBase, FaultKeepsBase DEF Leads
      <4> QED BY <2>3, <3>3, <4>4, LeadsOn
    <3> QED BY <3>1, <3>4, <3>5
  <2>4. CASE current # None
    BY <1>4, <2>2, <2>4
  <2> QED BY <2>2, <2>3, <2>4
<1> QED BY <1>1, <1>3, <1>4

(* The conversation of a running turn is left alone. *)
Calm(s, x) == current # None =>
  /\ x.active = s.active /\ x.queued = s.queued /\ x.stop = s.stop
  /\ s.active # None => x.turn[s.active] = s.turn[s.active]
  /\ s.queued # None => x.turn[s.queued] = s.turn[s.queued]

(* What w's recovery does in one step, from the store s. *)
Recovers(w, s) == \E x \in Store :
  /\ store' = x /\ Leads(s, x) /\ Calm(s, x)
  /\ \E h \in Heal :
       /\ heal' = [heal EXCEPT ![w] = h]
       /\ \/ h.at \in {"done", "threw"} /\ UNCHANGED settle
          \/ h.at = "settle" /\ \E e \in Settle :
               e.at = "row" /\ Closing(x, e) /\ settle' = [settle EXCEPT ![w] = e]

LEMMA HealNextRecovers ==
  ASSUME TypeOK, OneTask, NEW s, Base(s), TasksSound(s), NEW w \in Worker,
         NEW a \in Turn \cup {None}, NEW todo \in SUBSET Turn, HealNext(w, s, a, todo)
  PROVE  Recovers(w, s)
<1> DEFINE skip == IF current = None THEN {} ELSE {s.active}
           live == (todo \cap Pending(s)) \ skip
<1>1. s \in Store
  BY DEF Base
<1>2. CASE live = {}
  <2>1. PICK o \in HealEnd(s, a) :
          store' = o.s /\ Away(w, IF o.ok THEN "done" ELSE "threw", a, {}) /\ UNCHANGED settle
    BY <1>2 DEF HealNext
  <2>2. Leads(s, o.s) /\ Calm(s, o.s) /\ o.s \in Store
    BY HealEndLeads DEF Calm, Leads, Base
  <2>3. PICK h \in Heal : heal' = [heal EXCEPT ![w] = h] /\ h.at \in {"done", "threw"}
    <3> DEFINE h == [at |-> IF o.ok THEN "done" ELSE "threw", active |-> a, todo |-> {}]
    <3>1. h \in Heal /\ h.at \in {"done", "threw"} /\ heal' = [heal EXCEPT ![w] = h]
      BY <2>1 DEF Heal, Away
    <3> QED BY <3>1
  <2> QED BY <2>1, <2>2, <2>3 DEF Recovers
<1>3. CASE live # {}
  <2> DEFINE Claimed(t) == IF IsStarted(s.turn[t]) THEN WriteTurn(s, t, Interrupted(s.turn[t])) ELSE Did(s)
  <2>1. PICK t \in live, passed \in SUBSET (todo \cap skip) : \E o \in Claimed(t) :
          /\ store' = o.s
          /\ Away(w, IF o.ok THEN "settle" ELSE "threw", a, (todo \cap Pending(s)) \ ({t} \cup passed))
          /\ IF o.ok THEN SettleFrom(w, t, o.s.turn[t]) ELSE UNCHANGED settle
    BY <1>3 DEF HealNext
  <2>2. PICK o \in Claimed(t) :
          /\ store' = o.s
          /\ Away(w, IF o.ok THEN "settle" ELSE "threw", a, (todo \cap Pending(s)) \ ({t} \cup passed))
          /\ IF o.ok THEN SettleFrom(w, t, o.s.turn[t]) ELSE UNCHANGED settle
    BY <2>1
  <2>3. t \in Turn /\ Stored(s, t) /\ s.turn[t] \in Payload /\ s.turn[t].pend
    BY <1>1, StoreFields DEF Pending
  <2>4. t # s.queued
    <3>1. t # None
      BY <2>3, NoneAssumption
    <3> QED BY <2>3, <3>1, FixedPayloads DEF Base, StateSound, Stored
  <2>5. current # None => t # s.active
    BY <2>1
  <2>6. task[t] = None
    BY <2>3, <2>5, NoneAssumption DEF OneTask, TasksSound, TaskSound
  <2> DEFINE v == IF IsStarted(s.turn[t]) THEN Interrupted(s.turn[t]) ELSE s.turn[t]
             x == IF IsStarted(s.turn[t]) THEN TurnSet(s, t, v) ELSE s
  <2>7. v \in Payload /\ v.pend /\ ~IsStarted(v) /\ (~IsStarted(s.turn[t]) => v = s.turn[t])
    BY <2>3, InterruptedFields
  <2>8. Leads(s, x) /\ x \in Store /\ x.turn[t] = v /\ x.queued = s.queued /\ Calm(s, x)
    <3>1. CASE IsStarted(s.turn[t])
      <4>1. Leads(s, x)
        BY <2>3, <2>4, <2>7, <3>1, InterruptLeads
      <4>2. /\ x \in Store
            /\ x.active = s.active /\ x.queued = s.queued /\ x.stop = s.stop
            /\ x.turn[t] = v
            /\ \A u \in Turn \ {t} : x.turn[u] = s.turn[u]
        BY <1>1, <2>3, <2>7, <3>1, TurnSetFields
      <4>3. s.active \in Turn \cup {None} /\ s.queued \in Turn \cup {None}
        BY <1>1, StoreFields
      <4> HIDE DEF x
      <4> QED BY <2>4, <2>5, <4>1, <4>2, <4>3 DEF Calm
    <3>2. CASE ~IsStarted(s.turn[t])
      BY <1>1, <3>2, KeptItself DEF Calm, Leads
    <3> QED BY <3>1, <3>2
  <2>9. \/ o.ok /\ o.s = x
        \/ ~o.ok /\ o.s = Faulted(s) /\ s.faults < MaxFaults
    <3>1. CASE IsStarted(s.turn[t])
      <4>1. o \in Write(s, x)
        BY <2>2, <3>1 DEF WriteTurn, TurnSet
      <4> QED BY <1>1, <2>8, <4>1, Writes
    <3>2. CASE ~IsStarted(s.turn[t])
      BY <2>2, <3>2 DEF Did
    <3> QED BY <3>1, <3>2
  <2> HIDE DEF x, v
  <2>10. PICK h \in Heal : heal' = [heal EXCEPT ![w] = h] /\ h.at = (IF o.ok THEN "settle" ELSE "threw")
    <3> DEFINE h == [at |-> IF o.ok THEN "settle" ELSE "threw", active |-> a,
                     todo |-> (todo \cap Pending(s)) \ ({t} \cup passed)]
    <3>1. h \in Heal /\ heal' = [heal EXCEPT ![w] = h]
      BY <2>2 DEF Heal, Away, Pending
    <3>2. h.at = IF o.ok THEN "settle" ELSE "threw"
      OBVIOUS
    <3> QED BY <3>1, <3>2
  <2>11. CASE o.ok /\ o.s = x
    <3> DEFINE e == [at |-> "row", id |-> t, v |-> v]
    <3>1. e \in Settle /\ e.at = "row" /\ settle' = [settle EXCEPT ![w] = e]
      BY <2>2, <2>3, <2>7, <2>8, <2>11 DEF Settle, SettleFrom
    <3>2. Closing(x, e)
      <4>1. Stored(x, t)
        BY <2>7, <2>8, NoneAssumption DEF Stored
      <4>2. v.col.use = 0 => sent[t] = 0
        BY <2>3, <2>8, <4>1 DEF Leads, Base, PayloadSound
      <4> QED BY <2>4, <2>6, <2>7, <2>8, <4>2, <4>1, SameResultItself DEF Closing
    <3> HIDE DEF e
    <3>3. h.at = "settle"
      BY <2>10, <2>11
    <3> QED BY <2>2, <2>8, <2>10, <2>11, <3>1, <3>2, <3>3 DEF Recovers
  <2>12. CASE ~o.ok /\ o.s = Faulted(s) /\ s.faults < MaxFaults
    <3>1. Leads(s, o.s) /\ o.s \in Store /\ Calm(s, o.s)
      BY <1>1, <2>12, FaultKeepsBase, FaultedFields DEF Leads, Calm
    <3>2. h.at \in {"done", "threw"} /\ UNCHANGED settle /\ store' = o.s
      BY <2>2, <2>10, <2>12
    <3> QED BY <2>10, <3>1, <3>2 DEF Recovers
  <2> QED BY <2>9, <2>11, <2>12
<1> QED BY <1>2, <1>3

LEMMA NoTasks ==
  ASSUME OneTask, current = None, NEW s PROVE TasksSound(s)
<1>1. \A t \in Turn : task[t] = None
  BY NoneAssumption DEF OneTask
<1> QED BY <1>1 DEF TasksSound

LEMMA RecoversFrom ==
  ASSUME NEW s, NEW x, NEW w, Leads(s, x), Calm(s, x), Recovers(w, x), current # None => x = s
  PROVE  Recovers(w, s)
BY LeadsOn DEF Recovers, Calm

LEMMA HealStartRecovers ==
  ASSUME TypeOK, OneTask, NEW s, Base(s), TasksSound(s), NEW w \in Worker, HealStart(w, s)
  PROVE  Recovers(w, s)
<1> DEFINE a == s.active
           finished == /\ current = None /\ a # None /\ s.queued # a /\ Stored(s, a)
                       /\ (~IsStarted(s.turn[a]) \/ s.turn[a].pend)
<1>1. a \in Turn \cup {None}
  BY StoreFields DEF Base
<1>2. PICK o \in IF finished THEN PreserveWaiting(s) ELSE Did(s) :
        IF o.ok THEN HealNext(w, o.s, a, Pending(o.s) \ IF current = None THEN {} ELSE {a})
        ELSE store' = o.s /\ Away(w, "threw", a, {}) /\ UNCHANGED settle
  BY DEF HealStart
<1>3. Leads(s, o.s) /\ (current # None => o.s = s)
  BY <1>2, PreserveWaitingLeads, KeptItself DEF Did, Leads
<1>4. Base(o.s) /\ o.s \in Store /\ TasksSound(o.s) /\ Calm(s, o.s)
  BY <1>3, NoTasks DEF Leads, Base, Calm
<1>5. CASE o.ok
  <2>1. Pending(o.s) \ (IF current = None THEN {} ELSE {a}) \in SUBSET Turn
    BY DEF Pending
  <2>2. Recovers(w, o.s)
    BY <1>1, <1>2, <1>4, <1>5, <2>1, HealNextRecovers
  <2> QED BY <1>3, <1>4, <2>2, RecoversFrom
<1>6. CASE ~o.ok
  <2>1. [at |-> "threw", active |-> a, todo |-> {}] \in Heal
    BY <1>1 DEF Heal
  <2>2. PICK h \in Heal : h.at = "threw" /\ heal' = [heal EXCEPT ![w] = h]
    BY <1>2, <1>6, <2>1 DEF Away
  <2> QED BY <1>2, <1>3, <1>4, <1>6, <2>2 DEF Recovers
<1> QED BY <1>5, <1>6

(* onStart, before its recovery. *)
LEMMA BootLeads ==
  ASSUME TypeOK, NEW s, Base(s), NEW o \in Then(Then(KeepQueued(s), MarkActive), ClearState)
  PROVE  Leads(s, o.s)
<1>1. PICK p \in KeepQueued(s) : \E i \in IF p.ok THEN MarkActive(p.s) ELSE {p} :
        o \in IF i.ok THEN ClearState(i.s) ELSE {i}
  BY DEF Then
<1>2. PICK i \in IF p.ok THEN MarkActive(p.s) ELSE {p} : o \in IF i.ok THEN ClearState(i.s) ELSE {i}
  BY <1>1
<1>3. Leads(s, p.s)
  BY KeptItself, PreserveLeads DEF KeepQueued, Did, Leads
<1>4. Base(p.s) /\ p.s \in Store
  BY <1>3 DEF Leads, Base
<1>5. ASSUME i \in MarkActive(p.s), p.ok PROVE Leads(p.s, i.s)
  <2> DEFINE t == p.s.active
             v == p.s.turn[t]
  <2>1. CASE t = None \/ v = None
    <3>1. MarkActive(p.s) = Did(p.s)
      BY <2>1 DEF MarkActive
    <3>2. i.s = p.s
      BY <1>5, <3>1 DEF Did
    <3> QED BY <1>4, <3>2, KeptItself DEF Leads
  <2>2. CASE t # None /\ v # None
    <3>1. t \in Turn /\ v \in Payload /\ Stored(p.s, t)
      BY <1>4, <2>2, StoreFields DEF Stored
    <3>2. CASE IsStarted(v)
      <4> DEFINE u == [Interrupted(v) EXCEPT !.pend = TRUE]
      <4>1. u \in Payload /\ u.col = Interrupted(v).col /\ u.pend
        BY <3>1, InterruptedFields DEF Payload
      <4>2. p.s.queued # t
        <5> SUFFICES ASSUME p.s.queued = t PROVE FALSE
          OBVIOUS
        <5>1. s.queued # None /\ p.s.queued = s.queued /\ p.s.active = s.active /\ ~Handoff(p.s, s.queued)
          <6>1. CASE s.queued = None
            BY <2>2, <6>1 DEF KeepQueued, Did
          <6>2. CASE s.queued # None
            BY <1>5, <6>2, PreserveLeads DEF KeepQueued
          <6> QED BY <6>1, <6>2
        <5>2. v = Started
          BY <1>4, <2>2, <3>2, FixedPayloads DEF Base, StateSound
        <5>3. Handoff(p.s, t)
          BY <5>2 DEF Handoff, Started, Blank
        <5> QED BY <5>1, <5>3
      <4>3. Leads(p.s, TurnSet(p.s, t, u))
        BY <1>4, <3>1, <3>2, <4>1, <4>2, InterruptLeads
      <4>4. TurnSet(p.s, t, u) \in Store
        BY <4>3 DEF Leads, Base
      <4>5. i \in Write(p.s, TurnSet(p.s, t, u))
        BY <1>5, <2>2, <3>2 DEF MarkActive, WriteTurn, TurnSet
      <4> HIDE DEF u, t
      <4>6. i.s = TurnSet(p.s, t, u) \/ (i.s = Faulted(p.s) /\ p.s.faults < MaxFaults)
        BY <1>4, <4>4, <4>5, Writes
      <4> QED BY <1>4, <4>3, <4>6, FaultKeepsBase DEF Leads
    <3>3. CASE ~IsStarted(v) /\ v.input
      <4>1. MarkActive(p.s) = Did(p.s)
        BY <2>2, <3>3 DEF MarkActive
      <4>2. i.s = p.s
        BY <1>5, <4>1 DEF Did
      <4> QED BY <1>4, <4>2, KeptItself DEF Leads
    <3>4. CASE ~IsStarted(v) /\ ~v.input
      <4> DEFINE u == [v EXCEPT !.pend = TRUE]
      <4>1. u \in Payload /\ u.col = v.col /\ u.pend
        BY <3>1 DEF Payload
      <4>2. p.s.queued # t
        BY <1>4, <2>2, <3>4, FixedPayloads DEF Base, StateSound
      <4>3. Leads(p.s, TurnSet(p.s, t, u))
        BY <1>4, <3>1, <4>1, <4>2, NoteLeads
      <4>4. TurnSet(p.s, t, u) \in Store
        BY <4>3 DEF Leads, Base
      <4>5. i \in Write(p.s, TurnSet(p.s, t, u))
        BY <1>5, <2>2, <3>4 DEF MarkActive, WriteTurn, TurnSet
      <4> HIDE DEF u, t
      <4>6. i.s = TurnSet(p.s, t, u) \/ (i.s = Faulted(p.s) /\ p.s.faults < MaxFaults)
        BY <1>4, <4>4, <4>5, Writes
      <4> QED BY <1>4, <4>3, <4>6, FaultKeepsBase DEF Leads
    <3> QED BY <3>2, <3>3, <3>4
  <2> QED BY <2>1, <2>2
<1>6. Leads(s, i.s)
  <2>1. CASE p.ok
    BY <1>2, <1>3, <1>5, <2>1, LeadsOn
  <2>2. CASE ~p.ok
    BY <1>2, <1>3, <2>2
  <2> QED BY <2>1, <2>2
<1>7. Base(i.s) /\ i.s \in Store
  BY <1>6 DEF Leads, Base
<1>8. ASSUME o \in ClearState(i.s) PROVE Leads(i.s, o.s)
  <2>1. CASE i.s.active = None /\ i.s.queued = None
    <3>1. ClearState(i.s) = Did(i.s)
      BY <2>1 DEF ClearState
    <3>2. o.s = i.s
      BY <1>8, <3>1 DEF Did
    <3> QED BY <1>7, <3>2, KeptItself DEF Leads
  <2>2. CASE ~(i.s.active = None /\ i.s.queued = None)
    <3>1. PICK a \in Turn \cup {None} : o \in Write(i.s, StateSet(i.s, a, None, FALSE))
      <4> DEFINE a == IF i.s.active \in Pending(i.s) THEN i.s.active ELSE None
      <4>1. a \in Turn \cup {None}
        BY DEF Pending
      <4>2. o \in Write(i.s, StateSet(i.s, a, None, FALSE))
        BY <1>8, <2>2 DEF ClearState, ChangeState, StateSet
      <4> QED BY <4>1, <4>2
    <3>2. StateSet(i.s, a, None, FALSE) \in Store
      BY <1>7, NoQuestion
    <3>3. o.s = StateSet(i.s, a, None, FALSE) \/ (o.s = Faulted(i.s) /\ i.s.faults < MaxFaults)
      BY <1>7, <3>1, <3>2, Writes
    <3> QED BY <1>7, <3>3, StateSetBase, FaultKeepsBase DEF Leads
  <2> QED BY <2>1, <2>2
<1> QED BY <1>2, <1>6, <1>8, LeadsOn

-----------------------------------------------------------------------------
(* settleTurn.                                                                   *)
(* The settlement of w ends, from the store s. *)
Settles(w, s) == \E x \in Store :
  store' = x /\ Leads(s, x) /\ OnlyTurn(s, x, settle[w].id) /\ \E ok : SettleReturns(w, ok)

LEMMA FailsSettles ==
  ASSUME TypeOK, NEW s, Base(s), NEW w \in Worker, settle[w] # None,
         NEW failure \in {"pending", "mismatch"}, Fails(w, s, failure)
  PROVE  Settles(w, s)
<1> DEFINE t == settle[w].id
           v == [s.turn[t] EXCEPT !.err = failure]
           x == TurnSet(s, t, v)
<1>1. /\ s \in Store /\ t \in Turn /\ Stored(s, t) /\ s.turn[t] \in Payload /\ s.queued # t
  BY ClosingFacts DEF Base
<1>2. v \in Payload /\ v.col = s.turn[t].col /\ v.pend = s.turn[t].pend
  BY <1>1 DEF Payload
<1>3. PICK o \in Note(s, t, failure) : store' = o.s /\ SettleReturns(w, o.ok)
  BY DEF Fails
<1>4. CASE ~s.turn[t].pend
  <2>1. Note(s, t, failure) = Did(s)
    BY <1>4 DEF Note
  <2>2. o.s = s
    BY <1>3, <2>1 DEF Did
  <2> QED BY <1>1, <1>3, <2>2, KeptItself DEF Settles, Leads, OnlyTurn
<1>5. CASE s.turn[t].pend
  <2>1. Leads(s, x)
    BY <1>1, <1>2, NoteLeads
  <2>2. x \in Store /\ OnlyTurn(s, x, t)
    BY <1>1, <1>2, TurnSetKept
  <2>3. o \in Write(s, x)
    BY <1>3, <1>5 DEF Note, WriteTurn, TurnSet
  <2> HIDE DEF x
  <2>4. o.s = x \/ (o.s = Faulted(s) /\ s.faults < MaxFaults)
    BY <1>1, <2>2, <2>3, Writes
  <2>5. o.s \in Store /\ Leads(s, o.s) /\ OnlyTurn(s, o.s, t)
    BY <1>1, <2>1, <2>2, <2>4, FaultKeepsBase, FaultedFields DEF Leads, OnlyTurn
  <2> QED BY <1>3, <2>5 DEF Settles
<1> QED BY <1>4, <1>5

(* The settled payload: every other settlement of the turn would write the same.     *)
LEMMA SettledLeads ==
  ASSUME TypeOK, RowsAre, NEW s, Base(s), NEW w \in Worker, settle[w] # None,
         NEW t, t = settle[w].id, NEW u, u = Zeroed(settle[w].v, row[t]), Agree(u, row[t]),
         NEW v \in Payload, v.col = u.col
  PROVE  Leads(s, TurnSet(s, t, v))
<1> DEFINE e == settle[w]
           r == row[t]
           p == s.turn[t]
<1>1. /\ e \in Settle /\ t \in Turn /\ e.v \in Payload /\ Closing(s, e) /\ Stored(s, t)
      /\ p \in Payload /\ s.queued # t /\ r \in Columns \cup {None} /\ s \in Store
  BY ClosingFacts DEF Base
<1>2. u \in Payload /\ u.col.st = e.v.col.st /\ u.col.ans = e.v.col.ans /\ u.col.end = e.v.col.end
  BY <1>1, ZeroedFields
<1>3. SameResult(e.v, p, r) /\ ~IsStarted(e.v) /\ ~IsStarted(p)
  BY <1>1 DEF Closing
<1>4. v.col.st = p.col.st /\ v.col.ans = p.col.ans /\ v.col.end = p.col.end /\ ~IsStarted(v)
  BY <1>2, <1>3 DEF SameResult, IsStarted
<1>5. CASE r = None
  <2>1. u.col.kind = None /\ u.col.limit = 0 /\ u.col.use = 0
    BY <1>5 DEF Agree, NeverAdmitted
  <2>2. sent[t] = 0
    BY <1>1, <1>5 DEF RowsAre
  <2>3. u.col = Numbered(p.col, None)
    BY <1>1, <1>3, <1>5, ZeroedCol DEF SameResult
  <2>4. p.col.use # None => u.col.use = p.col.use
    BY <1>1, <2>3, NumberedTwice, PayloadFields
  <2>5. Numbered(v.col, None) = u.col
    BY <1>1, <2>3, NumberedTwice, PayloadFields
  <2>6. ASSUME NEW d \in Worker, settle[d] # None, settle[d].id = t
        PROVE  Closing(TurnSet(s, t, v), settle[d])
    <3>1. settle[d] \in Settle /\ settle[d].v \in Payload /\ Closing(s, settle[d])
      BY <2>6, ClosingFacts
    <3>2. SameResult(settle[d].v, p, r) /\ settle[d].at # "update"
      BY <1>5, <2>6, <3>1 DEF Closing
    <3>3. Zeroed(settle[d].v, r).col = Zeroed(v, r).col
      <4>1. Zeroed(settle[d].v, r).col = Numbered(p.col, None)
        BY <1>1, <1>5, <3>2, ZeroedCol DEF SameResult
      <4>2. Zeroed(v, r).col = Numbered(v.col, None)
        BY <1>5, ZeroedCol
      <4> QED BY <2>3, <2>5, <4>1, <4>2
    <3>4. SameResult(settle[d].v, v, r)
      BY <1>4, <1>5, <3>2, <3>3 DEF SameResult
    <3> QED BY <1>1, <1>4, <2>6, <3>1, <3>2, <3>4, TurnSetClosing
  <2>7. v.col.st = "cancelled" => stopped[t] = "active"
    BY <1>1, <1>4 DEF Base, PayloadSound
  <2>8. Base(TurnSet(s, t, v))
    BY <1>1, <1>5, <2>2, <2>6, <2>7, TurnSetBase
  <2>9. Kept(s, TurnSet(s, t, v))
    BY <1>1, <1>4, <2>4, TurnSetKept
  <2> QED BY <2>8, <2>9 DEF Leads
<1>6. CASE r # None
  <2>1. u = e.v
    BY <1>1, <1>6, ZeroedFields
  <2>2. u.col = r /\ r.st # "started"
    BY <1>3, <1>6, <2>1 DEF Agree, IsStarted
  <2>3. p.col = r
    BY <1>1, <1>6, <2>2 DEF Base, PayloadSound
  <2>4. v.col = p.col
    BY <2>2, <2>3
  <2>5. ASSUME NEW d \in Worker, settle[d] # None, settle[d].id = t
        PROVE  Closing(TurnSet(s, t, v), settle[d])
    <3>1. settle[d] \in Settle /\ settle[d].v \in Payload /\ Closing(s, settle[d])
      BY <2>5, ClosingFacts
    <3>2. SameResult(settle[d].v, p, r)
      BY <2>5, <3>1 DEF Closing
    <3>3. SameResult(settle[d].v, v, r)
      BY <1>1, <2>4, <3>1, <3>2, SameResultOf
    <3> QED BY <1>1, <1>4, <2>4, <2>5, <3>1, <3>3, TurnSetClosing
  <2>6. (v.col.use = 0 => sent[t] = 0) /\ (v.col.st = "cancelled" => stopped[t] = "active")
    BY <1>1, <2>4 DEF Base, PayloadSound
  <2>7. Base(TurnSet(s, t, v))
    BY <1>1, <1>4, <1>6, <2>2, <2>3, <2>4, <2>5, <2>6, TurnSetBase
  <2>8. Kept(s, TurnSet(s, t, v))
    BY <1>1, <2>4, TurnSetKept
  <2> QED BY <2>7, <2>8 DEF Leads
<1> QED BY <1>5, <1>6

LEMMA ConcludeSettles ==
  ASSUME TypeOK, RowsAre, Base(store), NEW w \in Worker, settle[w] # None,
         Conclude(w, settle[w].v, row[settle[w].id])
  PROVE  Settles(w, store)
<1> DEFINE t == settle[w].id
           r == row[t]
           u == Zeroed(settle[w].v, r)
           v == [u EXCEPT !.pend = FALSE, !.err = None]
           x == TurnSet(store, t, v)
<1>1. store \in Store /\ t \in Turn /\ settle[w].v \in Payload
  BY ClosingFacts DEF Base
<1>2. u \in Payload
  BY <1>1, ZeroedFields
<1>3. v \in Payload /\ v.col = u.col
  BY <1>2 DEF Payload
<1>4. CASE Agree(u, r)
  <2>1. PICK o \in WriteTurn(store, t, v) :
          IF o.ok THEN store' = o.s /\ SettleReturns(w, TRUE) ELSE Fails(w, o.s, "pending")
    BY <1>4 DEF Conclude
  <2>2. Leads(store, x)
    BY <1>3, <1>4, SettledLeads
  <2>3. x \in Store /\ OnlyTurn(store, x, t)
    BY <1>1, <1>3, TurnSetFields DEF OnlyTurn
  <2>4. o \in Write(store, x)
    BY <2>1 DEF WriteTurn, TurnSet
  <2> HIDE DEF x
  <2>5. \/ o.ok /\ o.s = x
        \/ ~o.ok /\ o.s = Faulted(store) /\ store.faults < MaxFaults
    BY <1>1, <2>3, <2>4, Writes
  <2>6. CASE o.ok /\ o.s = x
    BY <2>1, <2>2, <2>3, <2>6 DEF Settles
  <2>7. CASE ~o.ok /\ o.s = Faulted(store) /\ store.faults < MaxFaults
    <3>1. Leads(store, o.s) /\ Base(o.s) /\ OnlyTurn(store, o.s, t)
      BY <1>1, <2>7, FaultKeepsBase, FaultedFields DEF Leads, OnlyTurn
    <3>2. Settles(w, o.s)
      BY <2>1, <2>7, <3>1, FailsSettles
    <3> QED BY <3>1, <3>2, LeadsOn DEF Settles, OnlyTurn
  <2> QED BY <2>5, <2>6, <2>7
<1>5. CASE ~Agree(u, r)
  <2>1. \E failure \in {"pending", "mismatch"} : Fails(w, store, failure)
    BY <1>5 DEF Conclude
  <2> QED BY <2>1, FailsSettles
<1> QED BY <1>4, <1>5

(* Before its update, a settlement writes what the row knows.                      *)
LEMMA RecoveredLeads ==
  ASSUME TypeOK, RowsAre, NEW s, Base(s), NEW w \in Worker, settle[w] # None,
         NEW t, t = settle[w].id, row[t] # None, row[t].st = "started",
         NEW v, v = Recovered(settle[w].v, row[t]), v.col.kind = row[t].kind,
         NEW e \in Settle, e.id = t, e.v = v, e.at = "update"
  PROVE  Leads(s, TurnSet(s, t, v)) /\ Closing(TurnSet(s, t, v), e)
<1> DEFINE c == settle[w]
           r == row[t]
           p == s.turn[t]
           x == TurnSet(s, t, v)
<1>1. /\ c \in Settle /\ t \in Turn /\ c.v \in Payload /\ Closing(s, c) /\ Stored(s, t)
      /\ p \in Payload /\ s.queued # t /\ r \in Columns /\ s \in Store
  BY ClosingFacts DEF Base
<1>2. r.use = None
  BY <1>1 DEF RowsAre
<1>3. v \in Payload /\ v.col = Joined(c.v.col, r) /\ v.pend = c.v.pend
  BY <1>1, RecoveredFields
<1>4. c.v.col \in Columns
  BY <1>1, PayloadFields
<1>5. /\ v.col.st = c.v.col.st /\ v.col.ans = c.v.col.ans /\ v.col.end = c.v.col.end
      /\ v.col.use = c.v.col.use /\ Joined(v.col, r) = v.col
  BY <1>1, <1>2, <1>3, <1>4, JoinedFields
<1>6. /\ SameResult(c.v, p, r) /\ ~IsStarted(c.v) /\ ~IsStarted(p) /\ c.v.pend
      /\ c.v.col.use = 0 => sent[t] = 0
  BY <1>1 DEF Closing
<1>7. /\ v.col.st = p.col.st /\ v.col.ans = p.col.ans /\ v.col.end = p.col.end
      /\ v.col.use = p.col.use /\ ~IsStarted(v) /\ v.pend /\ (v.col.use = 0 => sent[t] = 0)
  BY <1>3, <1>5, <1>6 DEF SameResult, IsStarted
<1>8. Recovered(v, r).col = v.col /\ Recovered(p, r).col = v.col
  BY <1>1, <1>3, <1>5, <1>6, RecoveredFields DEF SameResult
<1>9. ASSUME NEW d \in Worker, settle[d] # None, settle[d].id = t
      PROVE  Closing(x, settle[d])
  <2>1. settle[d] \in Settle /\ settle[d].v \in Payload /\ Closing(s, settle[d])
    BY <1>9, ClosingFacts
  <2>2. SameResult(settle[d].v, p, r)
    BY <1>9, <2>1 DEF Closing
  <2>3. SameResult(settle[d].v, v, r)
    BY <1>7, <1>8, <2>2 DEF SameResult
  <2>4. settle[d].at = "update" => v.col = p.col
    BY <1>8, <1>9, <2>1, <2>2 DEF Closing, SameResult
  <2> QED BY <1>1, <1>3, <1>7, <1>9, <2>1, <2>3, <2>4, TurnSetClosing
<1>10. v.col.st = "cancelled" => stopped[t] = "active"
  BY <1>1, <1>7 DEF Base, PayloadSound
<1>11. Base(x)
  BY <1>1, <1>3, <1>7, <1>9, <1>10, TurnSetBase
<1>12. Kept(s, x)
  BY <1>1, <1>3, <1>7, TurnSetKept
<1>13. x.turn[t] = v /\ Stored(x, t) /\ x.queued = s.queued
  BY <1>1, <1>3, TurnSetFields
<1>14. task[t] # None => task[t].at \in {"settle", "advance"}
  BY <1>1 DEF Closing
<1> HIDE DEF x
<1>15. Closing(x, e)
  <2>1. SameResult(e.v, x.turn[t], r)
    BY <1>3, <1>13, SameResultItself
  <2>2. ~IsStarted(e.v) /\ ~IsStarted(x.turn[t]) /\ e.v.pend /\ (e.v.col.use = 0 => sent[t] = 0)
    BY <1>7, <1>13
  <2>3. e.v.col = x.turn[t].col /\ e.v.col = Recovered(e.v, r).col /\ e.v.col.kind = r.kind
    BY <1>8, <1>13
  <2>4. Stored(x, e.id) /\ x.queued # e.id
    BY <1>1, <1>13
  <2> QED BY <1>14, <2>1, <2>2, <2>3, <2>4 DEF Closing
<1> QED BY <1>11, <1>12, <1>15 DEF Leads, x

-----------------------------------------------------------------------------
(* Steps.  What every step shows beside the invariant: no result is rewritten, the    *)
(* rows forget nothing, and no stopped turn is dispatched.                        *)
RowsGrow == \A t \in Turn : row[t] # None =>
  /\ row[t].limit # None => row'[t].limit # None
  /\ row[t].scope => row'[t].scope
Obeys == \A t \in Turn : stopped[t] # None /\ sent[t] = 0 => sent'[t] = 0
Advances == Kept(store, store') /\ RowsGrow /\ Obeys

LEMMA RowsUntouched == UNCHANGED <<row, sent>> => RowsGrow /\ Obeys
BY DEF RowsGrow, Obeys

Ending == {"settle", "advance"}
InHands(k) == k # None /\ k.at \notin Ending

LEMMA BaseFrame ==
  ASSUME TypeOK, NEW s, Base(s), store' = s, UNCHANGED <<row, sent, stopped>>,
         \A t \in Turn : InHands(task'[t]) => InHands(task[t]),
         TypeOK',
         \A w \in Worker : settle'[w] # None =>
            (settle[w] # None /\ settle'[w] = settle[w]) \/ Closing(s, settle'[w])
  PROVE  Base(store)'
<1>1. row' = row /\ sent' = sent /\ stopped' = stopped
  OBVIOUS
<1>2. (store \in Store)' /\ StateSound(store)' /\ PayloadSound(store)'
  BY <1>1 DEF Base, StateSound, PayloadSound, Stored
<1>3. ASSUME NEW w \in Worker, settle'[w] # None
      PROVE  Closing(store, settle[w])'
  <2>1. Closing(s, settle'[w])
    BY <1>3 DEF Base, SettlesSound
  <2>2. settle'[w] \in Settle
    BY <1>3 DEF TypeOK
  <2>3. settle'[w].id \in Turn
    BY <2>2 DEF Settle
  <2>4. task'[settle'[w].id] # None => task'[settle'[w].id].at \in Ending
    BY <2>1, <2>3 DEF Closing, InHands, Ending
  <2> QED BY <1>1, <2>1, <2>4 DEF Closing, Stored, Ending
<1>4. SettlesSound(store)'
  BY <1>3 DEF SettlesSound
<1> QED BY <1>2, <1>4 DEF Base

(* The store does not change under a running turn's feet. *)
Undisturbed(s, x, t) ==
  /\ x.active = s.active /\ x.queued = s.queued /\ x.stop = s.stop /\ x.turn[t] = s.turn[t]
  /\ s.queued # None => x.turn[s.queued] = s.turn[s.queued]

LEMMA TaskFrame ==
  ASSUME NEW s, NEW t \in Turn, TaskSound(s, t, task[t]), Undisturbed(s, store', t),
         task'[t] = task[t], UNCHANGED <<row, sent, stopped>>
  PROVE  TaskSound(store, t, task[t])'
<1>1. row' = row /\ sent' = sent /\ stopped' = stopped
  OBVIOUS
<1> QED BY <1>1 DEF TaskSound, Undisturbed, Stored, Open

LEMMA TaskEnds ==
  ASSUME NEW t \in Turn, task'[t].at \in Ending, store'.active = t,
         store'.queued \notin {None, t} => ~Stored(store', store'.queued)
  PROVE  TaskSound(store, t, task[t])'
BY DEF TaskSound, Ending, Before, Busy, Admitted, Stored

(* A step of a recovery. *)
LEMMA RecoversStep ==
  ASSUME TypeOK, Base(store), NEW w \in Worker, Recovers(w, store), settle[w] = None
  PROVE  /\ store' \in Store
         /\ heal' \in [Worker -> Heal \cup {None}] /\ settle' \in [Worker -> Settle \cup {None}]
         /\ heal'[w] # None /\ \A u \in Worker \ {w} : heal'[u] = heal[u] /\ settle'[u] = settle[u]
         /\ settle'[w] # None => heal'[w].at = "settle"
         /\ \A u \in Worker : settle'[u] # None =>
              (settle[u] # None /\ settle'[u] = settle[u]) \/ Closing(store', settle'[u])
         /\ Base(store') /\ Kept(store, store') /\ Calm(store, store')
<1>1. PICK x \in Store :
        /\ store' = x /\ Leads(store, x) /\ Calm(store, x)
        /\ \E h \in Heal :
             /\ heal' = [heal EXCEPT ![w] = h]
             /\ \/ h.at \in {"done", "threw"} /\ UNCHANGED settle
                \/ h.at = "settle" /\ \E e \in Settle :
                     e.at = "row" /\ Closing(x, e) /\ settle' = [settle EXCEPT ![w] = e]
  BY DEF Recovers
<1>2. PICK h \in Heal :
        /\ heal' = [heal EXCEPT ![w] = h]
        /\ \/ h.at \in {"done", "threw"} /\ UNCHANGED settle
           \/ h.at = "settle" /\ \E e \in Settle :
                e.at = "row" /\ Closing(x, e) /\ settle' = [settle EXCEPT ![w] = e]
  BY <1>1
<1>3. heal \in [Worker -> Heal \cup {None}] /\ settle \in [Worker -> Settle \cup {None}]
  BY DEF TypeOK
<1>4. h # None
  BY NoneAssumption
<1>5. /\ heal' \in [Worker -> Heal \cup {None}] /\ heal'[w] = h
      /\ \A u \in Worker \ {w} : heal'[u] = heal[u]
  BY <1>2, <1>3
<1>6. CASE UNCHANGED settle
  BY <1>1, <1>3, <1>4, <1>5, <1>6 DEF Leads
<1>7. CASE h.at = "settle" /\ \E e \in Settle :
             e.at = "row" /\ Closing(x, e) /\ settle' = [settle EXCEPT ![w] = e]
  <2>1. PICK e \in Settle : Closing(x, e) /\ settle' = [settle EXCEPT ![w] = e]
    BY <1>7
  <2>2. /\ settle' \in [Worker -> Settle \cup {None}] /\ settle'[w] = e
        /\ \A u \in Worker \ {w} : settle'[u] = settle[u]
    BY <1>3, <2>1
  <2>3. \A u \in Worker : settle'[u] # None =>
              (settle[u] # None /\ settle'[u] = settle[u]) \/ Closing(store', settle'[u])
    BY <1>1, <2>1, <2>2
  <2> QED BY <1>1, <1>4, <1>5, <1>7, <2>2, <2>3 DEF Leads
<1> QED BY <1>2, <1>6, <1>7

LEMMA CalmTasks ==
  ASSUME OneTask, TasksSound(store), Calm(store, store'), UNCHANGED <<row, sent, stopped>>,
         \A t \in Turn : task'[t] # None =>
           task[t] # None /\ (task'[t] = task[t] \/ task'[t].at \in Ending)
  PROVE  TasksSound(store)'
<1> SUFFICES ASSUME NEW t \in Turn, task'[t] # None PROVE TaskSound(store, t, task[t])'
  BY DEF TasksSound
<1>1. task[t] # None /\ TaskSound(store, t, task[t])
  BY DEF TasksSound
<1>2. store.active = t /\ current # None /\ t # None
  BY <1>1, NoneAssumption DEF OneTask, TaskSound
<1>3. Undisturbed(store, store', t)
  BY <1>2 DEF Calm, Undisturbed
<1>4. CASE task'[t] = task[t]
  BY <1>1, <1>3, <1>4, TaskFrame
<1>5. CASE task'[t].at \in Ending
  <2>1. store.queued \notin {None, t} => ~Stored(store, store.queued)
    BY <1>1 DEF TaskSound
  <2>2. store'.active = t /\ (store'.queued \notin {None, t} => ~Stored(store', store'.queued))
    BY <1>2, <1>3, <2>1 DEF Undisturbed, Stored
  <2> QED BY <1>5, <2>2, TaskEnds
<1> QED BY <1>1, <1>4, <1>5

(* recoverFinishedTurn goes on. *)
LEMMA HealContinueKeeps ==
  ASSUME IInv, NEW w \in Worker, HealContinue(w) PROVE IInv' /\ Advances
<1>1. /\ TypeOK /\ Processes /\ RowsAre /\ Base(store) /\ TasksSound(store)
      /\ UNCHANGED <<row, up, current, task, call, crashes, history>>
  BY DEF IInv, HealContinue
<1>2. UNCHANGED <<row, up, current, task, call, crashes, sent, accepted, stopped>>
  BY <1>1 DEF history
<1>3. heal[w] \in Heal /\ heal[w] # None /\ heal[w].at = "next"
  BY <1>1 DEF HealContinue, Healing, TypeOK
<1>4. settle[w] = None
  BY <1>1, <1>3 DEF Processes, SettleOwned
<1>5. heal[w].active \in Turn \cup {None} /\ heal[w].todo \in SUBSET Turn
  BY <1>3 DEF Heal
<1>6. Recovers(w, store)
  BY <1>1, <1>5, HealNextRecovers DEF HealContinue, Processes
<1>7. /\ store' \in Store
      /\ heal' \in [Worker -> Heal \cup {None}] /\ settle' \in [Worker -> Settle \cup {None}]
      /\ heal'[w] # None /\ \A u \in Worker \ {w} : heal'[u] = heal[u] /\ settle'[u] = settle[u]
      /\ settle'[w] # None => heal'[w].at = "settle"
      /\ \A u \in Worker : settle'[u] # None =>
           (settle[u] # None /\ settle'[u] = settle[u]) \/ Closing(store', settle'[u])
      /\ Base(store') /\ Kept(store, store') /\ Calm(store, store')
  BY <1>1, <1>4, <1>6, RecoversStep
<1>8. TypeOK'
  BY <1>1, <1>2, <1>7 DEF TypeOK
<1>9. Processes'
  <2>1. SettleOwned'
    BY <1>1, <1>2, <1>7 DEF Processes, SettleOwned
  <2>2. HealOwned'
    BY <1>1, <1>2, <1>3, <1>7 DEF Processes, HealOwned
  <2>3. Resting' /\ Named' /\ OneTask'
    BY <1>1, <1>2 DEF Processes, Resting, Named, OneTask
  <2> QED BY <2>1, <2>2, <2>3 DEF Processes
<1>10. RowsAre' /\ RowsGrow /\ Obeys
  BY <1>1, <1>2, RowsUntouched DEF RowsAre
<1>11. Base(store)'
  BY <1>1, <1>2, <1>7, <1>8, BaseFrame
<1>12. TasksSound(store)'
  BY <1>1, <1>2, <1>7, CalmTasks DEF Processes
<1> QED BY <1>7, <1>8, <1>9, <1>10, <1>11, <1>12 DEF IInv, Advances

(* A settlement ends: its caller goes on. *)
LEMMA SettlesKeeps ==
  ASSUME IInv, NEW w \in Worker, settle[w] # None, Settles(w, store), UNCHANGED elsewhere
  PROVE  IInv' /\ Advances
<1>1. /\ TypeOK /\ Processes /\ RowsAre /\ Base(store) /\ TasksSound(store)
      /\ UNCHANGED <<row, up, current, call, crashes, sent, accepted, stopped>>
  BY DEF IInv, elsewhere, history
<1> DEFINE t == settle[w].id
<1>2. PICK x \in Store :
        store' = x /\ Leads(store, x) /\ OnlyTurn(store, x, t) /\ \E ok : SettleReturns(w, ok)
  BY DEF Settles
<1>3. PICK ok : SettleReturns(w, ok)
  BY <1>2
<1>4. /\ settle \in [Worker -> Settle \cup {None}] /\ task \in [Turn -> Task \cup {None}]
      /\ heal \in [Worker -> Heal \cup {None}]
  BY <1>1 DEF TypeOK
<1>5. settle' = [settle EXCEPT ![w] = None]
  BY <1>3 DEF SettleReturns
<1>6. /\ settle' \in [Worker -> Settle \cup {None}] /\ settle'[w] = None
      /\ \A u \in Worker \ {w} : settle'[u] = settle[u]
  BY <1>4, <1>5
<1>7. \/ /\ w \in Turn /\ task[w] # None /\ task[w].at = "settle" /\ heal[w] = None /\ UNCHANGED heal
         /\ task' \in [Turn -> Task \cup {None}] /\ task'[w] # None /\ task'[w].at = "advance"
         /\ \A u \in Turn \ {w} : task'[u] = task[u]
      \/ /\ heal[w] # None /\ UNCHANGED task
         /\ heal' \in [Worker -> Heal \cup {None}] /\ heal'[w] # None
         /\ \A u \in Worker \ {w} : heal'[u] = heal[u]
  <2>1. CASE w \in Turn /\ heal[w] = None
    <3>1. task[w] \in Task /\ task[w] # None /\ task[w].at = "settle"
      BY <1>1, <1>4, <2>1 DEF Processes, SettleOwned
    <3>2. [task[w] EXCEPT !.at = "advance"] \in Task /\ [task[w] EXCEPT !.at = "advance"].at = "advance"
      BY <3>1 DEF Task
    <3>3. [task[w] EXCEPT !.at = "advance"] # None
      BY <3>2, NoneAssumption
    <3>4. task' = [task EXCEPT ![w] = [task[w] EXCEPT !.at = "advance"]] /\ UNCHANGED heal
      BY <1>3, <2>1 DEF SettleReturns
    <3> QED BY <1>4, <2>1, <3>1, <3>2, <3>3, <3>4
  <2>2. CASE ~(w \in Turn /\ heal[w] = None)
    <3> DEFINE h == [heal[w] EXCEPT !.at = IF ok THEN "next" ELSE "threw"]
    <3>1. heal[w] # None /\ heal[w] \in Heal
      BY <1>1, <1>4, <2>2 DEF Processes, SettleOwned
    <3>2. h \in Heal
      BY <3>1 DEF Heal
    <3>3. h # None
      BY <3>2, NoneAssumption
    <3>4. heal' = [heal EXCEPT ![w] = h] /\ UNCHANGED task
      BY <1>3, <2>2 DEF SettleReturns
    <3> HIDE DEF h
    <3> QED BY <1>4, <3>1, <3>2, <3>3, <3>4
  <2> QED BY <2>1, <2>2
<1>8. TypeOK'
  <2>1. task' \in [Turn -> Task \cup {None}] /\ heal' \in [Worker -> Heal \cup {None}]
    BY <1>4, <1>7
  <2> QED BY <1>1, <1>2, <1>6, <2>1 DEF TypeOK
<1>9. Processes'
  <2>1. SettleOwned'
    BY <1>1, <1>6, <1>7 DEF Processes, SettleOwned
  <2>2. HealOwned'
    BY <1>1, <1>7 DEF Processes, HealOwned
  <2>3. OneTask'
    BY <1>1, <1>7 DEF Processes, OneTask
  <2>4. Resting' /\ Named'
    BY <1>1 DEF Processes, Resting, Named
  <2> QED BY <2>1, <2>2, <2>3, <2>4 DEF Processes
<1>10. RowsAre' /\ RowsGrow /\ Obeys /\ Kept(store, store')
  BY <1>1, <1>2, RowsUntouched DEF RowsAre, Leads
<1>11. Base(store)'
  <2>1. \A u \in Turn : InHands(task'[u]) => InHands(task[u])
    BY <1>7 DEF InHands, Ending
  <2>2. \A u \in Worker : settle'[u] # None => settle[u] # None /\ settle'[u] = settle[u]
    BY <1>6
  <2> QED BY <1>1, <1>2, <1>8, <2>1, <2>2, BaseFrame DEF Leads
<1>12. TasksSound(store)'
  <2> SUFFICES ASSUME NEW u \in Turn, task'[u] # None PROVE TaskSound(store, u, task[u])'
    BY DEF TasksSound
  <2>1. task[u] # None /\ TaskSound(store, u, task[u]) /\ (task'[u] = task[u] \/ task'[u].at \in Ending)
    BY <1>1, <1>7 DEF TasksSound, Ending
  <2>2. t \in Turn /\ Closing(store, settle[w]) /\ store.queued # t
    BY <1>1, ClosingFacts
  <2>3. store.queued \in Turn \cup {None} /\ store.active = u
    BY <1>1, <2>1, StoreFields DEF Base, TaskSound
  <2>4. store.queued # None => store'.turn[store.queued] = store.turn[store.queued]
    BY <1>2, <2>2, <2>3 DEF OnlyTurn
  <2>5. store'.queued \notin {None, u} => ~Stored(store', store'.queued)
    BY <1>2, <2>1, <2>4 DEF OnlyTurn, Stored, TaskSound
  <2>6. CASE task'[u].at \in Ending
    BY <1>2, <2>3, <2>5, <2>6, TaskEnds DEF OnlyTurn
  <2>7. CASE task'[u] = task[u] /\ task[u].at \notin Ending
    <3>1. u # t
      BY <2>1, <2>2, <2>7 DEF Closing, Ending
    <3>2. Undisturbed(store, store', u)
      BY <1>2, <2>4, <3>1 DEF OnlyTurn, Undisturbed
    <3> QED BY <1>1, <2>1, <2>7, <3>2, TaskFrame
  <2> QED BY <2>1, <2>6, <2>7
<1> QED BY <1>8, <1>9, <1>10, <1>11, <1>12 DEF IInv, Advances

-----------------------------------------------------------------------------
(* The steps of settleTurn.                                                      *)
LEMMA SettleEndsKeeps ==
  ASSUME IInv, NEW w \in Worker, SettleCheck(w) \/ SettleUnread(w) PROVE IInv' /\ Advances
<1>1. TypeOK /\ RowsAre /\ Base(store)
  BY DEF IInv
<1>2. settle[w] # None /\ UNCHANGED elsewhere
  BY DEF SettleCheck, SettleUnread, Settling
<1>3. Settles(w, store)
  <2>1. CASE SettleCheck(w)
    BY <1>1, <1>2, <2>1, ConcludeSettles DEF SettleCheck
  <2>2. CASE SettleUnread(w)
    BY <1>1, <1>2, <2>2, FailsSettles DEF SettleUnread
  <2> QED BY <2>1, <2>2
<1> QED BY <1>2, <1>3, SettlesKeeps

LEMMA SettleRowKeeps ==
  ASSUME IInv, NEW w \in Worker, SettleRow(w) PROVE IInv' /\ Advances
<1> DEFINE c == settle[w]
           t == c.id
           r == row[t]
           v == Recovered(c.v, r)
           x == TurnSet(store, t, v)
           e == [c EXCEPT !.at = "update", !.v = v]
<1>1. TypeOK /\ RowsAre /\ Base(store) /\ Processes /\ TasksSound(store) /\ store \in Store
  BY DEF IInv, Base
<1>2. c # None /\ c.at = "row" /\ UNCHANGED elsewhere
  BY DEF SettleRow, Settling
<1>3. CASE r = None \/ r.st # "started"
  <2>1. Conclude(w, c.v, r)
    BY <1>3 DEF SettleRow
  <2>2. Settles(w, store)
    BY <1>1, <1>2, <2>1, ConcludeSettles
  <2> QED BY <1>2, <2>2, SettlesKeeps
<1>4. CASE ~(r = None \/ r.st # "started") /\ r.kind # v.col.kind
  <2>1. Fails(w, store, "mismatch")
    BY <1>4 DEF SettleRow
  <2>2. Settles(w, store)
    BY <1>1, <1>2, <2>1, FailsSettles
  <2> QED BY <1>2, <2>2, SettlesKeeps
<1>5. CASE ~(r = None \/ r.st # "started") /\ r.kind = v.col.kind
  <2>1. /\ c \in Settle /\ t \in Turn /\ c.v \in Payload /\ r \in Columns
        /\ Closing(store, c) /\ store.queued # t
    BY <1>1, <1>2, <1>5, ClosingFacts
  <2>2. v \in Payload
    BY <2>1, RecoveredFields
  <2>3. e \in Settle /\ e.id = t /\ e.v = v /\ e.at = "update"
    BY <2>1, <2>2 DEF Settle
  <2>4. e # None
    BY <2>3, NoneAssumption
  <2>5. PICK o \in WriteTurn(store, t, v) :
          IF o.ok THEN /\ store' = o.s
                       /\ settle' = [settle EXCEPT ![w].at = "update", ![w].v = v]
                       /\ UNCHANGED <<task, heal>>
          ELSE Fails(w, o.s, "pending")
    BY <1>5 DEF SettleRow
  <2>6. Leads(store, x) /\ Closing(x, e)
    <3> HIDE DEF e
    <3> QED BY <1>1, <1>2, <1>5, <2>1, <2>3, RecoveredLeads
  <2>7. x \in Store /\ OnlyTurn(store, x, t)
    BY <1>1, <2>1, <2>2, <2>6, TurnSetFields DEF OnlyTurn
  <2>8. o \in Write(store, x)
    BY <2>5 DEF WriteTurn, TurnSet
  <2> HIDE DEF x
  <2>9. \/ o.ok /\ o.s = x
        \/ ~o.ok /\ o.s = Faulted(store) /\ store.faults < MaxFaults
    BY <1>1, <2>7, <2>8, Writes
  <2>10. CASE ~o.ok /\ o.s = Faulted(store) /\ store.faults < MaxFaults
    <3>1. Leads(store, o.s) /\ Base(o.s) /\ OnlyTurn(store, o.s, t)
      BY <1>1, <2>10, FaultKeepsBase, FaultedFields DEF Leads, OnlyTurn
    <3>2. Settles(w, o.s)
      BY <1>1, <1>2, <2>5, <2>10, <3>1, FailsSettles
    <3>3. Settles(w, store)
      BY <3>1, <3>2, LeadsOn DEF Settles, OnlyTurn
    <3> QED BY <1>2, <3>3, SettlesKeeps
  <2>11. CASE o.ok /\ o.s = x
    <3>1. /\ store' = x /\ UNCHANGED <<task, heal>>
          /\ UNCHANGED <<row, up, current, call, crashes, sent, accepted, stopped>>
      BY <1>2, <2>5, <2>11 DEF elsewhere, history
    <3>2. settle \in [Worker -> Settle \cup {None}]
      BY <1>1 DEF TypeOK
    <3>3. settle' = [settle EXCEPT ![w] = e]
      BY <2>1, <2>5, <2>11, <3>2 DEF Settle
    <3> HIDE DEF e
    <3>4. /\ settle' \in [Worker -> Settle \cup {None}] /\ settle'[w] = e
          /\ \A u \in Worker \ {w} : settle'[u] = settle[u]
      BY <2>3, <3>2, <3>3
    <3>5. TypeOK'
      BY <1>1, <2>7, <3>1, <3>4 DEF TypeOK
    <3>6. Processes'
      <4>1. SettleOwned'
        BY <1>1, <1>2, <3>1, <3>4 DEF Processes, SettleOwned
      <4>2. HealOwned' /\ Resting' /\ Named' /\ OneTask'
        BY <1>1, <3>1 DEF Processes, HealOwned, Resting, Named, OneTask
      <4> QED BY <4>1, <4>2 DEF Processes
    <3>7. RowsAre' /\ RowsGrow /\ Obeys /\ Kept(store, store')
      BY <1>1, <2>6, <3>1, RowsUntouched DEF RowsAre, Leads
    <3>8. Base(store)'
      <4>1. \A u \in Worker : settle'[u] # None =>
              (settle[u] # None /\ settle'[u] = settle[u]) \/ Closing(x, settle'[u])
        BY <2>6, <3>4
      <4> QED BY <1>1, <2>6, <3>1, <3>5, <4>1, BaseFrame DEF Leads
    <3>9. TasksSound(store)'
      <4> SUFFICES ASSUME NEW u \in Turn, task'[u] # None PROVE TaskSound(store, u, task[u])'
        BY DEF TasksSound
      <4>1. task'[u] = task[u] /\ task[u] # None /\ TaskSound(store, u, task[u])
        BY <1>1, <3>1 DEF TasksSound
      <4>2. store.queued \in Turn \cup {None} /\ store.active = u
        BY <1>1, <4>1, StoreFields DEF TaskSound
      <4>3. store.queued # None => store'.turn[store.queued] = store.turn[store.queued]
        BY <2>1, <2>7, <3>1, <4>2 DEF OnlyTurn
      <4>4. CASE task[u].at \in Ending
        <5>1. store'.active = u /\ (store'.queued \notin {None, u} => ~Stored(store', store'.queued))
          BY <2>7, <3>1, <4>1, <4>2, <4>3 DEF OnlyTurn, Stored, TaskSound
        <5> QED BY <4>1, <4>4, <5>1, TaskEnds
      <4>5. CASE task[u].at \notin Ending
        <5>1. u # t
          BY <2>1, <4>1, <4>5 DEF Closing, Ending
        <5>2. Undisturbed(store, store', u)
          BY <2>7, <3>1, <4>3, <5>1 DEF OnlyTurn, Undisturbed
        <5> QED BY <3>1, <4>1, <5>2, TaskFrame
      <4> QED BY <4>4, <4>5
    <3> QED BY <3>5, <3>6, <3>7, <3>8, <3>9 DEF IInv, Advances
  <2> QED BY <2>9, <2>10, <2>11
<1> QED BY <1>3, <1>4, <1>5

LEMMA SettleUpdateKeeps ==
  ASSUME IInv, NEW w \in Worker, SettleUpdate(w) PROVE IInv' /\ Advances
<1> DEFINE c == settle[w]
           t == c.id
           r == row[t]
           e == [c EXCEPT !.at = "check"]
           new == [c.v.col EXCEPT !.kind = r.kind]
<1>1. /\ TypeOK /\ RowsAre /\ Base(store) /\ Processes /\ TasksSound(store) /\ store \in Store
      /\ UNCHANGED <<store, up, current, task, heal, call, crashes, sent, accepted, stopped>>
  BY DEF IInv, Base, SettleUpdate, history
<1>2. c # None /\ c.at = "update"
  BY DEF SettleUpdate, Settling
<1>3. /\ c \in Settle /\ t \in Turn /\ c.v \in Payload /\ r \in Columns \cup {None}
      /\ Closing(store, c) /\ store.queued # t /\ Stored(store, t)
      /\ settle \in [Worker -> Settle \cup {None}] /\ row \in [Turn -> Columns \cup {None}]
  BY <1>1, <1>2, ClosingFacts DEF TypeOK
<1>4. e \in Settle /\ e.id = t /\ e.v = c.v /\ e.at = "check"
  BY <1>3 DEF Settle
<1>5. e # None
  BY <1>4, NoneAssumption
<1>6. settle' = [settle EXCEPT ![w] = e]
  BY DEF SettleUpdate
<1> HIDE DEF e
<1>7. /\ settle' \in [Worker -> Settle \cup {None}] /\ settle'[w] = e
      /\ \A u \in Worker \ {w} : settle'[u] = settle[u]
  BY <1>3, <1>4, <1>6
<1>8. Processes'
  <2>1. SettleOwned'
    BY <1>1, <1>2, <1>7 DEF Processes, SettleOwned
  <2>2. HealOwned' /\ Resting' /\ Named' /\ OneTask'
    BY <1>1 DEF Processes, HealOwned, Resting, Named, OneTask
  <2> QED BY <2>1, <2>2 DEF Processes
<1>9. Kept(store, store') /\ Obeys
  BY <1>1, KeptItself DEF Obeys
<1>10. CASE UNCHANGED row
  <2>1. TypeOK'
    BY <1>1, <1>7, <1>10 DEF TypeOK
  <2>2. Closing(store, e)
    BY <1>3, <1>4 DEF Closing
  <2>3. Base(store)'
    BY <1>1, <1>7, <1>10, <2>1, <2>2, BaseFrame
  <2>4. TasksSound(store)' /\ RowsAre' /\ RowsGrow
    BY <1>1, <1>10, RowsUntouched DEF RowsAre, TasksSound, TaskSound, Stored, Open
  <2> QED BY <1>8, <1>9, <2>1, <2>3, <2>4 DEF IInv, Advances
<1>11. CASE r.st = "started" /\ row' = [row EXCEPT ![t] = new]
  <2>1. /\ r # None /\ c.v.col = store.turn[t].col /\ c.v.col = Recovered(c.v, r).col /\ c.v.col.kind = r.kind
        /\ ~IsStarted(c.v) /\ SameResult(c.v, store.turn[t], r)
    BY <1>2, <1>3, <1>11 DEF Closing
  <2>2. c.v.col \in Columns
    BY <1>3, PayloadFields
  <2>3. new = c.v.col
    BY <2>1, <2>2 DEF Columns
  <2>4. new.st # "started" /\ new \in Columns /\ new # None /\ new = store.turn[t].col
    BY <2>1, <2>2, <2>3, NoneAssumption DEF IsStarted
  <2>5. (r.limit # None => new.limit # None) /\ (r.scope => new.scope)
    <3>1. r \in Columns
      BY <1>3, <2>1
    <3>2. new = Joined(c.v.col, r)
      BY <1>3, <2>1, <2>3, <3>1, RecoveredFields
    <3> DEFINE j == Joined(c.v.col, r)
    <3>3. (r.limit # None => j.limit # None) /\ (r.scope => j.scope)
      BY <2>2, <3>1, JoinedFields
    <3> HIDE DEF j, new
    <3> QED BY <3>2, <3>3 DEF j
  <2> HIDE DEF new
  <2>6. row' \in [Turn -> Columns \cup {None}] /\ row'[t] = new /\ \A u \in Turn \ {t} : row'[u] = row[u]
    BY <1>3, <1>11, <2>4
  <2>7. TypeOK'
    BY <1>1, <1>7, <2>6 DEF TypeOK
  <2>8. RowsAre'
    BY <1>1, <2>4, <2>6 DEF RowsAre
  <2>9. RowsGrow
    BY <2>5, <2>6 DEF RowsGrow
  <2>10. StateSound(store)'
    <3>1. store.queued \in Turn \cup {None}
      BY <1>1, StoreFields
    <3> QED BY <1>1, <1>3, <2>6, <3>1 DEF Base, StateSound
  <2>11. PayloadSound(store)'
    <3> SUFFICES ASSUME NEW u \in Turn
                 PROVE  /\ row'[u] # None => Stored(store, u) /\ (row'[u].st # "started" => store.turn[u].col = row'[u])
                        /\ Stored(store, u) =>
                             LET p == store.turn[u] IN
                             /\ ~IsStarted(p) /\ ~p.pend => row'[u] = p.col \/ (row'[u] = None /\ sent[u] = 0)
                             /\ p.col.use = 0 => sent[u] = 0
                             /\ p.col.st = "cancelled" => stopped[u] = "active"
      BY <1>1 DEF PayloadSound, Stored
    <3>1. CASE u = t
      BY <1>1, <1>3, <2>4, <2>6, <3>1 DEF Base, PayloadSound
    <3>2. CASE u # t
      BY <1>1, <2>6, <3>2 DEF Base, PayloadSound
    <3> QED BY <3>1, <3>2
  <2>12. SettlesSound(store)'
    <3> SUFFICES ASSUME NEW u \in Worker, settle'[u] # None PROVE Closing(store, settle[u])'
      BY DEF SettlesSound
    <3>1. PICK d \in Settle : settle'[u] = d /\ Closing(store, d)
      <4>1. CASE u = w
        BY <1>3, <1>4, <1>7, <4>1 DEF Closing
      <4>2. CASE u # w
        BY <1>1, <1>7, <4>2, ClosingFacts
      <4> QED BY <4>1, <4>2
    <3>2. d.id \in Turn
      BY DEF Settle
    <3>3. CASE d.id # t
      BY <1>1, <2>6, <3>1, <3>2, <3>3 DEF Closing, Stored
    <3>4. CASE d.id = t
      <4>1. SameResult(d.v, store.turn[t], r)
        BY <3>1, <3>4 DEF Closing
      <4>2. SameResult(d.v, store.turn[t], new)
        BY <2>1, <2>4, <4>1 DEF SameResult
      <4> QED BY <1>1, <2>4, <2>6, <3>1, <3>4, <4>2 DEF Closing, Stored
    <3> QED BY <3>3, <3>4
  <2>13. TasksSound(store)'
    <3> SUFFICES ASSUME NEW u \in Turn, task'[u] # None PROVE TaskSound(store, u, task[u])'
      BY DEF TasksSound
    <3>1. task'[u] = task[u] /\ TaskSound(store, u, task[u])
      BY <1>1 DEF TasksSound
    <3>2. CASE u = t
      <4>1. task[u].at \in Ending
        BY <1>1, <1>3, <3>2 DEF Closing, Ending
      <4> QED BY <1>1, <3>1, <4>1, TaskEnds DEF TaskSound, Stored
    <3>3. CASE u # t
      BY <1>1, <2>6, <3>1, <3>3 DEF TaskSound, Stored, Open
    <3> QED BY <3>2, <3>3
  <2>14. Base(store)'
    BY <1>1, <2>10, <2>11, <2>12 DEF Base
  <2> QED BY <1>8, <1>9, <2>7, <2>8, <2>9, <2>13, <2>14 DEF IInv, Advances
<1> QED BY <1>10, <1>11 DEF SettleUpdate

(* Any step of settleTurn. *)
LEMMA SettleStepKeeps ==
  ASSUME IInv, NEW w \in Worker, SettleStep(w) PROVE IInv' /\ Advances
BY SettleEndsKeeps, SettleRowKeeps, SettleUpdateKeeps DEF SettleStep

-----------------------------------------------------------------------------
(* The methods: arrival and return.                                             *)
LEMMA ArriveKeeps ==
  ASSUME IInv, NEW c \in Call, Asks(c) PROVE IInv' /\ Advances
<1>1. PICK op \in Op : \E t \in IF op \in {"page", "answer"} THEN {None} ELSE Turn : Arrive(c, op, t)
  BY DEF Asks
<1>2. PICK t \in IF op \in {"page", "answer"} THEN {None} ELSE Turn : Arrive(c, op, t)
  BY <1>1
<1>3. /\ TypeOK /\ Processes /\ RowsAre /\ Base(store) /\ TasksSound(store) /\ OneTask
      /\ up = "up" /\ call[c] = None
      /\ UNCHANGED <<row, up, current, task, crashes, sent, accepted, stopped>>
  BY <1>2 DEF IInv, Processes, Arrive, history
<1>4. c \in Worker /\ c \notin Turn /\ c # "boot"
  BY IdAssumption DEF Worker
<1>5. heal[c] = None /\ settle[c] = None
  BY <1>3, <1>4 DEF Processes, HealOwned, SettleOwned
<1>6. PICK o \in IF op = "answer" THEN Did(store) ELSE StoppedHandoff(store, current) :
        IF o.ok THEN HealStart(c, o.s) /\ call' = [call EXCEPT ![c] = [op |-> op, t |-> t]]
        ELSE store' = o.s /\ UNCHANGED <<heal, settle, call>>
  BY <1>2 DEF Arrive
<1>7. Leads(store, o.s) /\ (current # None => o.s = store)
  BY <1>3, <1>6, StoppedHandoffLeads, KeptItself DEF Did, Leads
<1>8. Base(o.s) /\ o.s \in Store /\ TasksSound(o.s) /\ Calm(store, o.s)
  BY <1>3, <1>7, NoTasks DEF Leads, Base, Calm
<1>9. RowsAre' /\ RowsGrow /\ Obeys
  BY <1>3, RowsUntouched DEF RowsAre
<1>10. CASE ~o.ok
  <2>1. store' = o.s /\ UNCHANGED <<heal, settle, call>>
    BY <1>6, <1>10
  <2>2. TypeOK'
    BY <1>3, <1>8, <2>1 DEF TypeOK
  <2>3. Processes'
    BY <1>3, <2>1 DEF Processes, SettleOwned, HealOwned, Resting, Named, OneTask
  <2>4. Base(store)'
    BY <1>3, <1>8, <2>1, <2>2, BaseFrame
  <2>5. TasksSound(store)'
    BY <1>3, <1>8, <2>1, CalmTasks
  <2> QED BY <1>7, <1>9, <2>1, <2>2, <2>3, <2>4, <2>5 DEF IInv, Advances, Leads
<1>11. CASE o.ok
  <2>1. HealStart(c, o.s) /\ call' = [call EXCEPT ![c] = [op |-> op, t |-> t]]
    BY <1>6, <1>11
  <2>2. Recovers(c, o.s)
    BY <1>3, <1>4, <1>8, <2>1, HealStartRecovers
  <2>3. Recovers(c, store)
    BY <1>7, <1>8, <2>2, RecoversFrom
  <2>4. /\ store' \in Store
        /\ heal' \in [Worker -> Heal \cup {None}] /\ settle' \in [Worker -> Settle \cup {None}]
        /\ heal'[c] # None /\ \A u \in Worker \ {c} : heal'[u] = heal[u] /\ settle'[u] = settle[u]
        /\ settle'[c] # None => heal'[c].at = "settle"
        /\ \A u \in Worker : settle'[u] # None =>
             (settle[u] # None /\ settle'[u] = settle[u]) \/ Closing(store', settle'[u])
        /\ Base(store') /\ Kept(store, store') /\ Calm(store, store')
    BY <1>3, <1>4, <1>5, <2>3, RecoversStep
  <2>5. [op |-> op, t |-> t] \in Asked /\ [op |-> op, t |-> t] # None
    <3>1. [op |-> op, t |-> t] \in Asked
      BY DEF Asked
    <3> QED BY <3>1, NoneAssumption
  <2>6. /\ call' \in [Call -> Asked \cup {None}] /\ call'[c] = [op |-> op, t |-> t]
        /\ \A d \in Call \ {c} : call'[d] = call[d]
    BY <1>3, <2>1, <2>5 DEF TypeOK
  <2>7. TypeOK'
    BY <1>3, <2>4, <2>6 DEF TypeOK
  <2>8. Processes'
    <3>1. SettleOwned'
      BY <1>3, <2>4 DEF Processes, SettleOwned
    <3>2. HealOwned'
      BY <1>3, <1>4, <2>4, <2>5, <2>6 DEF Processes, HealOwned
    <3>3. Resting' /\ OneTask'
      BY <1>3 DEF Processes, Resting, OneTask
    <3>4. Named'
      BY <1>3, <2>6 DEF Processes, Named
    <3> QED BY <3>1, <3>2, <3>3, <3>4 DEF Processes
  <2>9. Base(store)'
    BY <1>3, <2>4, <2>7, BaseFrame
  <2>10. TasksSound(store)'
    BY <1>3, <2>4, CalmTasks
  <2> QED BY <1>9, <2>4, <2>7, <2>8, <2>9, <2>10 DEF IInv, Advances
<1> QED BY <1>10, <1>11

(* A call returns; running turns stay where they are. *)
LEMMA ReturnTypes ==
  ASSUME TypeOK, NEW c \in Call, Return(c)
  PROVE  /\ heal' \in [Worker -> Heal \cup {None}] /\ heal'[c] = None
         /\ \A u \in Worker \ {c} : heal'[u] = heal[u]
         /\ call' \in [Call -> Asked \cup {None}] /\ call'[c] = None
         /\ \A d \in Call \ {c} : call'[d] = call[d]
<1>1. c \in Worker
  BY DEF Worker
<1> QED BY <1>1 DEF TypeOK, Return, Healed

LEMMA ReturnProcesses ==
  ASSUME TypeOK, Processes, NEW c \in Call, call[c] # None, Return(c), UNCHANGED <<up, settle>>,
         heal[c] # None, heal[c].at # "settle", OneTask',
         \/ UNCHANGED current /\ \A u \in Turn : task[u] # None => task'[u] # None /\ task'[u].at = task[u].at
         \/ current = None
  PROVE  Processes'
<1>1. /\ heal'[c] = None /\ \A u \in Worker \ {c} : heal'[u] = heal[u]
      /\ call'[c] = None /\ \A d \in Call \ {c} : call'[d] = call[d]
  BY ReturnTypes
<1>2. up = "up"
  BY DEF Processes, Resting
<1>3. c \in Worker /\ c \notin Turn /\ c # "boot"
  BY IdAssumption DEF Worker
<1>4. settle[c] = None
  BY <1>3 DEF Processes, SettleOwned
<1>5. \A u \in Turn : task[u] # None => task'[u] # None /\ task'[u].at = task[u].at
  BY NoneAssumption DEF Processes, OneTask
<1>6. SettleOwned'
  BY <1>1, <1>4, <1>5 DEF Processes, SettleOwned
<1>7. HealOwned'
  BY <1>1, <1>5 DEF Processes, HealOwned
<1>8. Resting' /\ Named'
  BY <1>1, <1>2 DEF Processes, Resting, Named
<1> QED BY <1>6, <1>7, <1>8 DEF Processes

(* A call that changed nothing, or whose write threw. *)
LEMMA ReturnKeeps ==
  ASSUME IInv, NEW c \in Call, call[c] # None, heal[c] # None, heal[c].at # "settle", Return(c),
         Leads(store, store') /\ Calm(store, store'),
         UNCHANGED <<row, up, current, task, settle, crashes, sent, accepted, stopped>>
  PROVE  IInv' /\ Advances
<1>1. /\ TypeOK /\ Processes /\ RowsAre /\ Base(store) /\ TasksSound(store) /\ OneTask
      /\ store' \in Store /\ Base(store') /\ Kept(store, store')
  BY DEF IInv, Processes, Leads, Base
<1>2. TypeOK'
  BY <1>1, ReturnTypes DEF TypeOK
<1>3. OneTask'
  BY <1>1 DEF OneTask
<1>4. Processes'
  BY <1>1, <1>3, ReturnProcesses
<1>5. RowsAre' /\ RowsGrow /\ Obeys
  BY <1>1, RowsUntouched DEF RowsAre
<1>6. Base(store)'
  BY <1>1, <1>2, BaseFrame
<1>7. TasksSound(store)'
  BY <1>1, <1>5, CalmTasks
<1> QED BY <1>1, <1>2, <1>4, <1>5, <1>6, <1>7 DEF IInv, Advances

LEMMA RepliesKeeps ==
  ASSUME IInv, NEW c \in Call, Replies(c) PROVE IInv' /\ Advances
<1>1. /\ call[c] # None /\ heal[c] # None /\ heal[c].at # "settle" /\ Return(c)
      /\ UNCHANGED <<store, row, up, current, task, settle, crashes, sent, accepted, stopped>>
  BY DEF Replies, Returning, Healing, history
<1>2. Leads(store, store') /\ Calm(store, store')
  BY <1>1, KeptItself DEF IInv, Leads, Calm
<1> QED BY <1>1, <1>2, ReturnKeeps

(* submitTurn and stopTurn write the state; a write that throws ends them.           *)
LEMMA StateWrites ==
  ASSUME IInv, NEW a \in Turn \cup {None}, NEW q \in Turn \cup {None}, NEW stop \in BOOLEAN,
         NEW o \in ChangeState(store, a, q, stop)
  PROVE  \/ o.ok /\ o.s = StateSet(store, a, q, stop)
         \/ ~o.ok /\ Leads(store, o.s) /\ Calm(store, o.s)
<1>1. store \in Store /\ Base(store)
  BY DEF IInv, Base
<1>2. StateSet(store, a, q, stop) \in Store
  BY <1>1, StateSetFields
<1>3. o \in Write(store, StateSet(store, a, q, stop))
  BY DEF ChangeState, StateSet
<1>4. \/ o.ok /\ o.s = StateSet(store, a, q, stop)
      \/ ~o.ok /\ o.s = Faulted(store) /\ store.faults < MaxFaults
  BY <1>1, <1>2, <1>3, Writes
<1> QED BY <1>1, <1>4, FaultKeepsBase, FaultedFields DEF Leads, Calm

LEMMA UnknownTurn ==
  ASSUME IInv, NEW t \in Turn, ~Stored(store, t)
  PROVE  /\ row[t] = None /\ sent[t] = 0 /\ store.turn[t] = None
         /\ \A w \in Worker : settle[w] # None => settle[w].id # t
<1>1. row[t] = None
  BY DEF IInv, Base, PayloadSound
<1>2. sent[t] = 0
  BY <1>1 DEF IInv, RowsAre
<1>3. \A w \in Worker : settle[w] # None => settle[w].id # t
  BY DEF IInv, Base, SettlesSound, Closing
<1> QED BY <1>1, <1>2, <1>3 DEF Stored

LEMMA FreshTask == Fresh \in Task /\ Fresh # None /\ Fresh.at = "project" /\ ~Fresh.disp
<1>1. Fresh \in Task
  BY FixedPayloads DEF Fresh, Task
<1> QED BY <1>1, NoneAssumption DEF Fresh

(* A question begins: it is new, and nothing else runs. *)
LEMMA Begins ==
  ASSUME NEW t \in Turn, task'[t] = Fresh, store'.active = t, ~Stored(store', t),
         row'[t] = None, sent'[t] = 0, stopped'[t] # None => store'.stop,
         store'.queued \in {None, t}
  PROVE  TaskSound(store, t, task[t])'
BY FreshTask DEF TaskSound, Before, Busy, Admitted, Stored, Open

LEMMA SubmitStartsKeeps ==
  ASSUME IInv, NEW c \in Call, SubmitStarts(c) PROVE IInv' /\ Advances
<1>1. /\ TypeOK /\ Processes /\ RowsAre /\ Base(store) /\ TasksSound(store) /\ OneTask /\ store \in Store
      /\ call[c] # None /\ call[c].op \in {"submit", "wait"}
      /\ heal[c] # None /\ heal[c].at # "settle" /\ Return(c)
      /\ ~Stored(store, call[c].t) /\ store.active = None
      /\ UNCHANGED <<row, up, settle, crashes, sent>>
  BY DEF IInv, Processes, Base, SubmitStarts, Starts, Returning, Healing
<1>2. PICK t \in Turn : t = call[c].t /\ t # None
  BY <1>1, NoneAssumption DEF Processes, Named
<1>3. t \in Turn /\ t # None /\ ~Stored(store, t)
  BY <1>2, <1>1
<1> DEFINE x == StateSet(store, t, t, FALSE)
<1>4. current = None /\ \A u \in Turn : task[u] = None
  <2>1. \A u \in Turn : task[u] = None
    BY <1>1, NoneAssumption DEF TasksSound, TaskSound
  <2>2. current \in Turn \cup {None}
    BY <1>1 DEF TypeOK
  <2> QED BY <1>1, <2>1, <2>2 DEF OneTask
<1>5. PICK o \in ChangeState(store, t, t, FALSE) :
        /\ store' = o.s
        /\ IF o.ok THEN task' = [task EXCEPT ![t] = Fresh] /\ current' = t /\ Accept(t)
           ELSE UNCHANGED <<task, current, accepted, stopped>>
  BY <1>2 DEF SubmitStarts
<1>6. CASE ~o.ok
  <2>1. Leads(store, store') /\ Calm(store, store')
    BY <1>3, <1>5, <1>6, StateWrites
  <2> QED BY <1>1, <1>5, <1>6, <2>1, ReturnKeeps
<1>7. CASE o.ok
  <2>1. /\ store' = x /\ task' = [task EXCEPT ![t] = Fresh] /\ current' = t
        /\ accepted' = [accepted EXCEPT ![t] = TRUE] /\ stopped' = [stopped EXCEPT ![t] = None]
    BY <1>3, <1>5, <1>7, StateWrites DEF Accept
  <2>2. /\ x \in Store /\ x.active = t /\ x.queued = t /\ x.stop = FALSE /\ x.turn = store.turn
        /\ \A u \in Turn : Stored(x, u) <=> Stored(store, u)
    BY <1>1, <1>3 DEF StateSet, Store, Stored
  <2> HIDE DEF x
  <2>3. /\ row[t] = None /\ sent[t] = 0 /\ store.turn[t] = None
        /\ \A w \in Worker : settle[w] # None => settle[w].id # t
    BY <1>1, <1>3, UnknownTurn
  <2>4. /\ task' \in [Turn -> Task \cup {None}] /\ task'[t] = Fresh
        /\ \A u \in Turn \ {t} : task'[u] = None
        /\ accepted' \in [Turn -> BOOLEAN]
        /\ stopped' \in [Turn -> {None, "waiting", "active"}] /\ stopped'[t] = None
        /\ \A u \in Turn \ {t} : stopped'[u] = stopped[u]
    BY <1>1, <1>3, <1>4, <2>1, FreshTask DEF TypeOK
  <2>5. TypeOK'
    BY <1>1, <1>3, <2>1, <2>2, <2>4, ReturnTypes DEF TypeOK
  <2>6. OneTask'
    BY <2>1, <2>4, FreshTask DEF OneTask
  <2>7. Processes'
    BY <1>1, <1>4, <2>6, ReturnProcesses
  <2>8. RowsAre' /\ RowsGrow /\ Obeys
    <3>1. row' = row /\ sent' = sent
      BY <1>1
    <3> QED BY <1>1, <3>1, RowsUntouched DEF RowsAre
  <2>9. Kept(store, store')
    BY <2>1, <2>2 DEF Kept
  <2>10. StateSound(store)'
    BY <1>1, <1>3, <2>1, <2>2, <2>3 DEF StateSound
  <2>11. PayloadSound(store)'
    <3>1. store' = x /\ row' = row /\ sent' = sent /\ x.turn = store.turn
      BY <1>1, <2>1, <2>2
    <3>2. \A u \in Turn : u = t \/ stopped'[u] = stopped[u]
      BY <2>4
    <3>3. PayloadSound(store) /\ ~Stored(store, t)
      BY <1>1, <1>3 DEF Base
    <3> QED BY <3>1, <3>2, <3>3 DEF PayloadSound, Stored
  <2>12. SettlesSound(store)'
    <3> SUFFICES ASSUME NEW w \in Worker, settle[w] # None PROVE Closing(store, settle[w])'
      BY <1>1 DEF SettlesSound
    <3>1. settle[w].id \in Turn /\ Closing(store, settle[w]) /\ settle[w].id # t
      BY <1>1, <2>3, ClosingFacts
    <3>2. task'[settle[w].id] = None /\ Stored(x, settle[w].id)
      BY <2>2, <2>4, <3>1 DEF Closing
    <3> QED BY <1>1, <2>1, <2>2, <3>1, <3>2 DEF Closing, Stored
  <2>13. TasksSound(store)'
    <3>1. /\ task'[t] = Fresh /\ store'.active = t /\ ~Stored(store', t) /\ row'[t] = None
          /\ sent'[t] = 0 /\ stopped'[t] = None /\ store'.queued \in {None, t}
      BY <1>1, <1>3, <2>1, <2>2, <2>3, <2>4
    <3>2. TaskSound(store, t, task[t])'
      BY <1>3, <3>1, Begins
    <3> SUFFICES ASSUME NEW u \in Turn, task'[u] # None PROVE TaskSound(store, u, task[u])'
      BY DEF TasksSound
    <3>3. u = t
      BY <2>4
    <3> QED BY <3>2, <3>3
  <2>14. Base(store)'
    BY <2>1, <2>2, <2>10, <2>11, <2>12 DEF Base
  <2> QED BY <2>5, <2>7, <2>8, <2>9, <2>13, <2>14 DEF IInv, Advances
<1> QED BY <1>6, <1>7

(* The state changes; the payloads, the rows and the running tasks' places stay.      *)
LEMMA BaseOfState ==
  ASSUME TypeOK, Base(store), store' \in Store, store'.turn = store.turn,
         UNCHANGED <<row, sent, settle>>, StateSound(store)',
         \A u \in Turn : Stored(store, u) /\ store.turn[u].col.st = "cancelled" => stopped'[u] = "active",
         \A w \in Worker : settle[w] # None => settle[w].id # store'.queued,
         \A u \in Turn : InHands(task'[u]) => InHands(task[u]) \/ u = store'.queued
  PROVE  Base(store)'
<1>1. row' = row /\ sent' = sent /\ settle' = settle
  OBVIOUS
<1>2. PayloadSound(store)'
  BY <1>1 DEF Base, PayloadSound, Stored
<1>3. SettlesSound(store)'
  <2> SUFFICES ASSUME NEW w \in Worker, settle[w] # None PROVE Closing(store, settle[w])'
    BY <1>1 DEF SettlesSound
  <2>1. settle[w].id \in Turn /\ Closing(store, settle[w])
    BY ClosingFacts
  <2>2. task'[settle[w].id] # None => task'[settle[w].id].at \in Ending
    BY <2>1 DEF Closing, InHands, Ending
  <2> QED BY <1>1, <2>1, <2>2 DEF Closing, Stored, Ending
<1> QED BY <1>2, <1>3 DEF Base

LEMMA TaskStays ==
  ASSUME NEW u \in Turn, TaskSound(store, u, task[u]), task'[u] = task[u], UNCHANGED <<row, sent>>,
         stopped'[u] = stopped[u], store'.active = store.active, store'.stop = store.stop,
         store'.turn = store.turn, store'.queued # u,
         store'.queued # None => ~Stored(store, store'.queued)
  PROVE  TaskSound(store, u, task[u])'
<1>1. row' = row /\ sent' = sent
  OBVIOUS
<1> QED BY <1>1 DEF TaskSound, Stored, Open

LEMMA SubmitQueuesKeeps ==
  ASSUME IInv, NEW c \in Call, SubmitQueues(c) PROVE IInv' /\ Advances
<1>1. /\ TypeOK /\ Processes /\ RowsAre /\ Base(store) /\ TasksSound(store) /\ OneTask /\ store \in Store
      /\ call[c] # None /\ call[c].op \in {"submit"}
      /\ heal[c] # None /\ heal[c].at # "settle" /\ Return(c)
      /\ ~Stored(store, call[c].t) /\ store.active \notin {None, call[c].t} /\ store.queued = None
      /\ UNCHANGED <<row, up, current, task, settle, crashes, sent>>
  BY DEF IInv, Processes, Base, SubmitQueues, Queues, Returning, Healing
<1>2. PICK t \in Turn : t = call[c].t /\ t # None
  BY <1>1, NoneAssumption DEF Processes, Named
<1>3. t \in Turn /\ t # None /\ ~Stored(store, t) /\ store.active \in Turn /\ store.active # t
      /\ store.stop \in BOOLEAN
  BY <1>2, <1>1, StoreFields
<1> DEFINE x == StateSet(store, store.active, t, store.stop)
<1>4. PICK o \in ChangeState(store, store.active, t, store.stop) :
        store' = o.s /\ IF o.ok THEN Accept(t) ELSE UNCHANGED <<accepted, stopped>>
  BY <1>2 DEF SubmitQueues
<1>5. CASE ~o.ok
  <2>1. Leads(store, store') /\ Calm(store, store')
    BY <1>3, <1>4, <1>5, StateWrites
  <2> QED BY <1>1, <1>4, <1>5, <2>1, ReturnKeeps
<1>6. CASE o.ok
  <2>1. /\ store' = x
        /\ accepted' = [accepted EXCEPT ![t] = TRUE] /\ stopped' = [stopped EXCEPT ![t] = None]
    BY <1>3, <1>4, <1>6, StateWrites DEF Accept
  <2>2. /\ x \in Store /\ x.active = store.active /\ x.queued = t /\ x.stop = store.stop
        /\ x.turn = store.turn
    BY <1>1, <1>3 DEF StateSet, Store
  <2> HIDE DEF x
  <2>3. /\ row[t] = None /\ sent[t] = 0 /\ store.turn[t] = None
        /\ \A w \in Worker : settle[w] # None => settle[w].id # t
    BY <1>1, <1>3, UnknownTurn
  <2>4. /\ accepted' \in [Turn -> BOOLEAN]
        /\ stopped' \in [Turn -> {None, "waiting", "active"}] /\ stopped'[t] = None
        /\ \A u \in Turn \ {t} : stopped'[u] = stopped[u]
    BY <1>1, <1>3, <2>1 DEF TypeOK
  <2>5. TypeOK'
    BY <1>1, <1>3, <2>1, <2>2, <2>4, ReturnTypes DEF TypeOK
  <2>6. Processes'
    <3>1. OneTask'
      BY <1>1 DEF OneTask
    <3> QED BY <1>1, <3>1, ReturnProcesses
  <2>7. RowsAre' /\ RowsGrow /\ Obeys
    <3>1. row' = row /\ sent' = sent
      BY <1>1
    <3> QED BY <1>1, <3>1, RowsUntouched DEF RowsAre
  <2>8. Kept(store, store')
    BY <2>1, <2>2 DEF Kept, Stored
  <2>9. StateSound(store)'
    <3>1. store' = x /\ row' = row /\ sent' = sent /\ StateSound(store)
      BY <1>1, <2>1 DEF Base
    <3>2. stopped'[store.active] = stopped[store.active]
      BY <1>3, <2>4
    <3> QED BY <2>2, <2>3, <2>4, <3>1, <3>2 DEF StateSound
  <2>10. Base(store)'
    <3>1. \A u \in Turn : Stored(store, u) /\ store.turn[u].col.st = "cancelled" => stopped'[u] = "active"
      BY <1>1, <1>3, <2>4 DEF Base, PayloadSound
    <3> QED BY <1>1, <2>1, <2>2, <2>3, <2>9, <3>1, BaseOfState
  <2>11. TasksSound(store)'
    <3> SUFFICES ASSUME NEW u \in Turn, task'[u] # None PROVE TaskSound(store, u, task[u])'
      BY DEF TasksSound
    <3>1. task'[u] = task[u] /\ TaskSound(store, u, task[u])
      BY <1>1 DEF TasksSound
    <3>2. u # t /\ stopped'[u] = stopped[u]
      BY <1>3, <2>4, <3>1 DEF TaskSound
    <3> QED BY <1>1, <1>3, <2>1, <2>2, <3>1, <3>2, TaskStays
  <2> QED BY <2>5, <2>6, <2>7, <2>8, <2>10, <2>11 DEF IInv, Advances
<1> QED BY <1>5, <1>6

(* The stopped turn's task: at most its controller is aborted. *)
LEMMA TaskStopped ==
  ASSUME NEW t \in Turn, TaskSound(store, t, task[t]), UNCHANGED <<row, sent>>,
         task[t] \in Task,
         \/ task'[t] = task[t] /\ ~Stoppable(task[t])
         \/ task'[t] = [task[t] EXCEPT !.abort = TRUE] /\ Stoppable(task[t]),
         stopped'[t] = "active", store'.stop, store'.active = store.active,
         store'.queued = store.queued, store'.turn = store.turn
  PROVE  TaskSound(store, t, task[t])'
<1> DEFINE k == task[t]
           j == [k EXCEPT !.abort = TRUE]
<1>1. row' = row /\ sent' = sent
  OBVIOUS
<1>2. CASE task'[t] = k /\ ~Stoppable(k)
  <2>1. k.at \notin Busy
    BY <1>2, NoneAssumption DEF Stoppable, Busy
  <2> QED BY <1>1, <1>2, <2>1 DEF TaskSound, Stored, Open
<1>3. CASE task'[t] = j /\ Stoppable(k)
  <2>1. k.at \in Busy
    BY <1>3 DEF Stoppable, Busy
  <2>2. j.at = k.at /\ j.v = k.v /\ j.disp = k.disp /\ j.lost = k.lost /\ j.abort
    BY DEF Task
  <2>3. k.at # "project" /\ k.at # "final"
    BY <2>1 DEF Busy
  <2> HIDE DEF j
  <2> QED BY <1>1, <1>3, <2>1, <2>2, <2>3 DEF TaskSound, Stored, Open
<1> QED BY <1>2, <1>3

LEMMA WithdrawKeeps ==
  ASSUME IInv, NEW c \in Call, StopTurn(c), Withdraws(c),
         \E o \in DropQueued(store) :
           store' = o.s /\ stopped' = [stopped EXCEPT ![call[c].t] = IF o.ok THEN "waiting" ELSE @],
         UNCHANGED task
  PROVE  IInv' /\ Advances
<1>1. /\ TypeOK /\ Processes /\ RowsAre /\ Base(store) /\ TasksSound(store) /\ OneTask /\ store \in Store
      /\ call[c] # None /\ call[c].op = "stop"
      /\ heal[c] # None /\ heal[c].at # "settle" /\ Return(c)
      /\ UNCHANGED <<row, up, current, task, settle, crashes, sent, accepted>>
  BY DEF IInv, Processes, Base, StopTurn, Withdraws, Returning, Healing
<1>2. PICK t \in Turn : t = call[c].t /\ t # None /\ store.queued = t /\ store.active # t
  BY <1>1, NoneAssumption DEF Processes, Named, Withdraws
<1>3. PICK o \in DropQueued(store) :
        store' = o.s /\ stopped' = [stopped EXCEPT ![t] = IF o.ok THEN "waiting" ELSE @]
  BY <1>2
<1>4. /\ Leads(store, o.s)
      /\ o.s.active = store.active /\ o.s.stop = store.stop /\ o.s.turn = store.turn
      /\ IF o.ok THEN o.s.queued = None ELSE o.s.queued = store.queued
  BY <1>1, DropQueuedLeads
<1>5. stopped \in [Turn -> {None, "waiting", "active"}]
  BY <1>1 DEF TypeOK
<1>6. CASE ~o.ok
  <2>1. UNCHANGED stopped /\ Leads(store, store') /\ Calm(store, store')
    BY <1>3, <1>4, <1>5, <1>6 DEF Calm
  <2> QED BY <1>1, <2>1, ReturnKeeps
<1>7. CASE o.ok
  <2>1. /\ stopped' \in [Turn -> {None, "waiting", "active"}] /\ stopped'[t] = "waiting"
        /\ \A u \in Turn \ {t} : stopped'[u] = stopped[u]
    BY <1>2, <1>3, <1>5, <1>7
  <2>2. /\ store' \in Store /\ Kept(store, store') /\ store'.queued = None
        /\ store'.active = store.active /\ store'.stop = store.stop /\ store'.turn = store.turn
    BY <1>3, <1>4, <1>7 DEF Leads, Base
  <2>3. store.turn[t] \in {None, Started, Unsent}
    BY <1>1, <1>2 DEF Base, StateSound
  <2>4. TypeOK'
    BY <1>1, <2>1, <2>2, ReturnTypes DEF TypeOK
  <2>5. Processes'
    <3>1. OneTask'
      BY <1>1 DEF OneTask
    <3> QED BY <1>1, <3>1, ReturnProcesses
  <2>6. RowsAre' /\ RowsGrow /\ Obeys
    <3>1. row' = row /\ sent' = sent
      BY <1>1
    <3> QED BY <1>1, <3>1, RowsUntouched DEF RowsAre
  <2>7. StateSound(store)'
    <3>1. store.stop => store.active # None /\ stopped[store.active] = "active"
      BY <1>1 DEF Base, StateSound
    <3>2. store.active \in Turn \cup {None} /\ store.active # t
      BY <1>1, <1>2, StoreFields
    <3> QED BY <2>1, <2>2, <3>1, <3>2 DEF StateSound
  <2>8. Base(store)'
    <3>1. \A u \in Turn : Stored(store, u) /\ store.turn[u].col.st = "cancelled" => stopped'[u] = "active"
      <4>1. store.turn[t] # None => store.turn[t].col.st # "cancelled"
        BY <2>3, FixedPayloads DEF IsStarted
      <4> QED BY <1>1, <2>1, <4>1 DEF Base, PayloadSound, Stored
    <3>2. \A w \in Worker : settle[w] # None => settle[w].id # None
      BY <1>1, ClosingFacts, NoneAssumption
    <3> QED BY <1>1, <2>2, <2>7, <3>1, <3>2, BaseOfState
  <2>9. TasksSound(store)'
    <3> SUFFICES ASSUME NEW u \in Turn, task'[u] # None PROVE TaskSound(store, u, task[u])'
      BY DEF TasksSound
    <3>1. task'[u] = task[u] /\ TaskSound(store, u, task[u])
      BY <1>1 DEF TasksSound
    <3>2. u # t /\ u # None /\ stopped'[u] = stopped[u]
      BY <1>2, <2>1, <3>1, NoneAssumption DEF TaskSound
    <3> QED BY <1>1, <2>2, <3>1, <3>2, TaskStays
  <2> QED BY <2>2, <2>4, <2>5, <2>6, <2>8, <2>9 DEF IInv, Advances
<1> QED BY <1>6, <1>7

LEMMA StopRunningKeeps ==
  ASSUME IInv, NEW c \in Call, StopTurn(c), Stops(c),
         \E o \in ChangeState(store, store.active, store.queued, TRUE) :
           /\ store' = o.s
           /\ stopped' = [stopped EXCEPT ![call[c].t] = IF o.ok THEN "active" ELSE @]
           /\ task' = IF o.ok /\ Stoppable(task[call[c].t]) THEN [task EXCEPT ![call[c].t].abort = TRUE] ELSE task
  PROVE  IInv' /\ Advances
<1>1. /\ TypeOK /\ Processes /\ RowsAre /\ Base(store) /\ TasksSound(store) /\ OneTask /\ store \in Store
      /\ call[c] # None /\ call[c].op = "stop"
      /\ heal[c] # None /\ heal[c].at # "settle" /\ Return(c)
      /\ UNCHANGED <<row, up, current, settle, crashes, sent, accepted>>
  BY DEF IInv, Processes, Base, StopTurn, Stops, Returning, Healing
<1>2. PICK t \in Turn : t = call[c].t /\ t # None /\ store.active = t
  BY <1>1, NoneAssumption DEF Processes, Named, Stops
<1>3. PICK o \in ChangeState(store, store.active, store.queued, TRUE) :
        /\ store' = o.s
        /\ stopped' = [stopped EXCEPT ![t] = IF o.ok THEN "active" ELSE @]
        /\ task' = IF o.ok /\ Stoppable(task[t]) THEN [task EXCEPT ![t].abort = TRUE] ELSE task
  BY <1>2
<1>4. store.active \in Turn \cup {None} /\ store.queued \in Turn \cup {None}
  BY <1>1, StoreFields
<1>5. stopped \in [Turn -> {None, "waiting", "active"}] /\ task \in [Turn -> Task \cup {None}]
  BY <1>1 DEF TypeOK
<1> DEFINE x == StateSet(store, store.active, store.queued, TRUE)
<1>6. CASE ~o.ok
  <2>1. Leads(store, store') /\ Calm(store, store')
    BY <1>3, <1>4, <1>6, StateWrites
  <2>2. UNCHANGED <<stopped, task>>
    BY <1>3, <1>5, <1>6
  <2> QED BY <1>1, <2>1, <2>2, ReturnKeeps
<1>7. CASE o.ok
  <2>1. store' = x
    BY <1>3, <1>4, <1>7, StateWrites
  <2>2. /\ x \in Store /\ x.active = store.active /\ x.queued = store.queued /\ x.stop
        /\ x.turn = store.turn
    BY <1>1, <1>4 DEF StateSet, Store
  <2> HIDE DEF x
  <2>3. /\ stopped' \in [Turn -> {None, "waiting", "active"}] /\ stopped'[t] = "active"
        /\ \A u \in Turn \ {t} : stopped'[u] = stopped[u]
    BY <1>2, <1>3, <1>5, <1>7
  <2>4. /\ task' \in [Turn -> Task \cup {None}]
        /\ \A u \in Turn \ {t} : task'[u] = task[u]
        /\ IF Stoppable(task[t]) THEN task'[t] = [task[t] EXCEPT !.abort = TRUE] ELSE task'[t] = task[t]
        /\ task[t] # None => task[t] \in Task /\ task'[t] # None /\ task'[t].at = task[t].at
        /\ task[t] = None => task'[t] = None
    <3>1. CASE Stoppable(task[t])
      <4>1. task[t] \in Task /\ task[t] # None
        BY <1>2, <1>5, <3>1 DEF Stoppable
      <4>2. [task[t] EXCEPT !.abort = TRUE] \in Task /\ [task[t] EXCEPT !.abort = TRUE].at = task[t].at
        BY <4>1 DEF Task
      <4>3. [task[t] EXCEPT !.abort = TRUE] # None
        BY <4>2, NoneAssumption
      <4>4. task' = [task EXCEPT ![t] = [task[t] EXCEPT !.abort = TRUE]]
        BY <1>2, <1>3, <1>5, <1>7, <3>1
      <4> QED BY <1>2, <1>5, <3>1, <4>1, <4>2, <4>3, <4>4
    <3>2. CASE ~Stoppable(task[t])
      BY <1>2, <1>3, <1>5, <1>7, <3>2
    <3> QED BY <3>1, <3>2
  <2>5. TypeOK'
    BY <1>1, <2>1, <2>2, <2>3, <2>4, ReturnTypes DEF TypeOK
  <2>6. Processes'
    <3>1. OneTask'
      BY <1>1, <2>4 DEF OneTask, TypeOK
    <3>2. \A u \in Turn : task[u] # None => task'[u] # None /\ task'[u].at = task[u].at
      BY <2>4
    <3> QED BY <1>1, <3>1, <3>2, ReturnProcesses
  <2>7. RowsAre' /\ RowsGrow /\ Obeys
    <3>1. row' = row /\ sent' = sent
      BY <1>1
    <3> QED BY <1>1, <3>1, RowsUntouched DEF RowsAre
  <2>8. Kept(store, store')
    BY <2>1, <2>2 DEF Kept, Stored
  <2>9. StateSound(store)'
    <3>1. StateSound(store) /\ row' = row /\ sent' = sent
      BY <1>1 DEF Base
    <3>2. store.queued # None /\ store.queued # t => stopped'[store.queued] = stopped[store.queued]
      BY <1>4, <2>3
    <3> QED BY <1>2, <2>1, <2>2, <2>3, <3>1, <3>2 DEF StateSound
  <2>10. Base(store)'
    <3>1. \A u \in Turn : Stored(store, u) /\ store.turn[u].col.st = "cancelled" => stopped'[u] = "active"
      BY <1>1, <2>3 DEF Base, PayloadSound
    <3>2. \A w \in Worker : settle[w] # None => settle[w].id # store'.queued
      BY <1>1, <2>1, <2>2, ClosingFacts
    <3>3. \A u \in Turn : InHands(task'[u]) => InHands(task[u])
      BY <2>4 DEF InHands
    <3> QED BY <1>1, <2>1, <2>2, <2>9, <3>1, <3>2, <3>3, BaseOfState
  <2>11. TasksSound(store)'
    <3> SUFFICES ASSUME NEW u \in Turn, task'[u] # None PROVE TaskSound(store, u, task[u])'
      BY DEF TasksSound
    <3>1. task[u] # None /\ TaskSound(store, u, task[u])
      BY <1>1, <2>4 DEF TasksSound
    <3>2. u = t
      BY <1>2, <3>1 DEF TaskSound
    <3>3. TaskSound(store, t, task[t])'
      <4>1. /\ task[t] \in Task /\ TaskSound(store, t, task[t]) /\ stopped'[t] = "active" /\ store'.stop
            /\ store'.active = store.active /\ store'.queued = store.queued /\ store'.turn = store.turn
        BY <2>1, <2>2, <2>3, <2>4, <3>1, <3>2
      <4>2. UNCHANGED <<row, sent>>
        BY <1>1
      <4>3. \/ task'[t] = task[t] /\ ~Stoppable(task[t])
            \/ task'[t] = [task[t] EXCEPT !.abort = TRUE] /\ Stoppable(task[t])
        BY <2>4
      <4> QED BY <1>2, <4>1, <4>2, <4>3, TaskStopped
    <3> QED BY <3>2, <3>3
  <2> QED BY <2>5, <2>6, <2>7, <2>8, <2>10, <2>11 DEF IInv, Advances
<1> QED BY <1>6, <1>7

LEMMA StopTurnKeeps ==
  ASSUME IInv, NEW c \in Call, StopTurn(c) PROVE IInv' /\ Advances
BY WithdrawKeeps, StopRunningKeeps DEF StopTurn

-----------------------------------------------------------------------------
(* Restarts.                                                                     *)
LEMMA CrashKeeps ==
  ASSUME IInv, Crash PROVE IInv' /\ Advances
<1>1. /\ TypeOK /\ Processes /\ RowsAre /\ Base(store) /\ store \in Store
      /\ up' = "down" /\ crashes < MaxCrashes /\ crashes' = crashes + 1 /\ current' = None
      /\ task' = [t \in Turn |-> None]
      /\ heal' = [w \in Worker |-> None] /\ settle' = [w \in Worker |-> None]
      /\ call' = [c \in Call |-> None]
      /\ UNCHANGED <<store, row, sent, accepted, stopped>>
  BY DEF IInv, Base, Crash, history
<1>2. /\ \A t \in Turn : task'[t] = None
      /\ \A w \in Worker : heal'[w] = None /\ settle'[w] = None
      /\ \A c \in Call : call'[c] = None
  BY <1>1
<1>3. crashes' \in 0 .. MaxCrashes
  BY <1>1, BoundAssumption DEF TypeOK
<1>4. TypeOK'
  BY <1>1, <1>3 DEF TypeOK
<1>5. Processes'
  BY <1>1, <1>2 DEF Processes, SettleOwned, HealOwned, Resting, Named, OneTask
<1>6. RowsAre' /\ RowsGrow /\ Obeys
  BY <1>1, RowsUntouched DEF RowsAre
<1>7. Base(store)'
  BY <1>1, <1>2, <1>4, BaseFrame DEF InHands
<1>8. TasksSound(store)'
  BY <1>2 DEF TasksSound
<1>9. Kept(store, store')
  BY <1>1, KeptItself
<1> QED BY <1>4, <1>5, <1>6, <1>7, <1>8, <1>9 DEF IInv, Advances

LEMMA BootKeeps ==
  ASSUME IInv, Boot PROVE IInv' /\ Advances
<1>1. /\ TypeOK /\ Processes /\ RowsAre /\ Base(store) /\ TasksSound(store) /\ OneTask /\ store \in Store
      /\ up = "down" /\ current = None /\ \A c \in Call : call[c] = None
      /\ UNCHANGED <<row, current, task, call, crashes, sent, accepted, stopped>>
  BY DEF IInv, Base, Processes, Resting, Boot, history
<1>2. \A t \in Turn : task[t] = None
  BY <1>1, NoneAssumption DEF OneTask
<1>3. \A w \in Worker : heal[w] = None /\ settle[w] = None
  BY <1>1, <1>2 DEF Processes, HealOwned, SettleOwned
<1>4. "boot" \in Worker
  BY DEF Worker
<1>5. PICK o \in Then(Then(KeepQueued(store), MarkActive), ClearState) :
        IF o.ok THEN HealStart("boot", o.s) /\ up' = "boot"
        ELSE store' = o.s /\ UNCHANGED <<up, heal, settle>>
  BY DEF Boot
<1>6. Leads(store, o.s)
  BY <1>1, <1>5, BootLeads
<1>7. Base(o.s) /\ o.s \in Store /\ TasksSound(o.s) /\ Calm(store, o.s) /\ Kept(store, o.s)
  BY <1>1, <1>6, NoTasks DEF Leads, Base, Calm
<1>8. RowsAre' /\ RowsGrow /\ Obeys
  BY <1>1, RowsUntouched DEF RowsAre
<1>9. Resting' /\ Named' /\ OneTask' /\ TasksSound(store)'
  BY <1>1, <1>2 DEF Processes, Resting, Named, OneTask, TasksSound
<1>10. CASE ~o.ok
  <2>1. store' = o.s /\ UNCHANGED <<up, heal, settle>>
    BY <1>5, <1>10
  <2>2. TypeOK'
    BY <1>1, <1>7, <2>1 DEF TypeOK
  <2>3. SettleOwned' /\ HealOwned'
    BY <1>3, <2>1 DEF SettleOwned, HealOwned
  <2>4. Base(store)'
    BY <1>1, <1>7, <2>1, <2>2, BaseFrame
  <2> QED BY <1>7, <1>8, <1>9, <2>1, <2>2, <2>3, <2>4 DEF IInv, Processes, Advances
<1>11. CASE o.ok
  <2>1. HealStart("boot", o.s) /\ up' = "boot"
    BY <1>5, <1>11
  <2>2. Recovers("boot", o.s)
    BY <1>1, <1>4, <1>7, <2>1, HealStartRecovers
  <2>3. Recovers("boot", store)
    BY <1>1, <1>6, <1>7, <2>2, RecoversFrom
  <2>4. /\ store' \in Store
        /\ heal' \in [Worker -> Heal \cup {None}] /\ settle' \in [Worker -> Settle \cup {None}]
        /\ heal'["boot"] # None /\ \A u \in Worker \ {"boot"} : heal'[u] = heal[u] /\ settle'[u] = settle[u]
        /\ settle'["boot"] # None => heal'["boot"].at = "settle"
        /\ \A u \in Worker : settle'[u] # None =>
             (settle[u] # None /\ settle'[u] = settle[u]) \/ Closing(store', settle'[u])
        /\ Base(store') /\ Kept(store, store') /\ Calm(store, store')
    BY <1>1, <1>3, <1>4, <2>3, RecoversStep
  <2>5. TypeOK'
    BY <1>1, <2>1, <2>4 DEF TypeOK
  <2>6. SettleOwned' /\ HealOwned'
    BY <1>3, <2>1, <2>4 DEF SettleOwned, HealOwned
  <2>7. Base(store)'
    BY <1>1, <2>4, <2>5, BaseFrame
  <2> QED BY <1>8, <1>9, <2>4, <2>5, <2>6, <2>7 DEF IInv, Processes, Advances
<1> QED BY <1>10, <1>11

LEMMA BootDoneKeeps ==
  ASSUME IInv, BootDone PROVE IInv' /\ Advances
<1>1. /\ TypeOK /\ Processes /\ RowsAre /\ Base(store) /\ TasksSound(store) /\ store \in Store
      /\ up = "boot" /\ heal["boot"].at \in {"done", "threw"} /\ up' \in {"up", "down"}
      /\ heal' = [heal EXCEPT !["boot"] = None]
      /\ UNCHANGED <<store, row, current, task, settle, call, crashes, sent, accepted, stopped>>
  BY DEF IInv, Base, BootDone, Healed, history
<1>2. "boot" \in Worker /\ "boot" \notin Turn
  BY IdAssumption DEF Worker
<1>3. /\ heal' \in [Worker -> Heal \cup {None}] /\ heal'["boot"] = None
      /\ \A u \in Worker \ {"boot"} : heal'[u] = heal[u]
  BY <1>1, <1>2 DEF TypeOK
<1>4. settle["boot"] = None
  BY <1>1, <1>2 DEF Processes, SettleOwned
<1>5. TypeOK'
  BY <1>1, <1>3 DEF TypeOK
<1>6. Processes'
  <2>1. SettleOwned'
    BY <1>1, <1>3, <1>4 DEF Processes, SettleOwned
  <2>2. HealOwned'
    BY <1>1, <1>3 DEF Processes, HealOwned
  <2>3. Resting' /\ Named' /\ OneTask'
    BY <1>1 DEF Processes, Resting, Named, OneTask
  <2> QED BY <2>1, <2>2, <2>3 DEF Processes
<1>7. RowsAre' /\ RowsGrow /\ Obeys
  BY <1>1, RowsUntouched DEF RowsAre
<1>8. Base(store)'
  BY <1>1, <1>5, BaseFrame
<1>9. Calm(store, store') /\ Kept(store, store')
  BY <1>1, KeptItself DEF Calm
<1>10. TasksSound(store)'
  BY <1>1, <1>9, CalmTasks DEF Processes
<1> QED BY <1>5, <1>6, <1>7, <1>8, <1>9, <1>10 DEF IInv, Advances

-----------------------------------------------------------------------------
(* runTurn.                                                                      *)
LEMMA RunningFacts ==
  ASSUME IInv, NEW t \in Turn, task[t] # None
  PROVE  /\ task[t] \in Task /\ TaskSound(store, t, task[t]) /\ t # None
         /\ current = t /\ up = "up" /\ store.active = t /\ store \in Store
         /\ \A u \in Turn \ {t} : task[u] = None
         /\ task[t].at # "heal" => heal[t] = None
         /\ task[t].at \notin {"heal", "settle"} => settle[t] = None
         /\ task[t].at \notin Ending => \A w \in Worker : settle[w] # None => settle[w].id # t
<1>1. /\ TypeOK /\ Processes /\ Base(store) /\ TasksSound(store) /\ OneTask /\ t # None
  BY NoneAssumption DEF IInv, Processes
<1>2. task[t] \in Task /\ TaskSound(store, t, task[t]) /\ store.active = t /\ store \in Store
  BY <1>1 DEF TypeOK, TasksSound, TaskSound, Base
<1>3. current = t /\ \A u \in Turn \ {t} : task[u] = None
  BY <1>1 DEF OneTask
<1>4. up = "up"
  BY <1>1, <1>3 DEF Processes, Resting
<1>5. t \in Worker /\ t \notin Call /\ t # "boot"
  BY IdAssumption DEF Worker
<1>6. task[t].at # "heal" => heal[t] = None
  BY <1>1, <1>5 DEF Processes, HealOwned
<1>7. task[t].at \notin {"heal", "settle"} => settle[t] = None
  BY <1>1, <1>5, <1>6 DEF Processes, SettleOwned
<1>8. task[t].at \notin Ending => \A w \in Worker : settle[w] # None => settle[w].id # t
  BY <1>1, ClosingFacts DEF Closing, Ending
<1> QED BY <1>1, <1>2, <1>3, <1>4, <1>6, <1>7, <1>8

(* The running task goes to another place of its own. *)
LEMMA OwnProcesses ==
  ASSUME TypeOK, Processes, NEW t \in Turn, task[t] # None, current = t,
         task' \in [Turn -> Task \cup {None}], task'[t] # None, \A u \in Turn \ {t} : task'[u] = None,
         \A u \in Turn \ {t} : task[u] = None, heal[t] = None, settle[t] = None,
         UNCHANGED <<up, current, heal, settle, call>>
  PROVE  Processes'
<1>1. SettleOwned'
  BY DEF Processes, SettleOwned
<1>2. HealOwned'
  BY DEF Processes, HealOwned
<1>3. Resting' /\ Named' /\ OneTask'
  BY DEF Processes, Resting, Named, OneTask
<1> QED BY <1>1, <1>2, <1>3 DEF Processes

PayloadAt(s, t) ==
  /\ row[t] # None => Stored(s, t) /\ (row[t].st # "started" => s.turn[t].col = row[t])
  /\ Stored(s, t) =>
       LET v == s.turn[t] IN
       /\ ~IsStarted(v) /\ ~v.pend => row[t] = v.col \/ (row[t] = None /\ sent[t] = 0)
       /\ v.col.use = 0 => sent[t] = 0
       /\ v.col.st = "cancelled" => stopped[t] = "active"

(* A step of the running turn that nobody settles: only what is its own changes.     *)
LEMMA OwnBase ==
  ASSUME TypeOK, TypeOK', Base(store), NEW t \in Turn,
         \A w \in Worker : settle[w] # None => settle[w].id # t,
         \A w \in Worker : settle'[w] # None =>
           (settle[w] # None /\ settle'[w] = settle[w]) \/ Closing(store, settle[w])',
         store'.active = store.active, store'.stop = store.stop,
         store'.queued = store.queued \/ store'.queued = None,
         store'.queued = t => row'[t] = None /\ sent'[t] = 0 /\ store'.turn[t] \in {None, Started, Unsent},
         \A u \in Turn \ {t} : /\ store'.turn[u] = store.turn[u] /\ row'[u] = row[u] /\ sent'[u] = sent[u]
                               /\ task'[u] = None,
         UNCHANGED stopped, PayloadAt(store, t)'
  PROVE  Base(store)'
<1>1. StateSound(store)'
  <2>1. store'.queued \in Turn \cup {None}
    BY StoreFields DEF TypeOK
  <2>2. CASE store'.queued = None
    BY <2>2 DEF Base, StateSound
  <2>3. CASE store'.queued = t
    BY <2>3 DEF Base, StateSound
  <2>4. CASE store'.queued \in Turn \ {t}
    BY <2>4 DEF Base, StateSound
  <2> QED BY <2>1, <2>2, <2>3, <2>4
<1>2. PayloadSound(store)'
  <2>1. ASSUME NEW u \in Turn PROVE PayloadAt(store, u)'
    <3>1. CASE u # t
      BY <3>1 DEF Base, PayloadSound, PayloadAt, Stored
    <3> QED BY <3>1
  <2> QED BY <2>1 DEF PayloadSound, PayloadAt
<1>3. SettlesSound(store)'
  <2> SUFFICES ASSUME NEW w \in Worker, settle'[w] # None PROVE Closing(store, settle[w])'
    BY DEF SettlesSound
  <2>1. CASE settle[w] # None /\ settle'[w] = settle[w]
    <3>1. settle[w].id \in Turn \ {t} /\ Closing(store, settle[w]) /\ settle[w].id # None
      BY <2>1, ClosingFacts, NoneAssumption
    <3> QED BY <2>1, <3>1 DEF Closing, Stored
  <2>2. CASE ~(settle[w] # None /\ settle'[w] = settle[w])
    BY <2>2
  <2> QED BY <2>1, <2>2
<1>4. store' \in Store
  BY DEF TypeOK
<1> QED BY <1>1, <1>2, <1>3, <1>4 DEF Base

(* The payload that a running turn keeps stored until its end. *)
Live(s, t) == /\ Stored(s, t) /\ IsStarted(s.turn[t]) /\ s.turn[t].col.use = None
              /\ s.queued # t /\ Open(row[t])

LEMMA OwnWrite ==
  ASSUME IInv, NEW t \in Turn, NEW v \in Payload, NEW o \in WriteTurn(store, t, v)
  PROVE  /\ o.s \in Store
         /\ o.s.active = store.active /\ o.s.queued = store.queued /\ o.s.stop = store.stop
         /\ \A u \in Turn \ {t} : o.s.turn[u] = store.turn[u]
         /\ IF o.ok THEN o.s.turn[t] = v /\ Stored(o.s, t) ELSE o.s.turn = store.turn
<1>1. store \in Store
  BY DEF IInv, Base
<1>2. /\ TurnSet(store, t, v) \in Store
      /\ TurnSet(store, t, v).active = store.active /\ TurnSet(store, t, v).queued = store.queued
      /\ TurnSet(store, t, v).stop = store.stop
      /\ TurnSet(store, t, v).turn[t] = v /\ Stored(TurnSet(store, t, v), t)
      /\ \A u \in Turn \ {t} : TurnSet(store, t, v).turn[u] = store.turn[u]
  BY <1>1, TurnSetFields
<1>3. o \in Write(store, TurnSet(store, t, v))
  BY DEF WriteTurn, TurnSet
<1>4. \/ o.ok /\ o.s = TurnSet(store, t, v)
      \/ ~o.ok /\ o.s = Faulted(store) /\ store.faults < MaxFaults
  BY <1>1, <1>2, <1>3, Writes
<1>5. CASE o.ok /\ o.s = TurnSet(store, t, v)
  BY <1>2, <1>5
<1>6. CASE ~o.ok /\ o.s = Faulted(store) /\ store.faults < MaxFaults
  BY <1>1, <1>6, FaultedFields
<1> QED BY <1>4, <1>5, <1>6

LEMMA TaskPlaced ==
  ASSUME TypeOK, NEW t \in Turn, NEW k \in Task, NEW at \in {"project", "settings", "insert", "admit",
           "recheck", "heal", "scope", "stream", "final", "settle", "advance"}, TaskTo(t, k, at)
  PROVE  /\ task' \in [Turn -> Task \cup {None}] /\ task'[t] \in Task /\ task'[t] # None
         /\ task'[t].at = at /\ task'[t].v = k.v /\ task'[t].abort = k.abort /\ task'[t].disp = k.disp
         /\ task'[t].lost = k.lost /\ task'[t].used = k.used
         /\ \A u \in Turn \ {t} : task'[u] = task[u]
<1> DEFINE j == [k EXCEPT !.at = at]
<1>1. /\ j \in Task /\ j.at = at /\ j.v = k.v /\ j.abort = k.abort /\ j.disp = k.disp
      /\ j.lost = k.lost /\ j.used = k.used
  BY DEF Task
<1>2. j # None
  BY <1>1, NoneAssumption
<1>3. task' = [task EXCEPT ![t] = j] /\ task \in [Turn -> Task \cup {None}]
  BY DEF TaskTo, TypeOK
<1> HIDE DEF j
<1> QED BY <1>1, <1>2, <1>3

LEMMA EndedFields ==
  ASSUME NEW k \in Task
  PROVE  /\ Ended(k) \in Task /\ ~IsStarted(Ended(k).v) /\ Ended(k).v.pend = k.v.pend
         /\ Ended(k).v.col.use = k.v.col.use /\ Ended(k).disp = k.disp
         /\ Ended(k).v.col.st = "cancelled" => k.abort /\ ~k.lost
<1> DEFINE st == IF k.v.col.ans THEN "partial"
                 ELSE IF k.abort /\ store.stop /\ ~k.lost THEN "cancelled" ELSE "failed"
           c == [k.v.col EXCEPT !.st = st]
           v == [k.v EXCEPT !.col = c]
           e == [k EXCEPT !.v = v, !.abort = FALSE, !.lost = FALSE]
<1>1. k.v \in Payload /\ k.v.col \in Columns
  BY PayloadFields DEF Task
<1>2. st \in {"partial", "cancelled", "failed"} /\ (st = "cancelled" => k.abort /\ ~k.lost)
  OBVIOUS
<1> HIDE DEF st
<1>3. c \in Columns /\ c.st = st /\ c.use = k.v.col.use
  BY <1>1, <1>2 DEF Columns, Terminal
<1> HIDE DEF c
<1>4. v \in Payload /\ v.col = c /\ v.pend = k.v.pend
  BY <1>1, <1>3 DEF Payload
<1> HIDE DEF v
<1>5. e \in Task /\ e.v = v /\ e.disp = k.disp
  BY <1>4 DEF Task
<1>6. Ended(k) = e
  BY <1>1 DEF Ended, Task, Payload, Columns, e, v, c, st
<1> HIDE DEF e
<1> QED BY <1>2, <1>3, <1>4, <1>5, <1>6 DEF IsStarted

(* runTurn fails: what its catch will store tells what happened. *)
LEMMA FailsSound ==
  ASSUME TypeOK, NEW t \in Turn, NEW k \in Task, TaskFails(t, k), Live(store, t)',
         store'.active = t, store'.queued \notin {None, t} => ~Stored(store', store'.queued),
         sent'[t] # 0 => k.disp, k.v.col.use = None, ~k.v.pend => row'[t] = None,
         k.abort /\ ~k.lost => stopped'[t] = "active"
  PROVE  /\ TaskSound(store, t, task[t])'
         /\ task' \in [Turn -> Task \cup {None}] /\ task'[t] # None
         /\ \A u \in Turn \ {t} : task'[u] = task[u]
<1>1. /\ Ended(k) \in Task /\ ~IsStarted(Ended(k).v) /\ Ended(k).v.pend = k.v.pend
      /\ Ended(k).v.col.use = k.v.col.use /\ Ended(k).disp = k.disp
      /\ Ended(k).v.col.st = "cancelled" => k.abort /\ ~k.lost
  BY EndedFields
<1>2. /\ task' \in [Turn -> Task \cup {None}] /\ task'[t] # None
      /\ task'[t].at = "final" /\ task'[t].v = Ended(k).v /\ task'[t].disp = Ended(k).disp
      /\ \A u \in Turn \ {t} : task'[u] = task[u]
  BY <1>1, TaskPlaced DEF TaskFails
<1> QED BY <1>1, <1>2 DEF TaskSound, Live, Before, Busy, Admitted, Stored, Open

(* A step of runTurn between its first checkpoint and its last. *)
LEMMA BusyKeeps ==
  ASSUME IInv, NEW t \in Turn, task[t] # None, task[t].at \in Busy, TypeOK', Processes',
         task'[t] # None, \A u \in Turn \ {t} : task'[u] = None, TaskSound(store, t, task[t])',
         Live(store, t)',
         store'.active = store.active, store'.queued = store.queued, store'.stop = store.stop,
         \A u \in Turn \ {t} : store'.turn[u] = store.turn[u] /\ row'[u] = row[u] /\ sent'[u] = sent[u],
         sent'[t] <= 1, sent'[t] # 0 => row'[t] # None,
         row'[t] # None => row'[t].use = None,
         row[t] # None => /\ row[t].limit # None => row'[t].limit # None
                          /\ row[t].scope => row'[t].scope,
         stopped[t] # None /\ sent[t] = 0 => sent'[t] = 0,
         UNCHANGED <<settle, stopped>>
  PROVE  IInv' /\ Advances
<1>1. TypeOK /\ Processes /\ RowsAre /\ Base(store) /\ task[t].at \notin Ending
  BY DEF IInv, Busy, Ending
<1>2. \A w \in Worker : settle[w] # None => settle[w].id # t
  BY <1>1, RunningFacts
<1>3. TaskSound(store, t, task[t])
  BY RunningFacts
<1>4. Stored(store, t) /\ IsStarted(store.turn[t]) /\ store.queued # t
  BY <1>3 DEF TaskSound
<1>5. PayloadAt(store, t)'
  <2>1. store'.turn[t].col.st = "started" /\ store'.turn[t].col.use = None
    BY DEF Live, IsStarted
  <2>2. None # 0
    BY NoneAssumption
  <2>3. Stored(store, t)' /\ (row'[t] # None => row'[t].st = "started")
    BY DEF Live, Open
  <2> QED BY <2>1, <2>2, <2>3 DEF PayloadAt, IsStarted
<1>6. Base(store)'
  BY <1>1, <1>2, <1>4, <1>5, OwnBase
<1>7. RowsAre'
  BY <1>1, NoneAssumption DEF RowsAre
<1>8. TasksSound(store)'
  BY DEF TasksSound
<1>9. Kept(store, store')
  BY <1>4 DEF Kept, Live, Stored
<1>10. RowsGrow /\ Obeys
  BY DEF RowsGrow, Obeys
<1> QED BY <1>1, <1>6, <1>7, <1>8, <1>9, <1>10 DEF IInv, Advances

LEMMA CheckpointFacts ==
  ASSUME IInv, NEW t \in Turn, task[t] # None, task[t].at \in Busy,
         NEW k \in Task, IsStarted(k.v), k.v.col.use = None, NEW next, Checkpoint(t, k, next),
         Open(row[t])'
  PROVE  /\ Live(store, t)' /\ store' \in Store
         /\ store'.active = store.active /\ store'.queued = store.queued /\ store'.stop = store.stop
         /\ \A u \in Turn \ {t} : store'.turn[u] = store.turn[u]
         /\ TaskTo(t, k, next) \/ TaskFails(t, k)
<1>1. k.v \in Payload
  BY DEF Task
<1>2. PICK o \in WriteTurn(store, t, k.v) :
        store' = o.s /\ IF o.ok THEN TaskTo(t, k, next) ELSE TaskFails(t, k)
  BY DEF Checkpoint
<1>3. /\ o.s \in Store
      /\ o.s.active = store.active /\ o.s.queued = store.queued /\ o.s.stop = store.stop
      /\ \A u \in Turn \ {t} : o.s.turn[u] = store.turn[u]
      /\ IF o.ok THEN o.s.turn[t] = k.v /\ Stored(o.s, t) ELSE o.s.turn = store.turn
  BY <1>1, <1>2, OwnWrite
<1>4. Stored(store, t) /\ IsStarted(store.turn[t]) /\ store.turn[t].col.use = None /\ store.queued # t
  BY RunningFacts DEF TaskSound
<1> QED BY <1>2, <1>3, <1>4 DEF Live, Stored

(* runTurn goes on to its next await. *)
LEMMA NextSound ==
  ASSUME TypeOK, NEW t \in Turn, NEW k \in Task, NEW at \in Busy, TaskTo(t, k, at), Live(store, t)',
         store'.active = t, store'.queued \notin {None, t} => ~Stored(store', store'.queued),
         at \in Before => sent'[t] = 0 /\ ~k.disp,
         sent'[t] # 0 => k.disp, k.v.col.use = None, IsStarted(k.v), at # "settings" => k.v.pend,
         at \in Before /\ stopped'[t] # None => k.abort, k.abort /\ ~k.lost => stopped'[t] = "active",
         at \in {"settings", "insert"} => row'[t] = None, at = "admit" => row'[t] = Blank,
         at \in Admitted => row'[t] # None
  PROVE  /\ TaskSound(store, t, task[t])'
         /\ task' \in [Turn -> Task \cup {None}] /\ task'[t] # None
         /\ \A u \in Turn \ {t} : task'[u] = task[u]
<1>1. /\ task' \in [Turn -> Task \cup {None}] /\ task'[t] # None
      /\ task'[t].at = at /\ task'[t].v = k.v /\ task'[t].abort = k.abort /\ task'[t].disp = k.disp
      /\ task'[t].lost = k.lost
      /\ \A u \in Turn \ {t} : task'[u] = task[u]
  BY TaskPlaced DEF Busy
<1>2. at # "project" /\ at # "final"
  BY DEF Busy
<1> QED BY <1>1, <1>2 DEF TaskSound, Live, Stored, Open

LEMMA BusyFacts ==
  ASSUME IInv, NEW t \in Turn, task[t] # None, task[t].at \in Busy
  PROVE  LET k == task[t] IN
         /\ TypeOK /\ Processes /\ RowsAre
         /\ k \in Task /\ k.v \in Payload /\ k.v.col \in Columns /\ store \in Store
         /\ store.active = t /\ current = t /\ Live(store, t)
         /\ \A u \in Turn \ {t} : task[u] = None
         /\ store.queued \notin {None, t} => ~Stored(store, store.queued)
         /\ k.at \in Before => sent[t] = 0 /\ ~k.disp
         /\ sent[t] # 0 => k.disp
         /\ k.v.col.use = None /\ IsStarted(k.v)
         /\ k.at # "settings" => k.v.pend
         /\ k.at \in Before /\ stopped[t] # None => k.abort
         /\ k.abort /\ ~k.lost => stopped[t] = "active"
         /\ k.at \in {"settings", "insert"} => row[t] = None
         /\ k.at = "admit" => row[t] = Blank
         /\ k.at \in Admitted => row[t] # None
         /\ row[t] \in Columns \cup {None} /\ sent[t] \in 0 .. 2 /\ sent[t] <= 1
         /\ sent[t] # 0 => row[t] # None
         /\ row[t] # None => row[t].st = "started" /\ row[t].use = None
<1>1. /\ task[t] \in Task /\ TaskSound(store, t, task[t]) /\ current = t /\ store \in Store
      /\ \A u \in Turn \ {t} : task[u] = None
  BY RunningFacts
<1>2. TypeOK /\ Processes /\ RowsAre
  BY DEF IInv
<1>3. task[t].v \in Payload /\ task[t].v.col \in Columns
  BY <1>1, PayloadFields DEF Task
<1>4. row[t] \in Columns \cup {None} /\ sent[t] \in 0 .. 2 /\ sent[t] <= 1 /\ (sent[t] # 0 => row[t] # None)
  BY <1>2 DEF TypeOK, RowsAre
<1>5. Live(store, t) /\ (row[t] # None => row[t].st = "started" /\ row[t].use = None)
  BY <1>1, <1>2 DEF TaskSound, Live, Open, RowsAre
<1> QED BY <1>1, <1>2, <1>3, <1>4, <1>5 DEF TaskSound

(* The queued question's payload is not the running turn's. *)
LEMMA QueuedApart ==
  ASSUME NEW t \in Turn, store \in Store, store'.queued = store.queued, store.queued # t,
         store.queued \notin {None, t} => ~Stored(store, store.queued),
         \A u \in Turn \ {t} : store'.turn[u] = store.turn[u]
  PROVE  store'.queued \notin {None, t} => ~Stored(store', store'.queued)
<1>1. store.queued \in Turn \cup {None}
  BY StoreFields
<1> QED BY <1>1 DEF Stored

LEMMA TaskSettingsKeeps ==
  ASSUME IInv, NEW t \in Turn, TaskSettings(t) PROVE IInv' /\ Advances
<1> DEFINE k == [task[t] EXCEPT !.v.pend = TRUE]
<1>1. /\ task[t] # None /\ task[t].at = "settings"
      /\ UNCHANGED <<row, up, current, heal, settle, call, crashes, sent, accepted, stopped>>
      /\ Checkpoint(t, k, "insert") \/ (TaskFails(t, task[t]) /\ UNCHANGED store)
  BY DEF TaskSettings, Running, taskless, history
<1>2. task[t].at \in Busy /\ "settings" \in Before /\ "insert" \in Busy
  BY <1>1 DEF Busy, Before
<1>3. LET j == task[t] IN
      /\ TypeOK /\ Processes /\ RowsAre /\ j \in Task /\ j.v \in Payload /\ store \in Store
      /\ store.active = t /\ current = t /\ Live(store, t)
      /\ \A u \in Turn \ {t} : task[u] = None
      /\ store.queued \notin {None, t} => ~Stored(store, store.queued)
      /\ sent[t] = 0 /\ ~j.disp /\ j.v.col.use = None /\ IsStarted(j.v)
      /\ stopped[t] # None => j.abort
      /\ j.abort /\ ~j.lost => stopped[t] = "active"
      /\ row[t] = None
  BY <1>1, <1>2, BusyFacts
<1>4. heal[t] = None /\ settle[t] = None
  BY <1>1, RunningFacts
<1>5. /\ k \in Task /\ k.v.col = task[t].v.col /\ k.v.pend /\ k.disp = task[t].disp
      /\ k.abort = task[t].abort /\ k.lost = task[t].lost
  <2>1. [task[t].v EXCEPT !.pend = TRUE] \in Payload
    BY <1>3 DEF Payload
  <2> QED BY <1>3, <2>1 DEF Task, Payload
<1>6. IsStarted(k.v) /\ k.v.col.use = None
  BY <1>3, <1>5 DEF IsStarted
<1> HIDE DEF k
<1>7. /\ Live(store, t)' /\ store' \in Store
      /\ store'.active = store.active /\ store'.queued = store.queued /\ store'.stop = store.stop
      /\ \A u \in Turn \ {t} : store'.turn[u] = store.turn[u]
      /\ TaskTo(t, k, "insert") \/ TaskFails(t, k) \/ TaskFails(t, task[t])
  <2>1. Open(row[t])'
    BY <1>1, <1>3 DEF Open
  <2>2. CASE Checkpoint(t, k, "insert")
    BY <1>1, <1>2, <1>5, <1>6, <2>1, <2>2, CheckpointFacts
  <2>3. CASE TaskFails(t, task[t]) /\ UNCHANGED store
    BY <1>1, <1>3, <2>1, <2>3 DEF Live, Stored
  <2> QED BY <1>1, <2>2, <2>3
<1>8. store'.queued \notin {None, t} => ~Stored(store', store'.queued)
  BY <1>3, <1>7, QueuedApart DEF Live
<1>9. /\ TaskSound(store, t, task[t])'
      /\ task' \in [Turn -> Task \cup {None}] /\ task'[t] # None
      /\ \A u \in Turn \ {t} : task'[u] = task[u]
  <2>1. CASE TaskTo(t, k, "insert")
    BY <1>1, <1>2, <1>3, <1>5, <1>6, <1>7, <1>8, <2>1, NextSound DEF Admitted
  <2>2. CASE TaskFails(t, k)
    BY <1>1, <1>3, <1>5, <1>6, <1>7, <1>8, <2>2, FailsSound
  <2>3. CASE TaskFails(t, task[t])
    BY <1>1, <1>3, <1>7, <1>8, <2>3, FailsSound
  <2> QED BY <1>7, <2>1, <2>2, <2>3
<1>10. TypeOK'
  BY <1>1, <1>3, <1>7, <1>9 DEF TypeOK
<1>11. Processes'
  BY <1>1, <1>3, <1>4, <1>9, OwnProcesses
<1> QED BY <1>1, <1>2, <1>3, <1>7, <1>9, <1>10, <1>11, BusyKeeps

LEMMA OwnStepKeeps ==
  ASSUME IInv, NEW t \in Turn, task[t] # None, task[t].at \in Busy, task[t].at # "heal",
         UNCHANGED <<up, current, heal, settle, call, crashes, accepted, stopped>>,
         row' \in [Turn -> Columns \cup {None}], sent' \in [Turn -> 0 .. 2],
         \A u \in Turn \ {t} : row'[u] = row[u] /\ sent'[u] = sent[u],
         store' \in Store, Live(store, t)',
         store'.active = store.active, store'.queued = store.queued, store'.stop = store.stop,
         \A u \in Turn \ {t} : store'.turn[u] = store.turn[u],
         task' \in [Turn -> Task \cup {None}], task'[t] # None,
         \A u \in Turn \ {t} : task'[u] = task[u], TaskSound(store, t, task[t])',
         sent'[t] <= 1, sent'[t] # 0 => row'[t] # None,
         row'[t] # None => row'[t].use = None,
         row[t] # None => /\ row[t].limit # None => row'[t].limit # None
                          /\ row[t].scope => row'[t].scope,
         stopped[t] # None /\ sent[t] = 0 => sent'[t] = 0
  PROVE  IInv' /\ Advances
<1>1. TypeOK /\ Processes /\ current = t /\ \A u \in Turn \ {t} : task[u] = None
  BY BusyFacts
<1>2. heal[t] = None /\ settle[t] = None
  BY RunningFacts DEF Busy
<1>3. TypeOK'
  BY <1>1 DEF TypeOK
<1>4. Processes'
  BY <1>1, <1>2, OwnProcesses
<1> QED BY <1>1, <1>3, <1>4, BusyKeeps

LEMMA TaskInsertKeeps ==
  ASSUME IInv, NEW t \in Turn, TaskInsert(t) PROVE IInv' /\ Advances
<1> DEFINE inserted == [row EXCEPT ![t] = Blank]
<1>1. /\ task[t] # None /\ task[t].at = "insert"
      /\ UNCHANGED <<store, up, current, heal, settle, call, crashes, sent, accepted, stopped>>
      /\ \/ row' = inserted /\ TaskTo(t, task[t], "admit")
         \/ row' \in {row, inserted} /\ TaskFails(t, task[t])
  BY DEF TaskInsert, Running, history
<1>2. task[t].at \in Busy /\ "insert" \in Before /\ "admit" \in Before /\ "admit" \in Busy
  BY <1>1 DEF Busy, Before
<1>3. LET j == task[t] IN
      /\ TypeOK /\ Processes /\ RowsAre /\ j \in Task /\ j.v \in Payload /\ store \in Store
      /\ store.active = t /\ current = t /\ Live(store, t)
      /\ \A u \in Turn \ {t} : task[u] = None
      /\ store.queued \notin {None, t} => ~Stored(store, store.queued)
      /\ sent[t] = 0 /\ ~j.disp /\ j.v.col.use = None /\ IsStarted(j.v) /\ j.v.pend
      /\ stopped[t] # None => j.abort
      /\ j.abort /\ ~j.lost => stopped[t] = "active"
      /\ row[t] = None
  BY <1>1, <1>2, BusyFacts
<1>4. row \in [Turn -> Columns \cup {None}] /\ sent \in [Turn -> 0 .. 2]
  BY <1>3 DEF TypeOK
<1>5. inserted \in [Turn -> Columns \cup {None}] /\ inserted[t] = Blank
      /\ \A u \in Turn \ {t} : inserted[u] = row[u]
  BY <1>4, FixedPayloads
<1> HIDE DEF inserted
<1>6. /\ row' \in [Turn -> Columns \cup {None}] /\ row'[t] \in {None, Blank}
      /\ \A u \in Turn \ {t} : row'[u] = row[u]
      /\ TaskTo(t, task[t], "admit") => row'[t] = Blank \/ TaskFails(t, task[t])
  BY <1>1, <1>3, <1>4, <1>5
<1>7. Live(store, t)' /\ (row'[t] # None => row'[t].use = None)
  BY <1>1, <1>3, <1>6, FixedPayloads DEF Live, Stored, Open
<1>8. store'.queued \notin {None, t} => ~Stored(store', store'.queued)
  BY <1>1, <1>3
<1>9. /\ TaskSound(store, t, task[t])'
      /\ task' \in [Turn -> Task \cup {None}] /\ task'[t] # None
      /\ \A u \in Turn \ {t} : task'[u] = task[u]
  <2>1. CASE TaskTo(t, task[t], "admit") /\ row'[t] = Blank
    BY <1>1, <1>2, <1>3, <1>7, <1>8, <2>1, NextSound DEF Admitted
  <2>2. CASE TaskFails(t, task[t])
    BY <1>1, <1>3, <1>7, <1>8, <2>2, FailsSound
  <2> QED BY <1>1, <1>6, <2>1, <2>2
<1> QED BY <1>1, <1>2, <1>3, <1>4, <1>6, <1>7, <1>9, OwnStepKeeps

LEMMA TaskAdmitKeeps ==
  ASSUME IInv, NEW t \in Turn, TaskAdmit(t) PROVE IInv' /\ Advances
<1>1. /\ task[t] # None /\ task[t].at = "admit"
      /\ UNCHANGED <<up, current, heal, settle, call, crashes, sent, accepted, stopped>>
  BY DEF TaskAdmit, Running, history
<1>2. task[t].at \in Busy /\ "admit" \in Before /\ "recheck" \in Before /\ "recheck" \in Busy
  BY <1>1 DEF Busy, Before
<1>3. LET j == task[t] IN
      /\ TypeOK /\ Processes /\ RowsAre /\ j \in Task /\ j.v \in Payload /\ j.v.col \in Columns
      /\ store \in Store /\ store.active = t /\ current = t /\ Live(store, t)
      /\ \A u \in Turn \ {t} : task[u] = None
      /\ store.queued \notin {None, t} => ~Stored(store, store.queued)
      /\ sent[t] = 0 /\ ~j.disp /\ j.v.col.use = None /\ IsStarted(j.v) /\ j.v.pend
      /\ stopped[t] # None => j.abort
      /\ j.abort /\ ~j.lost => stopped[t] = "active"
      /\ row[t] = Blank
  BY <1>1, <1>2, BusyFacts
<1>4. row \in [Turn -> Columns \cup {None}] /\ sent \in [Turn -> 0 .. 2]
  BY <1>3 DEF TypeOK
<1>5. CASE TaskFails(t, task[t]) /\ UNCHANGED <<store, row>>
  <2>1. Live(store, t)' /\ (row'[t] # None => row'[t].use = None)
    BY <1>3, <1>5, FixedPayloads DEF Live, Stored, Open
  <2>2. store'.queued \notin {None, t} => ~Stored(store', store'.queued)
    BY <1>3, <1>5
  <2>3. /\ TaskSound(store, t, task[t])'
        /\ task' \in [Turn -> Task \cup {None}] /\ task'[t] # None
        /\ \A u \in Turn \ {t} : task'[u] = task[u]
    BY <1>1, <1>3, <1>5, <2>1, <2>2, FailsSound
  <2> QED BY <1>1, <1>2, <1>3, <1>4, <1>5, <2>1, <2>3, OwnStepKeeps
<1>6. ASSUME NEW kind \in Kinds,
             LET limit == IF kind = "published" THEN 1 ELSE None
                 k == [task[t] EXCEPT !.v.col.kind = kind, !.v.col.limit = limit]
             IN /\ row' = [row EXCEPT ![t].kind = kind, ![t].limit = limit]
                /\ \/ Checkpoint(t, k, "recheck")
                   \/ TaskFails(t, task[t]) /\ UNCHANGED store
      PROVE  IInv' /\ Advances
  <2> DEFINE limit == IF kind = "published" THEN 1 ELSE None
             c == [task[t].v.col EXCEPT !.kind = kind, !.limit = limit]
             v == [task[t].v EXCEPT !.col = c]
             k == [task[t] EXCEPT !.v = v]
             r == [Blank EXCEPT !.kind = kind, !.limit = limit]
  <2>1. [task[t] EXCEPT !.v.col.kind = kind, !.v.col.limit = limit] = k
    <3>1. task[t] \in Task /\ task[t].v \in Payload /\ task[t].v.col \in Columns
      BY <1>3
    <3> HIDE DEF limit
    <3> QED BY <3>1 DEF Task, Payload, Columns
  <2>2. [row EXCEPT ![t].kind = kind, ![t].limit = limit] = [row EXCEPT ![t] = r]
    <3>1. row[t] = Blank
      BY <1>3
    <3> HIDE DEF limit
    <3> QED BY <1>4, <3>1, FixedPayloads DEF Columns
  <2>3. /\ row' = [row EXCEPT ![t] = r]
        /\ Checkpoint(t, k, "recheck") \/ (TaskFails(t, task[t]) /\ UNCHANGED store)
    <3> HIDE DEF k, r
    <3> QED BY <1>6, <2>1, <2>2
  <2>4. limit \in Count
    BY DEF Count
  <2> HIDE DEF limit
  <2>5. r \in Columns /\ r.st = "started" /\ r.use = None
    BY <2>4, FixedPayloads DEF Columns
  <2>6. c \in Columns /\ c.st = task[t].v.col.st /\ c.use = task[t].v.col.use
    BY <1>3, <2>4 DEF Columns
  <2> HIDE DEF r, c
  <2>7. v \in Payload /\ v.col = c /\ v.pend = task[t].v.pend
    BY <1>3, <2>6 DEF Payload
  <2> HIDE DEF v
  <2>8. /\ k \in Task /\ k.v = v /\ k.disp = task[t].disp /\ k.abort = task[t].abort
        /\ k.lost = task[t].lost
    BY <1>3, <2>7 DEF Task
  <2> HIDE DEF k
  <2>9. IsStarted(k.v) /\ k.v.col.use = None /\ k.v.pend
    BY <1>3, <2>6, <2>7, <2>8 DEF IsStarted
  <2>10. /\ row' \in [Turn -> Columns \cup {None}] /\ row'[t] = r /\ r # None
         /\ \A u \in Turn \ {t} : row'[u] = row[u]
    <3>1. r # None
      BY <2>5, NoneAssumption
    <3>2. row' = [row EXCEPT ![t] = r] /\ r \in Columns
      BY <2>3, <2>5
    <3> QED BY <1>4, <3>1, <3>2
  <2>11. /\ Live(store, t)' /\ store' \in Store
         /\ store'.active = store.active /\ store'.queued = store.queued /\ store'.stop = store.stop
         /\ \A u \in Turn \ {t} : store'.turn[u] = store.turn[u]
         /\ TaskTo(t, k, "recheck") \/ TaskFails(t, k) \/ TaskFails(t, task[t])
    <3>1. Open(row[t])'
      BY <2>5, <2>10 DEF Open
    <3>2. CASE Checkpoint(t, k, "recheck")
      BY <1>1, <1>2, <2>8, <2>9, <3>1, <3>2, CheckpointFacts
    <3>3. CASE TaskFails(t, task[t]) /\ UNCHANGED store
      BY <1>3, <3>1, <3>3 DEF Live, Stored
    <3> QED BY <2>3, <3>2, <3>3
  <2>12. store'.queued \notin {None, t} => ~Stored(store', store'.queued)
    BY <1>3, <2>11, QueuedApart DEF Live
  <2>13. /\ TaskSound(store, t, task[t])'
         /\ task' \in [Turn -> Task \cup {None}] /\ task'[t] # None
         /\ \A u \in Turn \ {t} : task'[u] = task[u]
    <3>1. CASE TaskTo(t, k, "recheck")
      BY <1>1, <1>2, <1>3, <2>8, <2>9, <2>10, <2>11, <2>12, <3>1, NextSound
    <3>2. CASE TaskFails(t, k)
      BY <1>1, <1>3, <2>8, <2>9, <2>11, <2>12, <3>2, FailsSound
    <3>3. CASE TaskFails(t, task[t])
      BY <1>1, <1>3, <2>11, <2>12, <3>3, FailsSound
    <3> QED BY <2>11, <3>1, <3>2, <3>3
  <2>14. Blank.limit = None /\ ~Blank.scope
    BY DEF Blank
  <2> QED BY <1>1, <1>2, <1>3, <1>4, <2>5, <2>10, <2>11, <2>13, <2>14, OwnStepKeeps
<1> QED BY <1>5, <1>6 DEF TaskAdmit

LEMMA TaskDispatchKeeps ==
  ASSUME IInv, NEW t \in Turn, TaskDispatch(t) PROVE IInv' /\ Advances
<1> DEFINE scoped == IF row[t].st = "started" THEN [row EXCEPT ![t].scope = TRUE] ELSE row
           k == [task[t] EXCEPT !.at = "stream", !.disp = TRUE]
<1>1. /\ task[t] # None /\ task[t].at = "scope"
      /\ \/ row' \in {row, scoped} /\ TaskFails(t, task[t]) /\ UNCHANGED sent
         \/ /\ ~task[t].abort /\ row' = scoped
            /\ task' = [task EXCEPT ![t].at = "stream", ![t].disp = TRUE]
            /\ sent' = [sent EXCEPT ![t] = @ + 1]
      /\ UNCHANGED <<store, up, current, heal, settle, call, crashes, accepted, stopped>>
  BY DEF TaskDispatch, Running
<1>2. task[t].at \in Busy /\ "scope" \in Before /\ "scope" \in Admitted
  BY <1>1 DEF Busy, Before, Admitted
<1>3. LET j == task[t] IN
      /\ TypeOK /\ Processes /\ RowsAre /\ j \in Task /\ j.v \in Payload /\ store \in Store
      /\ store.active = t /\ current = t /\ Live(store, t)
      /\ store.queued \notin {None, t} => ~Stored(store, store.queued)
      /\ sent[t] = 0 /\ ~j.disp /\ j.v.col.use = None /\ IsStarted(j.v) /\ j.v.pend
      /\ stopped[t] # None => j.abort
      /\ j.abort /\ ~j.lost => stopped[t] = "active"
      /\ row[t] \in Columns /\ row[t] # None /\ row[t].st = "started" /\ row[t].use = None
  BY <1>1, <1>2, BusyFacts
<1>4. row \in [Turn -> Columns \cup {None}] /\ sent \in [Turn -> 0 .. 2] /\ task \in [Turn -> Task \cup {None}]
  BY <1>3 DEF TypeOK
<1>5. /\ [row[t] EXCEPT !.scope = TRUE] \in Columns /\ [row[t] EXCEPT !.scope = TRUE].st = "started"
      /\ [row[t] EXCEPT !.scope = TRUE].use = None /\ [row[t] EXCEPT !.scope = TRUE].scope
      /\ [row[t] EXCEPT !.scope = TRUE].limit = row[t].limit
  BY <1>3 DEF Columns
<1>6. [row[t] EXCEPT !.scope = TRUE] # None
  BY <1>5, NoneAssumption
<1>7. /\ scoped \in [Turn -> Columns \cup {None}] /\ scoped[t] = [row[t] EXCEPT !.scope = TRUE]
      /\ \A u \in Turn \ {t} : scoped[u] = row[u]
  <2>1. scoped = [row EXCEPT ![t] = [row[t] EXCEPT !.scope = TRUE]]
    BY <1>3, <1>4
  <2> HIDE DEF scoped
  <2> QED BY <1>4, <1>5, <2>1
<1> HIDE DEF scoped
<1>8. /\ row' \in [Turn -> Columns \cup {None}] /\ row'[t] # None
      /\ row'[t].st = "started" /\ row'[t].use = None
      /\ row'[t].limit = row[t].limit /\ (row[t].scope => row'[t].scope)
      /\ \A u \in Turn \ {t} : row'[u] = row[u]
  <2>1. CASE row' = row
    BY <1>3, <1>4, <2>1
  <2>2. CASE row' = scoped
    BY <1>5, <1>6, <1>7, <2>2
  <2> QED BY <1>1, <2>1, <2>2
<1>9. Live(store, t)'
  BY <1>1, <1>3, <1>8 DEF Live, Stored, Open
<1>10. store'.queued \notin {None, t} => ~Stored(store', store'.queued)
  BY <1>1, <1>3
<1>11. CASE TaskFails(t, task[t]) /\ UNCHANGED sent
  <2>1. /\ TaskSound(store, t, task[t])'
        /\ task' \in [Turn -> Task \cup {None}] /\ task'[t] # None
        /\ \A u \in Turn \ {t} : task'[u] = task[u]
    BY <1>1, <1>3, <1>9, <1>10, <1>11, FailsSound
  <2> QED BY <1>1, <1>2, <1>3, <1>4, <1>8, <1>9, <1>11, <2>1, OwnStepKeeps
<1>12. CASE /\ ~task[t].abort
            /\ task' = [task EXCEPT ![t].at = "stream", ![t].disp = TRUE]
            /\ sent' = [sent EXCEPT ![t] = @ + 1]
  <2> DEFINE j == [task[t] EXCEPT !.disp = TRUE]
  <2>1. j \in Task /\ j.v = task[t].v /\ j.abort = task[t].abort /\ j.lost = task[t].lost /\ j.disp
    BY <1>3 DEF Task
  <2>2. task' = [task EXCEPT ![t] = [j EXCEPT !.at = "stream"]]
    BY <1>3, <1>4, <1>12 DEF Task
  <2>3. sent' \in [Turn -> 0 .. 2] /\ sent'[t] = 1 /\ \A u \in Turn \ {t} : sent'[u] = sent[u]
    <3>1. sent' = [sent EXCEPT ![t] = 1]
      BY <1>3, <1>4, <1>12
    <3> QED BY <1>4, <3>1
  <2> HIDE DEF j
  <2>4. "stream" \in Busy /\ "stream" \notin Before
    BY DEF Busy, Before
  <2>5. /\ TaskSound(store, t, task[t])'
        /\ task' \in [Turn -> Task \cup {None}] /\ task'[t] # None
        /\ \A u \in Turn \ {t} : task'[u] = task[u]
    <3>1. TaskTo(t, j, "stream")
      BY <2>2 DEF TaskTo
    <3>2. /\ TypeOK /\ store'.active = t /\ j.v.col.use = None /\ IsStarted(j.v) /\ j.v.pend
          /\ row'[t] # None /\ j.disp /\ ~j.abort
      BY <1>1, <1>3, <1>8, <1>12, <2>1
    <3> QED BY <1>9, <1>10, <2>1, <2>4, <3>1, <3>2, NextSound
  <2>6. stopped[t] = None
    BY <1>3, <1>12
  <2> QED BY <1>1, <1>2, <1>3, <1>8, <1>9, <2>3, <2>5, <2>6, OwnStepKeeps
<1> QED BY <1>1, <1>11, <1>12

LEMMA TaskTextKeeps ==
  ASSUME IInv, NEW t \in Turn, TaskText(t) PROVE IInv' /\ Advances
<1> DEFINE k == [task[t] EXCEPT !.v.col.ans = TRUE]
           lost == [k EXCEPT !.abort = TRUE, !.lost = TRUE]
<1>1. /\ task[t] # None /\ task[t].at = "stream" /\ ~task[t].abort
      /\ UNCHANGED <<row, up, current, heal, settle, call, crashes, sent, accepted, stopped>>
  BY DEF TaskText, Running, taskless, history
<1>2. task[t].at \in Busy /\ "stream" \in Busy /\ "stream" \notin Before /\ "stream" \in Admitted
  BY <1>1 DEF Busy, Before, Admitted
<1>3. LET j == task[t] IN
      /\ TypeOK /\ Processes /\ RowsAre /\ j \in Task /\ j.v \in Payload /\ j.v.col \in Columns
      /\ store \in Store /\ store.active = t /\ current = t /\ Live(store, t)
      /\ \A u \in Turn \ {t} : task[u] = None
      /\ store.queued \notin {None, t} => ~Stored(store, store.queued)
      /\ (sent[t] # 0 => j.disp) /\ j.v.col.use = None /\ IsStarted(j.v) /\ j.v.pend
      /\ row[t] # None /\ sent[t] <= 1
      /\ row[t].use = None
  BY <1>1, <1>2, BusyFacts
<1>4. row \in [Turn -> Columns \cup {None}] /\ sent \in [Turn -> 0 .. 2]
  BY <1>3 DEF TypeOK
<1>5. /\ k \in Task /\ k.v \in Payload /\ k.v.pend /\ k.disp = task[t].disp /\ k.abort = task[t].abort
      /\ k.v.col.use = None /\ IsStarted(k.v)
  <2> DEFINE c == [task[t].v.col EXCEPT !.ans = TRUE]
             v == [task[t].v EXCEPT !.col = c]
  <2>1. c \in Columns /\ c.st = task[t].v.col.st /\ c.use = task[t].v.col.use
    BY <1>3 DEF Columns
  <2> HIDE DEF c
  <2>2. v \in Payload /\ v.col = c /\ v.pend = task[t].v.pend
    BY <1>3, <2>1 DEF Payload
  <2> HIDE DEF v
  <2>3. k = [task[t] EXCEPT !.v = v]
    BY <1>3 DEF Task, Payload, Columns, v, c
  <2>4. /\ [task[t] EXCEPT !.v = v] \in Task /\ [task[t] EXCEPT !.v = v].v = v
        /\ [task[t] EXCEPT !.v = v].disp = task[t].disp /\ [task[t] EXCEPT !.v = v].abort = task[t].abort
    BY <1>3, <2>2 DEF Task
  <2> HIDE DEF k
  <2> QED BY <1>3, <2>1, <2>2, <2>3, <2>4 DEF IsStarted
<1>6. PICK o \in WriteTurn(store, t, k.v) :
        store' = o.s /\ TaskTo(t, IF o.ok THEN k ELSE lost, "stream")
  BY DEF TaskText
<1> HIDE DEF k
<1>7. lost \in Task /\ lost.v = k.v /\ lost.disp = k.disp /\ lost.lost /\ lost.abort
  BY <1>5 DEF Task
<1> HIDE DEF lost
<1>8. /\ Live(store, t)' /\ store' \in Store
      /\ store'.active = store.active /\ store'.queued = store.queued /\ store'.stop = store.stop
      /\ \A u \in Turn \ {t} : store'.turn[u] = store.turn[u]
  <2>1. /\ o.s \in Store
        /\ o.s.active = store.active /\ o.s.queued = store.queued /\ o.s.stop = store.stop
        /\ \A u \in Turn \ {t} : o.s.turn[u] = store.turn[u]
        /\ IF o.ok THEN o.s.turn[t] = k.v /\ Stored(o.s, t) ELSE o.s.turn = store.turn
    BY <1>5, <1>6, OwnWrite
  <2> QED BY <1>1, <1>3, <1>5, <1>6, <2>1 DEF Live, Stored, Open
<1>9. store'.queued \notin {None, t} => ~Stored(store', store'.queued)
  BY <1>3, <1>8, QueuedApart DEF Live
<1>10. /\ TaskSound(store, t, task[t])'
       /\ task' \in [Turn -> Task \cup {None}] /\ task'[t] # None
       /\ \A u \in Turn \ {t} : task'[u] = task[u]
  <2>1. CASE TaskTo(t, k, "stream")
    BY <1>1, <1>2, <1>3, <1>5, <1>8, <1>9, <2>1, NextSound
  <2>2. CASE TaskTo(t, lost, "stream")
    BY <1>1, <1>2, <1>3, <1>5, <1>7, <1>8, <1>9, <2>2, NextSound
  <2> QED BY <1>6, <2>1, <2>2
<1> QED BY <1>1, <1>2, <1>3, <1>4, <1>8, <1>10, OwnStepKeeps

LEMMA TaskStreamedKeeps ==
  ASSUME IInv, NEW t \in Turn, TaskStreamed(t) PROVE IInv' /\ Advances
<1>1. /\ task[t] # None /\ task[t].at = "stream"
      /\ UNCHANGED <<store, row, up, current, heal, settle, call, crashes, sent, accepted, stopped>>
  BY DEF TaskStreamed, Running, taskless, history
<1>2. task[t].at \in Busy /\ "stream" \in Admitted
  BY <1>1 DEF Busy, Admitted
<1>3. LET j == task[t] IN
      /\ TypeOK /\ j \in Task /\ j.v \in Payload /\ j.v.col \in Columns
      /\ store \in Store /\ store.active = t /\ Live(store, t)
      /\ store.queued \notin {None, t} => ~Stored(store, store.queued)
      /\ (sent[t] # 0 => j.disp) /\ j.v.col.use = None /\ IsStarted(j.v) /\ j.v.pend
      /\ j.abort /\ ~j.lost => stopped[t] = "active"
      /\ row[t] # None /\ sent[t] <= 1 /\ row[t].use = None
  BY <1>1, <1>2, BusyFacts
<1>4. row \in [Turn -> Columns \cup {None}] /\ sent \in [Turn -> 0 .. 2]
  BY <1>3 DEF TypeOK
<1>5. PICK used \in BOOLEAN :
        LET k == [task[t] EXCEPT !.used = used] IN
        \/ TaskFails(t, k)
        \/ /\ ~k.abort
           /\ \E st \in IF k.v.col.ans THEN {"completed", "partial"} ELSE {"failed"} :
                TaskTo(t, [k EXCEPT !.v.col.st = st], "final")
  BY DEF TaskStreamed
<1> DEFINE k == [task[t] EXCEPT !.used = used]
<1>6. k \in Task /\ k.v = task[t].v /\ k.disp = task[t].disp /\ k.abort = task[t].abort /\ k.lost = task[t].lost
  BY <1>3 DEF Task
<1>7. \/ TaskFails(t, k)
      \/ \E st \in {"completed", "partial", "failed"} : TaskTo(t, [k EXCEPT !.v.col.st = st], "final")
  BY <1>5
<1> HIDE DEF k
<1>8. Live(store, t)' /\ (store'.queued \notin {None, t} => ~Stored(store', store'.queued))
  BY <1>1, <1>3 DEF Live, Stored, Open
<1>9. /\ TaskSound(store, t, task[t])'
      /\ task' \in [Turn -> Task \cup {None}] /\ task'[t] # None
      /\ \A u \in Turn \ {t} : task'[u] = task[u]
  <2>1. CASE TaskFails(t, k)
    BY <1>1, <1>3, <1>6, <1>8, <2>1, FailsSound
  <2>2. ASSUME NEW st \in {"completed", "partial", "failed"}, TaskTo(t, [k EXCEPT !.v.col.st = st], "final")
        PROVE  /\ TaskSound(store, t, task[t])'
               /\ task' \in [Turn -> Task \cup {None}] /\ task'[t] # None
               /\ \A u \in Turn \ {t} : task'[u] = task[u]
    <3> DEFINE c == [k.v.col EXCEPT !.st = st]
               v == [k.v EXCEPT !.col = c]
               j == [k EXCEPT !.v = v]
    <3>1. c \in Columns /\ c.st = st /\ c.use = None
      BY <1>3, <1>6 DEF Columns, Terminal
    <3> HIDE DEF c
    <3>2. v \in Payload /\ v.col = c /\ v.pend
      BY <1>3, <1>6, <3>1 DEF Payload
    <3> HIDE DEF v
    <3>3. j \in Task /\ j.v = v /\ j.disp = k.disp
      BY <1>6, <3>2 DEF Task
    <3>4. [k EXCEPT !.v.col.st = st] = j
      BY <1>3, <1>6 DEF Task, Payload, Columns, v, c
    <3> HIDE DEF j
    <3>5. TaskTo(t, j, "final")
      BY <2>2, <3>4
    <3>6. /\ task' \in [Turn -> Task \cup {None}] /\ task'[t] # None
          /\ task'[t].at = "final" /\ task'[t].v = v /\ task'[t].disp = k.disp
          /\ \A u \in Turn \ {t} : task'[u] = task[u]
      BY <1>3, <3>3, <3>5, TaskPlaced
    <3>7. /\ store'.active = t /\ sent' = sent /\ (sent[t] # 0 => k.disp)
      BY <1>1, <1>3, <1>6
    <3> QED BY <1>8, <3>1, <3>2, <3>6, <3>7
            DEF TaskSound, Live, Before, Busy, Admitted, Stored, Open, IsStarted
  <2> QED BY <1>7, <2>1, <2>2
<1> QED BY <1>1, <1>2, <1>3, <1>4, <1>8, <1>9, OwnStepKeeps

LEMMA TaskHealSound ==
  ASSUME TypeOK, NEW t \in Turn, task[t] \in Task, TaskSound(store, t, task[t]), task[t].at = "recheck",
         Undisturbed(store, store', t), TaskTo(t, task[t], "heal"), UNCHANGED <<row, sent, stopped>>
  PROVE  /\ TaskSound(store, t, task[t])'
         /\ task' \in [Turn -> Task \cup {None}] /\ task'[t] # None /\ task'[t].at = "heal"
         /\ \A u \in Turn \ {t} : task'[u] = task[u]
<1>1. row' = row /\ sent' = sent /\ stopped' = stopped
  OBVIOUS
<1>2. /\ task' \in [Turn -> Task \cup {None}] /\ task'[t] # None
      /\ task'[t].at = "heal" /\ task'[t].v = task[t].v /\ task'[t].abort = task[t].abort
      /\ task'[t].disp = task[t].disp /\ task'[t].lost = task[t].lost
      /\ \A u \in Turn \ {t} : task'[u] = task[u]
  BY TaskPlaced
<1>3. /\ "recheck" \in Busy /\ "recheck" \in Before /\ "recheck" \in Admitted
      /\ "heal" \in Busy /\ "heal" \in Before /\ "heal" \in Admitted
  BY DEF Busy, Before, Admitted
<1> QED BY <1>1, <1>2, <1>3 DEF TaskSound, Undisturbed, Stored, Open

LEMMA TaskRecheckKeeps ==
  ASSUME IInv, NEW t \in Turn, TaskRecheck(t) PROVE IInv' /\ Advances
<1>1. /\ task[t] # None /\ task[t].at = "recheck"
      /\ UNCHANGED <<row, up, current, call, crashes, sent, accepted, stopped>>
      /\ \/ HealStart(t, store) /\ TaskTo(t, task[t], "heal")
         \/ TaskFails(t, task[t]) /\ UNCHANGED <<store, heal, settle>>
  BY DEF TaskRecheck, Running, history
<1>2. task[t].at \in Busy /\ "recheck" \in Admitted /\ "recheck" \in Before /\ task[t].at \notin Ending
  BY <1>1 DEF Busy, Admitted, Before, Ending
<1>3. LET j == task[t] IN
      /\ TypeOK /\ Processes /\ RowsAre /\ j \in Task /\ store \in Store
      /\ store.active = t /\ current = t /\ Live(store, t)
      /\ \A u \in Turn \ {t} : task[u] = None
      /\ store.queued \notin {None, t} => ~Stored(store, store.queued)
      /\ sent[t] = 0 /\ ~j.disp /\ j.v.col.use = None /\ IsStarted(j.v) /\ j.v.pend
      /\ j.abort /\ ~j.lost => stopped[t] = "active"
      /\ row[t] # None /\ row[t].use = None
  BY <1>1, <1>2, BusyFacts
<1>4. row \in [Turn -> Columns \cup {None}] /\ sent \in [Turn -> 0 .. 2]
  BY <1>3 DEF TypeOK
<1>5. heal[t] = None /\ settle[t] = None /\ TaskSound(store, t, task[t]) /\ t # None
  BY <1>1, RunningFacts
<1>6. CASE TaskFails(t, task[t]) /\ UNCHANGED <<store, heal, settle>>
  <2>1. Live(store, t)' /\ (store'.queued \notin {None, t} => ~Stored(store', store'.queued))
    BY <1>1, <1>3, <1>6 DEF Live, Stored, Open
  <2>2. /\ TaskSound(store, t, task[t])'
        /\ task' \in [Turn -> Task \cup {None}] /\ task'[t] # None
        /\ \A u \in Turn \ {t} : task'[u] = task[u]
    BY <1>1, <1>3, <1>6, <2>1, FailsSound
  <2> QED BY <1>1, <1>2, <1>3, <1>4, <1>6, <2>1, <2>2, OwnStepKeeps
<1>7. CASE HealStart(t, store) /\ TaskTo(t, task[t], "heal")
  <2>1. Base(store) /\ TasksSound(store) /\ OneTask /\ t \in Worker
    BY <1>3 DEF IInv, Processes, Worker
  <2>2. Recovers(t, store)
    BY <1>3, <1>7, <2>1, HealStartRecovers
  <2>3. /\ store' \in Store
        /\ heal' \in [Worker -> Heal \cup {None}] /\ settle' \in [Worker -> Settle \cup {None}]
        /\ heal'[t] # None /\ \A u \in Worker \ {t} : heal'[u] = heal[u] /\ settle'[u] = settle[u]
        /\ settle'[t] # None => heal'[t].at = "settle"
        /\ \A u \in Worker : settle'[u] # None =>
             (settle[u] # None /\ settle'[u] = settle[u]) \/ Closing(store', settle'[u])
        /\ Base(store') /\ Kept(store, store') /\ Calm(store, store')
    BY <1>3, <1>5, <2>1, <2>2, RecoversStep
  <2>4. Undisturbed(store, store', t)
    BY <1>3, <1>5, <2>3 DEF Calm, Undisturbed
  <2>5. /\ TaskSound(store, t, task[t])'
        /\ task' \in [Turn -> Task \cup {None}] /\ task'[t] # None /\ task'[t].at = "heal"
        /\ \A u \in Turn \ {t} : task'[u] = task[u]
    BY <1>1, <1>3, <1>5, <1>7, <2>4, TaskHealSound
  <2>6. TypeOK'
    BY <1>1, <1>3, <2>3, <2>5 DEF TypeOK
  <2>7. Processes'
    <3>1. SettleOwned'
      BY <1>3, <2>3, <2>5 DEF Processes, SettleOwned
    <3>2. HealOwned'
      BY <1>1, <1>3, <2>3, <2>5 DEF Processes, HealOwned
    <3>3. Resting' /\ Named' /\ OneTask'
      BY <1>1, <1>3, <2>5 DEF Processes, Resting, Named, OneTask
    <3> QED BY <3>1, <3>2, <3>3 DEF Processes
  <2>8. RowsAre' /\ RowsGrow /\ Obeys
    BY <1>1, <1>3, RowsUntouched DEF RowsAre
  <2>9. Base(store)'
    <3>1. \A u \in Turn : InHands(task'[u]) => InHands(task[u])
      BY <1>1, <1>2, <2>5 DEF InHands
    <3> QED BY <1>1, <1>3, <2>3, <2>6, <3>1, BaseFrame
  <2>10. TasksSound(store)'
    <3>1. ASSUME NEW u \in Turn, task'[u] # None PROVE u = t
      BY <1>3, <2>5, <3>1
    <3> QED BY <2>5, <3>1 DEF TasksSound
  <2> QED BY <2>3, <2>6, <2>7, <2>8, <2>9, <2>10 DEF IInv, Advances
<1> QED BY <1>1, <1>6, <1>7

LEMMA TaskContextKeeps ==
  ASSUME IInv, NEW t \in Turn, TaskContext(t) PROVE IInv' /\ Advances
<1> DEFINE j(scoped) == [task[t] EXCEPT !.v.col.scope = scoped]
<1>1. /\ task[t] # None /\ task[t].at = "heal" /\ heal[t].at \in {"done", "threw"}
      /\ heal' = [heal EXCEPT ![t] = None]
      /\ UNCHANGED <<row, up, current, settle, call, crashes, sent, accepted, stopped>>
      /\ \/ Checkpoint(t, j(TRUE), "scope")
         \/ (\E scoped \in BOOLEAN : TaskFails(t, j(scoped))) /\ UNCHANGED store
  BY DEF TaskContext, Running, Healing, Healed, history
<1>2. task[t].at \in Busy /\ "heal" \in Admitted /\ "heal" \in Before /\ "scope" \in Busy
      /\ "scope" \in Before
  BY <1>1 DEF Busy, Admitted, Before
<1>3. LET k == task[t] IN
      /\ TypeOK /\ Processes /\ RowsAre /\ k \in Task /\ k.v \in Payload /\ k.v.col \in Columns
      /\ store \in Store /\ store.active = t /\ current = t /\ Live(store, t)
      /\ \A u \in Turn \ {t} : task[u] = None
      /\ store.queued \notin {None, t} => ~Stored(store, store.queued)
      /\ sent[t] = 0 /\ ~k.disp /\ k.v.col.use = None /\ IsStarted(k.v) /\ k.v.pend
      /\ stopped[t] # None => k.abort
      /\ k.abort /\ ~k.lost => stopped[t] = "active"
      /\ row[t] # None /\ row[t].use = None
  BY <1>1, <1>2, BusyFacts
<1>4. ASSUME NEW scoped \in BOOLEAN
      PROVE  /\ j(scoped) \in Task /\ j(scoped).v.pend /\ j(scoped).disp = task[t].disp
             /\ j(scoped).abort = task[t].abort /\ j(scoped).lost = task[t].lost
             /\ j(scoped).v.col.use = None /\ IsStarted(j(scoped).v)
  <2> DEFINE c == [task[t].v.col EXCEPT !.scope = scoped]
             v == [task[t].v EXCEPT !.col = c]
             k == [task[t] EXCEPT !.v = v]
  <2>1. c \in Columns /\ c.st = task[t].v.col.st /\ c.use = task[t].v.col.use
    BY <1>3 DEF Columns
  <2> HIDE DEF c
  <2>2. v \in Payload /\ v.col = c /\ v.pend = task[t].v.pend
    BY <1>3, <2>1 DEF Payload
  <2> HIDE DEF v
  <2>3. j(scoped) = k
    BY <1>3 DEF Task, Payload, Columns, v, c
  <2>4. /\ k \in Task /\ k.v = v /\ k.disp = task[t].disp /\ k.abort = task[t].abort
        /\ k.lost = task[t].lost
    BY <1>3, <2>2 DEF Task
  <2> HIDE DEF j, k
  <2> QED BY <1>3, <2>1, <2>2, <2>3, <2>4 DEF IsStarted
<1> HIDE DEF j
<1>5. settle[t] = None /\ t \in Worker
  <2>1. t \in Worker
    BY DEF Worker
  <2> QED BY <1>1, <1>3, <2>1 DEF Processes, SettleOwned
<1>6. /\ heal' \in [Worker -> Heal \cup {None}] /\ heal'[t] = None
      /\ \A u \in Worker \ {t} : heal'[u] = heal[u]
  BY <1>1, <1>3, <1>5 DEF TypeOK
<1>7. /\ Live(store, t)' /\ store' \in Store
      /\ store'.active = store.active /\ store'.queued = store.queued /\ store'.stop = store.stop
      /\ \A u \in Turn \ {t} : store'.turn[u] = store.turn[u]
      /\ \/ TaskTo(t, j(TRUE), "scope")
         \/ \E scoped \in BOOLEAN : TaskFails(t, j(scoped))
  <2>1. Open(row[t])'
    BY <1>1, <1>3 DEF Live, Open
  <2>2. CASE Checkpoint(t, j(TRUE), "scope")
    <3>1. j(TRUE) \in Task /\ IsStarted(j(TRUE).v) /\ j(TRUE).v.col.use = None
      BY <1>4
    <3> QED BY <1>1, <1>2, <2>1, <2>2, <3>1, CheckpointFacts
  <2>3. CASE (\E scoped \in BOOLEAN : TaskFails(t, j(scoped))) /\ UNCHANGED store
    BY <1>3, <2>1, <2>3 DEF Live, Stored
  <2> QED BY <1>1, <2>2, <2>3
<1>8. store'.queued \notin {None, t} => ~Stored(store', store'.queued)
  BY <1>3, <1>7, QueuedApart DEF Live
<1>9. /\ TaskSound(store, t, task[t])'
      /\ task' \in [Turn -> Task \cup {None}] /\ task'[t] # None
      /\ \A u \in Turn \ {t} : task'[u] = task[u]
  <2>1. CASE TaskTo(t, j(TRUE), "scope")
    <3>1. /\ j(TRUE) \in Task /\ j(TRUE).v.pend /\ ~j(TRUE).disp
          /\ j(TRUE).abort = task[t].abort /\ j(TRUE).lost = task[t].lost
          /\ j(TRUE).v.col.use = None /\ IsStarted(j(TRUE).v)
      BY <1>3, <1>4
    <3> QED BY <1>1, <1>2, <1>3, <1>7, <1>8, <2>1, <3>1, NextSound
  <2>2. ASSUME NEW scoped \in BOOLEAN, TaskFails(t, j(scoped))
        PROVE  /\ TaskSound(store, t, task[t])'
               /\ task' \in [Turn -> Task \cup {None}] /\ task'[t] # None
               /\ \A u \in Turn \ {t} : task'[u] = task[u]
    BY <1>1, <1>3, <1>4, <1>7, <1>8, <2>2, FailsSound
  <2> QED BY <1>7, <2>1, <2>2
<1>10. TypeOK'
  BY <1>1, <1>3, <1>6, <1>7, <1>9 DEF TypeOK
<1>11. Processes'
  <2>1. SettleOwned'
    BY <1>1, <1>3, <1>5, <1>6, <1>9 DEF Processes, SettleOwned
  <2>2. HealOwned'
    BY <1>1, <1>3, <1>6, <1>9 DEF Processes, HealOwned
  <2>3. Resting' /\ Named' /\ OneTask'
    BY <1>1, <1>3, <1>9 DEF Processes, Resting, Named, OneTask
  <2> QED BY <2>1, <2>2, <2>3 DEF Processes
<1> QED BY <1>1, <1>2, <1>3, <1>7, <1>9, <1>10, <1>11, BusyKeeps

LEMMA Doing ==
  ASSUME NEW s, NEW o \in Did(s) PROVE o.s = s
BY DEF Did

LEMMA DropFields ==
  ASSUME NEW s \in Store, NEW o \in DropQueued(s)
  PROVE  /\ o.s \in Store /\ o.s.active = s.active /\ o.s.stop = s.stop /\ o.s.turn = s.turn
         /\ IF o.ok THEN o.s.queued = None ELSE o.s.queued = s.queued
<1> DEFINE x == StateSet(s, s.active, None, s.stop)
<1>1. s.active \in Turn \cup {None} /\ s.stop \in BOOLEAN
  BY StoreFields
<1>2. x \in Store /\ x.active = s.active /\ x.queued = None /\ x.stop = s.stop /\ x.turn = s.turn
  BY <1>1, NoQuestion
<1>3. o \in Write(s, x)
  BY DEF DropQueued, ChangeState, StateSet
<1> HIDE DEF x
<1>4. CASE o.ok /\ o.s = x
  BY <1>2, <1>4
<1>5. CASE ~o.ok /\ o.s = Faulted(s) /\ s.faults < MaxFaults
  BY <1>5, FaultedFields
<1> QED BY <1>2, <1>3, <1>4, <1>5, Writes

LEMMA ProjectStepKeeps ==
  ASSUME IInv, NEW t \in Turn, task[t] # None, task[t].at = "project",
         UNCHANGED <<row, up, current, heal, settle, call, crashes, sent, accepted, stopped>>,
         store' \in Store, store'.active = store.active, store'.stop = store.stop,
         store'.queued \in {store.queued, None}, store'.turn[t] \in {None, Started, Unsent},
         \A u \in Turn \ {t} : store'.turn[u] = store.turn[u],
         task' \in [Turn -> Task \cup {None}], task'[t] # None,
         \A u \in Turn \ {t} : task'[u] = task[u], TaskSound(store, t, task[t])'
  PROVE  IInv' /\ Advances
<1>1. /\ TypeOK /\ Processes /\ RowsAre /\ Base(store) /\ task[t].at \notin Ending
      /\ task[t].at \notin {"heal", "settle"}
  BY DEF IInv, Ending
<1>2. /\ TaskSound(store, t, task[t]) /\ current = t
      /\ \A u \in Turn \ {t} : task[u] = None
      /\ heal[t] = None /\ settle[t] = None
      /\ \A w \in Worker : settle[w] # None => settle[w].id # t
  BY <1>1, RunningFacts
<1>3. ~Stored(store, t) /\ row[t] = None /\ sent[t] = 0
  BY <1>2 DEF TaskSound, Before
<1>4. TypeOK'
  BY <1>1 DEF TypeOK
<1>5. Processes'
  BY <1>1, <1>2, OwnProcesses
<1>6. RowsAre' /\ RowsGrow /\ Obeys
  BY <1>1, RowsUntouched DEF RowsAre
<1>7. PayloadAt(store, t)'
  <2>1. store'.turn[t].col.st = "cancelled" => store'.turn[t] = None
    BY FixedPayloads DEF IsStarted
  <2>2. store'.turn[t] # None => store'.turn[t] = Started \/ store'.turn[t] = Unsent
    OBVIOUS
  <2> QED BY <1>3, <2>1, <2>2, FixedPayloads DEF PayloadAt, Stored
<1>8. Base(store)'
  <2>1. store'.queued = t => row'[t] = None /\ sent'[t] = 0 /\ store'.turn[t] \in {None, Started, Unsent}
    BY <1>3
  <2>2. \A u \in Turn \ {t} : /\ store'.turn[u] = store.turn[u] /\ row'[u] = row[u] /\ sent'[u] = sent[u]
                              /\ task'[u] = None
    BY <1>2
  <2>3. \A w \in Worker : settle'[w] # None => settle[w] # None /\ settle'[w] = settle[w]
    OBVIOUS
  <2> QED BY <1>1, <1>2, <1>4, <1>7, <2>1, <2>2, <2>3, OwnBase
<1>9. TasksSound(store)'
  <2>1. ASSUME NEW u \in Turn, task'[u] # None PROVE u = t
    BY <1>2, <2>1
  <2> QED BY <2>1 DEF TasksSound
<1>10. Kept(store, store')
  <2>1. \A u \in Turn : Stored(store, u) => u # t
    BY <1>3
  <2> QED BY <2>1 DEF Kept, Stored
<1> QED BY <1>4, <1>5, <1>6, <1>8, <1>9, <1>10 DEF IInv, Advances

LEMMA TaskProjectKeeps ==
  ASSUME IInv, NEW t \in Turn, TaskProject(t) PROVE IInv' /\ Advances
<1>1. /\ task[t] # None /\ task[t].at = "project"
      /\ UNCHANGED <<row, up, current, heal, settle, call, crashes, sent, accepted, stopped>>
  BY DEF TaskProject, Running, taskless, history
<1>2. /\ TypeOK /\ Base(store) /\ TaskSound(store, t, task[t]) /\ store.active = t /\ store \in Store
      /\ t # None
  BY <1>1, RunningFacts DEF IInv
<1>3. /\ ~Stored(store, t) /\ row[t] = None /\ sent[t] = 0 /\ task[t] = Fresh
      /\ stopped[t] # None => store.stop
      /\ store.stop => stopped[t] = "active"
      /\ store.queued \notin {None, t} => ~Stored(store, store.queued)
      /\ store.turn[t] = None
  BY <1>1, <1>2 DEF TaskSound, Before, Base, StateSound, Stored
<1>4. Started \in Payload /\ Unsent \in Payload /\ Fresh \in Task
  BY FixedPayloads, FreshTask
(* The store that the step leaves. *)
<1> DEFINE Left(x) == /\ x \in Store /\ x.active = store.active /\ x.stop = store.stop
                      /\ x.queued \in {store.queued, None} /\ x.turn[t] \in {None, Started, Unsent}
                      /\ \A u \in Turn \ {t} : x.turn[u] = store.turn[u]
<1>5. ASSUME Left(store')
      PROVE  store'.queued \notin {None, t} => ~Stored(store', store'.queued)
  <2>1. store.queued \in Turn \cup {None}
    BY <1>2, StoreFields
  <2> QED BY <1>3, <1>5, <2>1 DEF Stored
<1>6. ASSUME Left(store'), TaskTo(t, Fresh, "advance")
      PROVE  IInv' /\ Advances
  <2>1. /\ task' \in [Turn -> Task \cup {None}] /\ task'[t] # None /\ task'[t].at = "advance"
        /\ \A u \in Turn \ {t} : task'[u] = task[u]
    BY <1>2, <1>4, <1>6, TaskPlaced
  <2>2. TaskSound(store, t, task[t])'
    BY <1>2, <1>5, <1>6, <2>1, TaskEnds DEF Ending
  <2> QED BY <1>1, <1>6, <2>1, <2>2, ProjectStepKeeps
<1>7. CASE \E o \in Then(WriteTurn(store, t, Started),
                         LAMBDA x : IF x.queued = t THEN DropQueued(x) ELSE Did(x)) :
             /\ store' = o.s
             /\ IF o.ok THEN TaskTo(t, [task[t] EXCEPT !.abort = o.s.stop], "settings")
                ELSE TaskTo(t, Fresh, "advance")
  <2>1. PICK o \in Then(WriteTurn(store, t, Started),
                        LAMBDA x : IF x.queued = t THEN DropQueued(x) ELSE Did(x)) :
          /\ store' = o.s
          /\ IF o.ok THEN TaskTo(t, [task[t] EXCEPT !.abort = o.s.stop], "settings")
             ELSE TaskTo(t, Fresh, "advance")
    BY <1>7
  <2>2. PICK p \in WriteTurn(store, t, Started) :
          o \in IF p.ok THEN IF p.s.queued = t THEN DropQueued(p.s) ELSE Did(p.s) ELSE {p}
    BY <2>1 DEF Then
  <2>3. /\ p.s \in Store
        /\ p.s.active = store.active /\ p.s.queued = store.queued /\ p.s.stop = store.stop
        /\ \A u \in Turn \ {t} : p.s.turn[u] = store.turn[u]
        /\ IF p.ok THEN p.s.turn[t] = Started /\ Stored(p.s, t) ELSE p.s.turn = store.turn
    BY <1>4, <2>2, OwnWrite
  <2>4. Left(o.s) /\ (o.ok => o.s.turn[t] = Started /\ o.s.queued # t)
    <3>1. CASE ~p.ok
      BY <1>3, <2>2, <2>3, <3>1
    <3>2. CASE p.ok /\ p.s.queued = t
      <4>1. /\ o.s \in Store /\ o.s.active = p.s.active /\ o.s.stop = p.s.stop /\ o.s.turn = p.s.turn
            /\ IF o.ok THEN o.s.queued = None ELSE o.s.queued = p.s.queued
        BY <2>2, <2>3, <3>2, DropFields
      <4>2. o.s.queued \in {store.queued, None} /\ (o.ok => o.s.queued # t)
        BY <1>2, <2>3, <4>1
      <4> QED BY <2>3, <3>2, <4>1, <4>2
    <3>3. CASE p.ok /\ p.s.queued # t
      <4>1. o \in Did(p.s)
        BY <2>2, <3>3
      <4>2. o.s = p.s
        BY <4>1, Doing
      <4>3. o.s.queued \in {store.queued, None} /\ o.s.queued # t
        BY <2>3, <3>3, <4>2
      <4> QED BY <2>3, <3>3, <4>2, <4>3
    <3> QED BY <3>1, <3>2, <3>3
  <2>5. CASE ~o.ok
    BY <1>6, <2>1, <2>4, <2>5
  <2>6. CASE o.ok
    <3> DEFINE k == [Fresh EXCEPT !.abort = o.s.stop]
    <3>1. /\ store' = o.s /\ Left(store') /\ store'.turn[t] = Started /\ store'.queued # t
          /\ TaskTo(t, k, "settings") /\ o.s.stop = store.stop /\ o.s.stop \in BOOLEAN
      BY <1>3, <2>1, <2>4, <2>6, StoreFields
    <3>2. k \in Task /\ k.v = Started /\ k.abort = store.stop /\ ~k.disp /\ ~k.lost
      BY <1>4, <3>1 DEF Task, Fresh
    <3> HIDE DEF k
    <3>3. Live(store, t)'
      <4>1. row'[t] = None /\ store'.turn[t] = Started /\ store'.queued # t /\ Started # None
        BY <1>1, <1>3, <3>1, FixedPayloads, PayloadFields
      <4> QED BY <4>1, FixedPayloads DEF Live, Stored, Open
    <3>4. "settings" \in Busy /\ "settings" \notin Admitted
      BY DEF Busy, Admitted
    <3>5. store'.queued \notin {None, t} => ~Stored(store', store'.queued)
      BY <1>5, <3>1
    <3>6. /\ store'.active = t /\ sent'[t] = 0 /\ row'[t] = None /\ stopped' = stopped
      BY <1>1, <1>2, <1>3, <3>1
    <3>7. /\ TaskSound(store, t, task[t])'
          /\ task' \in [Turn -> Task \cup {None}] /\ task'[t] # None
          /\ \A u \in Turn \ {t} : task'[u] = task[u]
      <4>1. /\ TypeOK /\ k.v.col.use = None /\ IsStarted(k.v)
            /\ stopped'[t] # None => k.abort
            /\ k.abort => stopped'[t] = "active"
        BY <1>2, <1>3, <3>2, <3>6, FixedPayloads
      <4> QED BY <3>1, <3>2, <3>3, <3>4, <3>5, <3>6, <4>1, NextSound
    <3> QED BY <1>1, <3>1, <3>7, ProjectStepKeeps
  <2> QED BY <2>5, <2>6
<1>8. CASE /\ store.active = t /\ store.queued = t
           /\ \E o \in Then(Preserve(store, t), DropQueued) : store' = o.s
           /\ TaskTo(t, Fresh, "advance")
  <2>1. PICK o \in Then(Preserve(store, t), DropQueued) : store' = o.s
    BY <1>8
  <2>2. PICK p \in WriteTurn(store, t, Unsent) : o \in IF p.ok THEN DropQueued(p.s) ELSE {p}
    <3>1. Preserve(store, t) = WriteTurn(store, t, Unsent)
      BY <1>3 DEF Preserve
    <3> QED BY <2>1, <3>1 DEF Then
  <2>3. /\ p.s \in Store
        /\ p.s.active = store.active /\ p.s.queued = store.queued /\ p.s.stop = store.stop
        /\ \A u \in Turn \ {t} : p.s.turn[u] = store.turn[u]
        /\ IF p.ok THEN p.s.turn[t] = Unsent /\ Stored(p.s, t) ELSE p.s.turn = store.turn
    BY <1>4, <2>2, OwnWrite
  <2>4. Left(o.s)
    <3>1. CASE ~p.ok
      BY <1>3, <2>2, <2>3, <3>1
    <3>2. CASE p.ok
      <4>1. /\ o.s \in Store /\ o.s.active = p.s.active /\ o.s.stop = p.s.stop /\ o.s.turn = p.s.turn
            /\ IF o.ok THEN o.s.queued = None ELSE o.s.queued = p.s.queued
        BY <2>2, <2>3, <3>2, DropFields
      <4> QED BY <2>3, <3>2, <4>1
    <3> QED BY <3>1, <3>2
  <2> QED BY <1>6, <1>8, <2>1, <2>4
<1>9. CASE TaskTo(t, Fresh, "advance") /\ UNCHANGED store
  <2>1. Left(store')
    BY <1>2, <1>3, <1>9
  <2> QED BY <1>6, <1>9, <2>1
<1> QED BY <1>7, <1>8, <1>9 DEF TaskProject

LEMMA ProjectedFields ==
  ASSUME NEW k \in Task, k.v.col.use = None
  PROVE  /\ Projected(k) \in Payload /\ Projected(k).pend = k.v.pend
         /\ Projected(k).col.st = k.v.col.st
         /\ Projected(k).col.use = 0 => ~k.disp
<1> DEFINE c == IF ~k.disp THEN [k.v.col EXCEPT !.limit = 0, !.use = 0, !.end = "run"]
                ELSE [k.v.col EXCEPT !.use = IF k.used THEN 1 ELSE @, !.end = "run"]
           v == [k.v EXCEPT !.col = c]
<1>1. k.v \in Payload /\ k.v.col \in Columns
  BY PayloadFields DEF Task
<1>2. c \in Columns /\ c.st = k.v.col.st /\ (c.use = 0 => ~k.disp)
  <2>1. CASE ~k.disp
    BY <1>1, <2>1 DEF Columns, Count
  <2>2. CASE k.disp
    <3> DEFINE use == IF k.used THEN 1 ELSE k.v.col.use
    <3>1. use \in {1, None} /\ use # 0 /\ use \in Count
      BY NoneAssumption DEF Count
    <3>2. c = [k.v.col EXCEPT !.use = use, !.end = "run"]
      BY <1>1, <2>2 DEF Columns
    <3> HIDE DEF use, c
    <3> QED BY <1>1, <3>1, <3>2 DEF Columns
  <2> QED BY <2>1, <2>2
<1>3. Projected(k) = v
  <2>1. CASE ~k.disp
    BY <1>1, <2>1 DEF Projected, Payload, Columns
  <2>2. CASE k.disp
    BY <1>1, <2>2 DEF Projected, Payload, Columns
  <2> QED BY <2>1, <2>2
<1> HIDE DEF c
<1>4. v \in Payload /\ v.col = c /\ v.pend = k.v.pend
  BY <1>1, <1>2 DEF Payload
<1> HIDE DEF v
<1> QED BY <1>2, <1>3, <1>4

LEMMA TaskFinalKeeps ==
  ASSUME IInv, NEW t \in Turn, TaskFinal(t) PROVE IInv' /\ Advances
<1> DEFINE v == Projected(task[t])
           e == [at |-> "row", id |-> t, v |-> v]
<1>1. /\ task[t] # None /\ task[t].at = "final"
      /\ UNCHANGED <<row, up, current, heal, call, crashes, sent, accepted, stopped>>
  BY DEF TaskFinal, Running, history
<1>2. /\ TypeOK /\ Processes /\ RowsAre /\ Base(store) /\ store \in Store
      /\ task[t] \in Task /\ TaskSound(store, t, task[t])
      /\ store.active = t /\ current = t /\ t # None
      /\ \A u \in Turn \ {t} : task[u] = None
      /\ heal[t] = None /\ settle[t] = None
      /\ \A w \in Worker : settle[w] # None => settle[w].id # t
  BY <1>1, RunningFacts DEF IInv, Base, Ending
<1>3. LET k == task[t] IN
      /\ Stored(store, t) /\ IsStarted(store.turn[t]) /\ store.turn[t].col.use = None
      /\ store.queued # t /\ (row[t] # None => row[t].st = "started")
      /\ sent[t] # 0 => k.disp
      /\ k.v.col.use = None /\ ~IsStarted(k.v)
      /\ ~k.v.pend => row[t] = None
      /\ k.v.col.st = "cancelled" => stopped[t] = "active"
      /\ store.queued \notin {None, t} => ~Stored(store, store.queued)
  BY <1>1, <1>2 DEF TaskSound, Open
<1>4. sent[t] # 0 => row[t] # None
  BY <1>2 DEF RowsAre
<1>5. /\ v \in Payload /\ ~IsStarted(v) /\ (v.col.use = 0 => sent[t] = 0)
      /\ ~v.pend => row[t] = None
      /\ v.col.st = "cancelled" => stopped[t] = "active"
  BY <1>2, <1>3, ProjectedFields DEF IsStarted
<1>6. PICK o \in WriteTurn(store, t, v) :
        /\ store' = o.s
        /\ IF o.ok /\ v.pend
             THEN SettleFrom(t, t, v) /\ TaskTo(t, Fresh, "settle")
             ELSE TaskTo(t, Fresh, "advance") /\ UNCHANGED settle
  BY DEF TaskFinal
<1> HIDE DEF v
<1>7. /\ store' \in Store
      /\ store'.active = store.active /\ store'.queued = store.queued /\ store'.stop = store.stop
      /\ \A u \in Turn \ {t} : store'.turn[u] = store.turn[u]
      /\ Stored(store', t)
      /\ IF o.ok THEN store'.turn[t] = v ELSE store'.turn = store.turn
  BY <1>3, <1>5, <1>6, OwnWrite DEF Stored
<1>8. store'.queued \notin {None, t} => ~Stored(store', store'.queued)
  BY <1>2, <1>3, <1>7, QueuedApart
<1>9. t \in Worker /\ e \in Settle /\ e # None
  <2>1. e \in Settle
    BY <1>5 DEF Settle
  <2> QED BY <2>1, NoneAssumption DEF Worker
<1>10. /\ task' \in [Turn -> Task \cup {None}] /\ task'[t] # None
       /\ \A u \in Turn \ {t} : task'[u] = None
       /\ settle' \in [Worker -> Settle \cup {None}]
       /\ \A u \in Worker \ {t} : settle'[u] = settle[u]
       /\ \/ task'[t].at = "advance" /\ settle'[t] = None
          \/ task'[t].at = "settle" /\ settle'[t] = e /\ o.ok /\ v.pend
  <2>1. settle \in [Worker -> Settle \cup {None}] /\ Fresh \in Task
    BY <1>2, FreshTask DEF TypeOK
  <2>2. CASE o.ok /\ v.pend
    <3>1. SettleFrom(t, t, v) /\ TaskTo(t, Fresh, "settle")
      BY <1>6, <2>2
    <3>2. settle' = [settle EXCEPT ![t] = e]
      BY <3>1 DEF SettleFrom
    <3>3. /\ task' \in [Turn -> Task \cup {None}] /\ task'[t] # None /\ task'[t].at = "settle"
          /\ \A u \in Turn \ {t} : task'[u] = task[u]
      BY <1>2, <2>1, <3>1, TaskPlaced
    <3> HIDE DEF e
    <3> QED BY <1>2, <1>9, <2>1, <2>2, <3>2, <3>3
  <2>3. CASE ~(o.ok /\ v.pend)
    <3>1. TaskTo(t, Fresh, "advance") /\ UNCHANGED settle
      BY <1>6, <2>3
    <3>2. /\ task' \in [Turn -> Task \cup {None}] /\ task'[t] # None /\ task'[t].at = "advance"
          /\ \A u \in Turn \ {t} : task'[u] = task[u]
      BY <1>2, <2>1, <3>1, TaskPlaced
    <3> QED BY <1>2, <2>1, <3>1, <3>2
  <2> QED BY <2>2, <2>3
<1>11. TypeOK'
  BY <1>1, <1>2, <1>7, <1>10 DEF TypeOK
<1>12. Processes'
  <2>1. SettleOwned'
    BY <1>1, <1>2, <1>10 DEF Processes, SettleOwned
  <2>2. HealOwned'
    BY <1>1, <1>2, <1>10 DEF Processes, HealOwned
  <2>3. Resting' /\ Named' /\ OneTask'
    BY <1>1, <1>2, <1>10 DEF Processes, Resting, Named, OneTask
  <2> QED BY <2>1, <2>2, <2>3 DEF Processes
<1>13. RowsAre' /\ RowsGrow /\ Obeys
  BY <1>1, <1>2, RowsUntouched DEF RowsAre
<1>14. PayloadAt(store, t)'
  <2>1. CASE o.ok
    BY <1>1, <1>3, <1>4, <1>5, <1>7, <2>1 DEF PayloadAt
  <2>2. CASE ~o.ok
    <3>1. PayloadAt(store, t)
      BY <1>2 DEF Base, PayloadSound, PayloadAt
    <3> QED BY <1>1, <1>7, <2>2, <3>1 DEF PayloadAt, Stored
  <2> QED BY <2>1, <2>2
<1>15. ASSUME NEW w \in Worker, settle'[w] # None
       PROVE  (settle[w] # None /\ settle'[w] = settle[w]) \/ Closing(store, settle[w])'
  <2>1. CASE w # t
    BY <1>10, <1>15, <2>1
  <2>2. CASE w = t
    <3>1. /\ settle'[t] = e /\ task'[t].at = "settle" /\ o.ok /\ v.pend
      BY <1>10, <1>15, <2>2
    <3>2. e.id = t /\ e.v = v /\ e.at = "row"
      OBVIOUS
    <3>3. SameResult(v, v, row'[t])
      BY <1>5, SameResultItself
    <3>4. store'.turn[t] = v /\ store'.queued # t /\ sent' = sent
      BY <1>1, <1>3, <1>7, <3>1
    <3> HIDE DEF e
    <3> QED BY <1>5, <1>7, <2>2, <3>1, <3>2, <3>3, <3>4 DEF Closing
  <2> QED BY <2>1, <2>2
<1>16. Base(store)'
  <2>1. store'.queued # t
    BY <1>3, <1>7
  <2>2. \A u \in Turn \ {t} : /\ store'.turn[u] = store.turn[u] /\ row'[u] = row[u] /\ sent'[u] = sent[u]
                              /\ task'[u] = None
    BY <1>1, <1>7, <1>10
  <2> QED BY <1>1, <1>2, <1>7, <1>11, <1>14, <1>15, <2>1, <2>2, OwnBase
<1>17. TasksSound(store)'
  <2>1. TaskSound(store, t, task[t])'
    BY <1>2, <1>7, <1>8, <1>10, TaskEnds DEF Ending
  <2> QED BY <1>10, <2>1 DEF TasksSound
<1>18. Kept(store, store')
  BY <1>3, <1>7 DEF Kept, Stored
<1> QED BY <1>11, <1>12, <1>13, <1>16, <1>17, <1>18 DEF IInv, Advances

LEMMA TaskAdvanceKeeps ==
  ASSUME IInv, NEW t \in Turn, TaskAdvance(t) PROVE IInv' /\ Advances
<1> DEFINE q == store.queued
           pending == Stored(store, t) /\ store.turn[t].pend
           released == IF q = t THEN StoppedHandoff(store, None)
                       ELSE IF pending THEN PreserveWaiting(store) ELSE Idle(store)
           x == StateSet(store, q, q, FALSE)
<1>1. /\ task[t] # None /\ task[t].at = "advance"
      /\ UNCHANGED <<row, up, heal, settle, call, crashes, sent, accepted, stopped>>
  BY DEF TaskAdvance, Running, history
<1>2. /\ TypeOK /\ Processes /\ RowsAre /\ Base(store) /\ store \in Store
      /\ TaskSound(store, t, task[t]) /\ store.active = t /\ current = t /\ up = "up" /\ t # None
      /\ \A u \in Turn \ {t} : task[u] = None
      /\ heal[t] = None /\ settle[t] = None
  BY <1>1, RunningFacts DEF IInv
<1>3. \/ Over(t) /\ current' = None /\ \E o \in released : store' = o.s
      \/ /\ q \notin {t, None}
         /\ \E o \in ChangeState(store, q, q, FALSE) :
              /\ store' = o.s
              /\ current' = IF o.ok THEN q ELSE None
              /\ task' = [task EXCEPT ![t] = None, ![q] = IF o.ok THEN Fresh ELSE @]
  BY <1>2 DEF TaskAdvance
<1>4. task \in [Turn -> Task \cup {None}]
  BY <1>2 DEF TypeOK
<1>5. RowsAre' /\ RowsGrow /\ Obeys
  BY <1>1, <1>2, RowsUntouched DEF RowsAre
(* Nothing runs any more. *)
<1>6. ASSUME Leads(store, store'), current' = None, task' \in [Turn -> Task \cup {None}],
             \A u \in Turn : task'[u] = None
      PROVE  IInv' /\ Advances
  <2>1. store' \in Store /\ Base(store') /\ Kept(store, store')
    BY <1>6 DEF Leads, Base
  <2>2. TypeOK'
    BY <1>1, <1>2, <1>6, <2>1 DEF TypeOK
  <2>3. Processes'
    <3>1. SettleOwned'
      BY <1>1, <1>2 DEF Processes, SettleOwned
    <3>2. HealOwned'
      BY <1>1, <1>2 DEF Processes, HealOwned
    <3>3. Resting' /\ Named' /\ OneTask'
      BY <1>1, <1>2, <1>6 DEF Processes, Resting, Named, OneTask
    <3> QED BY <3>1, <3>2, <3>3 DEF Processes
  <2>4. Base(store)'
    BY <1>1, <1>2, <1>6, <2>1, <2>2, BaseFrame DEF InHands
  <2>5. TasksSound(store)'
    BY <1>6 DEF TasksSound
  <2> QED BY <1>5, <2>1, <2>2, <2>3, <2>4, <2>5 DEF IInv, Advances
<1>7. CASE Over(t) /\ current' = None /\ \E o \in released : store' = o.s
  <2>1. PICK o \in released : store' = o.s
    BY <1>7
  <2>2. Leads(store, o.s)
    <3>1. o \in StoppedHandoff(store, None) \/ o \in PreserveWaiting(store) \/ o \in Idle(store)
      BY <2>1
    <3> QED BY <1>2, <3>1, StoppedHandoffLeads, PreserveWaitingLeads, IdleLeads
  <2>3. task' \in [Turn -> Task \cup {None}] /\ \A u \in Turn : task'[u] = None
    BY <1>2, <1>4, <1>7 DEF Over
  <2> QED BY <1>6, <1>7, <2>1, <2>2, <2>3
<1>8. CASE /\ q \notin {t, None}
           /\ \E o \in ChangeState(store, q, q, FALSE) :
                /\ store' = o.s
                /\ current' = IF o.ok THEN q ELSE None
                /\ task' = [task EXCEPT ![t] = None, ![q] = IF o.ok THEN Fresh ELSE @]
  <2>1. PICK o \in ChangeState(store, q, q, FALSE) :
          /\ store' = o.s
          /\ current' = IF o.ok THEN q ELSE None
          /\ task' = [task EXCEPT ![t] = None, ![q] = IF o.ok THEN Fresh ELSE @]
    BY <1>8
  <2>2. q \in Turn /\ q # t /\ q # None /\ q \in Turn \cup {None} /\ FALSE \in BOOLEAN
    BY <1>2, <1>8, StoreFields
  <2>3. \/ o.ok /\ o.s = x
        \/ ~o.ok /\ Leads(store, o.s)
    BY <2>1, <2>2, StateWrites
  <2>4. CASE ~o.ok
    <3>1. task' \in [Turn -> Task \cup {None}] /\ \A u \in Turn : task'[u] = None
      BY <1>2, <1>4, <2>1, <2>2, <2>4
    <3> QED BY <1>6, <2>1, <2>3, <2>4, <3>1
  <2>5. CASE o.ok
    <3> PICK p \in Turn : p = q
      BY <2>2
    <3>1. store' = x /\ current' = p /\ task' = [task EXCEPT ![t] = None, ![p] = Fresh]
      BY <2>1, <2>3, <2>5
    <3>2. x \in Store /\ x.active = p /\ x.queued = p /\ x.stop = FALSE /\ x.turn = store.turn
      BY <1>2 DEF StateSet, Store
    <3> HIDE DEF x
    <3>3. p # t /\ p # None /\ ~Stored(store, p)
      BY <1>2, <2>2 DEF TaskSound
    <3>4. /\ row[p] = None /\ sent[p] = 0 /\ store.turn[p] = None
          /\ \A w \in Worker : settle[w] # None => settle[w].id # p
      BY <3>3, UnknownTurn
    <3>5. stopped[p] = None
      BY <1>2, <3>3 DEF Base, StateSound
    <3>6. /\ task' \in [Turn -> Task \cup {None}] /\ task'[p] = Fresh
          /\ \A u \in Turn \ {p} : task'[u] = None
      BY <1>2, <1>4, <3>1, <3>3, FreshTask
    <3>7. TypeOK'
      BY <1>1, <1>2, <3>1, <3>2, <3>6 DEF TypeOK
    <3>8. heal[p] = None /\ settle[p] = None
      <4>1. task[p] = None /\ p \in Worker /\ p \notin Call /\ p # "boot"
        BY <1>2, <3>3, IdAssumption DEF Worker
      <4>2. heal[p] = None
        BY <1>2, <4>1 DEF Processes, HealOwned
      <4> QED BY <1>2, <4>1, <4>2 DEF Processes, SettleOwned
    <3>9. Processes'
      <4>1. SettleOwned'
        BY <1>1, <1>2, <3>6, <3>8 DEF Processes, SettleOwned
      <4>2. HealOwned'
        BY <1>1, <1>2, <3>6, <3>8 DEF Processes, HealOwned
      <4>3. Resting' /\ Named'
        BY <1>1, <1>2 DEF Processes, Resting, Named
      <4>4. OneTask'
        BY <3>1, <3>6, FreshTask DEF OneTask
      <4> QED BY <4>1, <4>2, <4>3, <4>4 DEF Processes
    <3>10. Base(store)'
      <4>1. store' \in Store /\ store'.turn = store.turn /\ store'.queued = p
        BY <3>1, <3>2
      <4>2. StateSound(store)'
        <5>1. /\ store' = x /\ row'[p] = None /\ sent'[p] = 0 /\ x.turn[p] = None
          BY <1>1, <3>1, <3>2, <3>4
        <5> QED BY <3>2, <5>1 DEF StateSound
      <4>3. \A u \in Turn : Stored(store, u) /\ store.turn[u].col.st = "cancelled" => stopped'[u] = "active"
        BY <1>1, <1>2 DEF Base, PayloadSound
      <4>4. \A w \in Worker : settle[w] # None => settle[w].id # store'.queued
        BY <3>4, <4>1
      <4>5. \A u \in Turn : InHands(task'[u]) => InHands(task[u]) \/ u = store'.queued
        BY <3>6, <4>1 DEF InHands
      <4>6. UNCHANGED <<row, sent, settle>>
        BY <1>1
      <4> QED BY <1>2, <4>1, <4>2, <4>3, <4>4, <4>5, <4>6, BaseOfState
    <3>11. TasksSound(store)'
      <4>1. /\ task'[p] = Fresh /\ store'.active = p /\ ~Stored(store', p) /\ row'[p] = None
            /\ sent'[p] = 0 /\ stopped'[p] = None /\ store'.queued \in {None, p}
        BY <1>1, <3>1, <3>2, <3>4, <3>5, <3>6 DEF Stored
      <4>2. TaskSound(store, p, task[p])'
        BY <4>1, Begins
      <4>3. ASSUME NEW u \in Turn, task'[u] # None PROVE u = p
        BY <3>6, <4>3
      <4> QED BY <4>2, <4>3 DEF TasksSound
    <3>12. Kept(store, store')
      BY <3>1, <3>2 DEF Kept, Stored
    <3> QED BY <1>5, <3>7, <3>9, <3>10, <3>11, <3>12 DEF IInv, Advances
  <2> QED BY <2>4, <2>5
<1> QED BY <1>3, <1>7, <1>8

LEMMA TaskStepKeeps ==
  ASSUME IInv, NEW t \in Turn, TaskStep(t) PROVE IInv' /\ Advances
BY TaskProjectKeeps, TaskSettingsKeeps, TaskInsertKeeps, TaskAdmitKeeps, TaskRecheckKeeps,
   TaskDispatchKeeps, TaskTextKeeps, TaskStreamedKeeps, TaskFinalKeeps, TaskAdvanceKeeps DEF TaskStep

-----------------------------------------------------------------------------
(* The invariant. *)
LEMMA Initial == Init => IInv
<1> SUFFICES ASSUME Init PROVE IInv
  OBVIOUS
<1>1. /\ store.turn = [t \in Turn |-> None] /\ store.active = None /\ store.queued = None
      /\ store.stop = FALSE /\ store \in Store
  <2>1. 0 \in 0 .. MaxFaults
    BY BoundAssumption
  <2> QED BY <2>1 DEF Init, Store
<1>2. /\ \A t \in Turn : row[t] = None /\ task[t] = None /\ sent[t] = 0 /\ ~Stored(store, t)
      /\ \A w \in Worker : heal[w] = None /\ settle[w] = None
      /\ \A c \in Call : call[c] = None
  BY <1>1 DEF Init, Stored
<1>3. TypeOK
  <2>1. 0 \in 0 .. MaxCrashes
    BY BoundAssumption
  <2> QED BY <1>1, <2>1 DEF Init, TypeOK
<1>4. Processes
  BY <1>2 DEF Init, Processes, SettleOwned, HealOwned, Resting, Named, OneTask
<1>5. RowsAre
  BY <1>2 DEF RowsAre
<1>6. Base(store)
  <2>1. StateSound(store)
    BY <1>1 DEF StateSound
  <2>2. PayloadSound(store)
    BY <1>2 DEF PayloadSound
  <2>3. SettlesSound(store)
    BY <1>2 DEF SettlesSound
  <2> QED BY <1>1, <2>1, <2>2, <2>3 DEF Base
<1>7. TasksSound(store)
  BY <1>2 DEF TasksSound
<1> QED BY <1>3, <1>4, <1>5, <1>6, <1>7 DEF IInv

LEMMA Inductive == IInv /\ [Next]_vars => IInv' /\ (Advances \/ UNCHANGED vars)
<1> SUFFICES ASSUME IInv, [Next]_vars PROVE IInv' /\ (Advances \/ UNCHANGED vars)
  OBVIOUS
<1>1. CASE \E w \in Worker : HealContinue(w)
  BY <1>1, HealContinueKeeps
<1>2. CASE \E t \in Turn : TaskContext(t)
  BY <1>2, TaskContextKeeps
<1>3. CASE \E c \in Call : SubmitStarts(c) \/ SubmitQueues(c) \/ StopTurn(c) \/ Replies(c)
  BY <1>3, SubmitStartsKeeps, SubmitQueuesKeeps, StopTurnKeeps, RepliesKeeps
<1>4. CASE BootDone
  BY <1>4, BootDoneKeeps
<1>5. CASE \E w \in Worker : SettleStep(w)
  BY <1>5, SettleStepKeeps
<1>6. CASE \E t \in Turn : TaskStep(t)
  BY <1>6, TaskStepKeeps
<1>7. CASE \E c \in Call : Asks(c)
  BY <1>7, ArriveKeeps
<1>8. CASE Boot
  BY <1>8, BootKeeps
<1>9. CASE Crash
  BY <1>9, CrashKeeps
<1>10. CASE UNCHANGED vars
  <2>1. UNCHANGED <<store, row, up, current, task, heal, settle, call, crashes, sent, accepted, stopped>>
    BY <1>10 DEF vars, memory, history
  <2>2. TypeOK' /\ Processes' /\ RowsAre'
    BY <2>1 DEF IInv, TypeOK, Processes, SettleOwned, HealOwned, Resting, Named, OneTask, RowsAre
  <2>3. Base(store)'
    BY <2>1, <2>2, BaseFrame DEF IInv
  <2>4. TasksSound(store)'
    BY <2>1, CalmTasks DEF IInv, Processes, Calm
  <2> QED BY <1>10, <2>2, <2>3, <2>4 DEF IInv
<1> QED BY <1>1, <1>2, <1>3, <1>4, <1>5, <1>6, <1>7, <1>8, <1>9, <1>10 DEF Next, Continue

LEMMA Invariance == Spec => []IInv
<1>1. Init => IInv
  BY Initial
<1>2. IInv /\ [Next]_vars => IInv'
  BY Inductive
<1> QED BY <1>1, <1>2, PTL DEF Spec

(* Every variable keeps its type: settlements, recoveries and tasks included.     *)
THEOREM TypeCorrect == Spec => []TypeOK
<1>1. IInv => TypeOK
  BY DEF IInv
<1> QED BY <1>1, Invariance, PTL

(* Both stores tell what happened: settleTurn leaves a terminal row only beside the    *)
(* payload it repeats, and zero usage only for a turn that was never sent.         *)
THEOREM StoresAreTrue == Spec => []Truthful
<1>1. IInv => Truthful
  BY DEF IInv, Base, PayloadSound, Truthful
<1> QED BY <1>1, Invariance, PTL

(* recoverFinishedTurn, settleTurn and onStart rewrite no result, and forget no         *)
(* known usage, limit or scope.                                                 *)
THEOREM ResultsAreKept == Spec => ResultsStay
<1> DEFINE A == \A t \in Turn :
       /\ Stored(store, t) /\ ~IsStarted(store.turn[t]) =>
            LET v == store.turn[t].col
                u == store'.turn[t].col
            IN /\ u.st = v.st /\ u.ans = v.ans /\ u.end = v.end
               /\ v.use # None => u.use = v.use
       /\ row[t] # None =>
            /\ row[t].limit # None => row'[t].limit # None
            /\ row[t].scope => row'[t].scope
<1>1. IInv /\ [Next]_vars => [A]_vars
  <2> SUFFICES ASSUME Advances PROVE A
    BY Inductive
  <2> QED BY DEF Advances, Kept, RowsGrow
<1>2. Spec => [][A]_vars
  BY <1>1, Invariance, PTL DEF Spec
<1> QED BY <1>2 DEF ResultsStay

(* A turn that its owner stopped before its dispatch, waiting or running, is never     *)
(* dispatched by runTurn or by the queue, unless it is submitted again.            *)
THEOREM StopsAreHonoured == Spec => StopHonoured
<1> DEFINE A == \A t \in Turn : stopped[t] # None /\ sent[t] = 0 => sent'[t] = 0
<1>1. IInv /\ [Next]_vars => [A]_vars
  <2> SUFFICES ASSUME Advances PROVE A
    BY Inductive
  <2> QED BY DEF Advances, Obeys
<1>2. Spec => [][A]_vars
  BY <1>1, Invariance, PTL DEF Spec
<1> QED BY <1>2 DEF StopHonoured
=============================================================================
