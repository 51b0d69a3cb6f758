---------------------------- MODULE ChatQueueProofs ----------------------------
(***************************************************************************)
(* Proofs about Chat's queue and its recoveries: only the active turn's result   *)
(* is ever pending, and a question that was accepted is lost at one place only,  *)
(* a recovery that clears the state after awaiting a settlement.               *)
(***************************************************************************)
EXTENDS ChatProofs

(* What the state {active, queued} of a store says of its payloads: one result is     *)
(* pending at most, of the active turn, which is stored unless it has just begun.  *)
OnePending(s) == \A t \in Turn : Stored(s, t) /\ s.turn[t].pend => s.active = t
Orderly(s) ==
  /\ OnePending(s)
  /\ s.active # None => Stored(s, s.active) \/ s.queued = s.active
  /\ s.queued # None => s.active # None

(* What a recovery knows after a settlement it awaited: the turn it began with has    *)
(* ended and is not taken up again; where it is still pending, that was noted.      *)
Between == {"settle", "next"}
Waits(w) == heal[w] # None /\ heal[w].at \in Between =>
  LET a == heal[w].active IN
  /\ a \in Turn /\ Stored(store, a) /\ ~IsStarted(store.turn[a]) /\ task[a] = None
  /\ heal[w].todo = {} /\ store.queued # a
  /\ heal[w].at = "settle" => settle[w] # None /\ settle[w].id = a
  /\ heal[w].at = "next" /\ store.turn[a].pend => store.turn[a].err # None

(* What is left when it returns to its caller. *)
Done(w) == heal[w] # None /\ heal[w].at = "done" =>
  LET a == heal[w].active IN
  /\ store.active \notin {a, None} => a \in Turn /\ Stored(store, a)
  /\ a # None /\ store.active = a /\ current = None /\ store.queued # a
     /\ Stored(store, a) /\ ~IsStarted(store.turn[a])
       => store.turn[a].pend /\ store.turn[a].err # None

(* One recovery at a time is between two awaits. *)
Unquiet(w) == heal[w] # None /\ heal[w].at # "settle"
OneAwake == \A v, w \in Worker : Unquiet(v) /\ Unquiet(w) => v = w

Tidy == Orderly(store) /\ OneAwake /\ \A w \in Worker : Waits(w) /\ Done(w)

(* A recovery that would clear the state under a question that waits. *)
Danger(w) == /\ heal[w] # None /\ heal[w].at \in Between
             /\ heal[w].active = store.active /\ store.queued # None
NoDanger == \A w \in Worker : ~Danger(w)

(* Two recoveries in progress that began while different turns were active. *)
Stale == \E v, w \in Worker : heal[v] # None /\ heal[w] # None /\ heal[v].active # heal[w].active

(* An accepted question that is not lost, and the step that loses one. *)
Safe(t) == accepted[t] => Stored(store, t) \/ store.queued = t \/ stopped[t] = "waiting"
Clears(w, t) == /\ Healing(w, "next") /\ current = None
                /\ store.queued = t /\ store.active = heal[w].active

-----------------------------------------------------------------------------
(* Stores: nothing stored is forgotten, no question is put, the one that waits goes on   *)
(* waiting or is stored.                                                        *)
Goes(s, x) ==
  /\ \A t \in Turn : Stored(s, t) => Stored(x, t)
  /\ x.queued # None => x.queued = s.queued /\ x.active = s.active
  /\ s.queued # None => x.queued = s.queued \/ Stored(x, s.queued)
  /\ Orderly(x)

LEMMA GoesItself ==
  ASSUME NEW s, Orderly(s) PROVE Goes(s, s)
BY DEF Goes

LEMMA GoesOn ==
  ASSUME NEW s \in Store, NEW x, NEW y, Goes(s, x), Goes(x, y) PROVE Goes(s, y)
<1>1. s.queued \in Turn \cup {None}
  BY StoreFields
<1> QED BY <1>1 DEF Goes

(* The state and the payloads are what they were. *)
LEMMA GoesSame ==
  ASSUME NEW s, NEW x, Orderly(s), x.turn = s.turn, x.active = s.active, x.queued = s.queued
  PROVE  Goes(s, x)
BY DEF Goes, Orderly, OnePending, Stored

LEMMA FaultGoes ==
  ASSUME NEW s \in Store, Orderly(s), s.faults < MaxFaults PROVE Goes(s, Faulted(s))
BY FaultedFields, GoesSame

(* One payload is written, with any value. *)
LEMMA TurnWrite ==
  ASSUME NEW s \in Store, NEW t \in Turn, NEW v, NEW o \in WriteTurn(s, t, v)
  PROVE  /\ o.s.active = s.active /\ o.s.queued = s.queued
         /\ \A u \in Turn \ {t} : o.s.turn[u] = s.turn[u]
         /\ IF o.ok THEN o.s.turn[t] = v ELSE o.s.turn = s.turn
<1> DEFINE f == [s.turn EXCEPT ![t] = v]
           x == [s EXCEPT !.turn = f]
<1>1. f[t] = v /\ \A u \in Turn \ {t} : f[u] = s.turn[u]
  BY StoreFields
<1>2. x.active = s.active /\ x.queued = s.queued /\ x.turn = f
  BY DEF Store
<1>3. o \in Write(s, x)
  BY DEF WriteTurn
<1>4. \/ o.ok /\ o.s = x
      \/ ~o.ok /\ o.s = [s EXCEPT !.faults = @ + 1]
  BY <1>3 DEF Write, Did, Threw
<1>5. LET y == [s EXCEPT !.faults = @ + 1] IN
      y.active = s.active /\ y.queued = s.queued /\ y.turn = s.turn
  BY DEF Store
<1> HIDE DEF x, f
<1> QED BY <1>1, <1>2, <1>4, <1>5

(* The state is written without a question that waits. *)
LEMMA StateWrite ==
  ASSUME NEW s \in Store, NEW a \in Turn \cup {None}, NEW stop \in BOOLEAN,
         NEW o \in ChangeState(s, a, None, stop)
  PROVE  /\ o.s.turn = s.turn
         /\ IF o.ok THEN o.s.active = a /\ o.s.queued = None
            ELSE o.s.active = s.active /\ o.s.queued = s.queued
<1> DEFINE x == StateSet(s, a, None, stop)
<1>1. x \in Store /\ x.active = a /\ x.queued = None /\ x.turn = s.turn
  BY NoQuestion
<1>2. o \in Write(s, x)
  BY DEF ChangeState, StateSet
<1> HIDE DEF x
<1>3. \/ o.ok /\ o.s = x
      \/ ~o.ok /\ o.s = Faulted(s) /\ s.faults < MaxFaults
  BY <1>1, <1>2, Writes
<1> QED BY <1>1, <1>3, FaultedFields

LEMMA IdleWrite ==
  ASSUME NEW s \in Store, NEW o \in Idle(s)
  PROVE  /\ o.s.turn = s.turn
         /\ IF o.ok THEN o.s.active = None /\ o.s.queued = None
            ELSE o.s.active = s.active /\ o.s.queued = s.queued
BY StateWrite DEF Idle

(* Released: nothing is pending, and the question that waits is stored. *)
LEMMA IdleGoes ==
  ASSUME NEW s \in Store, Orderly(s), NEW o \in Idle(s),
         \A t \in Turn : Stored(s, t) => ~s.turn[t].pend,
         s.queued # None => Stored(s, s.queued)
  PROVE  Goes(s, o.s)
<1>1. /\ o.s.turn = s.turn
      /\ IF o.ok THEN o.s.active = None /\ o.s.queued = None
         ELSE o.s.active = s.active /\ o.s.queued = s.queued
  BY IdleWrite
<1>2. CASE o.ok
  BY <1>1, <1>2 DEF Goes, Orderly, OnePending, Stored
<1>3. CASE ~o.ok
  BY <1>1, <1>3, GoesSame
<1> QED BY <1>2, <1>3

(* A question that is stored waits no more. *)
LEMMA DropGoes ==
  ASSUME NEW s \in Store, Orderly(s), NEW o \in DropQueued(s),
         s.queued # None => Stored(s, s.queued)
  PROVE  Goes(s, o.s)
<1>1. /\ o.s.active = s.active /\ o.s.turn = s.turn
      /\ IF o.ok THEN o.s.queued = None ELSE o.s.queued = s.queued
  BY DropFields
<1>2. CASE o.ok
  BY <1>1, <1>2 DEF Goes, Orderly, OnePending, Stored
<1>3. CASE ~o.ok
  BY <1>1, <1>3, GoesSame
<1> QED BY <1>2, <1>3

LEMMA PreserveGoes ==
  ASSUME TypeOK, NEW s, Base(s), Orderly(s), s.queued # None, NEW o \in Preserve(s, s.queued)
  PROVE  Goes(s, o.s)
<1>1. /\ Leads(s, o.s)
      /\ o.s.active = s.active /\ o.s.queued = s.queued
      /\ \A u \in Turn : u # s.queued => o.s.turn[u] = s.turn[u]
  BY PreserveLeads
<1>2. \A u \in Turn : Stored(s, u) => Stored(o.s, u)
  BY <1>1 DEF Leads, Kept
<1>3. s.queued \in Turn /\ s.active \in Turn \cup {None}
  BY StoreFields DEF Base
<1>4. Stored(o.s, s.queued) => ~o.s.turn[s.queued].pend
  <2>1. o.s.turn[s.queued] \in {None, Started, Unsent}
    BY <1>1 DEF Leads, Base, StateSound
  <2> QED BY <2>1, FixedPayloads DEF Stored
<1>5. OnePending(o.s)
  BY <1>1, <1>4 DEF Orderly, OnePending, Stored
<1> QED BY <1>1, <1>2, <1>3, <1>5 DEF Goes, Orderly

LEMMA PreserveWaitingGoes ==
  ASSUME TypeOK, NEW s, Base(s), Orderly(s), NEW o \in PreserveWaiting(s)
  PROVE  Goes(s, o.s) /\ (o.ok => o.s.queued \in {None, s.active})
<1>1. CASE s.queued \notin {None, s.active}
  <2>1. PICK p \in Preserve(s, s.queued) : o \in IF p.ok THEN DropQueued(p.s) ELSE {p}
    BY <1>1 DEF PreserveWaiting, Then
  <2>2. /\ Goes(s, p.s) /\ Base(p.s) /\ p.s \in Store /\ s \in Store
        /\ p.s.queued = s.queued /\ (p.ok => Stored(p.s, s.queued))
    BY <1>1, PreserveLeads, PreserveGoes DEF Leads, Base
  <2>3. CASE p.ok
    <3>1. o \in DropQueued(p.s)
      BY <2>1, <2>3
    <3>2. Goes(p.s, o.s)
      BY <2>2, <2>3, <3>1, DropGoes DEF Goes
    <3>3. o.ok => o.s.queued = None
      BY <2>2, <3>1, DropFields
    <3> QED BY <2>2, <2>3, <3>2, <3>3, GoesOn
  <2>4. CASE ~p.ok
    BY <2>1, <2>2, <2>4
  <2> QED BY <2>3, <2>4
<1>2. CASE s.queued \in {None, s.active}
  BY <1>2, GoesItself DEF PreserveWaiting, Did
<1> QED BY <1>1, <1>2

LEMMA StoppedHandoffGoes ==
  ASSUME TypeOK, NEW s, Base(s), Orderly(s), NEW cur, NEW o \in StoppedHandoff(s, cur)
  PROVE  Goes(s, o.s)
<1>1. CASE cur # None \/ s.queued = None \/ s.active # s.queued
  BY <1>1, GoesItself DEF StoppedHandoff, Did
<1>2. CASE ~(cur # None \/ s.queued = None \/ s.active # s.queued)
  <2>1. PICK p \in Preserve(s, s.queued) :
          o \in IF p.ok THEN IF IsStarted(p.s.turn[p.s.queued]) THEN Threw(p.s) ELSE Idle(p.s)
                ELSE {p}
    BY <1>2 DEF StoppedHandoff, Then
  <2>2. /\ Goes(s, p.s) /\ Base(p.s) /\ p.s \in Store /\ s \in Store
        /\ p.s.queued = s.queued /\ p.s.active = s.active /\ (p.ok => Stored(p.s, s.queued))
    BY <1>2, PreserveLeads, PreserveGoes DEF Leads, Base
  <2>3. CASE o.s = p.s
    BY <2>2, <2>3
  <2>4. CASE p.ok /\ o \in Idle(p.s)
    <3>1. ASSUME NEW t \in Turn, Stored(p.s, t), p.s.turn[t].pend PROVE FALSE
      <4>1. t = p.s.queued /\ p.s.queued # None
        BY <1>2, <2>2, <3>1 DEF Goes, Orderly, OnePending
      <4>2. p.s.turn[t] \in {None, Started, Unsent}
        BY <2>2, <4>1 DEF Base, StateSound
      <4> QED BY <3>1, <4>2, FixedPayloads DEF Stored
    <3>2. Goes(p.s, o.s)
      BY <2>2, <2>4, <3>1, IdleGoes DEF Goes
    <3> QED BY <2>2, <3>2, GoesOn
  <2> QED BY <2>1, <2>3, <2>4 DEF Threw
<1> QED BY <1>1, <1>2

-----------------------------------------------------------------------------
(* recoverFinishedTurn.  Only the active turn's result is pending, so the loop has one   *)
(* result to settle at most, and its end has no other turn to make active.        *)
Finished(s, a) == /\ a # None /\ s.active = a /\ current = None /\ s.queued # a
                  /\ Stored(s, a) /\ ~IsStarted(s.turn[a]) /\ ~s.turn[a].pend

LEMMA HealEndIs ==
  ASSUME NEW s \in Store, Orderly(s), NEW a, NEW o \in HealEnd(s, a)
  PROVE  \/ /\ Finished(s, a) /\ o.s.turn = s.turn
            /\ IF o.ok THEN o.s.active = None /\ o.s.queued = None
               ELSE o.s.active = s.active /\ o.s.queued = s.queued
         \/ ~Finished(s, a) /\ o.ok /\ o.s = s
<1>1. PICK p \in IF Finished(s, a) THEN Idle(s) ELSE Did(s) :
        o \in IF p.ok THEN IF current # None \/ p.s.active # None \/ Pending(p.s) = {} THEN Did(p.s)
                           ELSE Then(PreserveWaiting(p.s),
                                     LAMBDA y : UNION {ChangeState(y, i, None, FALSE) : i \in Pending(p.s)})
              ELSE {p}
  BY DEF HealEnd, Then, Finished
<1>2. CASE Finished(s, a)
  <2>1. /\ p.s.turn = s.turn
        /\ IF p.ok THEN p.s.active = None /\ p.s.queued = None
           ELSE p.s.active = s.active /\ p.s.queued = s.queued
    BY <1>1, <1>2, IdleWrite
  <2>2. Pending(p.s) = {}
    BY <1>2, <2>1 DEF Pending, Finished, Orderly, OnePending, Stored
  <2>3. CASE p.ok
    <3>1. o \in Did(p.s)
      BY <1>1, <2>2, <2>3
    <3>2. o.s = p.s /\ o.ok
      BY <3>1 DEF Did
    <3> QED BY <1>2, <2>1, <2>3, <3>2
  <2>4. CASE ~p.ok
    BY <1>1, <1>2, <2>1, <2>4
  <2> QED BY <2>3, <2>4
<1>3. CASE ~Finished(s, a)
  <2>1. p.s = s /\ p.ok
    <3>1. p \in Did(s)
      BY <1>3
    <3> QED BY <3>1 DEF Did
  <2>2. s.active = None => Pending(s) = {}
    <3>1. ASSUME NEW t \in Pending(s), s.active = None PROVE FALSE
      BY <3>1, NoneAssumption DEF Pending, Orderly, OnePending
    <3> QED BY <3>1
  <2>3. o \in Did(s)
    BY <1>1, <2>1, <2>2
  <2> QED BY <1>3, <2>3 DEF Did
<1> QED BY <1>2, <1>3

Claimed(s, a) == IF IsStarted(s.turn[a]) THEN WriteTurn(s, a, Interrupted(s.turn[a])) ELSE Did(s)

LEMMA HealNextIs ==
  ASSUME NEW s, NEW w, NEW a \in Turn \cup {None}, NEW todo \in SUBSET Turn, HealNext(w, s, a, todo),
         todo \cap Pending(s) \subseteq {a}, current # None => todo = {}
  PROVE  \/ /\ todo \cap Pending(s) = {} /\ UNCHANGED settle
            /\ \E o \in HealEnd(s, a) : store' = o.s /\ Away(w, IF o.ok THEN "done" ELSE "threw", a, {})
         \/ /\ a \in todo \cap Pending(s) /\ current = None
            /\ \E o \in Claimed(s, a) :
                 /\ store' = o.s
                 /\ \/ o.ok /\ Away(w, "settle", a, {}) /\ SettleFrom(w, a, o.s.turn[a])
                    \/ ~o.ok /\ (\E rest : Away(w, "threw", a, rest)) /\ UNCHANGED settle
<1> DEFINE skip == IF current = None THEN {} ELSE {s.active}
           live == (todo \cap Pending(s)) \ skip
<1>1. CASE live = {}
  <2>1. todo \cap Pending(s) = {}
    BY <1>1
  <2> QED BY <1>1, <2>1 DEF HealNext
<1>2. CASE live # {}
  <2>1. current = None /\ live = {a} /\ a \in todo \cap Pending(s) /\ todo \cap skip = {}
    BY <1>2
  <2>2. PICK t \in (IF a \in live THEN {a} ELSE live), passed \in SUBSET (todo \cap skip) :
          \E o \in IF IsStarted(s.turn[t]) THEN WriteTurn(s, t, Interrupted(s.turn[t])) ELSE Did(s) :
            /\ store' = o.s
            /\ Away(w, IF o.ok THEN "settle" ELSE "threw", a, (todo \cap Pending(s)) \ ({t} \cup passed))
            /\ IF o.ok THEN SettleFrom(w, t, o.s.turn[t]) ELSE UNCHANGED settle
    BY <1>2 DEF HealNext
  <2>3. t = a /\ (todo \cap Pending(s)) \ ({t} \cup passed) = {}
    BY <2>1, <2>2
  <2>4. PICK o \in Claimed(s, a) :
            /\ store' = o.s
            /\ Away(w, IF o.ok THEN "settle" ELSE "threw", a, {})
            /\ IF o.ok THEN SettleFrom(w, a, o.s.turn[a]) ELSE UNCHANGED settle
    BY <2>2, <2>3 DEF Claimed
  <2> QED BY <2>1, <2>4
<1> QED BY <1>1, <1>2

(* What a recovery of w leaves at its first await, or at its end. *)
Began(w, s) ==
  /\ Goes(s, store')
  /\ \A v \in Worker \ {w} : heal'[v] = heal[v] /\ settle'[v] = settle[v]
  /\ heal'[w].at \in {"settle", "done", "threw"}
  /\ heal'[w].at = "settle" =>
       LET a == heal'[w].active IN
       /\ a \in Turn /\ Stored(store', a) /\ ~IsStarted(store'.turn[a]) /\ current = None
       /\ heal'[w].todo = {} /\ store'.queued = None
       /\ settle'[w] # None /\ settle'[w].id = a
  /\ Done(w)'

LEMMA AwayFields ==
  ASSUME TypeOK, NEW w \in Worker, NEW at, NEW a, NEW todo, Away(w, at, a, todo)
  PROVE  /\ heal'[w].at = at /\ heal'[w].active = a /\ heal'[w].todo = todo
         /\ \A v \in Worker \ {w} : heal'[v] = heal[v]
BY DEF Away, TypeOK

(* It ends without a settlement: the active turn has none to make. *)
LEMMA EndBegan ==
  ASSUME TypeOK, NEW s \in Store, Orderly(s), NEW w \in Worker, NEW a, a = s.active,
         NEW o \in HealEnd(s, a), store' = o.s, UNCHANGED <<current, settle>>,
         Away(w, IF o.ok THEN "done" ELSE "threw", a, {}),
         current = None => a \notin Pending(s),
         Finished(s, a) => s.queued = None
  PROVE  Began(w, s)
<1>1. a \in Turn \cup {None}
  BY StoreFields
<1>2. /\ heal'[w].at = (IF o.ok THEN "done" ELSE "threw") /\ heal'[w].active = a
      /\ \A v \in Worker \ {w} : heal'[v] = heal[v]
  BY AwayFields
<1>3. CASE Finished(s, a) /\ o.s.turn = s.turn
           /\ IF o.ok THEN o.s.active = None /\ o.s.queued = None
              ELSE o.s.active = s.active /\ o.s.queued = s.queued
  <2>1. Goes(s, store')
    BY <1>3 DEF Goes, Orderly, OnePending, Stored, Finished
  <2>2. Done(w)'
    BY <1>2, <1>3 DEF Done
  <2> QED BY <1>2, <2>1, <2>2 DEF Began
<1>4. CASE ~Finished(s, a) /\ o.ok /\ o.s = s
  <2>1. Goes(s, store')
    BY <1>4, GoesItself
  <2>2. Done(w)'
    <3>1. store' = s /\ current' = current
      BY <1>4
    <3> QED BY <1>1, <1>2, <1>4, <3>1 DEF Done, Finished, Pending, Stored
  <2> QED BY <1>2, <1>4, <2>1, <2>2 DEF Began
<1> QED BY <1>3, <1>4, HealEndIs

(* It awaits the settlement of the active turn, which nothing waits behind. *)
LEMMA ClaimBegan ==
  ASSUME TypeOK, NEW s, Base(s), Orderly(s), NEW w \in Worker, NEW a, a = s.active,
         a \in Pending(s), current = None, s.queued = None,
         NEW o \in Claimed(s, a), store' = o.s,
         \/ o.ok /\ Away(w, "settle", a, {}) /\ SettleFrom(w, a, o.s.turn[a])
         \/ ~o.ok /\ (\E rest : Away(w, "threw", a, rest)) /\ UNCHANGED settle
  PROVE  Began(w, s)
<1>1. a \in Turn /\ Stored(s, a) /\ s.turn[a] \in Payload /\ s.turn[a].pend /\ s \in Store
  BY StoreFields DEF Pending, Base
<1> DEFINE v == IF IsStarted(s.turn[a]) THEN Interrupted(s.turn[a]) ELSE s.turn[a]
<1>2. v \in Payload /\ ~IsStarted(v) /\ v.pend /\ v # None
  BY <1>1, InterruptedFields, PayloadFields
<1>3. /\ o.s.active = s.active /\ o.s.queued = s.queued
      /\ \A u \in Turn \ {a} : o.s.turn[u] = s.turn[u]
      /\ IF o.ok THEN o.s.turn[a] = v ELSE o.s.turn = s.turn
  <2>1. CASE IsStarted(s.turn[a])
    BY <1>1, <2>1, TurnWrite DEF Claimed
  <2>2. CASE ~IsStarted(s.turn[a])
    BY <2>2 DEF Claimed, Did
  <2> QED BY <2>1, <2>2
<1> HIDE DEF v
<1>4. Goes(s, store')
  <2>1. \A u \in Turn : Stored(s, u) => Stored(store', u)
    BY <1>1, <1>2, <1>3 DEF Stored
  <2>2. OnePending(store')
    BY <1>1, <1>2, <1>3 DEF Orderly, OnePending, Stored
  <2> QED BY <1>1, <1>3, <2>1, <2>2 DEF Goes, Orderly
<1>5. CASE o.ok /\ Away(w, "settle", a, {}) /\ SettleFrom(w, a, o.s.turn[a])
  <2>1. /\ heal'[w].at = "settle" /\ heal'[w].active = a /\ heal'[w].todo = {}
        /\ \A u \in Worker \ {w} : heal'[u] = heal[u]
    BY <1>5, AwayFields
  <2> DEFINE e == [at |-> "row", id |-> a, v |-> v]
  <2>2. e \in Settle /\ e.id = a
    BY <1>1, <1>2 DEF Settle
  <2>3. e # None
    BY <2>2, NoneAssumption
  <2>4. settle' = [settle EXCEPT ![w] = e]
    BY <1>3, <1>5 DEF SettleFrom
  <2> HIDE DEF e
  <2>5. settle'[w] = e /\ \A u \in Worker \ {w} : settle'[u] = settle[u]
    BY <2>4 DEF TypeOK
  <2>6. Stored(store', a) /\ ~IsStarted(store'.turn[a]) /\ store'.queued = None
    BY <1>2, <1>3, <1>5 DEF Stored
  <2>7. Done(w)'
    BY <2>1 DEF Done
  <2> QED BY <1>1, <1>4, <2>1, <2>2, <2>3, <2>5, <2>6, <2>7 DEF Began
<1>6. CASE ~o.ok /\ (\E rest : Away(w, "threw", a, rest)) /\ UNCHANGED settle
  <2>1. heal'[w].at = "threw" /\ \A u \in Worker \ {w} : heal'[u] = heal[u]
    BY <1>6, AwayFields
  <2>2. Done(w)'
    BY <2>1 DEF Done
  <2> QED BY <1>4, <1>6, <2>1, <2>2 DEF Began
<1> QED BY <1>5, <1>6

LEMMA BeganFrom ==
  ASSUME NEW s \in Store, NEW x, NEW w, Goes(s, x), Began(w, x) PROVE Began(w, s)
BY GoesOn DEF Began

LEMMA HealStartBegan ==
  ASSUME TypeOK, NEW s, Base(s), Orderly(s), NEW w \in Worker, HealStart(w, s), UNCHANGED current
  PROVE  Began(w, s)
<1> DEFINE a == s.active
           finished == /\ current = None /\ a # None /\ s.queued # a /\ Stored(s, a)
                       /\ (~IsStarted(s.turn[a]) \/ s.turn[a].pend)
<1>1. a \in Turn \cup {None} /\ s \in Store
  BY StoreFields DEF Base
<1>2. PICK o \in IF finished THEN PreserveWaiting(s) ELSE Did(s) :
        IF o.ok THEN HealNext(w, o.s, a, Pending(o.s) \ IF current = None THEN {} ELSE {a})
        ELSE store' = o.s /\ Away(w, "threw", a, {}) /\ UNCHANGED settle
  BY DEF HealStart
<1> DEFINE todo == Pending(o.s) \ (IF current = None THEN {} ELSE {a})
<1>3. /\ Goes(s, o.s) /\ Base(o.s) /\ Orderly(o.s) /\ o.s \in Store /\ o.s.active = a
      /\ finished /\ o.ok => o.s.queued \in {None, a}
      /\ a # None => o.s.turn[a] = s.turn[a]
      /\ ~finished => o.s = s
  <2>1. CASE finished
    <3>1. Goes(s, o.s) /\ (o.ok => o.s.queued \in {None, a})
      BY <1>2, <2>1, PreserveWaitingGoes
    <3>2. Leads(s, o.s) /\ o.s.active = a /\ (a # None => o.s.turn[a] = s.turn[a])
      BY <1>2, <2>1, PreserveWaitingLeads
    <3> QED BY <2>1, <3>1, <3>2 DEF Goes, Leads, Base
  <2>2. CASE ~finished
    BY <1>1, <1>2, <2>2, GoesItself DEF Did
  <2> QED BY <2>1, <2>2
<1>4. CASE o.ok
  <2>1. todo \subseteq {a} /\ (current # None => todo = {}) /\ todo \in SUBSET Turn
    BY <1>3 DEF Pending, Orderly, OnePending
  <2>2. finished => o.s.queued # a
    <3>1. CASE s.queued = None
      BY <1>1, <1>3, <3>1, NoneAssumption DEF Goes
    <3>2. CASE s.queued # None
      BY <1>1, <1>3, <3>2, NoneAssumption DEF Goes
    <3> QED BY <3>1, <3>2
  <2>3. a \in Pending(o.s) => finished \/ current # None
    <3> SUFFICES ASSUME a \in Pending(o.s), current = None PROVE finished
      OBVIOUS
    <3>1. a \in Turn /\ a # None /\ Stored(s, a) /\ s.turn[a].pend
      BY <1>3, NoneAssumption DEF Pending, Stored
    <3>2. s.queued # a
      BY <3>1, FixedPayloads DEF Base, StateSound, Stored
    <3> QED BY <3>1, <3>2
  <2>4. Finished(o.s, a) => finished
    BY <1>3 DEF Finished, Stored, Goes
  <2>5. HealNext(w, o.s, a, todo)
    BY <1>2, <1>4
  <2>6. \/ /\ todo \cap Pending(o.s) = {} /\ UNCHANGED settle
           /\ \E p \in HealEnd(o.s, a) : store' = p.s /\ Away(w, IF p.ok THEN "done" ELSE "threw", a, {})
        \/ /\ a \in todo \cap Pending(o.s) /\ current = None
           /\ \E p \in Claimed(o.s, a) :
                 /\ store' = p.s
                 /\ \/ p.ok /\ Away(w, "settle", a, {}) /\ SettleFrom(w, a, p.s.turn[a])
                    \/ ~p.ok /\ (\E rest : Away(w, "threw", a, rest)) /\ UNCHANGED settle
    <3>1. todo \cap Pending(o.s) \subseteq {a}
      BY <2>1
    <3> HIDE DEF todo
    <3> QED BY <1>1, <2>1, <2>5, <3>1, HealNextIs
  <2>7. CASE /\ todo \cap Pending(o.s) = {} /\ UNCHANGED settle
             /\ \E p \in HealEnd(o.s, a) : store' = p.s /\ Away(w, IF p.ok THEN "done" ELSE "threw", a, {})
    <3>1. current = None => a \notin Pending(o.s)
      BY <2>7
    <3>2. Finished(o.s, a) => o.s.queued = None
      BY <1>3, <1>4, <2>2, <2>4
    <3>3. Began(w, o.s)
      BY <1>3, <2>7, <3>1, <3>2, EndBegan
    <3> QED BY <1>1, <1>3, <3>3, BeganFrom
  <2>8. CASE /\ a \in Pending(o.s) /\ current = None
             /\ \E p \in Claimed(o.s, a) :
                 /\ store' = p.s
                 /\ \/ p.ok /\ Away(w, "settle", a, {}) /\ SettleFrom(w, a, p.s.turn[a])
                    \/ ~p.ok /\ (\E rest : Away(w, "threw", a, rest)) /\ UNCHANGED settle
    <3>1. o.s.queued = None
      BY <1>3, <1>4, <2>2, <2>3, <2>8
    <3>2. Began(w, o.s)
      BY <1>3, <2>8, <3>1, ClaimBegan
    <3> QED BY <1>1, <1>3, <3>2, BeganFrom
  <2> QED BY <2>6, <2>7, <2>8
<1>5. CASE ~o.ok
  <2>1. store' = o.s /\ Away(w, "threw", a, {}) /\ UNCHANGED settle
    BY <1>2, <1>5
  <2>2. heal'[w].at = "threw" /\ \A v \in Worker \ {w} : heal'[v] = heal[v]
    BY <2>1, AwayFields
  <2> QED BY <1>3, <2>1, <2>2 DEF Began, Done
<1> QED BY <1>4, <1>5

-----------------------------------------------------------------------------
(* Steps.  What every step respects: W is the worker whose recovery moves, if any; the   *)
(* others stay at the settlements they await.                                    *)
Others(W) == \A v \in Worker \ W : heal'[v] # None =>
  heal'[v] = heal[v] /\ settle'[v] = settle[v] /\ heal[v].at = "settle"
(* What is stored is not run or queued again. *)
Untaken == \A t \in Turn : Stored(store, t) =>
  (task[t] = None => task'[t] = None) /\ (store.queued # t => store'.queued # t)
(* Where a waiting question can come from. *)
Put == store'.queued # None =>
  \/ store.queued # None /\ store'.active = store.active
  \/ ~Stored(store, store'.active)
  \/ \E c \in Call : Queues(c) /\ store'.active = store.active /\ Unquiet(c) /\ call[c].t \in Turn
(* Only a recovery that clears the state loses a question. *)
Loses == \A t \in Turn : Safe(t) => Safe(t)' \/ \E w \in Worker : Clears(w, t)
Moves(W) ==
  /\ W \subseteq Worker /\ \A v, w \in W : v = w
  /\ Others(W) /\ Untaken /\ Put /\ Loses /\ Orderly(store)'
  /\ \A w \in W : Waits(w)' /\ Done(w)' /\ (Danger(w)' => Danger(w))
Moving == \E W \in SUBSET Worker : Moves(W)

LEMMA MovesTidy ==
  ASSUME Tidy, Moving, Kept(store, store')
  PROVE  Tidy'
<1>1. PICK W \in SUBSET Worker : Moves(W)
  BY DEF Moving
<1>2. Orderly(store)' /\ Others(W) /\ Untaken /\ \A v, w \in W : v = w
  BY <1>1 DEF Moves
<1>3. OneAwake'
  BY <1>2 DEF OneAwake, Unquiet, Others
<1>4. ASSUME NEW w \in Worker PROVE Waits(w)' /\ Done(w)'
  <2>1. CASE w \in W
    BY <1>1, <2>1 DEF Moves
  <2>2. CASE w \notin W /\ heal'[w] # None
    <3>1. heal'[w] = heal[w] /\ settle'[w] = settle[w] /\ heal[w].at = "settle" /\ heal[w] # None
      BY <1>2, <2>2 DEF Others
    <3> DEFINE a == heal[w].active
    <3>2. /\ a \in Turn /\ Stored(store, a) /\ ~IsStarted(store.turn[a]) /\ task[a] = None
          /\ heal[w].todo = {} /\ store.queued # a /\ settle[w] # None /\ settle[w].id = a
      BY <3>1 DEF Tidy, Waits, Between
    <3>3. Stored(store', a) /\ ~IsStarted(store'.turn[a]) /\ task'[a] = None /\ store'.queued # a
      BY <1>2, <3>2 DEF Untaken, Kept, IsStarted
    <3> QED BY <3>1, <3>2, <3>3 DEF Waits, Done, Stored
  <2>3. CASE heal'[w] = None
    BY <2>3 DEF Waits, Done
  <2> QED BY <2>1, <2>2, <2>3
<1> QED BY <1>2, <1>3, <1>4 DEF Tidy

(* No recovery comes to endanger a question, unless recoveries of different turns    *)
(* overlap.                                                                    *)
LEMMA MovesNoDanger ==
  ASSUME IInv, Tidy, NoDanger, Moving, ~Stale
  PROVE  NoDanger'
<1>1. PICK W \in SUBSET Worker : Moves(W)
  BY DEF Moving
<1> SUFFICES ASSUME NEW w \in Worker, Danger(w)' PROVE FALSE
  BY DEF NoDanger
<1>2. w \notin W
  BY <1>1 DEF Moves, NoDanger
<1>3. /\ heal'[w] = heal[w] /\ heal[w] # None /\ heal[w].at = "settle"
      /\ heal[w].active = store'.active /\ store'.queued # None
  BY <1>1, <1>2 DEF Moves, Others, Danger
<1> DEFINE a == heal[w].active
<1>4. a \in Turn /\ Stored(store, a) /\ ~IsStarted(store.turn[a]) /\ task[a] = None
  BY <1>3 DEF Tidy, Waits, Between
<1>5. ~(store.queued # None /\ store'.active = store.active)
  BY <1>3 DEF NoDanger, Danger, Between
<1>6. Put
  BY <1>1 DEF Moves
<1>7. PICK c \in Call : Queues(c) /\ store'.active = store.active /\ Unquiet(c) /\ call[c].t \in Turn
  BY <1>3, <1>4, <1>5, <1>6 DEF Put
<1>8. store.active = a /\ store.queued = None
  BY <1>3, <1>7 DEF Queues
<1>9. current = None
  <2>1. current # None => task[current] # None /\ current \in Turn
    BY DEF IInv, Processes, OneTask, TypeOK
  <2> QED BY <1>4, <1>8, <2>1, RunningFacts
<1>10. store.turn[a].err = None /\ ~Stored(store, call[c].t) /\ heal[c] # None /\ heal[c].at = "done"
  BY <1>4, <1>7, <1>8, <1>9 DEF Queues, Returning, Healing
<1>11. c \in Worker
  BY DEF Worker
<1> DEFINE b == heal[c].active
<1>12. b # a
  BY <1>4, <1>8, <1>9, <1>10, <1>11, NoneAssumption DEF Tidy, Done
<1>13. Stale
  BY <1>3, <1>10, <1>11, <1>12 DEF Stale
<1> QED BY <1>13

(* No question begins, waits or is withdrawn. *)
LEMMA GoesMoves ==
  ASSUME store \in Store, Goes(store, store'), UNCHANGED <<accepted, stopped>>,
         \A t \in Turn : task[t] = None => task'[t] = None
  PROVE  Untaken /\ Put /\ Loses /\ Orderly(store)'
<1>1. Untaken
  BY NoneAssumption DEF Goes, Untaken
<1>2. Put
  BY DEF Goes, Put
<1>3. \A t \in Turn : Safe(t) => Safe(t)'
  BY NoneAssumption DEF Goes, Safe, Stored
<1>4. Orderly(store)'
  BY DEF Goes, Orderly, OnePending, Stored
<1> QED BY <1>1, <1>2, <1>3, <1>4 DEF Loses

LEMMA NobodyMoves ==
  ASSUME Quiet, store \in Store, Goes(store, store'), UNCHANGED <<heal, settle, accepted, stopped>>,
         \A t \in Turn : task[t] = None => task'[t] = None
  PROVE  Moving
<1>1. Others({})
  BY DEF Others, Quiet
<1>2. Untaken /\ Put /\ Loses /\ Orderly(store)'
  BY GoesMoves
<1>3. Moves({})
  BY <1>1, <1>2 DEF Moves
<1> QED BY <1>3 DEF Moving

(* The recovery of w moves. *)
LEMMA OneMoves ==
  ASSUME NEW w \in Worker, Others({w}), Untaken, Put, Loses, Orderly(store)',
         Waits(w)', Done(w)', Danger(w)' => Danger(w)
  PROVE  Moving
<1>1. Moves({w})
  BY DEF Moves
<1> QED BY <1>1 DEF Moving

LEMMA QuietOthers ==
  ASSUME Quiet, NEW w \in Worker,
         \A v \in Worker \ {w} : heal'[v] = heal[v] /\ settle'[v] = settle[v]
  PROVE  Others({w})
BY DEF Quiet, Others

LEMMA AwakeOthers ==
  ASSUME Tidy, NEW w \in Worker, Unquiet(w), UNCHANGED settle,
         \A v \in Worker \ {w} : heal'[v] = heal[v]
  PROVE  Others({w})
<1>1. \A v \in Worker \ {w} : heal[v] # None => heal[v].at = "settle"
  BY DEF Tidy, OneAwake, Unquiet
<1> QED BY <1>1 DEF Others

(* A recovery is over, or its settlement is a running turn's. *)
LEMMA NothingMoves ==
  ASSUME NEW w, heal'[w] = None
  PROVE  Waits(w)' /\ Done(w)' /\ ~Danger(w)'
BY DEF Waits, Done, Danger

(* A recovery that begins, quietly or at the end of a step. *)
LEMMA BeganMoves ==
  ASSUME IInv, Quiet, NEW w \in Worker, Began(w, store),
         UNCHANGED <<current, accepted, stopped>>,
         \A t \in Turn : task[t] = None => task'[t] = None
  PROVE  Moving
<1>1. store \in Store /\ Processes
  BY DEF IInv, Base
<1>2. Others({w})
  BY QuietOthers DEF Began
<1>3. Untaken /\ Put /\ Loses /\ Orderly(store)'
  BY <1>1, GoesMoves DEF Began
<1>4. Waits(w)' /\ ~Danger(w)'
  <2>1. CASE heal'[w].at = "settle"
    <3> DEFINE a == heal'[w].active
    <3>1. /\ a \in Turn /\ Stored(store', a) /\ ~IsStarted(store'.turn[a]) /\ current = None
          /\ heal'[w].todo = {} /\ store'.queued = None /\ settle'[w] # None /\ settle'[w].id = a
      BY <2>1 DEF Began
    <3>2. task'[a] = None /\ a # None
      BY <1>1, <3>1, NoneAssumption DEF Processes, OneTask
    <3> QED BY <2>1, <3>1, <3>2 DEF Waits, Danger, Stored
  <2>2. CASE heal'[w].at \in {"done", "threw"}
    BY <2>2 DEF Waits, Danger, Between
  <2> QED BY <2>1, <2>2 DEF Began
<1>5. Done(w)'
  BY DEF Began
<1> QED BY <1>2, <1>3, <1>4, <1>5, OneMoves

-----------------------------------------------------------------------------
(* recoverFinishedTurn goes on, after the settlement it awaited. *)
LEMMA HealContinueMoves ==
  ASSUME IInv, Tidy, NEW w \in Worker, HealContinue(w) PROVE Moving
<1> DEFINE a == heal[w].active
<1>1. /\ TypeOK /\ store \in Store /\ heal[w] # None /\ heal[w].at = "next"
      /\ UNCHANGED <<current, task, accepted, stopped>>
  BY DEF IInv, Base, HealContinue, Healing, history
<1>2. /\ a \in Turn /\ Stored(store, a) /\ ~IsStarted(store.turn[a]) /\ heal[w].todo = {}
      /\ store.turn[a].pend => store.turn[a].err # None
  BY <1>1 DEF Tidy, Waits, Between
<1>3. HealNext(w, store, a, {})
  BY <1>2 DEF HealContinue
<1>4. PICK o \in HealEnd(store, a) :
        store' = o.s /\ Away(w, IF o.ok THEN "done" ELSE "threw", a, {}) /\ UNCHANGED settle
  <2>1. {} \in SUBSET Turn /\ {} \cap Pending(store) = {} /\ {} \subseteq {a} /\ a \in Turn \cup {None}
    BY <1>2
  <2>2. a \notin {} \cap Pending(store)
    OBVIOUS
  <2> HIDE DEF a
  <2> QED BY <1>3, <2>1, <2>2, HealNextIs
<1>5. /\ heal'[w].at = (IF o.ok THEN "done" ELSE "threw") /\ heal'[w].active = a
      /\ \A v \in Worker \ {w} : heal'[v] = heal[v]
  BY <1>1, <1>4, AwayFields
<1>6. Others({w})
  BY <1>1, <1>4, <1>5, AwakeOthers DEF Unquiet
<1>7. Waits(w)' /\ ~Danger(w)'
  BY <1>5 DEF Waits, Danger, Between
<1>8. CASE Finished(store, a) /\ o.s.turn = store.turn /\ o.ok /\ o.s.active = None /\ o.s.queued = None
  <2>1. Orderly(store)'
    BY <1>4, <1>8 DEF Tidy, Orderly, OnePending, Stored, Finished
  <2>2. Untaken /\ Put
    BY <1>1, <1>4, <1>8, NoneAssumption DEF Untaken, Put
  <2>3. ASSUME NEW t \in Turn, Safe(t), ~Safe(t)' PROVE Clears(w, t)
    <3>1. store.queued = t
      BY <1>1, <1>4, <1>8, <2>3 DEF Safe, Stored
    <3> QED BY <1>1, <1>8, <3>1 DEF Clears, Healing, Finished
  <2>4. Done(w)'
    BY <1>4, <1>5, <1>8 DEF Done
  <2> QED BY <1>6, <1>7, <2>1, <2>2, <2>3, <2>4, OneMoves DEF Loses
<1>9. CASE Finished(store, a) /\ o.s.turn = store.turn /\ ~o.ok
           /\ o.s.active = store.active /\ o.s.queued = store.queued
  <2>1. Goes(store, store')
    BY <1>4, <1>9, GoesSame DEF Tidy
  <2>2. Done(w)'
    BY <1>5, <1>9 DEF Done
  <2> QED BY <1>1, <1>6, <1>7, <2>1, <2>2, GoesMoves, OneMoves
<1>10. CASE ~Finished(store, a) /\ o.ok /\ o.s = store
  <2>1. Goes(store, store')
    BY <1>4, <1>10, GoesItself DEF Tidy
  <2>2. Done(w)'
    <3>1. store' = store /\ current' = current
      BY <1>1, <1>4, <1>10
    <3> QED BY <1>2, <1>5, <1>10, <3>1 DEF Done, Finished, Stored
  <2> QED BY <1>1, <1>6, <1>7, <2>1, <2>2, GoesMoves, OneMoves
<1> QED BY <1>1, <1>8, <1>9, <1>10, HealEndIs DEF Tidy

-----------------------------------------------------------------------------
(* settleTurn.  A settlement that ends: what is still pending bears a note, unless the   *)
(* note could not be written.                                                   *)
Ends(w) ==
  LET t == settle[w].id IN
  /\ store'.active = store.active /\ store'.queued = store.queued
  /\ \A u \in Turn \ {t} : store'.turn[u] = store.turn[u]
  /\ store'.turn[t].pend => store.turn[t].pend
  /\ \E ok : SettleReturns(w, ok) /\ (ok /\ store'.turn[t].pend => store'.turn[t].err # None)

LEMMA FailsEnds ==
  ASSUME TypeOK, Base(store), NEW w \in Worker, settle[w] # None,
         NEW s \in Store, s.turn = store.turn, s.active = store.active, s.queued = store.queued,
         NEW failure \in {"pending", "mismatch"}, Fails(w, s, failure)
  PROVE  Ends(w)
<1> DEFINE t == settle[w].id
           v == [s.turn[t] EXCEPT !.err = failure]
<1>1. t \in Turn /\ s.turn[t] \in Payload
  BY ClosingFacts
<1>2. PICK o \in Note(s, t, failure) : store' = o.s /\ SettleReturns(w, o.ok)
  BY DEF Fails
<1>3. CASE ~s.turn[t].pend
  <2>1. o \in Did(s)
    BY <1>2, <1>3 DEF Note
  <2>2. o.s = s
    BY <2>1 DEF Did
  <2> QED BY <1>2, <1>3, <2>2 DEF Ends
<1>4. CASE s.turn[t].pend
  <2>1. o \in WriteTurn(s, t, v)
    BY <1>2, <1>4 DEF Note
  <2>2. v.err = failure /\ failure # None
    BY <1>1, NoneAssumption DEF Payload
  <2> HIDE DEF v
  <2>3. /\ o.s.active = s.active /\ o.s.queued = s.queued
        /\ \A u \in Turn \ {t} : o.s.turn[u] = s.turn[u]
        /\ IF o.ok THEN o.s.turn[t] = v ELSE o.s.turn = s.turn
    BY <1>1, <2>1, TurnWrite
  <2> QED BY <1>2, <1>4, <2>2, <2>3 DEF Ends
<1> QED BY <1>3, <1>4

LEMMA ConcludeEnds ==
  ASSUME TypeOK, Base(store), NEW w \in Worker, settle[w] # None,
         Conclude(w, settle[w].v, row[settle[w].id])
  PROVE  Ends(w)
<1> DEFINE t == settle[w].id
           u == Zeroed(settle[w].v, row[t])
           v == [u EXCEPT !.pend = FALSE, !.err = None]
<1>1. t \in Turn /\ u \in Payload /\ store \in Store
  BY ClosingFacts, ZeroedFields DEF Base
<1>2. ~v.pend
  BY <1>1 DEF Payload
<1>3. CASE Agree(u, row[t])
  <2>1. PICK o \in WriteTurn(store, t, v) :
          IF o.ok THEN store' = o.s /\ SettleReturns(w, TRUE) ELSE Fails(w, o.s, "pending")
    BY <1>3 DEF Conclude
  <2> HIDE DEF v
  <2>2. /\ o.s.active = store.active /\ o.s.queued = store.queued
        /\ \A i \in Turn \ {t} : o.s.turn[i] = store.turn[i]
        /\ IF o.ok THEN o.s.turn[t] = v ELSE o.s.turn = store.turn
    BY <1>1, <2>1, TurnWrite
  <2>3. CASE o.ok
    BY <1>2, <2>1, <2>2, <2>3 DEF Ends
  <2>4. CASE ~o.ok
    <3>1. o.s \in Store
      <4>1. o \in Write(store, [store EXCEPT !.turn[t] = v])
        BY <2>1 DEF WriteTurn
      <4>2. o.s = Faulted(store) /\ store.faults < MaxFaults
        BY <2>4, <4>1 DEF Write, Did, Threw, Faulted
      <4> QED BY <1>1, <4>2, FaultedFields
    <3> QED BY <2>1, <2>2, <2>4, <3>1, FailsEnds
  <2> QED BY <2>3, <2>4
<1>4. CASE ~Agree(u, row[t])
  <2>1. PICK failure \in {"pending", "mismatch"} : Fails(w, store, failure)
    BY <1>4 DEF Conclude
  <2> QED BY <1>1, <2>1, FailsEnds
<1> QED BY <1>3, <1>4

LEMMA EndsMoves ==
  ASSUME IInv, Tidy, Quiet, NEW w \in Worker, settle[w] # None, Ends(w), Kept(store, store'),
         UNCHANGED elsewhere
  PROVE  Moving
<1> DEFINE t == settle[w].id
<1>1. /\ TypeOK /\ Processes /\ store \in Store /\ t \in Turn
      /\ UNCHANGED <<current, accepted, stopped>>
  BY ClosingFacts DEF IInv, Base, elsewhere, history
<1>2. PICK ok : SettleReturns(w, ok) /\ (ok /\ store'.turn[t].pend => store'.turn[t].err # None)
  BY DEF Ends
<1>3. /\ store'.active = store.active /\ store'.queued = store.queued
      /\ \A u \in Turn : Stored(store, u) => Stored(store', u)
      /\ \A u \in Turn : Stored(store', u) /\ store'.turn[u].pend => store.turn[u].pend /\ Stored(store, u)
  <2>1. Stored(store, t)
    BY <1>1, ClosingFacts DEF IInv
  <2>2. \A u \in Turn : Stored(store, u) => Stored(store', u)
    BY DEF Kept
  <2>3. ASSUME NEW u \in Turn, Stored(store', u), store'.turn[u].pend
        PROVE  store.turn[u].pend /\ Stored(store, u)
    <3>1. CASE u = t
      BY <2>1, <2>3, <3>1 DEF Ends
    <3>2. CASE u # t
      BY <2>3, <3>2 DEF Ends, Stored
    <3> QED BY <3>1, <3>2
  <2> QED BY <2>2, <2>3 DEF Ends
<1>4. Goes(store, store')
  <2>1. store.active \in Turn \cup {None}
    BY <1>1, StoreFields
  <2> QED BY <1>3, <2>1 DEF Tidy, Orderly, OnePending, Goes
<1>5. \A u \in Worker \ {w} : settle'[u] = settle[u]
  BY <1>1, <1>2 DEF TypeOK, SettleReturns
<1>6. CASE heal[w] = None
  <2>1. w \in Turn /\ task[w] # None
    BY <1>1, <1>6 DEF Processes, SettleOwned
  <2>2. task' = [task EXCEPT ![w].at = "advance"] /\ UNCHANGED heal
    BY <1>2, <1>6, <2>1 DEF SettleReturns
  <2>3. \A u \in Turn : task[u] = None => task'[u] = None
    BY <1>1, <2>1, <2>2 DEF TypeOK
  <2>4. Others({w})
    BY <1>5, <2>2, QuietOthers
  <2> QED BY <1>1, <1>4, <1>6, <2>2, <2>3, <2>4, GoesMoves, NothingMoves, OneMoves
<1>7. CASE heal[w] # None
  <2>1. heal[w].at = "settle" /\ heal[w] \in Heal /\ heal \in [Worker -> Heal \cup {None}]
    BY <1>1, <1>7 DEF Quiet, TypeOK
  <2> DEFINE h == [heal[w] EXCEPT !.at = IF ok THEN "next" ELSE "threw"]
  <2>2. heal' = [heal EXCEPT ![w] = h] /\ UNCHANGED task
    BY <1>2, <1>7 DEF SettleReturns
  <2>3. h.at = (IF ok THEN "next" ELSE "threw") /\ h.active = heal[w].active /\ h.todo = heal[w].todo
    BY <2>1 DEF Heal
  <2> HIDE DEF h
  <2>4. heal'[w] = h /\ \A u \in Worker \ {w} : heal'[u] = heal[u]
    BY <2>1, <2>2
  <2>5. Others({w})
    BY <1>5, <2>4, QuietOthers
  <2>6. /\ heal[w].active = t /\ ~IsStarted(store.turn[t]) /\ Stored(store, t) /\ task[t] = None
        /\ heal[w].todo = {} /\ store.queued # t
    BY <1>7, <2>1 DEF Tidy, Waits, Between
  <2>7. Stored(store', t) /\ ~IsStarted(store'.turn[t])
    BY <1>1, <2>6 DEF Kept, IsStarted
  <2>8. Waits(w)'
    BY <1>1, <1>2, <1>3, <2>2, <2>3, <2>4, <2>6, <2>7 DEF Waits, Stored
  <2>9. Done(w)' /\ (Danger(w)' => Danger(w))
    BY <1>3, <1>7, <2>1, <2>3, <2>4 DEF Done, Danger, Between
  <2> QED BY <1>1, <1>4, <2>2, <2>5, <2>8, <2>9, GoesMoves, OneMoves
<1> QED BY <1>6, <1>7

(* A settlement that goes on to its update, or to its last read. *)
LEMMA SettlingMoves ==
  ASSUME IInv, Tidy, Quiet, NEW w \in Worker, settle[w] # None,
         NEW e \in Settle, e.id = settle[w].id, settle' = [settle EXCEPT ![w] = e],
         Goes(store, store'), Kept(store, store'), UNCHANGED <<task, heal, accepted, stopped>>
  PROVE  Moving
<1>1. TypeOK /\ store \in Store /\ e # None
  BY NoneAssumption DEF IInv, Base
<1>2. settle'[w] = e /\ \A u \in Worker \ {w} : settle'[u] = settle[u]
  BY <1>1 DEF TypeOK
<1>3. Others({w})
  BY <1>2, QuietOthers
<1>4. CASE heal[w] = None
  BY <1>1, <1>3, <1>4, GoesMoves, NothingMoves, OneMoves
<1>5. CASE heal[w] # None
  <2> DEFINE a == heal[w].active
  <2>1. /\ heal[w].at = "settle" /\ a \in Turn /\ ~IsStarted(store.turn[a]) /\ Stored(store, a)
        /\ task[a] = None /\ heal[w].todo = {} /\ store.queued # a /\ settle[w].id = a
    BY <1>5 DEF Quiet, Tidy, Waits, Between
  <2>2. Stored(store', a) /\ ~IsStarted(store'.turn[a]) /\ store'.queued # a
    BY <1>1, <2>1, NoneAssumption DEF Kept, IsStarted, Goes
  <2>3. Waits(w)' /\ Done(w)'
    BY <1>1, <1>2, <2>1, <2>2 DEF Waits, Done, Stored
  <2>4. Danger(w)' => Danger(w)
    BY <1>5 DEF Danger, Goes
  <2> QED BY <1>1, <1>3, <2>3, <2>4, GoesMoves, OneMoves
<1> QED BY <1>4, <1>5

LEMMA SettleRowMoves ==
  ASSUME IInv, Tidy, Quiet, NEW w \in Worker, SettleRow(w), Kept(store, store') PROVE Moving
<1> DEFINE t == settle[w].id
           r == row[t]
           v == Recovered(settle[w].v, r)
<1>1. /\ TypeOK /\ Base(store) /\ store \in Store /\ settle[w] # None /\ UNCHANGED elsewhere
      /\ UNCHANGED <<accepted, stopped>>
  BY DEF IInv, Base, SettleRow, Settling, elsewhere, history
<1>2. /\ t \in Turn /\ settle[w] \in Settle /\ settle[w].v \in Payload /\ Stored(store, t)
      /\ ~IsStarted(store.turn[t]) /\ r \in Columns \cup {None}
  BY <1>1, ClosingFacts DEF Closing
<1>3. CASE Conclude(w, settle[w].v, r) \/ Fails(w, store, "mismatch")
  <2>1. Ends(w)
    BY <1>1, <1>3, ConcludeEnds, FailsEnds
  <2> QED BY <1>1, <2>1, EndsMoves
<1>4. CASE r # None /\ r.st = "started"
           /\ \E o \in WriteTurn(store, t, v) :
                IF o.ok THEN /\ store' = o.s
                             /\ settle' = [settle EXCEPT ![w].at = "update", ![w].v = v]
                             /\ UNCHANGED <<task, heal>>
                ELSE Fails(w, o.s, "pending")
  <2>1. PICK o \in WriteTurn(store, t, v) :
          IF o.ok THEN /\ store' = o.s
                       /\ settle' = [settle EXCEPT ![w].at = "update", ![w].v = v]
                       /\ UNCHANGED <<task, heal>>
          ELSE Fails(w, o.s, "pending")
    BY <1>4
  <2>2. v \in Payload
    BY <1>2, <1>4, RecoveredFields
  <2> HIDE DEF v
  <2>3. /\ o.s.active = store.active /\ o.s.queued = store.queued
        /\ \A u \in Turn \ {t} : o.s.turn[u] = store.turn[u]
        /\ IF o.ok THEN o.s.turn[t] = v ELSE o.s.turn = store.turn
    BY <1>1, <1>2, <2>1, TurnWrite
  <2>4. store.active = t   \* the row is open, so the result is pending
    <3>1. store.turn[t].pend
      BY <1>2, <1>4 DEF IInv, Base, PayloadSound, IsStarted
    <3> QED BY <1>2, <3>1 DEF Tidy, Orderly, OnePending
  <2>5. CASE o.ok
    <3> DEFINE e == [settle[w] EXCEPT !.at = "update", !.v = v]
    <3>1. e \in Settle /\ e.id = t
      BY <1>2, <2>2 DEF Settle
    <3>2. settle' = [settle EXCEPT ![w] = e]
      BY <1>1, <1>2, <2>1, <2>5 DEF TypeOK, Settle
    <3> HIDE DEF e
    <3>3. Goes(store, store')
      <4>1. \A u \in Turn : Stored(store, u) => Stored(store', u)
        BY DEF Kept
      <4>2. OnePending(store')
        BY <2>1, <2>3, <2>4, <2>5 DEF Tidy, Orderly, OnePending, Stored
      <4> QED BY <2>1, <2>3, <2>5, <1>2, <2>4, <4>1, <4>2 DEF Goes, Tidy, Orderly
    <3> QED BY <1>1, <2>1, <2>5, <3>1, <3>2, <3>3, SettlingMoves
  <2>6. CASE ~o.ok
    <3>1. o \in Write(store, [store EXCEPT !.turn[t] = v])
      BY <2>1 DEF WriteTurn
    <3>2. o.s = Faulted(store) /\ store.faults < MaxFaults
      BY <2>6, <3>1 DEF Write, Did, Threw, Faulted
    <3>3. o.s \in Store /\ Fails(w, o.s, "pending")
      BY <1>1, <2>1, <2>6, <3>2, FaultedFields
    <3>4. Ends(w)
      BY <1>1, <2>3, <2>6, <3>3, FailsEnds
    <3> QED BY <1>1, <3>4, EndsMoves
  <2> QED BY <2>5, <2>6
<1> QED BY <1>3, <1>4 DEF SettleRow

LEMMA SettleStepMoves ==
  ASSUME IInv, Tidy, Quiet, NEW w \in Worker, SettleStep(w), Kept(store, store') PROVE Moving
<1>1. /\ TypeOK /\ Base(store) /\ store \in Store /\ settle[w] # None /\ settle[w] \in Settle
  BY DEF IInv, Base, TypeOK, SettleStep, SettleRow, SettleUpdate, SettleCheck, SettleUnread, Settling
<1>2. CASE SettleUpdate(w)
  <2> DEFINE e == [settle[w] EXCEPT !.at = "check"]
  <2>1. e \in Settle /\ e.id = settle[w].id
    BY <1>1 DEF Settle
  <2>2. settle' = [settle EXCEPT ![w] = e] /\ UNCHANGED <<store, task, heal, accepted, stopped>>
    BY <1>2 DEF SettleUpdate, history
  <2> HIDE DEF e
  <2>3. Goes(store, store')
    BY <2>2, GoesItself DEF Tidy
  <2> QED BY <1>1, <2>1, <2>2, <2>3, SettlingMoves
<1>3. CASE SettleCheck(w)
  <2>1. Ends(w) /\ UNCHANGED elsewhere
    BY <1>1, <1>3, ConcludeEnds DEF SettleCheck
  <2> QED BY <1>1, <2>1, EndsMoves
<1>4. CASE SettleUnread(w)
  <2>1. Ends(w) /\ UNCHANGED elsewhere
    BY <1>1, <1>4, FailsEnds DEF SettleUnread
  <2> QED BY <1>1, <2>1, EndsMoves
<1> QED BY <1>2, <1>3, <1>4, SettleRowMoves DEF SettleStep

-----------------------------------------------------------------------------
(* The methods.  A recovery has ended, and its caller goes on. *)
LEMMA ReturnMoves ==
  ASSUME TypeOK, Tidy, NEW w \in Worker, Unquiet(w), Healed(w), UNCHANGED settle,
         Untaken, Put, Loses, Orderly(store)'
  PROVE  Moving
<1>1. heal'[w] = None /\ \A v \in Worker \ {w} : heal'[v] = heal[v]
  BY DEF TypeOK, Healed
<1>2. Others({w})
  BY <1>1, AwakeOthers
<1> QED BY <1>1, <1>2, NothingMoves, OneMoves

LEMMA RepliesMoves ==
  ASSUME IInv, Tidy, NEW c \in Call, Replies(c) PROVE Moving
<1>1. /\ TypeOK /\ store \in Store /\ c \in Worker /\ Unquiet(c) /\ Healed(c)
      /\ UNCHANGED <<store, task, settle, accepted, stopped>>
  BY DEF IInv, Base, Worker, Unquiet, Replies, Returning, Healing, Return, history
<1>2. Goes(store, store')
  BY <1>1, GoesItself DEF Tidy
<1> QED BY <1>1, <1>2, GoesMoves, ReturnMoves

LEMMA AnswerFields ==
  ASSUME IInv, NEW c \in Call, NEW ops, ops \cap {"page", "answer"} = {}, Returning(c, ops, "done")
  PROVE  /\ call[c].t \in Turn /\ c \in Worker /\ Unquiet(c) /\ TypeOK /\ store \in Store
         /\ accepted \in [Turn -> BOOLEAN] /\ stopped \in [Turn -> {None, "waiting", "active"}]
         /\ store.active \in Turn \cup {None} /\ store.stop \in BOOLEAN
<1>1. call[c].t \in Turn
  BY DEF IInv, Processes, Named, Returning
<1>2. store \in Store /\ TypeOK
  BY DEF IInv, Base
<1> QED BY <1>1, <1>2, StoreFields DEF TypeOK, Worker, Unquiet, Returning, Healing

(* A state write with a waiting question, or one that throws. *)
LEMMA QueueWrite ==
  ASSUME NEW s \in Store, NEW a \in Turn \cup {None}, NEW q \in Turn \cup {None}, NEW stop \in BOOLEAN,
         NEW o \in ChangeState(s, a, q, stop)
  PROVE  /\ o.s.turn = s.turn
         /\ IF o.ok THEN o.s.active = a /\ o.s.queued = q
            ELSE o.s.active = s.active /\ o.s.queued = s.queued
<1> DEFINE x == StateSet(s, a, q, stop)
<1>1. x \in Store /\ x.active = a /\ x.queued = q /\ x.turn = s.turn
  BY StateSetFields
<1>2. o \in Write(s, x)
  BY DEF ChangeState, StateSet
<1> HIDE DEF x
<1>3. \/ o.ok /\ o.s = x
      \/ ~o.ok /\ o.s = Faulted(s) /\ s.faults < MaxFaults
  BY <1>1, <1>2, Writes
<1> QED BY <1>1, <1>3, FaultedFields

(* submitTurn with nothing active: nothing waited either. *)
LEMMA SubmitStartsMoves ==
  ASSUME IInv, Tidy, NEW c \in Call, SubmitStarts(c) PROVE Moving
<1> DEFINE t == call[c].t
<1>1. /\ t \in Turn /\ c \in Worker /\ Unquiet(c) /\ TypeOK /\ store \in Store /\ Healed(c)
      /\ ~Stored(store, t) /\ store.active = None /\ UNCHANGED settle
      /\ accepted \in [Turn -> BOOLEAN] /\ stopped \in [Turn -> {None, "waiting", "active"}]
  BY AnswerFields DEF SubmitStarts, Starts, Return
<1>2. PICK o \in ChangeState(store, t, t, FALSE) :
        /\ store' = o.s
        /\ IF o.ok THEN task' = [task EXCEPT ![t] = Fresh] /\ current' = t /\ Accept(t)
           ELSE UNCHANGED <<task, current, accepted, stopped>>
  BY DEF SubmitStarts
<1>3. /\ store'.turn = store.turn
      /\ IF o.ok THEN store'.active = t /\ store'.queued = t
         ELSE store'.active = store.active /\ store'.queued = store.queued
  <2>1. t \in Turn \cup {None} /\ FALSE \in BOOLEAN /\ store \in Store /\ store' = o.s
    BY <1>1, <1>2
  <2> HIDE DEF t
  <2> QED BY <2>1, QueueWrite
<1>4. CASE o.ok
  <2>1. store.queued = None /\ t # None
    BY <1>1, NoneAssumption DEF Tidy, Orderly
  <2>2. /\ \A u \in Turn \ {t} : task'[u] = task[u] /\ accepted'[u] = accepted[u] /\ stopped'[u] = stopped[u]
        /\ \A u \in Turn : Stored(store', u) <=> Stored(store, u)
    BY <1>1, <1>2, <1>3, <1>4 DEF TypeOK, Accept, Stored
  <2>3. Untaken
    BY <1>1, <1>3, <1>4, <2>2 DEF Untaken
  <2>4. Put
    BY <1>1, <1>3, <1>4 DEF Put
  <2>5. ASSUME NEW u \in Turn, Safe(u) PROVE Safe(u)'
    <3>1. CASE u = t
      BY <1>3, <1>4, <3>1 DEF Safe
    <3>2. CASE u # t
      BY <2>1, <2>2, <2>5, <3>2, NoneAssumption DEF Safe, Stored
    <3> QED BY <3>1, <3>2
  <2>6. Orderly(store)'
    BY <1>1, <1>3, <1>4, <2>1, <2>2, NoneAssumption DEF Tidy, Orderly, OnePending, Stored
  <2> QED BY <1>1, <2>3, <2>4, <2>5, <2>6, ReturnMoves DEF Loses
<1>5. CASE ~o.ok
  <2>1. UNCHANGED <<task, accepted, stopped>>
    BY <1>2, <1>5
  <2>2. Goes(store, store')
    BY <1>3, <1>5, GoesSame DEF Tidy
  <2> QED BY <1>1, <2>1, <2>2, GoesMoves, ReturnMoves
<1> QED BY <1>4, <1>5

(* submitTurn behind the active turn. *)
LEMMA SubmitQueuesMoves ==
  ASSUME IInv, Tidy, NEW c \in Call, SubmitQueues(c) PROVE Moving
<1> DEFINE t == call[c].t
<1>1. /\ t \in Turn /\ c \in Worker /\ Unquiet(c) /\ TypeOK /\ store \in Store /\ Healed(c)
      /\ ~Stored(store, t) /\ store.active \in Turn /\ store.queued = None /\ Queues(c)
      /\ UNCHANGED <<settle, task>>
      /\ accepted \in [Turn -> BOOLEAN] /\ stopped \in [Turn -> {None, "waiting", "active"}]
      /\ store.stop \in BOOLEAN
  BY AnswerFields DEF SubmitQueues, Queues, Return
<1>2. PICK o \in ChangeState(store, store.active, t, store.stop) :
        store' = o.s /\ IF o.ok THEN Accept(t) ELSE UNCHANGED <<accepted, stopped>>
  BY DEF SubmitQueues
<1>3. /\ store'.turn = store.turn /\ store'.active = store.active
      /\ IF o.ok THEN store'.queued = t ELSE store'.queued = store.queued
  BY <1>1, <1>2, QueueWrite
<1>4. CASE o.ok
  <2>1. t # None /\ store.active # None
    BY <1>1, NoneAssumption
  <2>2. /\ \A u \in Turn \ {t} : accepted'[u] = accepted[u] /\ stopped'[u] = stopped[u]
        /\ \A u \in Turn : Stored(store', u) <=> Stored(store, u)
    BY <1>1, <1>2, <1>3, <1>4 DEF Accept, Stored
  <2>3. Untaken
    BY <1>1, <1>3, <1>4, <2>2 DEF Untaken
  <2>4. Put
    BY <1>1, <1>3 DEF Put
  <2>5. ASSUME NEW u \in Turn, Safe(u) PROVE Safe(u)'
    <3>1. CASE u = t
      BY <1>3, <1>4, <3>1 DEF Safe
    <3>2. CASE u # t
      BY <1>1, <2>2, <2>5, <3>2, NoneAssumption DEF Safe, Stored
    <3> QED BY <3>1, <3>2
  <2>6. Orderly(store)'
    BY <1>1, <1>3, <1>4, <2>1, <2>2 DEF Tidy, Orderly, OnePending, Stored
  <2> QED BY <1>1, <2>3, <2>4, <2>5, <2>6, ReturnMoves DEF Loses
<1>5. CASE ~o.ok
  <2>1. UNCHANGED <<task, accepted, stopped>>
    BY <1>1, <1>2, <1>5
  <2>2. Goes(store, store')
    BY <1>3, <1>5, GoesSame DEF Tidy
  <2> QED BY <1>1, <2>1, <2>2, GoesMoves, ReturnMoves
<1> QED BY <1>4, <1>5

(* stopTurn: a question is withdrawn by its owner, or the active turn is stopped. *)
LEMMA StopTurnMoves ==
  ASSUME IInv, Tidy, NEW c \in Call, StopTurn(c) PROVE Moving
<1> DEFINE t == call[c].t
<1>1. /\ Healed(c) /\ UNCHANGED <<settle, accepted>>
      /\ Returning(c, {"stop"}, "done")
  BY DEF StopTurn, Return, Withdraws, Stops
<1>2. /\ t \in Turn /\ c \in Worker /\ Unquiet(c) /\ TypeOK /\ store \in Store
      /\ stopped \in [Turn -> {None, "waiting", "active"}]
      /\ store.active \in Turn \cup {None} /\ store.queued \in Turn \cup {None}
  BY <1>1, AnswerFields, StoreFields
<1>3. CASE /\ Withdraws(c) /\ UNCHANGED task
           /\ \E o \in DropQueued(store) :
                store' = o.s /\ stopped' = [stopped EXCEPT ![t] = IF o.ok THEN "waiting" ELSE @]
  <2>1. PICK o \in DropQueued(store) :
          store' = o.s /\ stopped' = [stopped EXCEPT ![t] = IF o.ok THEN "waiting" ELSE @]
    BY <1>3
  <2>2. /\ store'.active = store.active /\ store'.turn = store.turn
        /\ IF o.ok THEN store'.queued = None ELSE store'.queued = store.queued
    BY <1>2, <2>1, DropFields
  <2>3. store.queued = t /\ store.active # t
    BY <1>3 DEF Withdraws
  <2>4. CASE o.ok
    <3>1. stopped'[t] = "waiting" /\ \A u \in Turn \ {t} : stopped'[u] = stopped[u]
      BY <1>2, <2>1, <2>4
    <3>2. Untaken /\ Put
      BY <1>3, <2>2, <2>4, NoneAssumption DEF Untaken, Put
    <3>3. ASSUME NEW u \in Turn, Safe(u) PROVE Safe(u)'
      <4>1. CASE u = t
        BY <3>1, <4>1 DEF Safe
      <4>2. CASE u # t
        BY <1>1, <2>2, <2>3, <3>1, <3>3, <4>2 DEF Safe, Stored
      <4> QED BY <4>1, <4>2
    <3>4. Orderly(store)'
      BY <2>2, <2>3, <2>4 DEF Tidy, Orderly, OnePending, Stored
    <3> QED BY <1>1, <1>2, <3>2, <3>3, <3>4, ReturnMoves DEF Loses
  <2>5. CASE ~o.ok
    <3>1. UNCHANGED <<task, accepted, stopped>>
      BY <1>1, <1>2, <1>3, <2>1, <2>5
    <3>2. Goes(store, store')
      BY <2>2, <2>5, GoesSame DEF Tidy
    <3> QED BY <1>1, <1>2, <3>1, <3>2, GoesMoves, ReturnMoves
  <2> QED BY <2>4, <2>5
<1>4. CASE /\ Stops(c)
           /\ \E o \in ChangeState(store, store.active, store.queued, TRUE) :
                /\ store' = o.s
                /\ stopped' = [stopped EXCEPT ![t] = IF o.ok THEN "active" ELSE @]
                /\ task' = IF o.ok /\ Stoppable(task[t]) THEN [task EXCEPT ![t].abort = TRUE] ELSE task
  <2>1. PICK o \in ChangeState(store, store.active, store.queued, TRUE) :
          /\ store' = o.s
          /\ stopped' = [stopped EXCEPT ![t] = IF o.ok THEN "active" ELSE @]
          /\ task' = IF o.ok /\ Stoppable(task[t]) THEN [task EXCEPT ![t].abort = TRUE] ELSE task
    BY <1>4
  <2>2. store'.active = store.active /\ store'.turn = store.turn /\ store'.queued = store.queued
    BY <1>2, <2>1, QueueWrite
  <2>3. store.active = t /\ t # None
    BY <1>2, <1>4, NoneAssumption DEF Stops
  <2>4. Goes(store, store')
    BY <2>2, GoesSame DEF Tidy
  <2>5. \A u \in Turn : task[u] = None => task'[u] = None
    BY <1>2, <2>1 DEF Stoppable, TypeOK
  <2>6. Untaken /\ Put /\ Orderly(store)'
    BY <2>2, <2>4, <2>5 DEF Untaken, Put, Goes, Orderly, OnePending, Stored
  <2>7. ASSUME NEW u \in Turn, Safe(u) PROVE Safe(u)'
    <3>1. CASE u = t
      BY <2>2, <2>3, <3>1 DEF Tidy, Orderly, Safe, Stored
    <3>2. CASE u # t
      BY <1>1, <1>2, <2>1, <2>2, <2>7, <3>2 DEF Safe, Stored
    <3> QED BY <3>1, <3>2
  <2> QED BY <1>1, <1>2, <2>6, <2>7, ReturnMoves DEF Loses
<1> QED BY <1>3, <1>4 DEF StopTurn

(* A call arrives. *)
LEMMA ArriveMoves ==
  ASSUME IInv, Tidy, Quiet, NEW c \in Call, Asks(c) PROVE Moving
<1>1. PICK op \in Op : \E t \in IF op \in {"page", "answer"} THEN {None} ELSE Turn : Arrive(c, op, t)
  BY DEF Asks
<1>2. PICK t \in IF op \in {"page", "answer"} THEN {None} ELSE Turn : Arrive(c, op, t)
  BY <1>1
<1>3. /\ TypeOK /\ Base(store) /\ store \in Store /\ c \in Worker
      /\ UNCHANGED <<current, task, accepted, stopped>>
  BY <1>2 DEF IInv, Base, Worker, Arrive, history
<1>4. PICK o \in IF op = "answer" THEN Did(store) ELSE StoppedHandoff(store, current) :
        IF o.ok THEN HealStart(c, o.s) /\ call' = [call EXCEPT ![c] = [op |-> op, t |-> t]]
        ELSE store' = o.s /\ UNCHANGED <<heal, settle, call>>
  BY <1>2 DEF Arrive
<1>5. Goes(store, o.s) /\ Base(o.s) /\ Orderly(o.s)
  <2>1. Orderly(store)
    BY DEF Tidy
  <2>2. CASE op = "answer"
    BY <1>3, <1>4, <2>1, <2>2, GoesItself DEF Did
  <2>3. CASE op # "answer"
    BY <1>3, <1>4, <2>1, <2>3, StoppedHandoffGoes, StoppedHandoffLeads DEF Leads, Goes
  <2> QED BY <2>2, <2>3
<1>6. CASE o.ok
  <2>1. Began(c, o.s)
    BY <1>3, <1>4, <1>5, <1>6, HealStartBegan
  <2>2. Began(c, store)
    BY <1>3, <1>5, <2>1, BeganFrom
  <2> QED BY <1>3, <2>2, BeganMoves
<1>7. CASE ~o.ok
  BY <1>3, <1>4, <1>5, <1>7, NobodyMoves
<1> QED BY <1>6, <1>7

-----------------------------------------------------------------------------
(* runTurn.  Its task is its own, and it writes its own payload. *)
LEMMA OwnGoes ==
  ASSUME NEW s \in Store, Orderly(s), NEW t \in Turn, s.active = t, NEW x, Stored(x, t),
         x.active = s.active, x.queued = s.queued, \A u \in Turn \ {t} : x.turn[u] = s.turn[u]
  PROVE  Goes(s, x)
<1>1. \A u \in Turn : Stored(s, u) => Stored(x, u)
  BY DEF Stored
<1>2. OnePending(x)
  BY DEF Orderly, OnePending, Stored
<1> QED BY <1>1, <1>2 DEF Goes, Orderly

LEMMA WriteGoes ==
  ASSUME IInv, Tidy, NEW t \in Turn, task[t] # None, Stored(store, t),
         NEW v, NEW o \in WriteTurn(store, t, v), store' = o.s, Kept(store, store')
  PROVE  Goes(store, store')
<1>1. store \in Store /\ store.active = t /\ Orderly(store)
  BY RunningFacts DEF Tidy
<1>2. Stored(store', t)
  BY DEF Kept
<1>3. /\ store'.active = store.active /\ store'.queued = store.queued
      /\ \A u \in Turn \ {t} : store'.turn[u] = store.turn[u]
  BY <1>1, TurnWrite
<1> QED BY <1>1, <1>2, <1>3, OwnGoes

LEMMA OwnTask ==
  ASSUME TypeOK, NEW t \in Turn, task[t] # None, NEW k, task' = [task EXCEPT ![t] = k]
  PROVE  \A u \in Turn : task[u] = None => task'[u] = None
BY DEF TypeOK

LEMMA TaskContextMoves ==
  ASSUME IInv, Tidy, NEW t \in Turn, TaskContext(t), Kept(store, store') PROVE Moving
<1>1. /\ task[t] # None /\ task[t].at = "heal" /\ Healed(t) /\ heal[t] # None /\ heal[t].at \in {"done", "threw"}
      /\ UNCHANGED <<settle, accepted, stopped>>
  BY DEF TaskContext, Running, Healing, history
<1>2. /\ TypeOK /\ store \in Store /\ t \in Worker /\ Stored(store, t)
  BY <1>1, BusyFacts DEF Busy, Live, Worker
<1>3. Goes(store, store') /\ \A u \in Turn : task[u] = None => task'[u] = None
  <2>1. CASE Checkpoint(t, [task[t] EXCEPT !.v.col.scope = TRUE], "scope")
    <3>1. PICK k \in {[task[t] EXCEPT !.v.col.scope = TRUE]} : Checkpoint(t, k, "scope")
      BY <2>1
    <3>2. PICK o \in WriteTurn(store, t, k.v) :
            store' = o.s /\ (TaskTo(t, k, "scope") \/ TaskFails(t, k))
      BY <3>1 DEF Checkpoint
    <3>3. Goes(store, store')
      BY <1>1, <1>2, <3>2, WriteGoes
    <3> QED BY <1>1, <1>2, <3>2, <3>3, OwnTask DEF TaskTo, TaskFails
  <2>2. CASE /\ \E scoped \in BOOLEAN : TaskFails(t, [task[t] EXCEPT !.v.col.scope = scoped])
             /\ UNCHANGED store
    <3>1. PICK k : TaskFails(t, k)
      BY <2>2
    <3>2. Goes(store, store')
      BY <2>2, GoesItself DEF Tidy
    <3> QED BY <1>1, <1>2, <3>1, <3>2, OwnTask DEF TaskTo, TaskFails
  <2> QED BY <2>1, <2>2 DEF TaskContext
<1> QED BY <1>1, <1>2, <1>3, GoesMoves, ReturnMoves DEF Unquiet

(* A step of runTurn that leaves the recoveries and the settlements alone. *)
LEMMA RunningMoves ==
  ASSUME IInv, Tidy, Quiet, NEW t \in Turn, task[t] # None, Goes(store, store'),
         UNCHANGED <<heal, settle, accepted, stopped>>, \A u \in Turn \ {t} : task'[u] = task[u]
  PROVE  Moving
<1>1. store \in Store /\ \A u \in Turn : task[u] = None => task'[u] = None
  BY DEF IInv, Base
<1> QED BY <1>1, NobodyMoves

LEMMA PlainStepMoves ==
  ASSUME IInv, Tidy, Quiet, NEW t \in Turn, Kept(store, store'),
         \/ TaskSettings(t) \/ TaskInsert(t) \/ TaskAdmit(t) \/ TaskDispatch(t)
         \/ TaskText(t) \/ TaskStreamed(t)
  PROVE  Moving
<1>1. /\ task[t] # None /\ task[t].at \in Busy /\ UNCHANGED <<heal, settle, accepted, stopped>>
  BY DEF TaskSettings, TaskInsert, TaskAdmit, TaskDispatch, TaskText, TaskStreamed, Running, Busy,
         taskless, history
<1>2. TypeOK /\ Stored(store, t) /\ Orderly(store)
  BY <1>1, BusyFacts DEF Live, Tidy
(* What it writes, if anything, and where its task goes. *)
<1>3. ASSUME NEW k, NEW next, Checkpoint(t, k, next)
      PROVE  /\ \E v : \E o \in WriteTurn(store, t, v) : store' = o.s
             /\ \E j, at : TaskTo(t, j, at)
  BY <1>3 DEF Checkpoint, TaskFails
<1>4. \/ (\E k, next : Checkpoint(t, k, next))
      \/ UNCHANGED store /\ \E j, at : TaskTo(t, j, at)
      \/ UNCHANGED store /\ \E k : task' = [task EXCEPT ![t] = k]
      \/ (\E v : \E o \in WriteTurn(store, t, v) : store' = o.s) /\ \E j, at : TaskTo(t, j, at)
  <2>1. CASE TaskSettings(t)
    BY <2>1 DEF TaskSettings, TaskFails
  <2>2. CASE TaskInsert(t)
    BY <2>2 DEF TaskInsert, TaskFails
  <2>3. CASE TaskAdmit(t)
    BY <2>3 DEF TaskAdmit, TaskFails
  <2>4. CASE TaskDispatch(t)
    <3>1. CASE \E j, at : TaskTo(t, j, at)
      BY <2>4, <3>1 DEF TaskDispatch
    <3>2. CASE task' = [task EXCEPT ![t].at = "stream", ![t].disp = TRUE]
      <4>1. task' = [task EXCEPT ![t] = [[task[t] EXCEPT !.at = "stream"] EXCEPT !.disp = TRUE]]
        BY <1>1, <1>2, <3>2 DEF TypeOK, Task
      <4> QED BY <2>4, <4>1 DEF TaskDispatch
    <3> QED BY <2>4, <3>1, <3>2 DEF TaskDispatch, TaskFails
  <2>5. CASE TaskText(t)
    BY <2>5 DEF TaskText
  <2>6. CASE TaskStreamed(t)
    BY <2>6 DEF TaskStreamed, TaskFails
  <2> QED BY <2>1, <2>2, <2>3, <2>4, <2>5, <2>6
<1>5. Goes(store, store')
  <2>1. CASE UNCHANGED store
    BY <1>2, <2>1, GoesItself
  <2>2. CASE \E v : \E o \in WriteTurn(store, t, v) : store' = o.s
    BY <1>1, <1>2, <2>2, WriteGoes
  <2> QED BY <1>3, <1>4, <2>1, <2>2
<1>6. \A u \in Turn \ {t} : task'[u] = task[u]
  BY <1>2, <1>3, <1>4 DEF TaskTo, TypeOK
<1> QED BY <1>1, <1>5, <1>6, RunningMoves

LEMMA TaskRecheckMoves ==
  ASSUME IInv, Tidy, Quiet, NEW t \in Turn, TaskRecheck(t) PROVE Moving
<1>1. /\ task[t] # None /\ TypeOK /\ Base(store) /\ Orderly(store) /\ t \in Worker
      /\ UNCHANGED <<current, accepted, stopped>>
  BY DEF TaskRecheck, Running, history, IInv, Tidy, Worker
<1>2. CASE HealStart(t, store) /\ TaskTo(t, task[t], "heal")
  <2>1. Began(t, store)
    BY <1>1, <1>2, HealStartBegan
  <2>2. \A u \in Turn : task[u] = None => task'[u] = None
    BY <1>1, <1>2, OwnTask DEF TaskTo
  <2> QED BY <1>1, <2>1, <2>2, BeganMoves
<1>3. CASE TaskFails(t, task[t]) /\ UNCHANGED <<store, heal, settle>>
  <2>1. Goes(store, store')
    BY <1>1, <1>3, GoesItself
  <2>2. \A u \in Turn \ {t} : task'[u] = task[u]
    BY <1>1, <1>3 DEF TaskFails, TaskTo, TypeOK
  <2> QED BY <1>1, <1>3, <2>1, <2>2, RunningMoves
<1> QED BY <1>2, <1>3 DEF TaskRecheck

(* The turn begins: it is stored, and no longer waits. *)
LEMMA TaskProjectMoves ==
  ASSUME IInv, Tidy, Quiet, NEW t \in Turn, TaskProject(t) PROVE Moving
<1>1. /\ task[t] # None /\ task[t].at = "project" /\ UNCHANGED <<heal, settle, accepted, stopped>>
  BY DEF TaskProject, Running, taskless, history
<1>2. /\ TypeOK /\ Base(store) /\ Orderly(store) /\ store \in Store /\ store.active = t /\ t # None
  BY <1>1, RunningFacts DEF IInv, Tidy
<1>3. Started \in Payload /\ Started # None
  BY FixedPayloads, PayloadFields
<1>4. \A u \in Turn \ {t} : task'[u] = task[u]
  BY <1>2 DEF TaskProject, TaskTo, TypeOK
<1>5. Goes(store, store')
  <2>1. ASSUME NEW p, Goes(store, p.s), p.s \in Store, p.s.queued = t => Stored(p.s, t), p.s.queued = t,
               NEW o \in DropQueued(p.s)
        PROVE  Goes(store, o.s)
    <3>1. Goes(p.s, o.s)
      BY <2>1, DropGoes DEF Goes
    <3> QED BY <1>2, <2>1, <3>1, GoesOn
  <2>2. CASE \E o \in Then(WriteTurn(store, t, Started),
                           LAMBDA x : IF x.queued = t THEN DropQueued(x) ELSE Did(x)) : store' = o.s
    <3>1. PICK o \in Then(WriteTurn(store, t, Started),
                          LAMBDA x : IF x.queued = t THEN DropQueued(x) ELSE Did(x)) : store' = o.s
      BY <2>2
    <3>2. PICK p \in WriteTurn(store, t, Started) :
            o \in IF p.ok THEN IF p.s.queued = t THEN DropQueued(p.s) ELSE Did(p.s) ELSE {p}
      BY <3>1 DEF Then
    <3>3. /\ p.s \in Store /\ p.s.active = store.active /\ p.s.queued = store.queued
          /\ \A u \in Turn \ {t} : p.s.turn[u] = store.turn[u]
          /\ IF p.ok THEN Stored(p.s, t) ELSE p.s.turn = store.turn
      BY <1>3, <3>2, OwnWrite
    <3>4. Goes(store, p.s)
      BY <1>2, <3>3, OwnGoes, GoesSame
    <3>5. CASE p.ok /\ p.s.queued = t
      BY <2>1, <3>1, <3>2, <3>3, <3>4, <3>5
    <3>6. CASE ~(p.ok /\ p.s.queued = t)
      <4>1. o = p \/ o \in Did(p.s)
        BY <3>2, <3>6
      <4>2. o.s = p.s
        BY <4>1, Doing
      <4> QED BY <3>1, <3>4, <4>2
    <3> QED BY <3>5, <3>6
  <2>3. CASE store.queued = t /\ \E o \in Then(Preserve(store, t), DropQueued) : store' = o.s
    <3>1. PICK o \in Then(Preserve(store, t), DropQueued) : store' = o.s
      BY <2>3
    <3>2. PICK p \in Preserve(store, t) : o \in IF p.ok THEN DropQueued(p.s) ELSE {p}
      BY <3>1 DEF Then
    <3>3. /\ Goes(store, p.s) /\ Base(p.s) /\ p.s.queued = t /\ (p.ok => Stored(p.s, t))
      BY <1>2, <2>3, <3>2, PreserveLeads, PreserveGoes DEF Leads
    <3>4. CASE p.ok
      BY <2>1, <3>1, <3>2, <3>3, <3>4 DEF Base
    <3>5. CASE ~p.ok
      BY <3>1, <3>2, <3>3, <3>5
    <3> QED BY <3>4, <3>5
  <2>4. CASE UNCHANGED store
    BY <1>2, <2>4, GoesItself
  <2> QED BY <2>2, <2>3, <2>4 DEF TaskProject
<1> QED BY <1>1, <1>4, <1>5, RunningMoves

(* The result is written; its own settlement begins, which no recovery awaits. *)
LEMMA TaskFinalMoves ==
  ASSUME IInv, Tidy, Quiet, NEW t \in Turn, TaskFinal(t), Kept(store, store') PROVE Moving
<1>1. /\ task[t] # None /\ task[t].at = "final" /\ UNCHANGED <<heal, accepted, stopped>>
  BY DEF TaskFinal, Running, history
<1>2. /\ TypeOK /\ store \in Store /\ Stored(store, t) /\ heal[t] = None /\ t \in Worker
  BY <1>1, RunningFacts DEF IInv, TaskSound, Worker
<1> DEFINE v == Projected(task[t])
<1>3. PICK o \in WriteTurn(store, t, v) :
        /\ store' = o.s
        /\ IF o.ok /\ v.pend
             THEN SettleFrom(t, t, v) /\ TaskTo(t, Fresh, "settle")
             ELSE TaskTo(t, Fresh, "advance") /\ UNCHANGED settle
  BY DEF TaskFinal
<1> HIDE DEF v
<1>4. Goes(store, store')
  BY <1>1, <1>2, <1>3, WriteGoes
<1>5. \A u \in Turn : task[u] = None => task'[u] = None
  BY <1>1, <1>2, <1>3, OwnTask DEF TaskTo
<1>6. \A u \in Worker \ {t} : heal'[u] = heal[u] /\ settle'[u] = settle[u]
  BY <1>1, <1>2, <1>3 DEF SettleFrom, TypeOK
<1>7. Others({t})
  BY <1>2, <1>6, QuietOthers
<1> QED BY <1>1, <1>2, <1>4, <1>5, <1>7, GoesMoves, NothingMoves, OneMoves

(* The conversation is released, or the question that waits begins. *)
LEMMA TaskAdvanceMoves ==
  ASSUME IInv, Tidy, Quiet, NEW t \in Turn, TaskAdvance(t) PROVE Moving
<1> DEFINE q == store.queued
           pending == Stored(store, t) /\ store.turn[t].pend
           released == IF q = t THEN StoppedHandoff(store, None)
                       ELSE IF pending THEN PreserveWaiting(store) ELSE Idle(store)
<1>1. /\ task[t] # None /\ task[t].at = "advance"
      /\ UNCHANGED <<heal, settle, accepted, stopped>>
  BY DEF TaskAdvance, Running, history
<1>2. /\ TypeOK /\ Base(store) /\ Orderly(store) /\ store \in Store /\ store.active = t
      /\ t # None /\ TaskSound(store, t, task[t]) /\ q \in Turn \cup {None}
      /\ \A u \in Turn \ {t} : task[u] = None
  BY <1>1, RunningFacts, StoreFields DEF IInv, Tidy
<1>3. ~pending => \A u \in Turn : Stored(store, u) => ~store.turn[u].pend
  BY <1>2 DEF Orderly, OnePending
<1>4. \/ /\ q \in {t, None} \/ pending
         /\ Over(t) /\ \E o \in released : store' = o.s
      \/ /\ q \notin {t, None} /\ ~pending
         /\ \E o \in ChangeState(store, q, q, FALSE) :
              /\ store' = o.s
              /\ task' = [task EXCEPT ![t] = None, ![q] = IF o.ok THEN Fresh ELSE @]
  BY <1>2 DEF TaskAdvance
<1>5. CASE (q \in {t, None} \/ pending) /\ Over(t) /\ \E o \in released : store' = o.s
  <2>1. PICK o \in released : store' = o.s
    BY <1>5
  <2>2. Goes(store, store')
    <3>1. CASE q = t
      BY <1>2, <2>1, <3>1, StoppedHandoffGoes
    <3>2. CASE q # t /\ pending
      BY <1>2, <2>1, <3>2, PreserveWaitingGoes
    <3>3. CASE q # t /\ ~pending
      BY <1>2, <1>3, <1>5, <2>1, <3>3, IdleGoes
    <3> QED BY <3>1, <3>2, <3>3
  <2>3. \A u \in Turn \ {t} : task'[u] = task[u]
    BY <1>2, <1>5 DEF Over, TypeOK
  <2> QED BY <1>1, <2>2, <2>3, RunningMoves
<1>6. CASE /\ q \notin {t, None} /\ ~pending
           /\ \E o \in ChangeState(store, q, q, FALSE) :
                /\ store' = o.s
                /\ task' = [task EXCEPT ![t] = None, ![q] = IF o.ok THEN Fresh ELSE @]
  <2>1. PICK o \in ChangeState(store, q, q, FALSE) :
          /\ store' = o.s
          /\ task' = [task EXCEPT ![t] = None, ![q] = IF o.ok THEN Fresh ELSE @]
    BY <1>6
  <2>2. /\ store'.turn = store.turn
        /\ IF o.ok THEN store'.active = q /\ store'.queued = q
           ELSE store'.active = store.active /\ store'.queued = store.queued
    <3>1. q \in Turn \cup {None} /\ FALSE \in BOOLEAN /\ store \in Store /\ store' = o.s
      BY <1>2, <2>1
    <3> HIDE DEF q
    <3> QED BY <3>1, QueueWrite
  <2>3. CASE o.ok
    <3>1. q \in Turn /\ q # None /\ ~Stored(store, q)
      BY <1>2, <1>6 DEF TaskSound
    <3>2. \A u \in Turn : Stored(store', u) <=> Stored(store, u)
      BY <2>2 DEF Stored
    <3>3. \A u \in Turn \ {q} : task[u] = None => task'[u] = None
      BY <1>2, <2>1 DEF TypeOK
    <3>4. Untaken
      BY <2>2, <2>3, <3>1, <3>3 DEF Untaken
    <3>5. Put
      BY <2>2, <2>3, <3>1 DEF Put
    <3>6. Loses
      BY <1>1, <2>2, <2>3, <3>2 DEF Loses, Safe
    <3>7. Orderly(store)'
      BY <1>3, <1>6, <2>2, <2>3, <3>1, <3>2 DEF Orderly, OnePending
    <3>8. Others({})
      BY <1>1 DEF Others, Quiet
    <3>9. Moves({})
      BY <3>4, <3>5, <3>6, <3>7, <3>8 DEF Moves
    <3> QED BY <3>9 DEF Moving
  <2>4. CASE ~o.ok
    <3>1. Goes(store, store')
      BY <1>2, <2>2, <2>4, GoesSame
    <3>2. \A u \in Turn \ {t} : task'[u] = task[u]
      BY <1>2, <2>1, <2>4 DEF TypeOK
    <3> QED BY <1>1, <3>1, <3>2, RunningMoves
  <2> QED BY <2>3, <2>4
<1> QED BY <1>4, <1>5, <1>6

LEMMA TaskStepMoves ==
  ASSUME IInv, Tidy, Quiet, NEW t \in Turn, TaskStep(t), Kept(store, store') PROVE Moving
BY PlainStepMoves, TaskRecheckMoves, TaskProjectMoves, TaskFinalMoves, TaskAdvanceMoves DEF TaskStep

-----------------------------------------------------------------------------
(* A restart and onStart. *)
LEMMA CrashMoves ==
  ASSUME IInv, Tidy, Crash PROVE Moving
<1>1. /\ \A w \in Worker : heal'[w] = None
      /\ \A t \in Turn : task'[t] = None
      /\ UNCHANGED <<store, accepted, stopped>>
  BY DEF Crash, history
<1>2. store \in Store /\ Goes(store, store')
  BY <1>1, GoesItself DEF IInv, Base, Tidy
<1>3. Others({})
  BY <1>1 DEF Others
<1>4. Moves({})
  BY <1>1, <1>2, <1>3, GoesMoves DEF Moves
<1> QED BY <1>4 DEF Moving

LEMMA BootDoneMoves ==
  ASSUME IInv, Tidy, BootDone PROVE Moving
<1>1. /\ TypeOK /\ Processes /\ store \in Store /\ up = "boot" /\ heal' = [heal EXCEPT !["boot"] = None]
      /\ UNCHANGED <<store, task, settle, accepted, stopped>>
  BY DEF IInv, Base, BootDone, Healed, history
<1>2. Goes(store, store') /\ "boot" \in Worker
  BY <1>1, GoesItself DEF Tidy, Worker
<1>3. \A w \in Worker \ {"boot"} : heal[w] = None
  <2>1. current = None /\ \A c \in Call : call[c] = None
    BY <1>1 DEF Processes, Resting
  <2>2. \A t \in Turn : task[t] = None
    BY <1>1, <2>1, NoneAssumption DEF Processes, OneTask
  <2> QED BY <1>1, <2>1, <2>2 DEF Processes, HealOwned
<1>4. heal'["boot"] = None /\ \A w \in Worker \ {"boot"} : heal'[w] = None
  BY <1>1, <1>2, <1>3 DEF TypeOK
<1>5. Others({"boot"})
  BY <1>4 DEF Others
<1> QED BY <1>1, <1>2, <1>4, <1>5, GoesMoves, NothingMoves, OneMoves

LEMMA BootGoes ==
  ASSUME TypeOK, NEW s, Base(s), Orderly(s), NEW o \in Then(Then(KeepQueued(s), MarkActive), ClearState)
  PROVE  Goes(s, o.s)
<1>1. PICK p \in KeepQueued(s) : \E i \in IF p.ok THEN MarkActive(p.s) ELSE {p} :
        o \in IF i.ok THEN ClearState(i.s) ELSE {i}
  BY DEF Then
<1>2. PICK i \in IF p.ok THEN MarkActive(p.s) ELSE {p} : o \in IF i.ok THEN ClearState(i.s) ELSE {i}
  BY <1>1
<1>3. s \in Store /\ s.queued \in Turn \cup {None}
  BY StoreFields DEF Base
<1>4. /\ Goes(s, p.s) /\ p.s \in Store /\ Orderly(p.s)
      /\ p.ok /\ p.s.queued # None => Stored(p.s, p.s.queued)
  <2>1. CASE s.queued = None
    <3>1. p.s = s
      BY <2>1 DEF KeepQueued, Did
    <3> QED BY <1>3, <2>1, <3>1, GoesItself
  <2>2. CASE s.queued # None
    <3>1. p \in Preserve(s, s.queued)
      BY <2>2 DEF KeepQueued
    <3> QED BY <2>2, <3>1, PreserveLeads, PreserveGoes DEF Leads, Base, Goes
  <2> QED BY <2>1, <2>2
(* The active turn, marked. *)
<1>5. ASSUME p.ok, i \in MarkActive(p.s)
      PROVE  /\ Goes(p.s, i.s) /\ i.s \in Store
             /\ i.s.queued # None => Stored(i.s, i.s.queued)
  <2> DEFINE t == p.s.active
             v == p.s.turn[t]
  <2>1. CASE i.s = p.s
    BY <1>4, <1>5, <2>1, GoesItself
  <2>2. CASE t # None /\ v # None /\ \E u \in Payload : i \in WriteTurn(p.s, t, u)
    <3>1. PICK u \in Payload : i \in WriteTurn(p.s, t, u)
      BY <2>2
    <3>2. t \in Turn /\ u # None
      BY <1>4, <2>2, StoreFields, PayloadFields
    <3>3. /\ i.s.active = p.s.active /\ i.s.queued = p.s.queued
          /\ \A j \in Turn \ {t} : i.s.turn[j] = p.s.turn[j]
          /\ IF i.ok THEN i.s.turn[t] = u ELSE i.s.turn = p.s.turn
      BY <1>4, <3>1, <3>2, TurnWrite
    <3>4. Stored(i.s, t)
      BY <2>2, <3>2, <3>3 DEF Stored
    <3>5. Goes(p.s, i.s)
      BY <1>4, <3>2, <3>3, <3>4, OwnGoes
    <3>6. i.s \in Store
      <4>1. TurnSet(p.s, t, u) \in Store
        BY <1>4, <3>2, TurnSetFields
      <4>2. i \in Write(p.s, TurnSet(p.s, t, u))
        BY <3>1 DEF WriteTurn, TurnSet
      <4> QED BY <1>4, <4>1, <4>2, Writes, FaultedFields
    <3>7. p.s.queued \in Turn \cup {None}
      BY <1>4, StoreFields
    <3> QED BY <1>4, <1>5, <3>3, <3>5, <3>6, <3>7 DEF Goes
  <2>3. i.s = p.s \/ (t # None /\ v # None /\ \E u \in Payload : i \in WriteTurn(p.s, t, u))
    <3>1. CASE t = None \/ v = None
      <4>1. i \in Did(p.s)
        BY <1>5, <3>1 DEF MarkActive
      <4> QED BY <4>1, Doing
    <3>2. CASE t # None /\ v # None
      <4>1. v \in Payload
        BY <1>4, <3>2, StoreFields
      <4>2. [v EXCEPT !.pend = TRUE] \in Payload
        BY <4>1 DEF Payload
      <4>3. IsStarted(v) => [Interrupted(v) EXCEPT !.pend = TRUE] \in Payload
        BY <4>1, InterruptedFields DEF Payload
      <4>4. i \in Did(p.s) \/ \E u \in Payload : i \in WriteTurn(p.s, t, u)
        BY <1>5, <3>2, <4>2, <4>3 DEF MarkActive
      <4> QED BY <3>2, <4>4, Doing
    <3> QED BY <3>1, <3>2
  <2> QED BY <2>1, <2>2, <2>3
(* The state, cleared but for a result that is pending. *)
<1>6. ASSUME NEW x, Goes(s, x), x \in Store, x.queued # None => Stored(x, x.queued), o \in ClearState(x)
      PROVE  Goes(s, o.s)
  <2> DEFINE a == IF x.active \in Pending(x) THEN x.active ELSE None
  <2>1. CASE o.s = x
    BY <1>6, <2>1
  <2>2. CASE o \in ChangeState(x, a, None, FALSE)
    <3>1. a \in Turn \cup {None} /\ FALSE \in BOOLEAN /\ Orderly(x)
      BY <1>6 DEF Pending, Goes
    <3>2. a = x.active \/ (a = None /\ \A t \in Turn : Stored(x, t) => ~x.turn[t].pend)
      BY <3>1 DEF Pending, Orderly, OnePending
    <3>3. a # None => Stored(x, a)
      BY DEF Pending
    <3> HIDE DEF a
    <3>4. /\ o.s.turn = x.turn
          /\ IF o.ok THEN o.s.active = a /\ o.s.queued = None
             ELSE o.s.active = x.active /\ o.s.queued = x.queued
      BY <1>6, <2>2, <3>1, StateWrite
    <3>5. Goes(x, o.s)
      <4>1. CASE o.ok
        BY <1>6, <3>1, <3>2, <3>3, <3>4, <4>1 DEF Goes, Orderly, OnePending, Stored
      <4>2. CASE ~o.ok
        BY <3>1, <3>4, <4>2, GoesSame
      <4> QED BY <4>1, <4>2
    <3> QED BY <1>3, <1>6, <3>5, GoesOn
  <2>3. o \in Did(x) \/ o \in ChangeState(x, a, None, FALSE)
    BY <1>6 DEF ClearState
  <2> QED BY <2>1, <2>2, <2>3, Doing
<1>7. CASE p.ok
  <2>1. Goes(s, i.s) /\ i.s \in Store /\ (i.s.queued # None => Stored(i.s, i.s.queued))
    BY <1>2, <1>3, <1>4, <1>5, <1>7, GoesOn
  <2> QED BY <1>2, <1>6, <2>1
<1>8. CASE ~p.ok
  <2>1. i = p
    BY <1>2, <1>8
  <2> QED BY <1>2, <1>4, <1>8, <2>1
<1> QED BY <1>7, <1>8

LEMMA BootMoves ==
  ASSUME IInv, Tidy, Quiet, Boot PROVE Moving
<1>1. /\ TypeOK /\ Base(store) /\ store \in Store /\ Orderly(store) /\ "boot" \in Worker
      /\ UNCHANGED <<current, task, accepted, stopped>>
  BY DEF IInv, Base, Tidy, Worker, Boot, history
<1>2. PICK o \in Then(Then(KeepQueued(store), MarkActive), ClearState) :
        IF o.ok THEN HealStart("boot", o.s) /\ up' = "boot"
        ELSE store' = o.s /\ UNCHANGED <<up, heal, settle>>
  BY DEF Boot
<1>3. Goes(store, o.s) /\ Base(o.s) /\ o.s \in Store /\ Orderly(o.s)
  BY <1>1, <1>2, BootGoes, BootLeads DEF Leads, Base, Goes
<1>4. CASE o.ok
  <2>1. Began("boot", o.s)
    BY <1>1, <1>2, <1>3, <1>4, HealStartBegan
  <2>2. Began("boot", store)
    BY <1>1, <1>3, <2>1, BeganFrom
  <2> QED BY <1>1, <2>2, BeganMoves
<1>5. CASE ~o.ok
  BY <1>1, <1>2, <1>3, <1>5, NobodyMoves
<1> QED BY <1>4, <1>5

-----------------------------------------------------------------------------
(* The invariant. *)
LEMMA TidyInitial == Init => Tidy
<1> SUFFICES ASSUME Init PROVE Tidy
  OBVIOUS
<1>1. store.active = None /\ store.queued = None /\ \A t \in Turn : store.turn[t] = None
  BY DEF Init
<1>2. \A w \in Worker : heal[w] = None
  BY DEF Init
<1>3. Orderly(store)
  BY <1>1 DEF Orderly, OnePending, Stored
<1> QED BY <1>2, <1>3 DEF Tidy, OneAwake, Unquiet, Waits, Done

LEMMA EveryStepMoves ==
  ASSUME IInv, Tidy, Next PROVE Moving /\ Kept(store, store')
<1>1. Kept(store, store')
  <2>1. IInv /\ [Next]_vars => IInv' /\ (Advances \/ UNCHANGED vars)
    BY Inductive
  <2>2. CASE UNCHANGED vars
    BY <2>2, KeptItself DEF vars, IInv, Base
  <2> QED BY <2>1, <2>2 DEF Advances
<1>2. CASE \E w \in Worker : HealContinue(w)
  BY <1>1, <1>2, HealContinueMoves
<1>3. CASE \E t \in Turn : TaskContext(t)
  BY <1>1, <1>3, TaskContextMoves
<1>4. CASE \E c \in Call : SubmitStarts(c) \/ SubmitQueues(c) \/ StopTurn(c) \/ Replies(c)
  BY <1>1, <1>4, SubmitStartsMoves, SubmitQueuesMoves, StopTurnMoves, RepliesMoves
<1>5. CASE BootDone
  BY <1>1, <1>5, BootDoneMoves
<1>6. CASE Quiet /\ \E w \in Worker : SettleStep(w)
  BY <1>1, <1>6, SettleStepMoves
<1>7. CASE Quiet /\ \E t \in Turn : TaskStep(t)
  BY <1>1, <1>7, TaskStepMoves
<1>8. CASE Quiet /\ \E c \in Call : Asks(c)
  BY <1>1, <1>8, ArriveMoves
<1>9. CASE Quiet /\ Boot
  BY <1>1, <1>9, BootMoves
<1>10. CASE Crash
  BY <1>1, <1>10, CrashMoves
<1> QED BY <1>1, <1>2, <1>3, <1>4, <1>5, <1>6, <1>7, <1>8, <1>9, <1>10 DEF Next, Continue

LEMMA Stuttering ==
  ASSUME UNCHANGED vars
  PROVE  /\ Tidy => Tidy'
         /\ NoDanger => NoDanger'
         /\ \A t \in Turn : Safe(t) => Safe(t)'
<1>1. UNCHANGED <<store, current, task, heal, settle, accepted, stopped>>
  BY DEF vars, memory, history
<1>2. Tidy => Tidy'
  BY <1>1 DEF Tidy, Orderly, OnePending, OneAwake, Unquiet, Waits, Done, Stored
<1>3. NoDanger => NoDanger'
  BY <1>1 DEF NoDanger, Danger
<1>4. \A t \in Turn : Safe(t) => Safe(t)'
  BY <1>1 DEF Safe, Stored
<1> QED BY <1>2, <1>3, <1>4

LEMMA TidyInductive == IInv /\ Tidy /\ [Next]_vars => IInv' /\ Tidy'
<1> SUFFICES ASSUME IInv, Tidy, [Next]_vars PROVE IInv' /\ Tidy'
  OBVIOUS
<1>1. IInv'
  BY Inductive
<1>2. CASE Next
  BY <1>1, <1>2, EveryStepMoves, MovesTidy
<1>3. CASE UNCHANGED vars
  BY <1>1, <1>3, Stuttering
<1> QED BY <1>2, <1>3

LEMMA TidyAlways == Spec => [](IInv /\ Tidy)
<1>1. Init => IInv /\ Tidy
  BY Initial, TidyInitial
<1>2. (IInv /\ Tidy) /\ [Next]_vars => (IInv /\ Tidy)'
  BY TidyInductive
<1> QED BY <1>1, <1>2, PTL DEF Spec

(* One turn runs at a time, it is the active one, its model is called at most once,     *)
(* and no other turn's result is pending: submitTurn, advanceQueue and recovery never  *)
(* start one beside it, nor release it before its result was settled.             *)
THEOREM OneRunAtATime == Spec => []OneRun
<1>1. IInv /\ Tidy => OneRun
  <2> SUFFICES ASSUME IInv, Tidy, NEW t \in Turn
               PROVE  /\ sent[t] <= 1
                      /\ (task[t] # None => current = t /\ store.active = t)
                      /\ (Stored(store, t) /\ store.turn[t].pend => store.active = t)
    BY DEF OneRun
  <2>1. sent[t] <= 1
    BY DEF IInv, RowsAre
  <2>2. task[t] # None => current = t /\ store.active = t
    BY RunningFacts
  <2>3. Stored(store, t) /\ store.turn[t].pend => store.active = t
    BY DEF Tidy, Orderly, OnePending
  <2> QED BY <2>1, <2>2, <2>3
<1> QED BY <1>1, TidyAlways, PTL

(* An accepted question is lost by one step only: recoverFinishedTurn clears the state   *)
(* after it awaited a settlement, while the question waits behind the turn it settled.  *)
THEOREM LostOnlyByClear ==
  Spec => [][\A t \in Turn : Safe(t) => Safe(t)' \/ \E w \in Worker : Clears(w, t)]_vars
<1> DEFINE A == \A t \in Turn : Safe(t) => Safe(t)' \/ \E w \in Worker : Clears(w, t)
<1>1. (IInv /\ Tidy) /\ [Next]_vars => [A]_vars
  <2> SUFFICES ASSUME IInv, Tidy, Next PROVE A
    OBVIOUS
  <2>1. PICK W \in SUBSET Worker : Moves(W)
    BY EveryStepMoves DEF Moving
  <2> QED BY <2>1 DEF Moves, Loses
<1> QED BY <1>1, TidyAlways, PTL DEF Spec

-----------------------------------------------------------------------------
(* While no recovery comes to endanger a question, none is lost. *)
KInv == IInv /\ Tidy /\ NoDanger /\ AcceptedKept

LEMMA KeptInitial == Init => KInv
<1> SUFFICES ASSUME Init PROVE NoDanger /\ AcceptedKept
  BY Initial, TidyInitial DEF KInv
<1> QED BY DEF Init, NoDanger, Danger, AcceptedKept

LEMMA KeptInductive == KInv /\ ~Stale /\ [Next]_vars => KInv'
<1> SUFFICES ASSUME KInv, ~Stale, [Next]_vars PROVE KInv'
  OBVIOUS
<1>1. IInv /\ Tidy /\ NoDanger /\ AcceptedKept /\ IInv' /\ Tidy'
  BY TidyInductive DEF KInv
<1>2. \A t \in Turn : Safe(t)
  BY <1>1 DEF AcceptedKept, Safe
<1>3. CASE Next
  <2>1. Moving
    BY <1>1, <1>3, EveryStepMoves
  <2>2. NoDanger'
    BY <1>1, <2>1, MovesNoDanger
  <2>3. PICK W \in SUBSET Worker : Moves(W)
    BY <2>1 DEF Moving
  <2>4. ASSUME NEW t \in Turn, NEW w \in Worker, Clears(w, t) PROVE FALSE
    <3>1. Danger(w)
      BY <2>4, NoneAssumption DEF Clears, Healing, Danger, Between
    <3> QED BY <1>1, <3>1 DEF NoDanger
  <2>5. \A t \in Turn : Safe(t)'
    BY <1>2, <2>3, <2>4 DEF Moves, Loses
  <2>6. AcceptedKept'
    BY <2>5 DEF Safe, AcceptedKept
  <2> QED BY <1>1, <2>2, <2>6 DEF KInv
<1>4. CASE UNCHANGED vars
  <2>1. NoDanger' /\ \A t \in Turn : Safe(t)'
    BY <1>1, <1>2, <1>4, Stuttering
  <2>2. AcceptedKept'
    BY <2>1 DEF Safe, AcceptedKept
  <2> QED BY <1>1, <2>1, <2>2 DEF KInv
<1> QED BY <1>3, <1>4

(* With any number of questions, one that was acknowledged is lost only in a run where    *)
(* two recoveries overlap that began while different turns were active.           *)
THEOREM KeptUnlessStale == Spec /\ []~Stale => []AcceptedKept
<1>1. Init => KInv
  BY KeptInitial
<1>2. KInv /\ ~Stale /\ [Next]_vars => KInv'
  BY KeptInductive
<1>3. KInv => AcceptedKept
  BY DEF KInv
<1> QED BY <1>1, <1>2, <1>3, PTL DEF Spec
=============================================================================
