-------------------------- MODULE ModelCatalogProofs --------------------------
(***************************************************************************)
(* Proofs about ModelCatalog, for any number of providers, configurations,   *)
(* overlapping refreshes and requests.                                      *)
(***************************************************************************)
EXTENDS ModelCatalog, TLAPS

(* The parts of a running lookup, whatever asked for it.                     *)
InLookup(c) == call[c] # None /\ call[c].op \in {"use", "save"}

LEMMA LookupTyped ==
  ASSUME TypeOK, NEW c \in Call, InLookup(c)
  PROVE  /\ call[c] \in Lookup \cup Save
         /\ call[c].view \in View /\ call[c].unread \in SUBSET Part
         /\ call[c].op = "use" => call[c] \in Lookup
         /\ call[c].op = "save" => call[c] \in Save
<1>1. call[c] \in Lookup \cup Save \cup ModelSpec
  BY DEF TypeOK, InLookup
<1>2. call[c] \in Lookup \cup Save
  BY <1>1 DEF InLookup, ModelSpec
<1> QED BY <1>2 DEF Lookup, Save

(* Another value in one of the two fields a read changes.                     *)
LEMMA ReadingTyped ==
  ASSUME NEW k \in Lookup \cup Save, NEW u \in SUBSET Part, NEW v \in View
  PROVE  [k EXCEPT !.unread = u, !.view = v] \in Lookup \cup Save
<1>1. CASE k \in Lookup
  BY <1>1 DEF Lookup
<1>2. CASE k \in Save
  BY <1>2 DEF Save
<1> QED BY <1>1, <1>2

(* A view stays one when one of its parts is replaced.                         *)
LEMMA ViewTyped ==
  ASSUME NEW v \in View
  PROVE  /\ \A s \in Snapshot \cup {None} : [v EXCEPT !.snapshot = s] \in View
         /\ \A g \in Gateway \cup {None} : [v EXCEPT !.gateway = g] \in View
         /\ \A l \in Settings : [v EXCEPT !.settings = l] \in View
BY DEF View

LEMMA BlankTyped == Blank \in View /\ NoProviders \in Settings
BY DEF Blank, View, NoProviders, Settings

(* What a refresh publishes is a snapshot.                                    *)
LEMMA PublishedTyped ==
  ASSUME TypeOK, NEW r \in Refresh, refresh[r] # None,
         NEW failed, NEW found, found \in SUBSET Asked(r), NEW p \in Provider
  PROVE  /\ PublishedRoute(r, failed, p) \in AnyRoute \cup {None}
         /\ PublishedSlice(r, failed, found, p) \in AnyRoute \cup {None}
<1>1. refresh[r] \in Refreshing
  BY DEF TypeOK
<1>2. refresh[r].providers \in Settings /\ refresh[r].previous \in Snapshot \cup {None}
  BY <1>1 DEF Refreshing
<1>3. p \in Asked(r) => refresh[r].providers[p].route \in AnyRoute
  BY <1>2 DEF Asked, Settings, Setting
<1>4. /\ Before(r, "route", p) \in AnyRoute \cup {None}
      /\ Before(r, "slice", p) \in AnyRoute \cup {None}
  BY <1>2 DEF Before, Snapshot
<1> QED BY <1>3, <1>4 DEF PublishedRoute, PublishedSlice

LEMMA RefreshTyped ==
  ASSUME TypeOK, NEW r \in Refresh, RefreshStep(r) PROVE TypeOK'
<1>1. CASE ReadPrevious(r)
  <2>1. [at |-> "providers", previous |-> snapshot, providers |-> NoProviders] \in Refreshing
    BY BlankTyped DEF Refreshing, TypeOK
  <2> QED BY <1>1, <2>1 DEF ReadPrevious, TypeOK, d1
<1>2. CASE ReadProviders(r)
  <2>1. refresh[r] \in Refreshing
    BY <1>2 DEF ReadProviders, TypeOK
  <2>2. [refresh[r] EXCEPT !.at = "discover", !.providers = settings] \in Refreshing
    BY <2>1 DEF Refreshing, TypeOK
  <2> QED BY <1>2, <2>2 DEF ReadProviders, TypeOK, d1
<1>3. CASE PutSnapshot(r)
  <2>1. PICK failed \in SUBSET Asked(r) : \E found \in Answers(r, failed) :
          snapshot' = [slice |-> [p \in Provider |-> PublishedSlice(r, failed, found, p)],
                       route |-> [p \in Provider |-> PublishedRoute(r, failed, p)]]
    BY <1>3 DEF PutSnapshot
  <2>2. PICK found \in Answers(r, failed) :
          snapshot' = [slice |-> [p \in Provider |-> PublishedSlice(r, failed, found, p)],
                       route |-> [p \in Provider |-> PublishedRoute(r, failed, p)]]
    BY <2>1
  <2>4. refresh[r] # None /\ found \in SUBSET Asked(r)
    BY <1>3 DEF PutSnapshot, Answers
  <2>3. snapshot' \in Snapshot
    BY <2>2, <2>4, PublishedTyped DEF Snapshot
  <2> QED BY <1>3, <2>3 DEF PutSnapshot, TypeOK, d1
<1>4. CASE StopRefresh(r)
  BY <1>4 DEF StopRefresh, TypeOK, d1
<1> QED BY <1>1, <1>2, <1>3, <1>4 DEF RefreshStep

LEMMA CallTyped ==
  ASSUME TypeOK, NEW c \in Call, CallStep(c) PROVE TypeOK'
<1> DEFINE Typed(k) == k \in Lookup \cup Save \cup ModelSpec \cup {None}
<1>1. ASSUME NEW k, Typed(k), call' = [call EXCEPT ![c] = k], UNCHANGED <<d1, snapshot, refresh>>
      PROVE TypeOK'
  BY <1>1 DEF TypeOK, d1
<1>2. CASE ReadSnapshot(c) \/ ReadGateway(c) \/ ReadSettings(c)
  <2>1. InLookup(c)
    BY <1>2 DEF ReadSnapshot, ReadGateway, ReadSettings, Reads, InLookup
  <2>2. PICK part \in Part, v \in View : Reading(c, part, v)
    BY <1>2, <2>1, LookupTyped, ViewTyped
       DEF ReadSnapshot, ReadGateway, ReadSettings, TypeOK, Part
  <2>3. Typed([call[c] EXCEPT !.unread = @ \ {part}, !.view = v])
    BY <2>1, LookupTyped, ReadingTyped
  <2> QED BY <1>1, <2>2, <2>3 DEF Reading
<1>3. CASE BeginUse(c)
  <2>1. PICK p \in Provider :
          call' = [call EXCEPT ![c] = [op |-> "use", model |-> p, unread |-> Part, view |-> Blank]]
    BY <1>3 DEF BeginUse
  <2>2. Typed([op |-> "use", model |-> p, unread |-> Part, view |-> Blank])
    BY BlankTyped DEF Lookup
  <2> QED BY <1>1, <1>3, <2>1, <2>2 DEF BeginUse
<1>4. CASE Admit(c)
  <2> DEFINE v == call[c].view
             m == call[c].model
  <2>1. call[c] \in Lookup /\ v \in View
    BY <1>4, LookupTyped DEF Admit, InLookup
  <2>2. m \in Provider /\ v.snapshot \in Snapshot \cup {None} /\ v.gateway \in Gateway \cup {None}
        /\ v.settings \in Settings
    BY <2>1 DEF Lookup, View
  <2>3. v.settings[m] # None
    BY <1>4 DEF Admit, Enabled, Selectable
  <2>4. v.settings[m].route \in AnyRoute
    BY <2>2, <2>3 DEF Settings, Setting
  <2>5. v.snapshot # None => v.snapshot.slice[m] \in AnyRoute \cup {None}
    BY <2>2 DEF Snapshot
  <2>6. Typed(Routing(v, m))
    <3> HIDE DEF v, m
    <3> QED BY <2>2, <2>4, <2>5 DEF Routing, ModelSpec
  <2> QED BY <1>1, <1>4, <2>6 DEF Admit
<1>5. CASE BeginSave(c)
  <2>1. PICK input \in [Field -> Provider \cup {None}] :
          call' = [call EXCEPT ![c] =
            [op |-> "save", input |-> input, current |-> defaults,
             todo |-> Differs(input, defaults), unread |-> Part, view |-> Blank]]
    BY <1>5 DEF BeginSave
  <2>2. Typed([op |-> "save", input |-> input, current |-> defaults,
               todo |-> Differs(input, defaults), unread |-> Part, view |-> Blank])
    BY BlankTyped DEF Save, Differs, TypeOK
  <2> QED BY <1>1, <1>5, <2>1, <2>2 DEF BeginSave
<1>6. CASE requireCatalogModel(c)
  <2>1. call[c] \in Save
    BY <1>6, LookupTyped DEF requireCatalogModel, InLookup
  <2>2. PICK f : call' = [call EXCEPT ![c].todo = @ \ {f}, ![c].view = Blank,
                              ![c].unread = IF call[c].todo = {f} THEN {} ELSE Part]
    BY <1>6 DEF requireCatalogModel
  <2>3. Typed([call[c] EXCEPT !.todo = @ \ {f}, !.view = Blank,
                              !.unread = IF call[c].todo = {f} THEN {} ELSE Part])
    BY <2>1, BlankTyped DEF Save
  <2> DEFINE u == IF call[c].todo = {f} THEN {} ELSE Part
             k == [call[c] EXCEPT !.todo = @ \ {f}, !.view = Blank, !.unread = u]
  <2>4. call' = [call EXCEPT ![c] = k]
    BY <2>2 DEF TypeOK
  <2>5. Typed(k)
    BY <2>3
  <2> HIDE DEF k, Typed
  <2>6. UNCHANGED <<d1, snapshot, refresh>>
    BY <1>6 DEF requireCatalogModel
  <2> QED BY <1>1, <2>4, <2>5, <2>6
<1>7. CASE UpdateDefaults(c)
  <2>1. call[c] \in Save
    BY <1>7, LookupTyped DEF UpdateDefaults, InLookup
  <2>2. \A f \in Field : Written(c, f) \in Provider
    BY <2>1 DEF Written, Differs, Save, TypeOK
  <2> QED BY <1>7, <2>2 DEF UpdateDefaults, TypeOK
<1>8. CASE End(c)
  BY <1>1, <1>8 DEF End
<1> QED BY <1>2, <1>3, <1>4, <1>5, <1>6, <1>7, <1>8 DEF CallStep

LEMMA TypeInductive == TypeOK /\ [Next]_vars => TypeOK'
<1> SUFFICES ASSUME TypeOK, [Next]_vars PROVE TypeOK'
  OBVIOUS
<1>1. CASE saveModelProviders \/ saveConnection
  BY <1>1 DEF saveModelProviders, saveConnection, ListOf, TypeOK
<1>2. CASE UNCHANGED vars
  BY <1>2 DEF vars, TypeOK
<1> QED BY <1>1, <1>2, RefreshTyped, CallTyped DEF Next

(* Type correctness: settings, snapshot, refreshes and requests stay well       *)
(* formed, whatever the owner edits while they run.                            *)
THEOREM TypeCorrect == Spec => []TypeOK
<1>1. Init => TypeOK
  BY NativeProvider DEF Init, TypeOK, ListOf
<1> QED BY <1>1, TypeInductive, PTL DEF Spec

-----------------------------------------------------------------------------
(* The inductive invariant.  In a snapshot the metadata of a provider and the   *)
(* configuration stored beside it were published together; so it is in every    *)
(* copy of one, however old, that a refresh or a view still holds.              *)
Consistent(s) == s # None => \A p \in Provider : s.slice[p] \in {None, s.route[p]}
Stored == Consistent(snapshot)
Carried == \A r \in Refresh : refresh[r] # None => Consistent(refresh[r].previous)
Viewed == \A c \in Call : InLookup(c) => Consistent(call[c].view.snapshot)
IInv == TypeOK /\ Stored /\ Carried /\ Viewed /\ RouteIsDiscovered

(* A refresh keeps both halves of a provider's entry or replaces both.          *)
LEMMA PublishedTogether ==
  ASSUME TypeOK, Carried, NEW r \in Refresh, refresh[r] # None,
         NEW failed, NEW found, found \in Answers(r, failed), NEW p \in Provider
  PROVE  PublishedSlice(r, failed, found, p) \in {None, PublishedRoute(r, failed, p)}
<1>1. CASE p \in Kept(r, failed)
  BY <1>1 DEF PublishedSlice, PublishedRoute, Before, Carried, Consistent
<1>2. CASE p \notin Kept(r, failed)
  BY <1>2 DEF PublishedSlice, PublishedRoute, Answers
<1> QED BY <1>1, <1>2

LEMMA RefreshKeeps ==
  ASSUME IInv, NEW r \in Refresh, RefreshStep(r)
  PROVE  Stored' /\ Carried' /\ Viewed' /\ RouteIsDiscovered'
<1>1. TypeOK /\ Stored /\ Carried /\ Viewed /\ RouteIsDiscovered
  BY DEF IInv
<1>2. call' = call
  BY DEF RefreshStep, ReadPrevious, ReadProviders, PutSnapshot, StopRefresh
<1>3. Viewed' /\ RouteIsDiscovered'
  BY <1>1, <1>2 DEF Viewed, InLookup, RouteIsDiscovered, Consistent
<1>4. Carried'
  <2>1. CASE ReadPrevious(r)
    BY <1>1, <2>1 DEF ReadPrevious, Carried, Stored, Consistent, TypeOK
  <2>2. CASE ReadProviders(r)
    BY <1>1, <2>2 DEF ReadProviders, Carried, Consistent, TypeOK, Refreshing
  <2>3. CASE PutSnapshot(r) \/ StopRefresh(r)
    BY <1>1, <2>3 DEF PutSnapshot, StopRefresh, Carried, Consistent, TypeOK
  <2> QED BY <2>1, <2>2, <2>3 DEF RefreshStep
<1>5. Stored'
  <2>1. CASE PutSnapshot(r)
    <3>1. PICK failed \in SUBSET Asked(r) : \E found \in Answers(r, failed) :
            snapshot' = [slice |-> [p \in Provider |-> PublishedSlice(r, failed, found, p)],
                         route |-> [p \in Provider |-> PublishedRoute(r, failed, p)]]
      BY <2>1 DEF PutSnapshot
    <3>2. PICK found \in Answers(r, failed) :
            snapshot' = [slice |-> [p \in Provider |-> PublishedSlice(r, failed, found, p)],
                         route |-> [p \in Provider |-> PublishedRoute(r, failed, p)]]
      BY <3>1
    <3>3. \A p \in Provider :
            PublishedSlice(r, failed, found, p) \in {None, PublishedRoute(r, failed, p)}
      BY <1>1, <2>1, PublishedTogether DEF PutSnapshot
    <3> QED BY <3>2, <3>3 DEF Stored, Consistent
  <2>2. CASE ~PutSnapshot(r)
    BY <1>1, <2>2 DEF RefreshStep, ReadPrevious, ReadProviders, StopRefresh, Stored, Consistent
  <2> QED BY <2>1, <2>2
<1> QED BY <1>3, <1>4, <1>5

(* A view takes the stored snapshot whole, or none; a save begins another one.   *)
LEMMA CallKeepsViews ==
  ASSUME IInv, NEW c \in Call, CallStep(c)
  PROVE  Viewed'
<1>1. TypeOK /\ Stored /\ Viewed
  BY DEF IInv
<1>2. ASSUME NEW d \in Call, d # c PROVE InLookup(d)' => Consistent(call'[d].view.snapshot)
  <2>1. call'[d] = call[d]
    BY <1>1, <1>2 DEF CallStep, ReadSnapshot, ReadGateway, ReadSettings, Reading, BeginUse,
       Admit, BeginSave, requireCatalogModel, UpdateDefaults, End, TypeOK
  <2> QED BY <1>1, <1>2, <2>1 DEF Viewed, InLookup, Consistent
<1>3. InLookup(c)' => Consistent(call'[c].view.snapshot)
  <2>1. CASE ReadSnapshot(c)
    <3>1. InLookup(c)
      BY <2>1 DEF ReadSnapshot, Reads, InLookup
    <3>2. PICK s \in {snapshot, None} :
            Reading(c, "snapshot", [call[c].view EXCEPT !.snapshot = s])
      BY <2>1 DEF ReadSnapshot
    <3>3. call'[c].view.snapshot = s
      BY <1>1, <3>1, <3>2, LookupTyped DEF Reading, TypeOK, Lookup, Save, View
    <3> QED BY <1>1, <3>3 DEF Stored, Consistent
  <2>2. CASE ReadGateway(c) \/ ReadSettings(c)
    <3>1. InLookup(c)
      BY <2>2 DEF ReadGateway, ReadSettings, Reads, InLookup
    <3>2. call'[c].view.snapshot = call[c].view.snapshot
      BY <1>1, <2>2, <3>1, LookupTyped
         DEF ReadGateway, ReadSettings, Reading, TypeOK, Lookup, Save, View
    <3> QED BY <1>1, <3>1, <3>2 DEF Viewed, Consistent
  <2>3. CASE BeginUse(c) \/ BeginSave(c)
    <3>1. call'[c].view = Blank
      BY <1>1, <2>3 DEF BeginUse, BeginSave, TypeOK
    <3> QED BY <3>1 DEF Blank, Consistent
  <2>4. CASE requireCatalogModel(c)
    <3>1. call[c] \in Save
      BY <1>1, <2>4, LookupTyped DEF requireCatalogModel, InLookup
    <3>2. call'[c].view = Blank
      BY <1>1, <2>4, <3>1 DEF requireCatalogModel, TypeOK, Save
    <3> QED BY <3>2 DEF Blank, Consistent
  <2>5. CASE Admit(c)
    <3>1. call'[c].op = "admitted"
      BY <1>1, <2>5 DEF Admit, Routing, TypeOK
    <3> QED BY <3>1 DEF InLookup
  <2>6. CASE UpdateDefaults(c) \/ End(c)
    <3>1. call'[c] = None
      BY <1>1, <2>6 DEF UpdateDefaults, End, TypeOK
    <3> QED BY <3>1 DEF InLookup
  <2> QED BY <2>1, <2>2, <2>3, <2>4, <2>5, <2>6 DEF CallStep
<1> QED BY <1>2, <1>3 DEF Viewed, Consistent

(* An admission compares the providers it read with those of the snapshot it     *)
(* read, so that the metadata it takes was published at the route it freezes.     *)
LEMMA CallKeepsAdmitted ==
  ASSUME IInv, NEW c \in Call, CallStep(c)
  PROVE  RouteIsDiscovered'
<1>1. TypeOK /\ Viewed /\ RouteIsDiscovered
  BY DEF IInv
<1> DEFINE Right(k) == k # None /\ k.op = "admitted" /\ k.model # Native =>
                         k.slice = k.route /\ k.gateway # None
<1>2. ASSUME NEW d \in Call, d # c PROVE Right(call'[d])
  <2>1. call'[d] = call[d]
    BY <1>1, <1>2 DEF CallStep, ReadSnapshot, ReadGateway, ReadSettings, Reading, BeginUse,
       Admit, BeginSave, requireCatalogModel, UpdateDefaults, End, TypeOK
  <2> QED BY <1>1, <2>1 DEF RouteIsDiscovered
<1>3. Right(call'[c])
  <2>1. CASE Admit(c)
    <3> DEFINE v == call[c].view
               m == call[c].model
    <3>1. call'[c] = Routing(v, m) /\ Enabled(v, m)
      BY <1>1, <2>1 DEF Admit, TypeOK
    <3>2. Consistent(v.snapshot) /\ m \in Provider
      BY <1>1, <2>1, LookupTyped DEF Admit, Viewed, InLookup, Lookup
    <3>3. m # Native => v.snapshot.slice[m] = v.settings[m].route /\ v.snapshot # None
                        /\ v.gateway # None
      BY <3>1, <3>2 DEF Enabled, Selectable, Listed, sameProviderRoute, Consistent
    <3> HIDE DEF v, m
    <3> QED BY <3>1, <3>3 DEF Routing
  <2>2. CASE ReadSnapshot(c) \/ ReadGateway(c) \/ ReadSettings(c) \/ requireCatalogModel(c)
    <3>1. InLookup(c)
      BY <2>2 DEF ReadSnapshot, ReadGateway, ReadSettings, Reads, requireCatalogModel, InLookup
    <3>2. call[c] \in Lookup \cup Save /\ call[c].op # "admitted"
      BY <1>1, <3>1, LookupTyped DEF InLookup
    <3>3. call'[c].op = call[c].op
      BY <1>1, <2>2, <3>2 DEF ReadSnapshot, ReadGateway, ReadSettings, Reading,
         requireCatalogModel, TypeOK, Lookup, Save
    <3> QED BY <3>2, <3>3
  <2>3. CASE BeginUse(c) \/ BeginSave(c)
    BY <1>1, <2>3 DEF BeginUse, BeginSave, TypeOK
  <2>4. CASE UpdateDefaults(c) \/ End(c)
    BY <1>1, <2>4 DEF UpdateDefaults, End, TypeOK
  <2> QED BY <2>1, <2>2, <2>3, <2>4 DEF CallStep
<1> QED BY <1>2, <1>3 DEF RouteIsDiscovered

LEMMA Inductive == IInv /\ [Next]_vars => IInv'
<1> SUFFICES ASSUME IInv, [Next]_vars PROVE IInv'
  OBVIOUS
<1>1. TypeOK'
  BY TypeInductive DEF IInv
<1>2. CASE saveModelProviders \/ saveConnection \/ UNCHANGED vars
  BY <1>1, <1>2 DEF saveModelProviders, saveConnection, vars, IInv, Stored, Carried, Viewed,
     InLookup, RouteIsDiscovered, Consistent
<1>3. ASSUME NEW r \in Refresh, RefreshStep(r) PROVE IInv'
  BY <1>1, <1>3, RefreshKeeps DEF IInv
<1>4. ASSUME NEW c \in Call, CallStep(c) PROVE IInv'
  <2>1. snapshot' = snapshot /\ refresh' = refresh
    BY <1>4 DEF CallStep, ReadSnapshot, ReadGateway, ReadSettings, Reading, BeginUse,
       Admit, BeginSave, requireCatalogModel, UpdateDefaults, End
  <2>2. Stored' /\ Carried'
    BY <2>1 DEF IInv, Stored, Carried, Consistent
  <2> QED BY <1>1, <1>4, <2>2, CallKeepsViews, CallKeepsAdmitted DEF IInv
<1> QED BY <1>2, <1>3, <1>4 DEF Next

LEMMA Initially == Init => IInv
<1> SUFFICES ASSUME Init PROVE IInv
  OBVIOUS
<1>1. TypeOK
  BY NativeProvider DEF Init, TypeOK, ListOf
<1> QED BY <1>1 DEF Init, IInv, Stored, Carried, Viewed, InLookup, RouteIsDiscovered, Consistent

(* Whatever the owner edits and however refreshes fail or overlap, an external    *)
(* model is admitted only with metadata published at the configuration frozen     *)
(* with it, and through a Gateway.                                              *)
THEOREM AdmittedAtItsRoute == Spec => []RouteIsDiscovered
<1>1. IInv => RouteIsDiscovered
  BY DEF IInv
<1> QED BY <1>1, Initially, Inductive, PTL DEF Spec

(* A default changes only to a model that a save under way named for that field:  *)
(* any number of overlapping saves keep each other's fields.                      *)
THEOREM SavesKeepDefaults == Spec => DefaultsKept
<1> DEFINE Named(f) == \E c \in Call :
      call[c] # None /\ call[c].op = "save" /\ call[c].input[f] = defaults'[f]
    Step == \A f \in Field : defaults'[f] # defaults[f] => Named(f)
<1>1. TypeOK /\ [Next]_vars => [Step]_vars
  <2> SUFFICES ASSUME TypeOK, Next PROVE Step
    OBVIOUS
  <2>1. ASSUME NEW c \in Call, UpdateDefaults(c) PROVE Step
    <3>1. call[c] # None /\ call[c].op = "save"
      BY <2>1 DEF UpdateDefaults
    <3>2. \A f \in Field : defaults'[f] = Written(c, f)
      BY <2>1 DEF UpdateDefaults
    <3> QED BY <3>1, <3>2 DEF Written, Differs
  <2>2. ASSUME NEW c \in Call, CallStep(c), ~UpdateDefaults(c) PROVE defaults' = defaults
    BY <2>2 DEF CallStep, ReadSnapshot, ReadGateway, ReadSettings, Reading, BeginUse,
       Admit, BeginSave, requireCatalogModel, End, d1
  <2>3. ASSUME NEW r \in Refresh, RefreshStep(r) PROVE defaults' = defaults
    BY <2>3 DEF RefreshStep, ReadPrevious, ReadProviders, PutSnapshot, StopRefresh, d1
  <2>4. CASE saveModelProviders \/ saveConnection
    BY <2>4 DEF saveModelProviders, saveConnection
  <2> QED BY <2>1, <2>2, <2>3, <2>4 DEF Next
<1>2. Spec => []TypeOK
  BY TypeCorrect
<1> QED BY <1>1, <1>2, PTL DEF Spec, DefaultsKept
=============================================================================
