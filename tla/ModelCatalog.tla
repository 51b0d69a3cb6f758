------------------------------ MODULE ModelCatalog ------------------------------
(***************************************************************************)
(* Which models may be used, and through which connection: src/models.ts.    *)
(*                                                                          *)
(* The provider list, the Gateway and the two default models are columns of   *)
(* the D1 row `settings`; what the providers published is one R2 object, the   *)
(* snapshot.  Owners edit the settings at any time, refreshes overlap, and a   *)
(* request that needs a model joins three separate reads: the snapshot, the    *)
(* Gateway and the providers, each as it was at another instant.               *)
(*                                                                          *)
(* A provider stands for its models, listed in the snapshot or not, and a      *)
(* route for the configuration sameProviderRoute compares: type, base URL,     *)
(* Gateway slug and path, and the URLs of the catalogue and its metadata.       *)
(***************************************************************************)
EXTENDS Naturals, FiniteSets

CONSTANTS
  Provider,  \* provider identities
  Native,    \* the one with the native binding: workers-ai
  Route,     \* configurations of the others
  Gateway,   \* Gateway identities
  Refresh,   \* executions of refreshModelCatalog
  Call,      \* executions of requireAvailableModel and saveModelDefaults
  None       \* null, undefined, an absent object

ASSUME NativeProvider == Native \in Provider

VARIABLES
  settings,  \* settings.model_providers_json: each provider's entry, or None
  gateway,   \* settings.model_gateway_id
  defaults,  \* settings.answer_model and settings.distill_model
  snapshot,  \* R2 catalog/models.json
  refresh,   \* each running refresh
  call       \* each running request for a model, or what it was given

d1 == <<settings, gateway, defaults>>
vars == <<settings, gateway, defaults, snapshot, refresh, call>>

-----------------------------------------------------------------------------
(* The native provider has one configuration, named after it.                *)
AnyRoute == Route \cup {Native}
Routes(p) == IF p = Native THEN {Native} ELSE Route
Setting == [route : AnyRoute, on : BOOLEAN]
Settings == [Provider -> Setting \cup {None}]
ListOf == {s \in Settings : \A p \in Provider : s[p] # None => s[p].route \in Routes(p)}

(* slice[p]: the configuration at which the stored models of p were published, *)
(* route[p]: the one stored with them in snapshot.providers.                   *)
Snapshot == [slice : [Provider -> AnyRoute \cup {None}],
             route : [Provider -> AnyRoute \cup {None}]]

Field == {"answer", "distill"}
Part == {"snapshot", "gateway", "settings"}
View == [snapshot : Snapshot \cup {None}, gateway : Gateway \cup {None}, settings : Settings]
NoProviders == [p \in Provider |-> None]
Blank == [snapshot |-> None, gateway |-> None, settings |-> NoProviders]

(* A lookup of a model: what is still to be read, what was read.  A save looks *)
(* up the models it changes one after the other, those of `todo` are left.      *)
Lookup == [op : {"use"}, model : Provider, unread : SUBSET Part, view : View]
Save == [op : {"save"}, input : [Field -> Provider \cup {None}], current : [Field -> Provider],
         todo : SUBSET Field, unread : SUBSET Part, view : View]
(* The ModelSpec that was admitted: the metadata and the frozen routing.       *)
ModelSpec == [op : {"admitted"}, model : Provider, slice : AnyRoute \cup {None},
          route : AnyRoute \cup {None}, gateway : Gateway \cup {None}]

Refreshing == [at : {"providers", "discover"}, previous : Snapshot \cup {None}, providers : Settings]

TypeOK ==
  /\ settings \in Settings
  /\ gateway \in Gateway \cup {None}
  /\ defaults \in [Field -> Provider]
  /\ snapshot \in Snapshot \cup {None}
  /\ refresh \in [Refresh -> Refreshing \cup {None}]
  /\ call \in [Call -> Lookup \cup Save \cup ModelSpec \cup {None}]

(* Migrations 0005 and 0008: a list of providers, no Gateway, nothing fetched.  *)
Init ==
  /\ settings \in {s \in ListOf : \A p \in Provider : s[p] # None}
  /\ gateway = None
  /\ defaults = [f \in Field |-> Native]
  /\ snapshot = None
  /\ refresh = [r \in Refresh |-> None]
  /\ call = [c \in Call |-> None]

-----------------------------------------------------------------------------
(* The owner replaces the list of providers, or the Gateway.                  *)
saveModelProviders ==
  /\ settings' \in ListOf
  /\ UNCHANGED <<gateway, defaults, snapshot, refresh, call>>

saveConnection ==
  /\ gateway' \in Gateway \cup {None}
  /\ UNCHANGED <<settings, defaults, snapshot, refresh, call>>

-----------------------------------------------------------------------------
(* refreshModelCatalog: read the stored snapshot, then the providers, ask each *)
(* enabled provider, replace the snapshot.  An unreadable one is never replaced. *)
ReadPrevious(r) ==
  /\ refresh[r] = None
  /\ refresh' = [refresh EXCEPT ![r] =
       [at |-> "providers", previous |-> snapshot, providers |-> NoProviders]]
  /\ UNCHANGED <<d1, snapshot, call>>

ReadProviders(r) ==
  /\ refresh[r] # None
  /\ refresh[r].at = "providers"
  /\ refresh' = [refresh EXCEPT ![r].at = "discover", ![r].providers = settings]
  /\ UNCHANGED <<d1, snapshot, call>>

Asked(r) == {p \in Provider : refresh[r].providers[p] # None /\ refresh[r].providers[p].on}
(* Providers whose stored slice and configuration are carried over.           *)
Kept(r, failed) ==
  {p \in Provider : refresh[r].providers[p] # None /\ p \notin Asked(r) \ failed}
Before(r, field, p) ==
  IF refresh[r].previous = None THEN None
  ELSE IF field = "slice" THEN refresh[r].previous.slice[p] ELSE refresh[r].previous.route[p]
(* Mistake: a provider that failed is stored with its present configuration.    *)
PublishedRoute_Current(r, failed, p) ==
  IF refresh[r].providers[p] # None THEN refresh[r].providers[p].route ELSE None
PublishedRoute(r, failed, p) ==
  IF p \in Kept(r, failed) THEN Before(r, "route", p)
  ELSE IF p \in Asked(r) THEN refresh[r].providers[p].route ELSE None
PublishedSlice(r, failed, found, p) ==
  IF p \in Kept(r, failed) THEN Before(r, "slice", p)
  ELSE IF p \in found THEN refresh[r].providers[p].route ELSE None

(* Every provider that did not fail answers with its models or none.           *)
Answers(r, failed) == SUBSET (Asked(r) \ failed)
PutSnapshot(r) ==
  /\ refresh[r] # None
  /\ refresh[r].at = "discover"
  /\ \E failed \in SUBSET Asked(r) : \E found \in Answers(r, failed) :
       snapshot' = [slice |-> [p \in Provider |-> PublishedSlice(r, failed, found, p)],
                    route |-> [p \in Provider |-> PublishedRoute(r, failed, p)]]
  /\ refresh' = [refresh EXCEPT ![r] = None]
  /\ UNCHANGED <<d1, call>>

(* A read or the put fails, the snapshot is too large, or the isolate ends.     *)
StopRefresh(r) ==
  /\ refresh[r] # None
  /\ refresh' = [refresh EXCEPT ![r] = None]
  /\ UNCHANGED <<d1, snapshot, call>>

-----------------------------------------------------------------------------
(* What a catalogue view says of the models of p.  Without a stored snapshot    *)
(* the factory's native model stands in.                                      *)
Listed(v, p) == IF v.snapshot = None THEN p = Native ELSE v.snapshot.slice[p] # None
Selectable(v, p) == Listed(v, p) /\ v.settings[p] # None /\ v.settings[p].on
sameProviderRoute(v, p) == v.snapshot # None /\ v.snapshot.route[p] = v.settings[p].route
Enabled(v, p) ==
  /\ Selectable(v, p)
  /\ p # Native => v.gateway # None /\ sameProviderRoute(v, p)

(* One of the three reads of readModelCatalog answers.  An unreadable snapshot  *)
(* counts as none; D1 either answers or the request fails.                      *)
Reads(c, part) ==
  /\ call[c] # None /\ call[c].op \in {"use", "save"}
  /\ part \in call[c].unread
Reading(c, part, v) ==
  /\ call' = [call EXCEPT ![c].unread = @ \ {part}, ![c].view = v]
  /\ UNCHANGED <<d1, snapshot, refresh>>
ReadSnapshot(c) ==
  /\ Reads(c, "snapshot")
  /\ \E s \in {snapshot, None} : Reading(c, "snapshot", [call[c].view EXCEPT !.snapshot = s])
ReadGateway(c) ==
  /\ Reads(c, "gateway")
  /\ Reading(c, "gateway", [call[c].view EXCEPT !.gateway = gateway])
ReadSettings(c) ==
  /\ Reads(c, "settings")
  /\ Reading(c, "settings", [call[c].view EXCEPT !.settings = settings])

(* requireAvailableModel: the model and the connection it will be called by.    *)
BeginUse(c) ==
  /\ call[c] = None
  /\ \E p \in Provider :
       call' = [call EXCEPT ![c] = [op |-> "use", model |-> p, unread |-> Part, view |-> Blank]]
  /\ UNCHANGED <<d1, snapshot, refresh>>

Routing(v, p) ==
  [op |-> "admitted", model |-> p,
   slice |-> IF v.snapshot = None THEN None ELSE v.snapshot.slice[p],
   route |-> v.settings[p].route,
   gateway |-> IF p = Native THEN None ELSE v.gateway]
Admit(c) ==
  /\ call[c] # None /\ call[c].op = "use" /\ call[c].unread = {}
  /\ Enabled(call[c].view, call[c].model)
  /\ call' = [call EXCEPT ![c] = Routing(call[c].view, call[c].model)]
  /\ UNCHANGED <<d1, snapshot, refresh>>

(* saveModelDefaults: the fields that differ from the row are looked up, answer *)
(* first, each in a catalogue of its own, and written together.                *)
Differs(input, current) == {f \in Field : input[f] \notin {None, current[f]}}
BeginSave(c) ==
  /\ call[c] = None
  /\ \E input \in [Field -> Provider \cup {None}] :
       /\ Differs(input, defaults) # {}
       /\ call' = [call EXCEPT ![c] =
            [op |-> "save", input |-> input, current |-> defaults,
             todo |-> Differs(input, defaults), unread |-> Part, view |-> Blank]]
  /\ UNCHANGED <<d1, snapshot, refresh>>

FieldOf(todo) == IF "answer" \in todo THEN "answer" ELSE "distill"
requireCatalogModel(c) ==
  /\ call[c] # None /\ call[c].op = "save" /\ call[c].unread = {} /\ call[c].todo # {}
  /\ LET f == FieldOf(call[c].todo) IN
       /\ Selectable(call[c].view, call[c].input[f])
       /\ call' = [call EXCEPT ![c].todo = @ \ {f}, ![c].view = Blank,
                               ![c].unread = IF call[c].todo = {f} THEN {} ELSE Part]
  /\ UNCHANGED <<d1, snapshot, refresh>>

(* COALESCE(?, answer_model): a field that did not differ is left as it is now.  *)
(* Mistake: it is written as it was read.                                      *)
Written_Read(c, f) ==
  IF f \in Differs(call[c].input, call[c].current) THEN call[c].input[f] ELSE call[c].current[f]
Written(c, f) ==
  IF f \in Differs(call[c].input, call[c].current) THEN call[c].input[f] ELSE defaults[f]
UpdateDefaults(c) ==
  /\ call[c] # None /\ call[c].op = "save" /\ call[c].todo = {}
  /\ defaults' = [f \in Field |-> Written(c, f)]
  /\ call' = [call EXCEPT ![c] = None]
  /\ UNCHANGED <<settings, gateway, snapshot, refresh>>

(* The request is refused, fails or stops, or the job it admitted has ended.    *)
End(c) ==
  /\ call[c] # None
  /\ call' = [call EXCEPT ![c] = None]
  /\ UNCHANGED <<d1, snapshot, refresh>>

-----------------------------------------------------------------------------
RefreshStep(r) == ReadPrevious(r) \/ ReadProviders(r) \/ PutSnapshot(r) \/ StopRefresh(r)
CallStep(c) ==
  \/ ReadSnapshot(c) \/ ReadGateway(c) \/ ReadSettings(c)
  \/ BeginUse(c) \/ Admit(c)
  \/ BeginSave(c) \/ requireCatalogModel(c) \/ UpdateDefaults(c)
  \/ End(c)
Next ==
  \/ saveModelProviders \/ saveConnection
  \/ \E r \in Refresh : RefreshStep(r)
  \/ \E c \in Call : CallStep(c)

Spec == Init /\ [][Next]_vars

-----------------------------------------------------------------------------
(* An external model is admitted with metadata that was published by exactly   *)
(* the configuration frozen with it (requireAvailableModel), however often the  *)
(* owner changed that provider since, whatever refreshes failed or overlapped,  *)
(* and although its three reads saw different instants: a paid call never goes  *)
(* to one service with the limits of another.                                   *)
RouteIsDiscovered ==
  \A c \in Call :
    call[c] # None /\ call[c].op = "admitted" /\ call[c].model # Native =>
      call[c].slice = call[c].route /\ call[c].gateway # None

(* A default model changes only to one that an unanswered save named for that   *)
(* very field (saveModelDefaults): two saves of different fields never undo      *)
(* each other, and a save never brings back the value it read.                   *)
DefaultsKept ==
  [][\A f \in Field : defaults'[f] # defaults[f] =>
       \E c \in Call :
         call[c] # None /\ call[c].op = "save" /\ call[c].input[f] = defaults'[f]]_vars

=============================================================================
