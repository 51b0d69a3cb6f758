-------------------------------- MODULE Capture --------------------------------
(***************************************************************************)
(* Capturing an original: the HTTP handler addSource of src/library.ts,     *)
(* run by any number of concurrent requests.  A request writes its original  *)
(* to R2, inserts the revision row with one D1 batch, reconciles when the    *)
(* batch reply is missing, and creates the ingest Workflow.                  *)
(*                                                                          *)
(* One action is the code between two awaits whose outcome another request   *)
(* can change.  The reads before the R2 write are one action: rows are only  *)
(* ever added, so their combined answer is that of the last of them.         *)
(***************************************************************************)
EXTENDS Naturals, FiniteSets

CONSTANTS
  Source,   \* source identities
  Rev,      \* revision UUIDs, server generated or supplied by the browser
  Digest,   \* contents, as their SHA-256
  Name,     \* what else identifies a file: filename and MIME type
  Req,      \* executions of addSource
  None      \* SQL NULL

VARIABLES
  row,      \* source_revision: the capture identity of each revision, or None
  bucket,   \* R2: the attempts whose original object exists
  created,  \* INGEST: revisions whose Workflow instance exists
  settled,  \* revisions whose readable_state is no longer 'pending'
  marked,   \* pending revisions whose error is STATUS_UNAVAILABLE
  pc, arg   \* each request: where it is, and what it was asked to capture

d1 == <<row, settled, marked>>
vars == <<row, bucket, created, settled, marked, pc, arg>>

(***************************************************************************)
(* Every attempt owns one original key: `source/<rev>/original` when the     *)
(* server chose the revision, `source/<rev>/original-<uuid>` when the caller *)
(* did.  The key is therefore the attempt itself.                            *)
(***************************************************************************)
File == [digest : Digest, name : Name]
Row == [src : Source, no : Nat \ {0}, file : File, key : Req]
Mode == {"new", "replace", "caller"}
Arg == [mode : Mode, src : Source, rev : Rev, file : File, no : Nat \ {0}]

ASSUME NoneIsFresh == None \notin Source \cup Rev \cup Req \cup Row \cup Arg

Running == {"reserved", "stored", "unconfirmed", "adopting", "discarding",
            "inserted", "checking", "marking"}
Ended == {"receipt", "rejected", "crashed"}
PC == {"idle"} \cup Running \cup Ended

TypeOK ==
  /\ row \in [Rev -> Row \cup {None}]
  /\ bucket \subseteq Req
  /\ created \subseteq Rev
  /\ settled \subseteq Rev
  /\ marked \subseteq Rev
  /\ pc \in [Req -> PC]
  /\ arg \in [Req -> Arg \cup {None}]
  /\ \A q \in Req : pc[q] # "idle" => arg[q] # None

Init ==
  /\ row = [r \in Rev |-> None]
  /\ bucket = {}
  /\ created = {}
  /\ settled = {}
  /\ marked = {}
  /\ pc = [q \in Req |-> "idle"]
  /\ arg = [q \in Req |-> None]

-----------------------------------------------------------------------------
Captured(r) == row[r] # None
RevsOf(s) == {r \in Rev : Captured(r) /\ row[r].src = s}

(* SELECT MAX(revision_no) + 1: one number, or none for an unknown source. *)
Latest(s) == {l \in RevsOf(s) : \A r \in RevsOf(s) : row[r].no <= row[l].no}
NextNos(s) == {row[l].no + 1 : l \in Latest(s)}

(* Another source holds exactly these bytes, under whatever name. *)
HeldElsewhere(file, s) ==
  \E r \in Rev : Captured(r) /\ row[r].file.digest = file.digest /\ row[r].src # s

(* crypto.randomUUID() returns an identity nobody holds. *)
FreshRev(r) == ~Captured(r) /\ \A q \in Req : arg[q] # None => arg[q].rev # r
FreshSource(s) == RevsOf(s) = {} /\ \A q \in Req : arg[q] # None => arg[q].src # s

(* The browser cannot guess an identity the server is still about to insert. *)
CallerKnows(r) ==
  Captured(r) \/ \A q \in Req : arg[q] # None /\ arg[q].rev = r => arg[q].mode = "caller"

Matches_AnyFile(r, a) == row[r].src = a.src /\ arg[row[r].key].mode = "caller"   \* fault: bytes not compared

(* `matches`: the stored row is this very file replacement. *)
Matches(r, a) ==
  /\ row[r].src = a.src
  /\ row[r].file = a.file
  /\ arg[row[r].key].mode = "caller"

Goto(q, l) == pc' = [pc EXCEPT ![q] = l]

-----------------------------------------------------------------------------
(* Parse the request, read MAX(revision_no), a prior row under the caller's  *)
(* revision id, and a duplicate held by another source.                      *)
Verdict(a) ==
  IF a.mode = "caller" /\ Captured(a.rev)
    THEN IF Matches(a.rev, a) THEN "receipt" ELSE "rejected"
    ELSE IF HeldElsewhere(a.file, a.src) THEN "rejected" ELSE "reserved"

MayAsk(a) ==
  /\ IF a.mode = "new" THEN a.no = 1 /\ FreshSource(a.src) ELSE a.no \in NextNos(a.src)
  /\ IF a.mode = "caller" THEN CallerKnows(a.rev) ELSE FreshRev(a.rev)

Ask(q, a) ==
  /\ MayAsk(a)
  /\ arg' = [arg EXCEPT ![q] = a]
  /\ Goto(q, Verdict(a))
  /\ UNCHANGED <<d1, bucket, created>>

Reserve(q) ==
  /\ pc[q] = "idle"
  /\ \E m \in Mode, s \in Source, r \in Rev, f \in File : \E n \in {1} \cup NextNos(s) :
       Ask(q, [mode |-> m, src |-> s, rev |-> r, file |-> f, no |-> n])

(* BUCKET.put under the attempt's own key; a throw may hide a stored object. *)
PutOriginal(q) ==
  /\ pc[q] = "reserved"
  /\ \/ bucket' = bucket \cup {q} /\ Goto(q, "stored")
     \/ bucket' \in {bucket, bucket \cup {q}} /\ Goto(q, "crashed")
  /\ UNCHANGED <<d1, created, arg>>

CanInsert_AnyFile(a) == ~Captured(a.rev) /\ \A r \in RevsOf(a.src) : row[r].no # a.no   \* fault: no NOT EXISTS

(* UNIQUE(id), UNIQUE(source_id, revision_no) and the NOT EXISTS guard. *)
CanInsert(a) ==
  /\ ~Captured(a.rev)
  /\ \A r \in RevsOf(a.src) : row[r].no # a.no
  /\ ~HeldElsewhere(a.file, a.src)

InsertBatch_NoKey(q) ==   \* fault: original_key left NULL
  /\ pc[q] = "stored" /\ CanInsert(arg[q])
  /\ row' = [row EXCEPT ![arg[q].rev] = [src |-> arg[q].src, no |-> arg[q].no,
                                         file |-> arg[q].file, key |-> None]]
  /\ Goto(q, "inserted")
  /\ UNCHANGED <<bucket, created, settled, marked, arg>>

(* The batch: it inserts and is acknowledged, inserts with its reply lost,    *)
(* never runs, or is refused; only the first outcome skips reconciliation.    *)
InsertBatch(q) ==
  /\ pc[q] = "stored"
  /\ \/ /\ CanInsert(arg[q])
        /\ row' = [row EXCEPT ![arg[q].rev] = [src |-> arg[q].src, no |-> arg[q].no,
                                              file |-> arg[q].file, key |-> q]]
        /\ Goto(q, "inserted") \/ Goto(q, "unconfirmed")
     \/ UNCHANGED row /\ Goto(q, "unconfirmed")
  /\ UNCHANGED <<bucket, created, settled, marked, arg>>

Reconcile_NotStored(q) ==   \* fault: a failed batch taken for one that did not run
  /\ pc[q] = "unconfirmed"
  /\ Goto(q, "discarding")
  /\ UNCHANGED <<d1, bucket, created, arg>>

(* captured() after a failed batch.  A revision written under another key is *)
(* the winner; this attempt adopts it or conflicts after deleting its own key.*)
Reconcile(q) ==
  /\ pc[q] = "unconfirmed"
  /\ LET r == arg[q].rev IN
     Goto(q, IF ~Captured(r) THEN "discarding"
             ELSE IF row[r].key = q THEN "inserted"
             ELSE IF Matches(r, arg[q]) THEN "adopting" ELSE "discarding")
  /\ UNCHANGED <<d1, bucket, created, arg>>

(* BUCKET.delete(originalKey).catch(() => undefined): it may not happen. *)
DeleteOwnKey(q) ==
  /\ pc[q] \in {"adopting", "discarding"}
  /\ bucket' \in {bucket, bucket \ {q}}
  /\ Goto(q, IF pc[q] = "adopting" THEN "receipt" ELSE "rejected")
  /\ UNCHANGED <<d1, created, arg>>

(* INGEST.create under the deterministic id: it fails on an existing instance,*)
(* may fail for any other reason, and may succeed with its reply lost.        *)
CreateInstance(q) ==
  /\ pc[q] = "inserted"
  /\ \/ /\ arg[q].rev \notin created
        /\ created' = created \cup {arg[q].rev}
        /\ Goto(q, "receipt") \/ Goto(q, "checking")
     \/ UNCHANGED created /\ Goto(q, "checking")
  /\ UNCHANGED <<d1, bucket, arg>>

CheckInstance_Trusts(q) ==   \* fault: an unconfirmed instance taken for a started one
  /\ pc[q] = "checking" /\ Goto(q, "receipt")
  /\ UNCHANGED <<d1, bucket, created, arg>>

(* INGEST.get(...).status(): found, or unavailable whether or not it exists. *)
CheckInstance(q) ==
  /\ pc[q] = "checking"
  /\ \/ arg[q].rev \in created /\ Goto(q, "receipt")
     \/ Goto(q, "marking")
  /\ UNCHANGED <<d1, bucket, created, arg>>

MarkUnavailable_Always(q) ==   \* fault: no readable_state='pending' guard
  /\ pc[q] = "marking"
  /\ marked' = marked \cup {arg[q].rev}
  /\ Goto(q, "receipt")
  /\ UNCHANGED <<row, settled, bucket, created, arg>>

(* UPDATE source_revision SET error=STATUS_UNAVAILABLE WHERE ... 'pending'. *)
MarkUnavailable(q) ==
  /\ pc[q] = "marking"
  /\ marked' = IF arg[q].rev \in settled THEN marked ELSE marked \cup {arg[q].rev}
  /\ Goto(q, "receipt")
  /\ UNCHANGED <<row, settled, bucket, created, arg>>

(* The isolate stops, or a D1 or R2 read throws out of the handler. *)
Crash(q) ==
  /\ pc[q] \in Running
  /\ Goto(q, "crashed")
  /\ UNCHANGED <<d1, bucket, created, arg>>

(* The Workflow and source readers (module Ingest), as this handler sees them:*)
(* they act on an existing instance only.                                    *)
Settle(r) ==
  /\ r \in created \ settled
  /\ settled' = settled \cup {r}
  /\ marked' = marked \ {r}
  /\ UNCHANGED <<row, bucket, created, pc, arg>>

ClearMark(r) ==
  /\ r \in created \cap marked
  /\ marked' = marked \ {r}
  /\ UNCHANGED <<row, settled, bucket, created, pc, arg>>

Step(q) ==
  \/ Reserve(q) \/ PutOriginal(q) \/ InsertBatch(q) \/ Reconcile(q) \/ DeleteOwnKey(q)
  \/ CreateInstance(q) \/ CheckInstance(q) \/ MarkUnavailable(q) \/ Crash(q)

Next == (\E q \in Req : Step(q)) \/ (\E r \in Rev : Settle(r) \/ ClearMark(r))

Spec == Init /\ [][Next]_vars

-----------------------------------------------------------------------------
(* A revision row never loses its original: addSource deletes an object only  *)
(* when no row points at it, whichever attempt of a race wrote the row and    *)
(* whichever replies were lost (catch block of the batch).                    *)
OriginalKept == \A r \in Rev : Captured(r) => row[r].key \in bucket

(* MAX(revision_no)+1 is read long before the INSERT uses it.  Still the      *)
(* revisions of a source are numbered 1..n without gap or repetition, so an   *)
(* insert always adds the newest revision of its source.                      *)
Contiguous == \A r \in Rev : Captured(r) =>
                \A n \in 1 .. row[r].no : \E l \in RevsOf(row[r].src) : row[l].no = n
Numbered == \A s \in Source : \A r, l \in RevsOf(s) : row[r].no = row[l].no => r = l
RevisionsNumbered == Contiguous /\ Numbered

(* The exact bytes live under one source only: two uploads of the same file   *)
(* that race past the duplicate read do not create two sources.               *)
OneSourcePerFile ==
  \A r, l \in Rev : Captured(r) /\ Captured(l) /\ row[r].file.digest = row[l].file.digest
                    => row[r].src = row[l].src

(* A receipt names a stored revision that holds the caller's file under the   *)
(* caller's source, also when the attempt lost the race and adopted a winner. *)
ReceiptIsTrue ==
  \A q \in Req : pc[q] = "receipt" =>
    LET r == arg[q].rev IN
    /\ Captured(r)
    /\ row[r].src = arg[q].src
    /\ row[r].file = arg[q].file

(* The attempt whose key is on the row, and no other: when it has answered,   *)
(* the Workflow exists or the pending row says that its status could not be   *)
(* checked.  A caller that replays the revision id (library.ts:173) or adopts *)
(* the row of a crashed attempt may get a receipt with neither.               *)
StartedOrMarked ==
  \A r \in Rev : Captured(r) /\ pc[row[r].key] = "receipt"
                 => r \in created \/ r \in marked

(* What an answer of addSource says.  To every caller: its file is recorded     *)
(* under the revision it was given.  To the attempt on the row also: the Workflow *)
(* was created, or the row is marked.                                         *)
ReceiptHolds == ReceiptIsTrue /\ StartedOrMarked

(* Only the attempt recorded on the winning row creates the Workflow; one     *)
(* that adopts a winner never does ("never start its Workflow again").        *)
OnlyWinnerStarts ==
  [][\A r \in created' \ created :
        Captured(r) /\ pc[row[r].key] = "inserted" /\ pc'[row[r].key] # "inserted"]_vars

(* What capture promises its readers, as one specification. *)
Ledger == INSTANCE RevisionLedger
LedgerSpec == Ledger!Spec
=============================================================================
