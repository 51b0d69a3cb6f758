--------------------------------- MODULE Pages ---------------------------------
(***************************************************************************)
(* Knowledge pages: answers saved as pages (src/pages.ts), and proposals that   *)
(* only the owner accepts (src/proposals.ts).                                *)
(*                                                                          *)
(* Requests run concurrently and stop anywhere.  A page revision is two R2       *)
(* objects and a D1 row; a D1 batch may commit without its reply, so a failed    *)
(* request reads back before it deletes what it stored.  Sources go on           *)
(* publishing newer text, which makes pages stale.                             *)
(***************************************************************************)
EXTENDS Naturals, FiniteSets

CONSTANTS
  Page, PageRev,
  Mutation,    \* mutation ids, which clients repeat
  Source,
  Request,     \* concurrent requests
  MaxText,     \* bound: texts a source publishes
  None

ASSUME TextAssumption == MaxText \in Nat

VARIABLES
  rev,      \* page_revision rows
  page,     \* page rows: accepted head and freshness
  object,   \* R2: objects stored of each revision
  current,  \* source.current_revision_id, as the number of the text; 0 for NULL
  req       \* requests in progress, or None

vars == <<rev, page, object, current, req>>

Text == Source \X (1 .. MaxText)
Kind == {"body", "citations"}
Status == {"proposed", "accepted", "rejected"}
Row == [page : Page, no : Nat \ {0}, status : Status, base : PageRev \cup {None},
        inputs : SUBSET Text, mutation : Mutation]
PageRow == [head : PageRev \cup {None}, fresh : BOOLEAN]
Call == [op : {"save", "propose", "accept", "reject"},
         at : {"put", "number", "insert", "head", "unknown", "discard", "winner", "page", "decide", "answered"},
         page : Page, rev : PageRev, base : PageRev \cup {None}, no : Nat \ {0},
         inputs : SUBSET Text, mutation : Mutation \cup {None}, taken : BOOLEAN]

Entry == [page : Page, no : Nat \ {0}, base : PageRev \cup {None}, status : Status]   \* of a row, in PageLedger

ASSUME NoneAssumption == None \notin Page \cup PageRev \cup Mutation \cup Row \cup PageRow \cup Call \cup Entry

Recorded(r) == rev[r] # None
RevsOf(p) == {r \in PageRev : Recorded(r) /\ rev[r].page = p}
With(m) == {r \in PageRev : Recorded(r) /\ rev[r].mutation = m}
Numbers(p) == {rev[r].no : r \in RevsOf(p)}
Head(p) == IF page[p] = None THEN None ELSE page[p].head

TypeOK ==
  /\ rev \in [PageRev -> Row \cup {None}]
  /\ page \in [Page -> PageRow \cup {None}]
  /\ object \in [PageRev -> SUBSET Kind]
  /\ current \in [Source -> 0 .. MaxText]
  /\ req \in [Request -> Call \cup {None}]
  /\ \A p \in Page : Head(p) # None => Head(p) \in RevsOf(p) /\ rev[Head(p)].status = "accepted"

Init ==
  /\ rev = [r \in PageRev |-> None]
  /\ page = [p \in Page |-> None]
  /\ object = [r \in PageRev |-> {}]
  /\ current = [s \in Source |-> 0]
  /\ req = [q \in Request |-> None]

-----------------------------------------------------------------------------
Readable == {t \in Text : t[2] <= current[t[1]]}

FreshAlways(inputs) == TRUE   \* fault: freshness left at its default

(* PAGE_FRESHNESS_SQL: every input is the current text of its source. *)
Fresh(inputs) == \A t \in inputs : current[t[1]] = t[2]

(* Publication of a newer text, by a conversion or by OCR Apply: pages whose head *)
(* was made from the replaced one become stale.                                *)
Publish(s) ==
  /\ current[s] < MaxText
  /\ current' = [current EXCEPT ![s] = @ + 1]
  /\ page' = [p \in Page |->
       IF Head(p) # None /\ <<s, current[s]>> \in rev[Head(p)].inputs
         THEN [page[p] EXCEPT !.fresh = FALSE] ELSE page[p]]
  /\ UNCHANGED <<rev, object, req>>

-----------------------------------------------------------------------------
Doing(q, op, at) == req[q] # None /\ req[q].op \in op /\ req[q].at = at
GoesTo(q, at) == req' = [req EXCEPT ![q].at = at]
Ends(q) == req' = [req EXCEPT ![q] = None]
(* Goes on with, or answers with, a revision that is not its own, and its page. *)
Takes(q, at, r) == req' = [req EXCEPT ![q].at = at, ![q].rev = r, ![q].page = rev[r].page]

(* crypto.randomUUID. *)
Unused(r) == ~Recorded(r) /\ object[r] = {} /\ {q \in Request : req[q] # None /\ req[q].rev = r} = {}
UnusedPage(p) == page[p] = None /\ {q \in Request : req[q] # None /\ req[q].page = p} = {}

New(op, p, r, b, inputs, m) ==
  [op |-> op, at |-> "put", page |-> p, rev |-> r, base |-> b, no |-> 1,
   inputs |-> inputs, mutation |-> m, taken |-> FALSE]

(* saveAnswer until the first put.  A mutation id that is known goes on to the     *)
(* page of its revision.                                                      *)
BeginSave(q) ==
  /\ req[q] = None
  /\ \E m \in Mutation, inputs \in SUBSET Readable, r \in PageRev, p \in Page :
       \/ /\ With(m) = {} /\ Unused(r) /\ UnusedPage(p)
          /\ req' = [req EXCEPT ![q] = New("save", p, r, None, inputs, m)]
       \/ /\ r \in With(m) /\ p = rev[r].page /\ inputs = {}
          /\ req' = [req EXCEPT ![q] = [New("save", p, r, None, inputs, m) EXCEPT !.at = "page"]]
  /\ UNCHANGED <<rev, page, object, current>>

(* proposePage until the first put: for a new page, or against the head it sees. *)
BeginPropose(q) ==
  /\ req[q] = None
  /\ \E m \in Mutation, inputs \in (SUBSET Readable) \ {{}}, r \in PageRev, p \in Page :
       \/ /\ With(m) = {} /\ Unused(r) /\ (page[p] # None \/ UnusedPage(p))
          /\ req' = [req EXCEPT ![q] = New("propose", p, r, Head(p), inputs, m)]
       \/ /\ r \in With(m) /\ p = rev[r].page
          /\ req' = [req EXCEPT ![q] = [New("propose", p, r, None, inputs, m) EXCEPT !.at = "answered"]]
  /\ UNCHANGED <<rev, page, object, current>>

(* Body and citations are stored under the new revision's keys; of a failure, any *)
(* part remains (the deletes may fail as well).                                 *)
PutBodies(q) ==
  /\ Doing(q, {"save", "propose"}, "put")
  /\ LET c == req[q] IN
     \/ /\ object' = [object EXCEPT ![c.rev] = Kind]
        /\ GoesTo(q, IF c.op = "propose" /\ page[c.page] # None THEN "number" ELSE "insert")
     \/ /\ \E part \in SUBSET Kind : object' = [object EXCEPT ![c.rev] = part]
        /\ IF c.op = "save" THEN GoesTo(q, "unknown") ELSE Ends(q)
  /\ UNCHANGED <<rev, page, current>>

(* MAX(revision_no) + 1. *)
ReadNumber(q) ==
  /\ Doing(q, {"propose"}, "number")
  /\ \/ \E n \in {l + 1 : l \in Numbers(req[q].page)} :
          /\ \A l \in Numbers(req[q].page) : l < n
          /\ req' = [req EXCEPT ![q].at = "insert", ![q].no = n]
     \/ GoesTo(q, "unknown")
  /\ UNCHANGED <<rev, page, object, current>>

CanInsert_Mutation(c) == c.no \notin Numbers(c.page)   \* fault: no UNIQUE (mutation_id)

(* UNIQUE (mutation_id) and UNIQUE (page_id, revision_no). *)
CanInsert(c) == With(c.mutation) = {} /\ c.no \notin Numbers(c.page)

(* The batch: a saved answer is the accepted head of its page at once. *)
InsertRows(c) ==
  /\ rev' = [rev EXCEPT ![c.rev] =
       [page |-> c.page, no |-> c.no, status |-> IF c.op = "save" THEN "accepted" ELSE "proposed",
        base |-> c.base, inputs |-> c.inputs, mutation |-> c.mutation]]
  /\ page' = [page EXCEPT ![c.page] =
       IF c.op = "save" THEN [head |-> c.rev, fresh |-> Fresh(c.inputs)]
       ELSE IF @ = None THEN [head |-> None, fresh |-> TRUE] ELSE @]

(* The batch commits, with or without its reply, or fails. *)
Insert(q) ==
  /\ Doing(q, {"save", "propose"}, "insert")
  /\ LET c == req[q] IN
     \/ CanInsert(c) /\ InsertRows(c) /\ (GoesTo(q, IF c.op = "save" THEN "head" ELSE "answered") \/ GoesTo(q, "unknown"))
     \/ UNCHANGED <<rev, page>> /\ GoesTo(q, "unknown")
     \/ /\ c.op = "propose" /\ With(c.mutation) # {}
        /\ UNCHANGED <<rev, page>>
        /\ req' = [req EXCEPT ![q].at = "unknown", ![q].taken = TRUE]
  /\ UNCHANGED <<object, current>>

(* saveAnswer reads the head it wrote: another revision may be accepted by then. *)
CheckHead(q) ==
  /\ Doing(q, {"save"}, "head")
  /\ \/ Head(req[q].page) = req[q].rev /\ GoesTo(q, "page")
     \/ Head(req[q].page) # req[q].rev /\ Ends(q)
     \/ GoesTo(q, "unknown")
  /\ UNCHANGED <<rev, page, object, current>>

Proven_Unread(c) == rev[c.rev] = None \/ c.op = "propose"   \* fault: a lost reply taken for absence
(* Absence is proven only by a read that answers. *)
Proven(c) == rev[c.rev] = None

(* The catch block: the row decides whether the bytes go.  The read may fail too. *)
ReadBack(q) ==
  /\ Doing(q, {"save", "propose"}, "unknown")
  /\ LET c == req[q] IN
     \/ Proven(c) /\ GoesTo(q, "discard")
     \/ rev[c.rev] # None /\ (IF c.op = "save" THEN GoesTo(q, "page") ELSE Ends(q))
     \/ IF c.taken THEN GoesTo(q, "winner") ELSE Ends(q)
  /\ UNCHANGED <<rev, page, object, current>>

(* Each delete may fail. *)
Discard(q) ==
  /\ Doing(q, {"save", "propose"}, "discard")
  /\ \E part \in SUBSET object[req[q].rev] : object' = [object EXCEPT ![req[q].rev] = part]
  /\ IF req[q].op = "save" \/ req[q].taken THEN GoesTo(q, "winner") ELSE Ends(q)
  /\ UNCHANGED <<rev, page, current>>

(* The request that recorded the mutation id answers for this one: a proposal with *)
(* its revision, a save with its page.                                         *)
Winner(q) ==
  /\ Doing(q, {"save", "propose"}, "winner")
  /\ \/ \E r \in With(req[q].mutation) :
          Takes(q, IF req[q].op = "save" THEN "page" ELSE "answered", r)
     \/ Ends(q)
  /\ UNCHANGED <<rev, page, object, current>>

GetPage_Own(q) ==   \* fault: answered with the revision it asked by, accepted or not
  /\ Doing(q, {"save"}, "page")
  /\ GoesTo(q, "answered") \/ Ends(q)
  /\ UNCHANGED <<rev, page, object, current>>

(* getPage, the answer of every save: the head that the page has by now and its       *)
(* objects.  Fails without a head, without an object, or with a store.           *)
GetPage(q) ==
  /\ Doing(q, {"save"}, "page")
  /\ \/ /\ Head(req[q].page) # None /\ object[Head(req[q].page)] = Kind
        /\ Takes(q, "answered", Head(req[q].page))
     \/ Ends(q)
  /\ UNCHANGED <<rev, page, object, current>>

-----------------------------------------------------------------------------
(* decideProposal: the owner decides an open proposal, confirming the head that    *)
(* some view of the page showed.                                               *)
BeginDecide(q) ==
  /\ req[q] = None
  /\ \E op \in {"accept", "reject"}, r \in PageRev, h \in PageRev \cup {None} :
       /\ Recorded(r) /\ rev[r].status = "proposed"
       /\ h = None \/ (h \in RevsOf(rev[r].page) /\ rev[h].status = "accepted")
       /\ op = "reject" => h = None
       /\ req' = [req EXCEPT ![q] = [New(op, rev[r].page, r, h, {}, None) EXCEPT !.at = "decide"]]
  /\ UNCHANGED <<rev, page, object, current>>

Reject(q) ==
  /\ Doing(q, {"reject"}, "decide")
  /\ LET r == req[q].rev IN
     \/ rev[r].status = "proposed" /\ rev' = [rev EXCEPT ![r].status = "rejected"]
     \/ UNCHANGED rev
  /\ Ends(q)
  /\ UNCHANGED <<page, object, current>>

CanAccept_Base(c) == rev[c.rev].status = "proposed" /\ Head(c.page) = c.base   \* fault: the base not compared

CanAccept(c) ==
  /\ rev[c.rev].status = "proposed" /\ rev[c.rev].base = c.base
  /\ Head(c.page) = c.base

Accepted(c) == IF CanAccept(c) THEN "accepted" ELSE rev[c.rev].status

MovesHead_Undecided(c, status) == Head(c.page) = c.base   \* fault: status not compared
MovesHead(c, status) == Head(c.page) = c.base /\ status = "accepted"

(* Both statements are guarded; the second sees what the first did. *)
Accept(q) ==
  /\ Doing(q, {"accept"}, "decide")
  /\ LET c == req[q] IN
     \/ /\ rev' = [rev EXCEPT ![c.rev].status = Accepted(c)]
        /\ page' = [page EXCEPT ![c.page] =
             IF MovesHead(c, Accepted(c)) /\ rev[c.rev].base = c.base
               THEN [head |-> c.rev, fresh |-> Fresh(rev[c.rev].inputs)] ELSE @]
     \/ UNCHANGED <<rev, page>>
  /\ Ends(q)
  /\ UNCHANGED <<object, current>>

(* The client leaves with its answer, or the request stops where it is. *)
Stops(q) == req[q] # None /\ Ends(q) /\ UNCHANGED <<rev, page, object, current>>

Next ==
  \/ \E s \in Source : Publish(s)
  \/ \E q \in Request :
       \/ BeginSave(q) \/ BeginPropose(q) \/ PutBodies(q) \/ ReadNumber(q) \/ Insert(q)
       \/ CheckHead(q) \/ ReadBack(q) \/ Discard(q) \/ Winner(q) \/ GetPage(q)
       \/ BeginDecide(q) \/ Reject(q) \/ Accept(q) \/ Stops(q)

Spec == Init /\ [][Next]_vars

-----------------------------------------------------------------------------
(* Nothing that D1 names was deleted by the cleanup of a request that thought it   *)
(* had failed: every recorded revision has its body and citations.               *)
BodiesKept == \A r \in PageRev : Recorded(r) => object[r] = Kind

(* A published page is marked current exactly while each text it was made from is  *)
(* the current one, whether the text changed before or after its acceptance.      *)
FreshnessExact ==
  \A p \in Page : Head(p) # None => 
    (page[p].fresh <=> \A t \in rev[Head(p)].inputs : current[t[1]] = t[2])

(* However often and by whichever requests a mutation id is sent, it stands for one *)
(* page: the answer of a proposal is the revision recorded with the id, the same     *)
(* every time; that of a save is an accepted revision of the page recorded with it,  *)
(* the head of the moment, so that two answers may differ in it.                 *)
AnsweredOnce ==
  \A q \in Request : Doing(q, {"save", "propose"}, "answered") =>
    LET c == req[q] IN
    /\ c.rev \in RevsOf(c.page) /\ \E r \in With(c.mutation) : rev[r].page = c.page
    /\ IF c.op = "propose" THEN c.rev \in With(c.mutation) ELSE rev[c.rev].status = "accepted"
    /\ \A w \in Request :
         /\ Doing(w, {"save", "propose"}, "answered")
         /\ req[w].mutation = c.mutation
         => /\ req[w].page = c.page
            /\ req[w].op = "propose" /\ c.op = "propose" => req[w].rev = c.rev

(* Accepted heads and numbers as PageLedger promises them: no accepted revision is *)
(* lost and none is older than its base, though base, number and head are read at    *)
(* different times and accepts of one base race.                                *)
entry == [r \in PageRev |-> IF rev[r] = None THEN None
            ELSE [page |-> rev[r].page, no |-> rev[r].no,
                  base |-> rev[r].base, status |-> rev[r].status]]
head == [p \in Page |-> Head(p)]
Ledger == INSTANCE PageLedger
LedgerSpec == Ledger!Spec
=============================================================================
