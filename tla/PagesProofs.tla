----------------------------- MODULE PagesProofs -----------------------------
(***************************************************************************)
(* Proofs about Pages, for any number of requests, pages, revisions and      *)
(* texts: bodies, freshness and answers are right, and the rows implement    *)
(* PageLedger.                                                               *)
(***************************************************************************)
EXTENDS Pages, TLAPS

stores == <<rev, page, object, current>>

(* A request that has, or may yet have, stored something under its own revision. *)
Writing(c) == c.op \in {"save", "propose"} /\ c.at \notin {"page", "answered"}

Follows(p, n) == n = 1 \/ \E l \in RevsOf(p) : rev[l].no + 1 = n
AcceptedOf(b, p) == b = None \/ (b \in RevsOf(p) /\ rev[b].status = "accepted")

(* What a writing request relies on: its revision is unrecorded until its own    *)
(* batch, and the number and the base it read stay those of rows that are there. *)
Writer(c) ==
  /\ c.at \in {"put", "number", "insert", "discard"} => ~Recorded(c.rev)
  /\ c.at \in {"number", "insert"} => object[c.rev] = Kind
  /\ c.at = "head" => Recorded(c.rev)
  /\ Recorded(c.rev) => rev[c.rev].mutation = c.mutation /\ rev[c.rev].page = c.page
  /\ Follows(c.page, c.no)
  /\ AcceptedOf(c.base, c.page)
  /\ c.op = "save" => c.no = 1 /\ c.base = None

(* What a request answers with: the page recorded with its mutation id, and of it   *)
(* the revision that id stands for, or one that was its head.                    *)
Found(c) ==
  /\ \E r \in With(c.mutation) : rev[r].page = c.page
  /\ c.at = "answered" =>
       /\ c.rev \in RevsOf(c.page)
       /\ IF c.op = "propose" THEN c.rev \in With(c.mutation) ELSE rev[c.rev].status = "accepted"

Sound == {c \in Call :
  /\ c.inputs \subseteq Readable
  /\ Writing(c) => c.mutation \in Mutation /\ Writer(c)
  /\ c.at \in {"page", "answered"} => Found(c)
  /\ c.op \in {"accept", "reject"} => c.at = "decide" /\ c.rev \in RevsOf(c.page)}

Requests == req \in [Request -> Sound \cup {None}]

(* No request writes under a revision that q does. *)
Only(q, c) == \A w \in Request \ {q} : req[w] # None /\ Writing(req[w]) => req[w].rev # c.rev
OneWriter == \A q \in Request : req[q] # None /\ Writing(req[q]) => Only(q, req[q])

-----------------------------------------------------------------------------
(* What the rows of a page promise by themselves. *)
OneOfMutation == \A r, l \in PageRev :
  Recorded(r) /\ Recorded(l) /\ rev[r].mutation = rev[l].mutation => r = l

Contiguous == \A r \in PageRev : Recorded(r) =>
  \A n \in Nat \ {0} : n < rev[r].no => n \in Numbers(rev[r].page)

BaseOlder == \A r \in PageRev : Recorded(r) =>
  /\ AcceptedOf(rev[r].base, rev[r].page)
  /\ rev[r].base # None => rev[rev[r].base].no < rev[r].no

(* No accepted revision is newer than its page's head: heads only move forward,     *)
(* so a head that was replaced never returns.                                  *)
HeadNewest == \A r \in PageRev : Recorded(r) /\ rev[r].status = "accepted" =>
  Head(rev[r].page) # None /\ rev[r].no <= rev[Head(rev[r].page)].no

RowTexts == \A r \in PageRev : Recorded(r) => rev[r].inputs \subseteq Readable

Stored == /\ OneOfMutation /\ Contiguous /\ BaseOlder /\ HeadNewest /\ RowTexts
          /\ BodiesKept /\ FreshnessExact

IInv == TypeOK /\ Requests /\ OneWriter /\ Stored

(* Steps that store nothing keep what the stores promise. *)
LEMMA StoredKept == Stored /\ UNCHANGED stores => Stored'
<1> SUFFICES ASSUME Stored, UNCHANGED stores PROVE Stored'
  OBVIOUS
<1>1. rev' = rev /\ page' = page /\ object' = object /\ current' = current
  BY DEF stores
<1>2. OneOfMutation' /\ Contiguous' /\ BodiesKept'
  BY <1>1 DEF Stored, OneOfMutation, Contiguous, BodiesKept, Numbers, RevsOf, Recorded
<1>3. BaseOlder' /\ HeadNewest'
  BY <1>1 DEF Stored, BaseOlder, HeadNewest, AcceptedOf, RevsOf, Recorded, Head
<1>4. RowTexts' /\ FreshnessExact'
  BY <1>1 DEF Stored, RowTexts, FreshnessExact, Readable, Recorded, Head
<1> QED BY <1>2, <1>3, <1>4 DEF Stored

(* Rows stay, and acceptance is final. *)
Advances == \A r \in PageRev : rev[r] # None =>
  /\ rev'[r] # None /\ rev'[r].page = rev[r].page /\ rev'[r].no = rev[r].no
  /\ rev'[r].base = rev[r].base /\ rev'[r].inputs = rev[r].inputs
  /\ rev'[r].mutation = rev[r].mutation
  /\ rev[r].status = "accepted" => rev'[r].status = "accepted"

(* Another request's step on the stores leaves a request as sound as it was. *)
LEMMA SoundKept ==
  ASSUME NEW c \in Sound, Advances, Readable \subseteq Readable',
         Writing(c) => /\ object'[c.rev] = object[c.rev]
                       /\ rev[c.rev] = None => rev'[c.rev] = None
  PROVE  c \in Sound'
<1>1. c \in Call /\ c.rev \in PageRev /\ c.inputs \subseteq Readable'
  BY DEF Sound, Call
<1>2. \A p \in Page : RevsOf(p) \subseteq RevsOf(p)'
  BY DEF Advances, RevsOf, Recorded
<1>3. ASSUME Writing(c) PROVE Writer(c)'
  <2>1. Writer(c)
    BY <1>3 DEF Sound
  <2>2. Follows(c.page, c.no)'
    BY <1>1, <2>1 DEF Writer, Follows, Advances, RevsOf, Recorded
  <2>3. AcceptedOf(c.base, c.page)'
    BY <1>1, <2>1 DEF Writer, AcceptedOf, Advances, RevsOf, Recorded
  <2> QED BY <1>1, <1>3, <2>1, <2>2, <2>3 DEF Writer, Advances, Recorded
<1>4. c.at \in {"page", "answered"} => Found(c)'
  <2> SUFFICES ASSUME c.at \in {"page", "answered"} PROVE Found(c)'
    OBVIOUS
  <2>1. With(c.mutation) \subseteq With(c.mutation)'
    BY DEF Advances, With, Recorded
  <2>2. Found(c)
    BY DEF Sound
  <2>3. PICK r \in With(c.mutation) : rev[r].page = c.page
    BY <2>2 DEF Found
  <2>4. r \in With(c.mutation)' /\ rev'[r].page = c.page
    BY <2>1, <2>3 DEF Advances, With, Recorded
  <2>5. c.rev \in RevsOf(c.page) /\ rev[c.rev].status = "accepted" => rev'[c.rev].status = "accepted"
    BY <1>1 DEF Advances, RevsOf, Recorded
  <2> QED BY <1>2, <2>1, <2>2, <2>4, <2>5, <1>1 DEF Found, Call
<1>5. c.op \in {"accept", "reject"} => c.at = "decide" /\ c.rev \in RevsOf(c.page)'
  BY <1>1 DEF Sound, Advances, RevsOf, Recorded
<1> QED BY <1>1, <1>3, <1>4, <1>5 DEF Sound

-----------------------------------------------------------------------------
(* A step that changes one request: what it becomes has to be sound, and no other *)
(* may write under its revision.                                              *)
LEMMA OneRequest ==
  ASSUME Requests, OneWriter, NEW q \in Request, NEW c \in Sound' \cup {None},
         req' = [req EXCEPT ![q] = c],
         c # None /\ Writing(c) => Only(q, c),
         \A w \in Request \ {q} : req[w] \in Sound' \cup {None}
  PROVE  Requests' /\ OneWriter'
<1>1. req'[q] = c /\ \A w \in Request \ {q} : req'[w] = req[w]
  BY DEF Requests
<1>2. Requests'
  BY <1>1 DEF Requests
<1>3. OneWriter'
  BY <1>1 DEF OneWriter, Only
<1> QED BY <1>2, <1>3

(* The same, of a step that stores nothing. *)
LEMMA RequestOnly ==
  ASSUME IInv, UNCHANGED stores, NEW q \in Request, NEW c \in Sound \cup {None},
         req' = [req EXCEPT ![q] = c],
         c # None /\ Writing(c) => Only(q, c)
  PROVE  IInv'
<1>1. rev' = rev /\ page' = page /\ object' = object /\ current' = current
  BY DEF stores
<1>2. Stored'
  BY StoredKept DEF IInv
<1>3. \A k \in Sound : k \in Sound'
  <2>1. Advances /\ Readable \subseteq Readable'
    BY <1>1 DEF Advances, Readable
  <2> QED BY <1>1, <2>1, SoundKept
<1>4. Requests' /\ OneWriter'
  BY <1>3, OneRequest DEF IInv, Requests
<1>5. TypeOK'
  <2>1. req' \in [Request -> Call \cup {None}]
    BY <1>4 DEF Requests, Sound
  <2> QED BY <1>1, <2>1 DEF IInv, TypeOK, Head, RevsOf, Recorded
<1> QED BY <1>2, <1>4, <1>5 DEF IInv

LEMMA Leaves ==
  ASSUME IInv, UNCHANGED stores, NEW q \in Request, Ends(q) PROVE IInv'
BY RequestOnly DEF Ends

(* A writing request goes on under the revision it has. *)
LEMMA GoesOn ==
  ASSUME IInv, UNCHANGED stores, NEW q \in Request, req[q] # None, Writing(req[q]),
         NEW c \in Sound, c.rev = req[q].rev, req' = [req EXCEPT ![q] = c]
  PROVE  IInv'
<1>1. Only(q, c)
  BY DEF IInv, OneWriter, Only
<1> QED BY <1>1, RequestOnly

(* What a writing request is at each point. *)
LEMMA WriterFacts ==
  ASSUME IInv, NEW q \in Request, NEW at, at \notin {"page", "answered"}, Doing(q, {"save", "propose"}, at)
  PROVE  /\ req[q] \in Call /\ req[q] \in Sound /\ req[q] # None /\ req[q].at = at
         /\ Writing(req[q]) /\ Writer(req[q]) /\ Only(q, req[q])
         /\ req[q].mutation \in Mutation /\ req[q].inputs \subseteq Readable
<1>1. req[q] \in Sound /\ req[q] # None /\ req[q].at = at
  BY DEF Doing, IInv, Requests
<1>2. Writing(req[q])
  BY DEF Doing, Writing
<1> QED BY <1>1, <1>2 DEF Sound, IInv, OneWriter

(* A call elsewhere is the same call otherwise. *)
LEMMA CallAt ==
  ASSUME NEW k \in Call, NEW at,
         at \in {"put", "number", "insert", "head", "unknown", "discard", "winner", "page", "decide", "answered"}
  PROVE  /\ [k EXCEPT !.at = at] \in Call
         /\ [k EXCEPT !.at = at].op = k.op /\ [k EXCEPT !.at = at].at = at
         /\ [k EXCEPT !.at = at].page = k.page /\ [k EXCEPT !.at = at].rev = k.rev
         /\ [k EXCEPT !.at = at].base = k.base /\ [k EXCEPT !.at = at].no = k.no
         /\ [k EXCEPT !.at = at].inputs = k.inputs /\ [k EXCEPT !.at = at].mutation = k.mutation
BY DEF Call

LEMMA BeginSaveStep ==
  ASSUME IInv, NEW q \in Request, BeginSave(q) PROVE IInv'
<1>1. UNCHANGED stores
  BY DEF BeginSave, stores
<1>2. PICK m \in Mutation, inputs \in SUBSET Readable, r \in PageRev, p \in Page :
       \/ /\ With(m) = {} /\ Unused(r) /\ UnusedPage(p)
          /\ req' = [req EXCEPT ![q] = New("save", p, r, None, inputs, m)]
       \/ /\ r \in With(m) /\ p = rev[r].page /\ inputs = {}
          /\ req' = [req EXCEPT ![q] = [New("save", p, r, None, inputs, m) EXCEPT !.at = "page"]]
  BY DEF BeginSave
<1>3. CASE Unused(r) /\ req' = [req EXCEPT ![q] = New("save", p, r, None, inputs, m)]
  <2> DEFINE c == New("save", p, r, None, inputs, m)
  <2>1. c \in Call /\ c.inputs \subseteq Readable
    BY DEF New, Call, Readable
  <2>2. Writer(c)
    BY <1>3 DEF New, Writer, Unused, Follows, AcceptedOf
  <2>3. c \in Sound
    BY <2>1, <2>2 DEF Sound, New
  <2>4. Only(q, c)
    BY <1>3 DEF Only, Unused, New
  <2> HIDE DEF c
  <2> QED BY <1>1, <1>3, <2>3, <2>4, RequestOnly DEF c
<1>4. CASE /\ r \in With(m) /\ p = rev[r].page /\ inputs = {}
           /\ req' = [req EXCEPT ![q] = [New("save", p, r, None, inputs, m) EXCEPT !.at = "page"]]
  <2> DEFINE k == New("save", p, r, None, inputs, m)
             c == [k EXCEPT !.at = "page"]
  <2>1. k \in Call /\ k.op = "save" /\ k.page = p /\ k.inputs = inputs /\ k.mutation = m
    BY DEF New, Call, Readable
  <2>2. req' = [req EXCEPT ![q] = c]
    BY <1>4
  <2> HIDE DEF k
  <2>3. c \in Call /\ c.op = "save" /\ c.at = "page" /\ c.page = p /\ c.inputs = inputs /\ c.mutation = m
    BY <2>1, CallAt
  <2> HIDE DEF c
  <2>4. c \in Call /\ c.inputs \subseteq Readable /\ ~Writing(c)
    BY <2>3 DEF Call, Readable, Writing
  <2>5. c \in Sound
    BY <1>4, <2>3, <2>4 DEF Sound, Found
  <2> QED BY <1>1, <2>4, <2>5, <2>2, RequestOnly
<1> QED BY <1>2, <1>3, <1>4

LEMMA BeginProposeStep ==
  ASSUME IInv, NEW q \in Request, BeginPropose(q) PROVE IInv'
<1>1. UNCHANGED stores
  BY DEF BeginPropose, stores
<1>2. PICK m \in Mutation, inputs \in (SUBSET Readable) \ {{}}, r \in PageRev, p \in Page :
       \/ /\ With(m) = {} /\ Unused(r) /\ (page[p] # None \/ UnusedPage(p))
          /\ req' = [req EXCEPT ![q] = New("propose", p, r, Head(p), inputs, m)]
       \/ /\ r \in With(m) /\ p = rev[r].page
          /\ req' = [req EXCEPT ![q] = [New("propose", p, r, None, inputs, m) EXCEPT !.at = "answered"]]
  BY DEF BeginPropose
<1>3. CASE Unused(r) /\ req' = [req EXCEPT ![q] = New("propose", p, r, Head(p), inputs, m)]
  <2> DEFINE c == New("propose", p, r, Head(p), inputs, m)
  <2>1. AcceptedOf(Head(p), p) /\ Head(p) \in PageRev \cup {None}
    BY DEF IInv, TypeOK, AcceptedOf, RevsOf
  <2>2. c \in Call /\ c.inputs \subseteq Readable
    BY <2>1 DEF New, Call, Readable
  <2>3. Writer(c)
    BY <1>3, <2>1 DEF New, Writer, Unused, Follows
  <2>4. c \in Sound
    BY <2>2, <2>3 DEF Sound, New
  <2>5. Only(q, c)
    BY <1>3 DEF Only, Unused, New
  <2> HIDE DEF c
  <2> QED BY <1>1, <1>3, <2>4, <2>5, RequestOnly DEF c
<1>4. CASE /\ r \in With(m) /\ p = rev[r].page
           /\ req' = [req EXCEPT ![q] = [New("propose", p, r, None, inputs, m) EXCEPT !.at = "answered"]]
  <2> DEFINE k == New("propose", p, r, None, inputs, m)
             c == [k EXCEPT !.at = "answered"]
  <2>1. k \in Call /\ k.op = "propose" /\ k.rev = r /\ k.page = p /\ k.inputs = inputs /\ k.mutation = m
    BY DEF New, Call, Readable
  <2>2. req' = [req EXCEPT ![q] = c]
    BY <1>4
  <2> HIDE DEF k
  <2>3. c \in Call /\ c.op = "propose" /\ c.at = "answered" /\ c.rev = r /\ c.page = p /\ c.inputs = inputs /\ c.mutation = m
    BY <2>1, CallAt
  <2> HIDE DEF c
  <2>4. c \in Call /\ c.inputs \subseteq Readable /\ ~Writing(c)
    BY <2>3 DEF Call, Readable, Writing
  <2>5. c \in Sound
    BY <1>4, <2>3, <2>4 DEF Sound, Found, With, RevsOf
  <2> QED BY <1>1, <2>4, <2>5, <2>2, RequestOnly
<1> QED BY <1>2, <1>3, <1>4

LEMMA BeginDecideStep ==
  ASSUME IInv, NEW q \in Request, BeginDecide(q) PROVE IInv'
<1>1. UNCHANGED stores
  BY DEF BeginDecide, stores
<1>2. PICK op \in {"accept", "reject"}, r \in PageRev, h \in PageRev \cup {None} :
        /\ Recorded(r) /\ rev[r].status = "proposed"
        /\ h = None \/ (h \in RevsOf(rev[r].page) /\ rev[h].status = "accepted")
        /\ op = "reject" => h = None
        /\ req' = [req EXCEPT ![q] = [New(op, rev[r].page, r, h, {}, None) EXCEPT !.at = "decide"]]
  BY DEF BeginDecide
<1> DEFINE k == New(op, rev[r].page, r, h, {}, None)
           c == [k EXCEPT !.at = "decide"]
<1>3. rev[r].page \in Page
  BY <1>2 DEF IInv, TypeOK, Row, Recorded
<1>4. k \in Call /\ k.op = op /\ k.rev = r /\ k.page = rev[r].page /\ k.inputs = {}
  BY <1>3 DEF New, Call
<1>5. req' = [req EXCEPT ![q] = c]
  BY <1>2
<1> HIDE DEF k
<1>6. c \in Call /\ c.op = op /\ c.at = "decide" /\ c.rev = r /\ c.page = rev[r].page /\ c.inputs = {}
  BY <1>4, CallAt
<1> HIDE DEF c
<1>7. ~Writing(c)
  BY <1>6 DEF Writing
<1>8. c \in Sound
  BY <1>2, <1>7, <1>6 DEF Sound, RevsOf
<1> QED BY <1>1, <1>7, <1>8, <1>5, RequestOnly

LEMMA ReadNumberStep ==
  ASSUME IInv, NEW q \in Request, ReadNumber(q) PROVE IInv'
<1>1. UNCHANGED stores
  BY DEF ReadNumber, stores
<1>2. Doing(q, {"save", "propose"}, "number")
  BY DEF ReadNumber, Doing
<1>3. req[q] \in Call /\ req[q] \in Sound /\ req[q] # None /\ Writing(req[q]) /\ Writer(req[q])
  BY <1>2, WriterFacts
<1>4. ASSUME NEW n \in {l + 1 : l \in Numbers(req[q].page)},
             req' = [req EXCEPT ![q].at = "insert", ![q].no = n]
      PROVE  IInv'
  <2>1. PICK l \in RevsOf(req[q].page) : n = rev[l].no + 1
    BY <1>4 DEF Numbers
  <2>2. n \in Nat \ {0}
    BY <2>1 DEF RevsOf, Recorded, IInv, TypeOK, Row
  <2> DEFINE c == [req[q] EXCEPT !.at = "insert", !.no = n]
  <2>3. req' = [req EXCEPT ![q] = c]
    BY <1>4, <1>3 DEF IInv, TypeOK
  <2>4. c \in Call
    BY <1>3, <2>2 DEF Call
  <2>5. /\ c.at = "insert" /\ c.no = n /\ c.op = "propose" /\ c.rev = req[q].rev /\ c.base = req[q].base
        /\ c.page = req[q].page /\ c.mutation = req[q].mutation /\ c.inputs = req[q].inputs
    BY <1>3 DEF ReadNumber, Doing, Call
  <2> HIDE DEF c
  <2>6. Writer(c)
    BY <1>2, <1>3, <2>1, <2>5 DEF Writer, Follows, Doing
  <2>7. c \in Sound
    BY <1>3, <2>4, <2>5, <2>6 DEF Sound
  <2> QED BY <1>1, <1>3, <2>3, <2>5, <2>7, GoesOn
<1>5. CASE GoesTo(q, "unknown")
  <2> DEFINE c == [req[q] EXCEPT !.at = "unknown"]
  <2>1. req' = [req EXCEPT ![q] = c]
    BY <1>5 DEF GoesTo
  <2>2. c \in Sound /\ c.rev = req[q].rev
    BY <1>2, <1>3 DEF Sound, Writer, Writing, Call, Doing
  <2> QED BY <1>1, <1>3, <2>1, <2>2, GoesOn
<1> QED BY <1>4, <1>5 DEF ReadNumber

(* What a writing request needs to be at its next point, nothing being stored. *)
LEMMA GoesToStep ==
  ASSUME IInv, UNCHANGED stores, NEW q \in Request, req[q] # None, Writing(req[q]), NEW at,
         at \in {"head", "unknown", "discard", "winner", "page"},
         at = "discard" => ~Recorded(req[q].rev),
         at \in {"head", "page"} => Recorded(req[q].rev),
         GoesTo(q, at)
  PROVE  IInv'
<1>1. req[q] \in Sound /\ req[q] \in Call /\ Writer(req[q]) /\ Only(q, req[q])
  BY DEF IInv, Requests, Sound, OneWriter
<1> DEFINE c == [req[q] EXCEPT !.at = at]
<1>2. req' = [req EXCEPT ![q] = c]
  BY DEF GoesTo
<1>3. /\ c \in Call /\ c.op = req[q].op /\ c.at = at /\ c.page = req[q].page
      /\ c.rev = req[q].rev /\ c.base = req[q].base /\ c.no = req[q].no
      /\ c.inputs = req[q].inputs /\ c.mutation = req[q].mutation
  BY <1>1, CallAt
<1> HIDE DEF c
<1>4. Writer(c)
  BY <1>1, <1>3 DEF Writer
<1>5. at = "page" => Found(c)
  BY <1>1, <1>3 DEF Writer, Found, With, Call
<1>6. c \in Sound
  BY <1>1, <1>3, <1>4, <1>5 DEF Sound, Writing
<1> QED BY <1>2, <1>3, <1>6, GoesOn

LEMMA CheckHeadStep ==
  ASSUME IInv, NEW q \in Request, CheckHead(q) PROVE IInv'
<1>1. UNCHANGED stores
  BY DEF CheckHead, stores
<1>2. Doing(q, {"save", "propose"}, "head")
  BY DEF CheckHead, Doing
<1>3. req[q] # None /\ Writing(req[q]) /\ Recorded(req[q].rev)
  BY <1>2, WriterFacts DEF Writer
<1> QED BY <1>1, <1>3, GoesToStep, Leaves DEF CheckHead

LEMMA ReadBackStep ==
  ASSUME IInv, NEW q \in Request, ReadBack(q) PROVE IInv'
<1>1. UNCHANGED stores
  BY DEF ReadBack, stores
<1>2. Doing(q, {"save", "propose"}, "unknown")
  BY DEF ReadBack
<1>3. req[q] # None /\ Writing(req[q])
  BY <1>2, WriterFacts
<1>4. CASE Proven(req[q]) /\ GoesTo(q, "discard")
  BY <1>1, <1>3, <1>4, GoesToStep DEF Proven, Recorded
<1>5. CASE rev[req[q].rev] # None /\ GoesTo(q, "page")
  BY <1>1, <1>3, <1>5, GoesToStep DEF Recorded
<1>6. CASE GoesTo(q, "winner")
  BY <1>1, <1>3, <1>6, GoesToStep
<1>7. CASE Ends(q)
  BY <1>1, <1>7, Leaves
<1> QED BY <1>4, <1>5, <1>6, <1>7 DEF ReadBack

LEMMA WinnerStep ==
  ASSUME IInv, NEW q \in Request, Winner(q) PROVE IInv'
<1>1. UNCHANGED stores
  BY DEF Winner, stores
<1>2. Doing(q, {"save", "propose"}, "winner")
  BY DEF Winner
<1>3. req[q] \in Call /\ req[q] \in Sound /\ req[q] # None
      /\ req[q].inputs \subseteq Readable /\ req[q].op \in {"save", "propose"}
  BY <1>2, WriterFacts DEF Doing
<1>4. ASSUME NEW r \in With(req[q].mutation),
             Takes(q, IF req[q].op = "save" THEN "page" ELSE "answered", r)
      PROVE  IInv'
  <2> DEFINE at == IF req[q].op = "save" THEN "page" ELSE "answered"
             c == [req[q] EXCEPT !.at = at, !.rev = r, !.page = rev[r].page]
  <2>1. req' = [req EXCEPT ![q] = c]
    BY <1>3, <1>4 DEF Takes, IInv, TypeOK
  <2>2. r \in PageRev /\ Recorded(r) /\ rev[r] \in Row
    BY DEF With, Recorded, IInv, TypeOK
  <2>3. /\ c \in Call /\ c.at = at /\ c.rev = r /\ c.page = rev[r].page /\ c.op = req[q].op
        /\ c.inputs = req[q].inputs /\ c.mutation = req[q].mutation
    BY <1>3, <2>2 DEF Call, Row
  <2> HIDE DEF c
  <2>4. ~Writing(c)
    BY <2>3 DEF Writing
  <2>5. Found(c)
    BY <1>3, <2>2, <2>3 DEF Found, RevsOf
  <2>6. c \in Sound
    BY <1>3, <2>3, <2>4, <2>5 DEF Sound
  <2> QED BY <1>1, <2>1, <2>4, <2>6, RequestOnly
<1> QED BY <1>1, <1>4, Leaves DEF Winner

(* The head that is read is accepted, and of the page that was asked for. *)
LEMMA GetPageStep ==
  ASSUME IInv, NEW q \in Request, GetPage(q) PROVE IInv'
<1>1. UNCHANGED stores
  BY DEF GetPage, stores
<1>2. req[q] \in Sound /\ req[q] \in Call /\ req[q].op = "save" /\ Found(req[q])
  BY DEF GetPage, Doing, IInv, Requests, Sound
<1>3. CASE Head(req[q].page) # None /\ Takes(q, "answered", Head(req[q].page))
  <2>1. PICK r : r = Head(req[q].page)
    OBVIOUS
  <2>2. r \in RevsOf(req[q].page) /\ rev[r].status = "accepted" /\ r \in PageRev
        /\ rev[r].page = req[q].page
    BY <1>2, <1>3, <2>1 DEF Call, IInv, TypeOK, RevsOf
  <2> DEFINE c == [req[q] EXCEPT !.at = "answered", !.rev = r, !.page = rev[r].page]
  <2>3. req' = [req EXCEPT ![q] = c]
    BY <1>2, <1>3, <2>1 DEF Takes, IInv, TypeOK
  <2>4. /\ c \in Call /\ c.at = "answered" /\ c.rev = r /\ c.page = req[q].page /\ c.op = "save"
        /\ c.inputs = req[q].inputs /\ c.mutation = req[q].mutation
    BY <1>2, <2>2 DEF Call
  <2> HIDE DEF c
  <2>5. ~Writing(c) /\ Found(c)
    BY <1>2, <2>2, <2>4 DEF Writing, Found
  <2>6. c \in Sound
    BY <1>2, <2>4, <2>5 DEF Sound
  <2> QED BY <1>1, <2>3, <2>5, <2>6, RequestOnly
<1> QED BY <1>1, <1>3, Leaves DEF GetPage

LEMMA StopsStep ==
  ASSUME IInv, NEW q \in Request, Stops(q) PROVE IInv'
BY Leaves DEF Stops, stores

-----------------------------------------------------------------------------
(* Only bodies of an unrecorded revision are stored or deleted. *)
LEMMA BodiesStep ==
  ASSUME IInv, NEW q \in Request, NEW at, at = "put" \/ at = "discard",
         Doing(q, {"save", "propose"}, at), UNCHANGED <<rev, page, current>>,
         NEW part \in SUBSET Kind, object' = [object EXCEPT ![req[q].rev] = part],
         \/ Ends(q)
         \/ GoesTo(q, "unknown") \/ GoesTo(q, "winner")
         \/ part = Kind /\ at = "put" /\ (GoesTo(q, "number") \/ GoesTo(q, "insert"))
  PROVE  IInv'
<1> DEFINE r == req[q].rev
<1>1. /\ req[q] \in Call /\ req[q] \in Sound /\ req[q] # None /\ Writing(req[q])
      /\ Writer(req[q]) /\ Only(q, req[q]) /\ r \in PageRev /\ ~Recorded(r)
      /\ req[q].mutation \in Mutation /\ req[q].inputs \subseteq Readable
  BY WriterFacts DEF Call, Writer
<1>2. object' \in [PageRev -> SUBSET Kind] /\ object'[r] = part
      /\ \A l \in PageRev \ {r} : object'[l] = object[l]
  BY <1>1 DEF IInv, TypeOK
<1>3. rev' = rev /\ page' = page /\ current' = current
  OBVIOUS
<1> HIDE DEF r
<1>4. Stored'
  <2>1. OneOfMutation' /\ Contiguous'
    BY <1>3 DEF IInv, Stored, OneOfMutation, Contiguous, Numbers, RevsOf, Recorded
  <2>2. BaseOlder' /\ HeadNewest'
    BY <1>3 DEF IInv, Stored, BaseOlder, HeadNewest, AcceptedOf, RevsOf, Recorded, Head
  <2>3. RowTexts' /\ FreshnessExact'
    BY <1>3 DEF IInv, Stored, RowTexts, FreshnessExact, Readable, Recorded, Head
  <2>4. BodiesKept'
    BY <1>1, <1>2, <1>3 DEF IInv, Stored, BodiesKept, Recorded
  <2> QED BY <2>1, <2>2, <2>3, <2>4 DEF Stored
<1>5. \A w \in Request \ {q} : req[w] \in Sound' \cup {None}
  <2> SUFFICES ASSUME NEW w \in Request \ {q}, req[w] # None PROVE req[w] \in Sound'
    OBVIOUS
  <2>1. req[w] \in Sound /\ req[w].rev \in PageRev
    BY DEF IInv, Requests, Sound, Call
  <2>2. Writing(req[w]) => object'[req[w].rev] = object[req[w].rev]
    BY <1>1, <1>2, <2>1 DEF Only, r
  <2>3. Advances /\ Readable \subseteq Readable'
    BY <1>3 DEF Advances, Readable
  <2> QED BY <1>3, <2>1, <2>2, <2>3, SoundKept
<1>6. Requests' /\ OneWriter'
  <2>1. CASE Ends(q)
    BY <1>5, <2>1, OneRequest DEF IInv, Ends
  <2>2. ASSUME NEW to \in {"unknown", "winner", "number", "insert"}, GoesTo(q, to),
               to \in {"number", "insert"} => part = Kind
        PROVE  Requests' /\ OneWriter'
    <3>1. PICK c : c = [req[q] EXCEPT !.at = to]
      OBVIOUS
    <3>2. req' = [req EXCEPT ![q] = c]
      BY <2>2, <3>1 DEF GoesTo
    <3>3. /\ c \in Call /\ c.op = req[q].op /\ c.at = to /\ c.page = req[q].page
          /\ c.rev = r /\ c.base = req[q].base /\ c.no = req[q].no
          /\ c.inputs = req[q].inputs /\ c.mutation = req[q].mutation
      BY <1>1, <2>2, <3>1, CallAt DEF r
    <3>4. Writing(c) /\ c.op \in {"save", "propose"}
      BY <1>1, <3>3 DEF Writing
    <3>5. Only(q, c)
      BY <1>1, <3>3 DEF Only, r
    <3>6. Writer(c)'
      BY <1>1, <1>2, <1>3, <2>2, <3>3 DEF Writer, Follows, AcceptedOf, RevsOf, Recorded
    <3>7. c \in Sound'
      BY <1>1, <1>3, <2>2, <3>3, <3>4, <3>6 DEF Sound, Readable
    <3> QED BY <1>5, <3>2, <3>5, <3>7, OneRequest DEF IInv
  <2> QED BY <2>1, <2>2
<1>7. TypeOK'
  <2>1. req' \in [Request -> Call \cup {None}]
    BY <1>6 DEF Requests, Sound
  <2> QED BY <1>2, <1>3, <2>1 DEF IInv, TypeOK, Head, RevsOf, Recorded
<1> QED BY <1>4, <1>6, <1>7 DEF IInv

LEMMA PutBodiesStep ==
  ASSUME IInv, NEW q \in Request, PutBodies(q) PROVE IInv'
<1>1. Doing(q, {"save", "propose"}, "put") /\ UNCHANGED <<rev, page, current>>
  BY DEF PutBodies
<1>2. \/ /\ object' = [object EXCEPT ![req[q].rev] = Kind]
         /\ GoesTo(q, "number") \/ GoesTo(q, "insert")
      \/ \E part \in SUBSET Kind : /\ object' = [object EXCEPT ![req[q].rev] = part]
                                   /\ GoesTo(q, "unknown") \/ Ends(q)
  BY DEF PutBodies
<1> QED BY <1>1, <1>2, BodiesStep

LEMMA DiscardStep ==
  ASSUME IInv, NEW q \in Request, Discard(q) PROVE IInv'
<1>1. Doing(q, {"save", "propose"}, "discard") /\ UNCHANGED <<rev, page, current>>
  BY DEF Discard
<1>2. req[q].rev \in PageRev
  BY <1>1, WriterFacts DEF Call
<1>3. PICK part \in SUBSET object[req[q].rev] : object' = [object EXCEPT ![req[q].rev] = part]
  BY DEF Discard
<1>4. part \in SUBSET Kind
  BY <1>2 DEF IInv, TypeOK
<1>5. GoesTo(q, "winner") \/ Ends(q)
  BY DEF Discard
<1>6. CASE GoesTo(q, "winner")
  BY <1>1, <1>3, <1>6, <1>4, BodiesStep
<1>7. CASE Ends(q)
  BY <1>1, <1>3, <1>7, <1>4, BodiesStep
<1> QED BY <1>6, <1>7, <1>5

-----------------------------------------------------------------------------
(* A request ends with a step that changes rows, heads or texts, never a body.     *)
LEMMA EndsWithRows ==
  ASSUME IInv, NEW q \in Request, Ends(q), Advances, Readable \subseteq Readable',
         object' = object, \A l \in PageRev : rev[l] = None => rev'[l] = None
  PROVE  Requests' /\ OneWriter' /\ req' \in [Request -> Call \cup {None}]
<1>1. \A w \in Request : req[w] \in Sound' \cup {None}
  <2> SUFFICES ASSUME NEW w \in Request, req[w] # None PROVE req[w] \in Sound'
    OBVIOUS
  <2>1. req[w] \in Sound /\ req[w].rev \in PageRev
    BY DEF IInv, Requests, Sound, Call
  <2> QED BY <2>1, SoundKept
<1>2. Requests' /\ OneWriter'
  BY <1>1, OneRequest DEF IInv, Ends
<1> QED BY <1>2 DEF Requests, Sound

(* A decision changes the status of one row, and no accepted one. *)
LEMMA StatusOnly ==
  ASSUME IInv, NEW r \in PageRev, Recorded(r), NEW status \in Status,
         rev' = [rev EXCEPT ![r].status = status],
         rev[r].status = "accepted" => status = "accepted",
         object' = object, current' = current
  PROVE  /\ rev' \in [PageRev -> Row \cup {None}] /\ rev'[r].status = status
         /\ \A l \in PageRev \ {r} : rev'[l] = rev[l]
         /\ \A l \in PageRev : rev'[l] = None <=> rev[l] = None
         /\ Advances /\ Readable' = Readable
         /\ OneOfMutation' /\ Contiguous' /\ BaseOlder' /\ RowTexts' /\ BodiesKept'
<1>1. rev[r] \in Row /\ rev \in [PageRev -> Row \cup {None}]
  BY DEF IInv, TypeOK, Recorded
<1>2. /\ rev'[r] \in Row /\ rev'[r].status = status /\ rev'[r].page = rev[r].page
      /\ rev'[r].no = rev[r].no /\ rev'[r].base = rev[r].base
      /\ rev'[r].inputs = rev[r].inputs /\ rev'[r].mutation = rev[r].mutation
  BY <1>1 DEF Row
<1>3. \A l \in PageRev \ {r} : rev'[l] = rev[l]
  BY <1>1
<1>4. rev' \in [PageRev -> Row \cup {None}]
  BY <1>1, <1>2
<1>5. \A l \in PageRev : rev'[l] = None <=> rev[l] = None
  BY <1>1, <1>2, <1>3, NoneAssumption
<1>6. Advances /\ Readable' = Readable
  BY <1>2, <1>3, <1>5 DEF Advances, Readable
<1>7. OneOfMutation' /\ RowTexts' /\ BodiesKept'
  BY <1>2, <1>3, <1>5, <1>6 DEF IInv, Stored, OneOfMutation, RowTexts, BodiesKept, Recorded
<1>8. \A p \in Page : RevsOf(p)' = RevsOf(p)
  BY <1>2, <1>3, <1>5 DEF RevsOf, Recorded
<1>9. \A l \in PageRev : rev[l] # None => rev[l].page \in Page /\ rev'[l].page = rev[l].page /\ rev'[l].no = rev[l].no
  BY <1>1, <1>6 DEF Advances, Row
<1>10. \A p \in Page : Numbers(p)' = Numbers(p)
  BY <1>8, <1>9 DEF Numbers, RevsOf, Recorded
<1>11. Contiguous'
  BY <1>5, <1>9, <1>10 DEF IInv, Stored, Contiguous, Recorded
<1>12. BaseOlder'
  BY <1>5, <1>6, <1>8, <1>9 DEF IInv, Stored, BaseOlder, AcceptedOf, Advances, RevsOf, Recorded
<1> QED BY <1>2, <1>3, <1>4, <1>5, <1>6, <1>7, <1>11, <1>12

(* Who decides, decides a recorded proposal of its page. *)
LEMMA DeciderFacts ==
  ASSUME IInv, NEW q \in Request, Doing(q, {"accept", "reject"}, "decide")
  PROVE  /\ req[q] # None /\ req[q].rev \in PageRev /\ req[q].page \in Page
         /\ Recorded(req[q].rev) /\ rev[req[q].rev].page = req[q].page
         /\ rev[req[q].rev] \in Row
<1>1. req[q] \in Sound /\ req[q] # None /\ req[q].op \in {"accept", "reject"}
  BY DEF Doing, IInv, Requests
<1>2. req[q].rev \in RevsOf(req[q].page) /\ req[q].page \in Page
  BY <1>1 DEF Sound, Call
<1> QED BY <1>1, <1>2 DEF RevsOf, Recorded, IInv, TypeOK

LEMMA RejectStep ==
  ASSUME IInv, NEW q \in Request, Reject(q) PROVE IInv'
<1>1. Doing(q, {"accept", "reject"}, "decide") /\ Ends(q) /\ UNCHANGED <<page, object, current>>
  BY DEF Reject, Doing
<1> DEFINE r == req[q].rev
<1>2. r \in PageRev /\ Recorded(r)
  BY <1>1, DeciderFacts
<1> HIDE DEF r
<1>3. CASE UNCHANGED rev
  BY <1>1, <1>3, Leaves DEF stores
<1>4. CASE rev[r].status = "proposed" /\ rev' = [rev EXCEPT ![r].status = "rejected"]
  <2>1. /\ rev' \in [PageRev -> Row \cup {None}] /\ rev'[r].status = "rejected"
        /\ \A l \in PageRev \ {r} : rev'[l] = rev[l]
        /\ \A l \in PageRev : rev'[l] = None <=> rev[l] = None
        /\ Advances /\ Readable' = Readable
        /\ OneOfMutation' /\ Contiguous' /\ BaseOlder' /\ RowTexts' /\ BodiesKept'
    BY <1>1, <1>2, <1>4, StatusOnly DEF Status
  <2>2. Requests' /\ OneWriter' /\ req' \in [Request -> Call \cup {None}]
    BY <1>1, <2>1, EndsWithRows
  <2>3. \A p \in Page : Head(p)' = Head(p)
    BY <1>1 DEF Head
  <2>4. \A p \in Page : Head(p) # None => Head(p) \in RevsOf(p) /\ rev[Head(p)].status = "accepted"
    BY DEF IInv, TypeOK
  <2>5. TypeOK'
    BY <1>1, <2>1, <2>2, <2>3, <2>4 DEF IInv, TypeOK, RevsOf, Recorded, Advances
  <2>6. \A l \in PageRev : rev'[l] # None =>
          /\ rev[l] # None /\ rev[l].page \in Page
          /\ rev'[l].page = rev[l].page /\ rev'[l].no = rev[l].no
          /\ (rev'[l].status = "accepted" => rev[l].status = "accepted")
    BY <2>1 DEF Advances, IInv, TypeOK, Row
  <2>7. HeadNewest'
    BY <2>1, <2>3, <2>4, <2>6 DEF IInv, Stored, HeadNewest, RevsOf, Recorded, Advances
  <2>8. FreshnessExact'
    BY <1>1, <2>1, <2>3, <2>4 DEF IInv, Stored, FreshnessExact, RevsOf, Recorded, Advances
  <2> QED BY <2>1, <2>2, <2>5, <2>7, <2>8 DEF IInv, Stored
<1> QED BY <1>3, <1>4 DEF Reject, r

(* An accept moves the head to a proposal written against it, or does nothing: a   *)
(* row that is accepted already cannot have the present head as its base.        *)
LEMMA AcceptCases ==
  ASSUME IInv, NEW q \in Request, Accept(q)
  PROVE  \/ UNCHANGED <<rev, page>>
         \/ LET r == req[q].rev
                p == req[q].page
            IN /\ rev[r].status = "proposed" /\ Head(p) = rev[r].base
               /\ rev' = [rev EXCEPT ![r].status = "accepted"]
               /\ page' = [page EXCEPT ![p] = [head |-> r, fresh |-> Fresh(rev[r].inputs)]]
<1> DEFINE c == req[q]
           r == c.rev
           p == c.page
<1>1. /\ r \in PageRev /\ p \in Page /\ Recorded(r) /\ rev[r].page = p /\ rev[r] \in Row
  BY DeciderFacts DEF Accept, Doing
<1>2. \/ UNCHANGED <<rev, page>>
      \/ /\ rev' = [rev EXCEPT ![r].status = Accepted(c)]
         /\ page' = [page EXCEPT ![p] =
              IF MovesHead(c, Accepted(c)) /\ rev[r].base = c.base
                THEN [head |-> r, fresh |-> Fresh(rev[r].inputs)] ELSE @]
  BY DEF Accept
<1> HIDE DEF c
<1>3. CASE CanAccept(c)
  <2>1. Accepted(c) = "accepted" /\ rev[r].status = "proposed" /\ Head(p) = rev[r].base
        /\ MovesHead(c, Accepted(c)) /\ rev[r].base = c.base
    BY <1>3 DEF CanAccept, Accepted, MovesHead
  <2> QED BY <1>2, <2>1 DEF c
<1>4. CASE ~CanAccept(c)
  <2>1. Accepted(c) = rev[r].status
    BY <1>4 DEF Accepted
  <2>2. ~(MovesHead(c, Accepted(c)) /\ rev[r].base = c.base)
    <3> SUFFICES ASSUME rev[r].status = "accepted", Head(p) = rev[r].base PROVE FALSE
      BY <2>1 DEF MovesHead
    <3>1. Head(p) # None /\ rev[r].no <= rev[Head(p)].no
      BY <1>1 DEF IInv, Stored, HeadNewest
    <3>2. rev[Head(p)].no < rev[r].no
      BY <1>1, <3>1 DEF IInv, Stored, BaseOlder
    <3>3. Head(p) \in RevsOf(p)
      BY <1>1, <3>1 DEF IInv, TypeOK
    <3>4. rev[r].no \in Nat /\ rev[Head(p)].no \in Nat
      BY <1>1, <3>3 DEF Row, RevsOf, Recorded, IInv, TypeOK
    <3> QED BY <3>1, <3>2, <3>4
  <2>3. [rev EXCEPT ![r].status = rev[r].status] = rev
    BY <1>1 DEF IInv, TypeOK, Row
  <2>4. [page EXCEPT ![p] = page[p]] = page
    BY <1>1 DEF IInv, TypeOK
  <2> QED BY <1>2, <2>1, <2>2, <2>3, <2>4
<1> QED BY <1>3, <1>4

LEMMA AcceptStep ==
  ASSUME IInv, NEW q \in Request, Accept(q) PROVE IInv'
<1>1. Doing(q, {"accept", "reject"}, "decide") /\ Ends(q) /\ UNCHANGED <<object, current>>
  BY DEF Accept, Doing
<1>2. CASE UNCHANGED <<rev, page>>
  BY <1>1, <1>2, Leaves DEF stores
<1>3. PICK r, p : r = req[q].rev /\ p = req[q].page
  OBVIOUS
<1>4. r \in PageRev /\ p \in Page /\ Recorded(r) /\ rev[r].page = p /\ rev[r] \in Row
  BY <1>1, <1>3, DeciderFacts
<1>5. CASE /\ rev[r].status = "proposed" /\ Head(p) = rev[r].base
           /\ rev' = [rev EXCEPT ![r].status = "accepted"]
           /\ page' = [page EXCEPT ![p] = [head |-> r, fresh |-> Fresh(rev[r].inputs)]]
  <2>1. /\ rev' \in [PageRev -> Row \cup {None}] /\ rev'[r].status = "accepted"
        /\ \A l \in PageRev \ {r} : rev'[l] = rev[l]
        /\ \A l \in PageRev : rev'[l] = None <=> rev[l] = None
        /\ Advances /\ Readable' = Readable
        /\ OneOfMutation' /\ Contiguous' /\ BaseOlder' /\ RowTexts' /\ BodiesKept'
    BY <1>1, <1>4, <1>5, StatusOnly DEF Status
  <2>2. Requests' /\ OneWriter' /\ req' \in [Request -> Call \cup {None}]
    BY <1>1, <2>1, EndsWithRows
  <2>3. /\ page' \in [Page -> PageRow \cup {None}] /\ page'[p].head = r
        /\ page'[p].fresh = Fresh(rev[r].inputs) /\ page'[p] # None
        /\ \A o \in Page \ {p} : page'[o] = page[o]
    <3>1. [head |-> r, fresh |-> Fresh(rev[r].inputs)] \in PageRow
      BY <1>4 DEF PageRow, Fresh
    <3> QED BY <1>4, <1>5, <3>1, NoneAssumption DEF IInv, TypeOK
  <2>4. Head(p)' = r /\ \A o \in Page \ {p} : Head(o)' = Head(o)
    BY <1>4, <2>3 DEF Head
  <2>5. \A o \in Page : Head(o) # None => Head(o) \in RevsOf(o) /\ rev[Head(o)].status = "accepted"
    BY DEF IInv, TypeOK
  <2>6. \A o \in Page : Head(o)' # None => Head(o)' \in RevsOf(o)' /\ rev'[Head(o)'].status = "accepted"
    BY <1>4, <2>1, <2>4, <2>5 DEF RevsOf, Recorded, Advances
  <2>7. TypeOK'
    BY <1>1, <2>1, <2>2, <2>3, <2>6 DEF IInv, TypeOK
  <2>8. HeadNewest'
    <3>1. \A l \in PageRev : rev[l] # None => rev[l].no \in Nat /\ rev[l].page \in Page
      BY DEF IInv, TypeOK, Row
    <3>2. rev[r].base # None => rev[r].base \in RevsOf(p) /\ rev[rev[r].base].no < rev[r].no
      BY <1>4 DEF IInv, Stored, BaseOlder, AcceptedOf
    <3>3. ASSUME NEW l \in PageRev, rev'[l] # None, rev'[l].status = "accepted",
                 NEW o \in Page, o = rev'[l].page
          PROVE  Head(o)' # None /\ rev'[l].no <= rev'[Head(o)'].no
      <4>1. CASE l = r
        <5>1. o = p /\ rev'[r].no \in Nat /\ r # None
          BY <1>4, <2>1, <3>1, <3>3, <4>1, NoneAssumption DEF Advances, Recorded
        <5>2. Head(o)' = r
          BY <2>4, <5>1
        <5> QED BY <4>1, <5>1, <5>2
      <4>2. CASE l # r
        <5>1. rev'[l] = rev[l] /\ rev[l] # None
          BY <2>1, <3>3, <4>2
        <5>2. Head(o) # None /\ rev[l].no <= rev[Head(o)].no
          BY <3>3, <5>1 DEF IInv, Stored, HeadNewest, Recorded
        <5>3. CASE o = p
          <6>1. rev[r].base # None /\ rev[l].no <= rev[rev[r].base].no
            BY <1>5, <5>2, <5>3
          <6>2. rev[rev[r].base].no < rev[r].no /\ rev[rev[r].base].no \in Nat /\ rev[r].no \in Nat
            BY <1>4, <3>1, <3>2, <6>1 DEF RevsOf, Recorded
          <6>3. rev'[r].no = rev[r].no
            BY <1>4, <2>1 DEF Advances, Recorded
          <6> QED BY <1>4, <2>4, <3>1, <5>1, <5>3, <6>1, <6>2, <6>3, NoneAssumption
        <5>4. CASE o # p
          <6>1. Head(o)' = Head(o) /\ Head(o) \in RevsOf(o)
            BY <2>4, <2>5, <5>2, <5>4
          <6>2. Head(o) \in PageRev /\ rev'[Head(o)].no = rev[Head(o)].no
            BY <2>1, <6>1 DEF RevsOf, Recorded, Advances
          <6> QED BY <5>1, <5>2, <6>1, <6>2
        <5> QED BY <5>3, <5>4
      <4> QED BY <4>1, <4>2
    <3>4. \A l \in PageRev : rev'[l] # None => rev'[l].page \in Page
      BY <2>1 DEF Row
    <3> QED BY <3>3, <3>4 DEF HeadNewest, Recorded
  <2>9. FreshnessExact'
    <3> SUFFICES ASSUME NEW o \in Page, Head(o)' # None
                 PROVE  page'[o].fresh <=> \A t \in rev'[Head(o)'].inputs : current'[t[1]] = t[2]
      BY DEF FreshnessExact
    <3>1. CASE o = p
      <4>1. rev'[r].inputs = rev[r].inputs /\ Head(o)' = r /\ current' = current
        BY <1>1, <1>4, <2>1, <2>4, <3>1 DEF Advances, Recorded
      <4>2. page'[o].fresh <=> Fresh(rev[r].inputs)
        BY <2>3, <3>1, Zenon
      <4> QED BY <4>1, <4>2 DEF Fresh
    <3>2. CASE o # p
      <4>1. Head(o)' = Head(o) /\ Head(o) \in RevsOf(o) /\ page'[o] = page[o]
        BY <2>3, <2>4, <2>5, <3>2
      <4>2. rev'[Head(o)].inputs = rev[Head(o)].inputs
        BY <2>1, <4>1 DEF RevsOf, Recorded, Advances
      <4> QED BY <1>1, <4>1, <4>2 DEF IInv, Stored, FreshnessExact
    <3> QED BY <3>1, <3>2
  <2> QED BY <2>1, <2>2, <2>7, <2>8, <2>9 DEF IInv, Stored
<1> QED BY <1>2, <1>3, <1>5, AcceptCases

-----------------------------------------------------------------------------
(* A newer text: pages made from the replaced one are marked, others were made    *)
(* from older texts already or not from this source.                            *)
LEMMA PublishHeads ==
  ASSUME IInv, NEW s \in Source, Publish(s)
  PROVE  /\ rev' = rev /\ page' \in [Page -> PageRow \cup {None}]
         /\ \A p \in Page : Head(p)' = Head(p)
         /\ \A p \in Page : page'[p] = IF Head(p) # None /\ <<s, current[s]>> \in rev[Head(p)].inputs
                                         THEN [page[p] EXCEPT !.fresh = FALSE] ELSE page[p]
<1>1. \A p \in Page : page'[p] = IF Head(p) # None /\ <<s, current[s]>> \in rev[Head(p)].inputs
                                   THEN [page[p] EXCEPT !.fresh = FALSE] ELSE page[p]
  BY DEF Publish
<1>2. \A p \in Page : page[p] \in PageRow \cup {None}
  BY DEF IInv, TypeOK
<1>3. \A p \in Page : /\ page'[p] \in PageRow \cup {None}
                      /\ page'[p] = None <=> page[p] = None
                      /\ page[p] # None => page'[p].head = page[p].head
  <2> SUFFICES ASSUME NEW p \in Page
               PROVE  /\ page'[p] \in PageRow \cup {None}
                      /\ page'[p] = None <=> page[p] = None
                      /\ page[p] # None => page'[p].head = page[p].head
    OBVIOUS
  <2>1. CASE page'[p] = page[p]
    BY <1>2, <2>1
  <2>2. CASE Head(p) # None /\ page'[p] = [page[p] EXCEPT !.fresh = FALSE]
    <3>1. page[p] \in PageRow
      BY <1>2, <2>2 DEF Head
    <3>2. page'[p] \in PageRow /\ page'[p].head = page[p].head
      BY <2>2, <3>1 DEF PageRow
    <3> QED BY <3>1, <3>2, NoneAssumption
  <2> QED BY <1>1, <2>1, <2>2
<1>4. \A p \in Page : Head(p)' = Head(p)
  BY <1>3 DEF Head
<1>5. page' \in [Page -> PageRow \cup {None}]
  BY <1>3 DEF Publish
<1> QED BY <1>1, <1>4, <1>5 DEF Publish

LEMMA PublishStep ==
  ASSUME IInv, NEW s \in Source, Publish(s) PROVE IInv'
<1>1. /\ rev' = rev /\ object' = object /\ req' = req
      /\ current' \in [Source -> 0 .. MaxText] /\ current[s] \in Nat /\ current'[s] = current[s] + 1
      /\ \A z \in Source \ {s} : current'[z] = current[z]
  BY TextAssumption DEF Publish, IInv, TypeOK
<1>2. \A p \in Page : page'[p] = IF Head(p) # None /\ <<s, current[s]>> \in rev[Head(p)].inputs
                                   THEN [page[p] EXCEPT !.fresh = FALSE] ELSE page[p]
  BY PublishHeads
<1>3. \A p \in Page : page[p] \in PageRow \cup {None}
  BY DEF IInv, TypeOK
<1>4. \A p \in Page : Head(p)' = Head(p)
  BY PublishHeads
<1>5. page' \in [Page -> PageRow \cup {None}]
  BY PublishHeads
<1>6. TypeOK'
  BY <1>1, <1>4, <1>5 DEF IInv, TypeOK, RevsOf, Recorded
<1>7. Advances
  BY <1>1 DEF Advances
<1>8. Readable \subseteq Readable'
  <2>1. \A t \in Text : t[1] \in Source /\ t[2] \in Nat
    BY DEF Text
  <2>2. \A z \in Source : current[z] \in Nat
    BY TextAssumption DEF IInv, TypeOK
  <2>3. \A z \in Source : current'[z] \in Nat /\ current[z] <= current'[z]
    BY <1>1, <2>2
  <2>4. \A t \in Text : t[2] <= current[t[1]] => t[2] <= current'[t[1]]
    BY <2>1, <2>2, <2>3
  <2> QED BY <2>4 DEF Readable
<1>9. Requests' /\ OneWriter'
  <2>1. \A k \in Sound : k \in Sound'
    BY <1>1, <1>7, <1>8, SoundKept
  <2> QED BY <1>1, <2>1 DEF IInv, Requests, OneWriter, Only
<1>10. OneOfMutation' /\ Contiguous' /\ BodiesKept' /\ BaseOlder'
  BY <1>1 DEF IInv, Stored, OneOfMutation, Contiguous, BodiesKept, BaseOlder, Numbers, AcceptedOf, RevsOf, Recorded
<1>11. RowTexts'
  BY <1>1, <1>8 DEF IInv, Stored, RowTexts, Recorded
<1>12. HeadNewest'
  <2>1. \A l \in PageRev : rev[l] # None => rev[l].page \in Page
    BY DEF IInv, TypeOK, Row
  <2> QED BY <1>1, <1>4, <2>1 DEF IInv, Stored, HeadNewest, Recorded
<1>13. FreshnessExact'
  <2> SUFFICES ASSUME NEW p \in Page, Head(p) # None
               PROVE  page'[p].fresh <=> \A t \in rev[Head(p)].inputs : current'[t[1]] = t[2]
    BY <1>1, <1>4 DEF FreshnessExact
  <2>1. Head(p) \in PageRev /\ rev[Head(p)] # None
    BY DEF IInv, TypeOK, RevsOf, Recorded
  <2>2. \A t \in rev[Head(p)].inputs : t = <<t[1], t[2]>> /\ t[1] \in Source /\ t[2] \in Nat /\ t[2] <= current[t[1]]
    BY <2>1 DEF IInv, Stored, RowTexts, Recorded, Readable, Text
  <2>3. page[p].fresh <=> \A t \in rev[Head(p)].inputs : current[t[1]] = t[2]
    BY DEF IInv, Stored, FreshnessExact
  <2>4. CASE <<s, current[s]>> \in rev[Head(p)].inputs
    <3>1. page'[p] = [page[p] EXCEPT !.fresh = FALSE] /\ page[p] \in PageRow
      BY <1>2, <1>3, <2>4 DEF Head
    <3>2. ~page'[p].fresh
      BY <3>1 DEF PageRow
    <3>3. current'[s] # current[s]
      BY <1>1
    <3> QED BY <2>4, <3>2, <3>3
  <2>5. CASE <<s, current[s]>> \notin rev[Head(p)].inputs
    <3>1. page'[p] = page[p]
      BY <1>2, <2>5
    <3>2. \A t \in rev[Head(p)].inputs : current[t[1]] = t[2] <=> current'[t[1]] = t[2]
      <4> SUFFICES ASSUME NEW t \in rev[Head(p)].inputs PROVE current[t[1]] = t[2] <=> current'[t[1]] = t[2]
        OBVIOUS
      <4>1. CASE t[1] = s
        <5>1. t[2] # current[s]
          BY <2>2, <2>5, <4>1
        <5> QED BY <1>1, <2>2, <4>1, <5>1
      <4>2. CASE t[1] # s
        BY <1>1, <2>2, <4>2
      <4> QED BY <4>1, <4>2
    <3> QED BY <2>3, <3>1, <3>2
  <2> QED BY <2>4, <2>5
<1> QED BY <1>6, <1>9, <1>10, <1>11, <1>12, <1>13 DEF IInv, Stored

-----------------------------------------------------------------------------
(* The number that a batch may insert comes after all the others of its page. *)
LEMMA InsertsLast ==
  ASSUME IInv, NEW p \in Page, NEW n \in Nat \ {0}, n \notin Numbers(p)
  PROVE  \A l \in RevsOf(p) : rev[l].no < n
<1> SUFFICES ASSUME NEW l \in RevsOf(p), ~(rev[l].no < n) PROVE FALSE
  OBVIOUS
<1>1. l \in PageRev /\ Recorded(l) /\ rev[l].page = p /\ rev[l].no \in Nat /\ rev[l].no \in Numbers(p)
  BY DEF RevsOf, Recorded, Numbers, IInv, TypeOK, Row
<1>2. n < rev[l].no
  BY <1>1
<1> QED BY <1>1, <1>2 DEF IInv, Stored, Contiguous

(* What a batch that commits leaves. *)
Inserted(r, p, c) ==
  /\ rev' \in [PageRev -> Row \cup {None}]
  /\ rev[r] = None /\ rev'[r] # None /\ \A l \in PageRev \ {r} : rev'[l] = rev[l]
  /\ rev'[r].page = p /\ rev'[r].no = c.no /\ rev'[r].base = c.base /\ rev'[r].inputs = c.inputs
  /\ rev'[r].mutation = c.mutation
  /\ rev'[r].status = IF c.op = "save" THEN "accepted" ELSE "proposed"
  /\ page' \in [Page -> PageRow \cup {None}]
  /\ \A o \in Page \ {p} : page'[o] = page[o]
  /\ IF c.op = "save" THEN page'[p] # None /\ page'[p].head = r /\ (page'[p].fresh <=> Fresh(c.inputs))
     ELSE page[p] # None => page'[p] = page[p]
  /\ Head(p)' = IF c.op = "save" THEN r ELSE Head(p)

LEMMA InsertsRow ==
  ASSUME IInv, NEW c \in Call, c.op \in {"save", "propose"}, c.mutation \in Mutation,
         ~Recorded(c.rev), InsertRows(c)
  PROVE  Inserted(c.rev, c.page, c)
<1> DEFINE row == [page |-> c.page, no |-> c.no, status |-> IF c.op = "save" THEN "accepted" ELSE "proposed",
                   base |-> c.base, inputs |-> c.inputs, mutation |-> c.mutation]
           prow == IF c.op = "save" THEN [head |-> c.rev, fresh |-> Fresh(c.inputs)]
                   ELSE IF page[c.page] = None THEN [head |-> None, fresh |-> TRUE] ELSE page[c.page]
<1>1. c.rev \in PageRev /\ c.page \in Page /\ rev[c.rev] = None
      /\ rev \in [PageRev -> Row \cup {None}] /\ page \in [Page -> PageRow \cup {None}]
  BY DEF Call, Recorded, IInv, TypeOK
<1>2. rev' = [rev EXCEPT ![c.rev] = row] /\ page' = [page EXCEPT ![c.page] = prow]
  BY <1>1 DEF InsertRows
<1>3. row \in Row /\ row.page = c.page /\ row.no = c.no /\ row.base = c.base /\ row.inputs = c.inputs
      /\ row.mutation = c.mutation /\ row.status = IF c.op = "save" THEN "accepted" ELSE "proposed"
  BY DEF Row, Status, Call
<1>4. row # None /\ c.rev # None
  BY <1>1, <1>3, NoneAssumption
<1>5. prow \in PageRow
  BY <1>1 DEF PageRow, Fresh
<1>6. prow # None
  BY <1>5, NoneAssumption
<1>7. c.op = "save" => prow.head = c.rev /\ (prow.fresh <=> Fresh(c.inputs))
  OBVIOUS
<1>8. c.op # "save" => (page[c.page] = None /\ prow.head = None) \/ prow = page[c.page]
  OBVIOUS
<1> HIDE DEF row, prow
<1>9. rev' \in [PageRev -> Row \cup {None}] /\ rev'[c.rev] = row /\ \A l \in PageRev \ {c.rev} : rev'[l] = rev[l]
  BY <1>1, <1>2, <1>3
<1>10. page' \in [Page -> PageRow \cup {None}] /\ page'[c.page] = prow /\ \A o \in Page \ {c.page} : page'[o] = page[o]
  BY <1>1, <1>2, <1>5
<1>11. Head(c.page)' = IF c.op = "save" THEN c.rev ELSE Head(c.page)
  <2>1. page'[c.page] # None
    BY <1>6, <1>10
  <2> QED BY <1>7, <1>8, <1>10, <2>1 DEF Head
<1> QED BY <1>1, <1>3, <1>4, <1>6, <1>7, <1>8, <1>9, <1>10, <1>11 DEF Inserted

(* A batch that commits: the new row is the newest of its page, and only a saved  *)
(* answer, the first of its page, becomes a head.                              *)
LEMMA CommitStored ==
  ASSUME IInv, NEW c \in Call, c.op \in {"save", "propose"}, c.mutation \in Mutation,
         c.inputs \subseteq Readable, Writer(c), c.at = "insert", CanInsert(c),
         Inserted(c.rev, c.page, c), UNCHANGED <<object, current>>
  PROVE  /\ Stored' /\ Advances
         /\ \A o \in Page : Head(o)' # None => Head(o)' \in RevsOf(o)' /\ rev'[Head(o)'].status = "accepted"
<1> PICK r, p : r = c.rev /\ p = c.page
  OBVIOUS
<1>1. r \in PageRev /\ p \in Page /\ c.no \in Nat \ {0} /\ Follows(p, c.no) /\ AcceptedOf(c.base, p)
      /\ object[r] = Kind /\ With(c.mutation) = {} /\ c.no \notin Numbers(p)
      /\ (c.op = "save" => c.no = 1)
  BY DEF Call, Writer, CanInsert
<1>2. rev[r] = None /\ rev'[r] # None /\ (\A l \in PageRev \ {r} : rev'[l] = rev[l])
      /\ rev'[r].page = p /\ rev'[r].no = c.no /\ rev'[r].base = c.base /\ rev'[r].inputs = c.inputs
      /\ rev'[r].mutation = c.mutation
      /\ rev'[r].status = (IF c.op = "save" THEN "accepted" ELSE "proposed")
  BY DEF Inserted
<1>3. \A l \in RevsOf(p) : rev[l].no < c.no
  BY <1>1, InsertsLast
<1>4. \A l \in PageRev : rev[l] # None =>
        l # r /\ rev'[l] = rev[l] /\ rev[l].page \in Page /\ rev[l].no \in Nat \ {0} /\ rev[l].mutation \in Mutation
  BY <1>2 DEF IInv, TypeOK, Row
<1>5. Advances
  BY <1>4 DEF Advances
<1>6. RevsOf(p)' = RevsOf(p) \cup {r} /\ \A o \in Page \ {p} : RevsOf(o)' = RevsOf(o)
  BY <1>1, <1>2, <1>4 DEF RevsOf, Recorded
<1>7. \A o \in Page : Numbers(o) \subseteq Numbers(o)'
  BY <1>4, <1>6 DEF Numbers, RevsOf, Recorded
<1>8. \A o \in Page \ {p} : Head(o)' = Head(o) /\ page'[o] = page[o]
  BY DEF Inserted, Head
<1>9. Head(p)' = IF c.op = "save" THEN r ELSE Head(p)
  BY DEF Inserted
<1>10. \A o \in Page : Head(o) # None => Head(o) \in RevsOf(o) /\ rev[Head(o)].status = "accepted"
  BY DEF IInv, TypeOK
<1>11. c.op = "save" => RevsOf(p) = {} /\ Head(p) = None
  <2>1. c.op = "save" => \A l \in RevsOf(p) : rev[l].no < 1 /\ rev[l].no \in Nat \ {0}
    BY <1>1, <1>3, <1>4 DEF RevsOf, Recorded
  <2>2. c.op = "save" => RevsOf(p) = {}
    BY <2>1
  <2> QED BY <1>1, <1>10, <2>2
<1>12. \A o \in Page : Head(o)' # None => Head(o)' \in RevsOf(o)' /\ rev'[Head(o)'].status = "accepted"
  <2> SUFFICES ASSUME NEW o \in Page, Head(o)' # None
               PROVE  Head(o)' \in RevsOf(o)' /\ rev'[Head(o)'].status = "accepted"
    OBVIOUS
  <2>1. CASE o = p /\ c.op = "save"
    BY <1>2, <1>6, <1>9, <2>1
  <2>2. CASE ~(o = p /\ c.op = "save")
    <3>1. Head(o)' = Head(o)
      BY <1>8, <1>9, <2>2
    <3>2. Head(o) \in RevsOf(o) /\ rev[Head(o)].status = "accepted" /\ Head(o) \in PageRev /\ rev[Head(o)] # None
      BY <1>10, <3>1 DEF RevsOf, Recorded
    <3> QED BY <1>4, <1>6, <3>1, <3>2
  <2> QED BY <2>1, <2>2
<1>13. OneOfMutation'
  <2>1. \A l \in PageRev : rev[l] # None => rev[l].mutation # c.mutation
    BY <1>1 DEF With, Recorded
  <2> QED BY <1>2, <1>4, <2>1 DEF IInv, Stored, OneOfMutation, Recorded
<1>14. Contiguous'
  <2> SUFFICES ASSUME NEW l \in PageRev, rev'[l] # None, NEW n \in Nat \ {0}, n < rev'[l].no,
                      NEW o, o = rev'[l].page
               PROVE  n \in Numbers(o)'
    BY DEF Contiguous, Recorded
  <2>1. CASE l # r
    <3>1. rev'[l] = rev[l] /\ rev[l] # None /\ o \in Page
      BY <1>2, <1>4, <2>1
    <3> QED BY <1>7, <3>1 DEF IInv, Stored, Contiguous, Recorded
  <2>2. CASE l = r
    <3>1. o = p /\ n < c.no
      BY <1>2, <2>2
    <3>2. PICK k \in RevsOf(p) : rev[k].no + 1 = c.no
      BY <1>1, <3>1 DEF Follows
    <3>3. k \in PageRev /\ rev[k] # None /\ rev[k].page = p /\ rev[k].no \in Nat /\ rev[k].no \in Numbers(p)
      BY <1>4, <3>2 DEF RevsOf, Recorded, Numbers
    <3>4. n = rev[k].no \/ n < rev[k].no
      BY <1>1, <3>1, <3>2, <3>3
    <3>5. n \in Numbers(p)
      BY <3>3, <3>4 DEF IInv, Stored, Contiguous, Recorded
    <3> QED BY <1>1, <1>7, <3>1, <3>5
  <2> QED BY <2>1, <2>2
<1>15. BaseOlder'
  <2> SUFFICES ASSUME NEW l \in PageRev, rev'[l] # None, NEW o, o = rev'[l].page, NEW b, b = rev'[l].base, b # None
               PROVE  b \in RevsOf(o)' /\ rev'[b].status = "accepted" /\ rev'[b].no < rev'[l].no
    BY DEF BaseOlder, AcceptedOf, Recorded
  <2>1. o \in Page /\ b \in RevsOf(o) /\ rev[b].status = "accepted" /\ rev[b].no < rev'[l].no
    <3>1. CASE l = r
      BY <1>1, <1>2, <1>3, <3>1 DEF AcceptedOf
    <3>2. CASE l # r
      BY <1>2, <1>4, <3>2 DEF IInv, Stored, BaseOlder, AcceptedOf, Recorded
    <3> QED BY <3>1, <3>2
  <2> QED BY <1>4, <1>6, <2>1 DEF RevsOf, Recorded
<1>16. HeadNewest'
  <2> SUFFICES ASSUME NEW l \in PageRev, rev'[l] # None, rev'[l].status = "accepted", NEW o, o = rev'[l].page
               PROVE  Head(o)' # None /\ rev'[l].no <= rev'[Head(o)'].no
    BY DEF HeadNewest, Recorded
  <2>1. CASE l = r
    <3>1. o = p /\ Head(o)' = r /\ rev'[l].no = c.no
      BY <1>2, <1>9, <2>1
    <3>2. r # None
      BY <1>1, NoneAssumption
    <3> QED BY <1>1, <2>1, <3>1, <3>2
  <2>2. CASE l # r
    <3>1. rev'[l] = rev[l] /\ rev[l] # None /\ o \in Page /\ l \in RevsOf(o)
      BY <1>2, <1>4, <2>2 DEF RevsOf, Recorded
    <3>2. Head(o) # None /\ rev[l].no <= rev[Head(o)].no
      BY <3>1 DEF IInv, Stored, HeadNewest, Recorded
    <3>3. Head(o)' = Head(o)
      BY <1>8, <1>9, <1>11, <3>1
    <3>4. Head(o) \in PageRev /\ rev[Head(o)] # None
      BY <1>10, <3>1, <3>2 DEF RevsOf, Recorded
    <3> QED BY <1>4, <3>1, <3>2, <3>3, <3>4
  <2> QED BY <2>1, <2>2
<1>17. RowTexts' /\ BodiesKept'
  <2>1. Readable' = Readable
    BY DEF Readable
  <2> QED BY <1>1, <1>2, <1>4, <2>1 DEF IInv, Stored, RowTexts, BodiesKept, Recorded
<1>18. FreshnessExact'
  <2> SUFFICES ASSUME NEW o \in Page, Head(o)' # None
               PROVE  page'[o].fresh <=> \A t \in rev'[Head(o)'].inputs : current[t[1]] = t[2]
    BY DEF FreshnessExact
  <2>1. CASE o = p /\ c.op = "save"
    <3>1. Head(o)' = r /\ rev'[r].inputs = c.inputs
      BY <1>2, <1>9, <2>1
    <3>2. page'[o].fresh <=> Fresh(c.inputs)
      BY <2>1 DEF Inserted
    <3> QED BY <3>1, <3>2 DEF Fresh
  <2>2. CASE ~(o = p /\ c.op = "save")
    <3>1. Head(o)' = Head(o)
      BY <1>8, <1>9, <2>2
    <3>2. Head(o) \in PageRev /\ rev[Head(o)] # None /\ page[o] # None
      BY <1>10, <3>1 DEF RevsOf, Recorded, Head
    <3>3. page'[o] = page[o]
      BY <1>8, <2>2, <3>2 DEF Inserted
    <3>4. rev'[Head(o)].inputs = rev[Head(o)].inputs
      BY <1>4, <3>2
    <3> QED BY <3>1, <3>3, <3>4 DEF IInv, Stored, FreshnessExact
  <2> QED BY <2>1, <2>2
<1> QED BY <1>5, <1>12, <1>13, <1>14, <1>15, <1>16, <1>17, <1>18 DEF Stored

(* Of an Insert, the batch committed or nothing was stored. *)
Committed(q) == CanInsert(req[q]) /\ InsertRows(req[q]) /\ UNCHANGED <<object, current>>

LEMMA CommitFacts ==
  ASSUME IInv, NEW q \in Request, Doing(q, {"save", "propose"}, "insert"), Committed(q)
  PROVE  /\ Inserted(req[q].rev, req[q].page, req[q]) /\ Stored' /\ Advances
         /\ \A o \in Page : Head(o)' # None => Head(o)' \in RevsOf(o)' /\ rev'[Head(o)'].status = "accepted"
<1>1. /\ req[q] \in Call /\ req[q].op \in {"save", "propose"} /\ req[q].at = "insert"
      /\ Writer(req[q]) /\ req[q].mutation \in Mutation /\ req[q].inputs \subseteq Readable
      /\ ~Recorded(req[q].rev)
  BY WriterFacts DEF Doing, Writer
<1>2. Inserted(req[q].rev, req[q].page, req[q])
  BY <1>1, InsertsRow DEF Committed
<1> QED BY <1>1, <1>2, CommitStored DEF Committed

LEMMA CommitStep ==
  ASSUME IInv, NEW q \in Request, Doing(q, {"save", "propose"}, "insert"), Committed(q),
         NEW at \in {"head", "answered", "unknown"}, GoesTo(q, at),
         at = "answered" => req[q].op = "propose"
  PROVE  IInv'
<1>1. PICK k : k = req[q]
  OBVIOUS
<1>2. /\ k \in Call /\ k \in Sound /\ k # None /\ Writing(k) /\ Writer(k) /\ Only(q, k)
      /\ k.mutation \in Mutation /\ k.inputs \subseteq Readable /\ k.rev \in PageRev
      /\ k.op \in {"save", "propose"} /\ k.page \in Page
  BY <1>1, WriterFacts DEF Doing, Call
<1>3. /\ Inserted(k.rev, k.page, k) /\ Stored' /\ Advances
      /\ \A o \in Page : Head(o)' # None => Head(o)' \in RevsOf(o)' /\ rev'[Head(o)'].status = "accepted"
  BY <1>1, CommitFacts
<1>4. object' = object /\ current' = current /\ Readable' = Readable
  BY DEF Committed, Readable
<1>5. \A w \in Request \ {q} : req[w] \in Sound' \cup {None}
  <2> SUFFICES ASSUME NEW w \in Request \ {q}, req[w] # None PROVE req[w] \in Sound'
    OBVIOUS
  <2>1. req[w] \in Sound /\ req[w].rev \in PageRev
    BY DEF IInv, Requests, Sound, Call
  <2>2. Writing(req[w]) => rev'[req[w].rev] = rev[req[w].rev]
    BY <1>2, <1>3, <2>1 DEF Only, Inserted
  <2> QED BY <1>3, <1>4, <2>1, <2>2, SoundKept
<1>6. PICK c : c = [k EXCEPT !.at = at]
  OBVIOUS
<1>7. req' = [req EXCEPT ![q] = c]
  BY <1>1, <1>6 DEF GoesTo
<1>8. /\ c \in Call /\ c.op = k.op /\ c.at = at /\ c.page = k.page
      /\ c.rev = k.rev /\ c.base = k.base /\ c.no = k.no
      /\ c.inputs = k.inputs /\ c.mutation = k.mutation
  BY <1>2, <1>6, CallAt
<1>9. Only(q, c)
  BY <1>2, <1>8 DEF Only
<1>10. rev'[k.rev] # None /\ rev'[k.rev].mutation = k.mutation /\ rev'[k.rev].page = k.page
  BY <1>3 DEF Inserted
<1>11. \A p \in Page : RevsOf(p) \subseteq RevsOf(p)'
  BY <1>3 DEF Advances, RevsOf, Recorded
<1>12. Follows(k.page, k.no)' /\ AcceptedOf(k.base, k.page)'
  BY <1>2, <1>3, <1>11 DEF Writer, Follows, AcceptedOf, Advances, RevsOf, Recorded
<1>13. Writer(c)'
  BY <1>2, <1>8, <1>10, <1>12 DEF Writer, Follows, AcceptedOf, Recorded
<1>14. c \in Sound'
  <2>1. at = "answered" => Found(c)'
    BY <1>1, <1>2, <1>8, <1>10 DEF Found, With, RevsOf, Recorded
  <2> QED BY <1>2, <1>4, <1>8, <1>13, <2>1 DEF Sound, Writing
<1>15. Requests' /\ OneWriter'
  BY <1>5, <1>7, <1>9, <1>14, OneRequest DEF IInv
<1>16. req' \in [Request -> Call \cup {None}]
  BY <1>15 DEF Requests, Sound
<1>17. TypeOK'
  BY <1>3, <1>4, <1>16 DEF IInv, TypeOK, Inserted
<1> QED BY <1>3, <1>15, <1>17 DEF IInv

LEMMA InsertStep ==
  ASSUME IInv, NEW q \in Request, Insert(q) PROVE IInv'
<1>1. Doing(q, {"save", "propose"}, "insert") /\ UNCHANGED <<object, current>>
  BY DEF Insert
<1>2. req[q] \in Call /\ req[q] \in Sound /\ req[q] # None /\ Writing(req[q]) /\ Writer(req[q])
  BY <1>1, WriterFacts
<1>3. CASE /\ Committed(q)
           /\ GoesTo(q, IF req[q].op = "save" THEN "head" ELSE "answered") \/ GoesTo(q, "unknown")
  BY <1>1, <1>3, CommitStep DEF Doing
<1>4. CASE UNCHANGED <<rev, page>> /\ GoesTo(q, "unknown")
  BY <1>1, <1>2, <1>4, GoesToStep DEF stores
<1>5. CASE UNCHANGED <<rev, page>> /\ req' = [req EXCEPT ![q].at = "unknown", ![q].taken = TRUE]
  <2> DEFINE c == [req[q] EXCEPT !.at = "unknown", !.taken = TRUE]
  <2>1. req' = [req EXCEPT ![q] = c]
    BY <1>2, <1>5 DEF IInv, TypeOK
  <2>2. /\ c \in Call /\ c.op = req[q].op /\ c.at = "unknown" /\ c.page = req[q].page
        /\ c.rev = req[q].rev /\ c.base = req[q].base /\ c.no = req[q].no
        /\ c.inputs = req[q].inputs /\ c.mutation = req[q].mutation
    BY <1>2 DEF Call
  <2> HIDE DEF c
  <2>3. Writer(c)
    BY <1>2, <2>2 DEF Writer
  <2>4. c \in Sound
    BY <1>2, <2>2, <2>3 DEF Sound, Writing
  <2>5. UNCHANGED stores
    BY <1>1, <1>5 DEF stores
  <2> QED BY <1>2, <2>1, <2>2, <2>4, <2>5, GoesOn
<1> QED BY <1>1, <1>3, <1>4, <1>5 DEF Insert, Committed

-----------------------------------------------------------------------------
LEMMA Initial == Init => IInv
<1> SUFFICES ASSUME Init PROVE IInv
  OBVIOUS
<1>1. TypeOK
  BY TextAssumption DEF Init, TypeOK, Head
<1>2. Requests /\ OneWriter
  BY DEF Init, Requests, OneWriter
<1>3. Stored
  BY DEF Init, Stored, OneOfMutation, Contiguous, BaseOlder, HeadNewest, RowTexts, BodiesKept,
         FreshnessExact, Recorded, Head
<1> QED BY <1>1, <1>2, <1>3 DEF IInv

LEMMA Inductive == IInv /\ [Next]_vars => IInv'
<1> SUFFICES ASSUME IInv, [Next]_vars PROVE IInv'
  OBVIOUS
<1>1. ASSUME NEW s \in Source, Publish(s) PROVE IInv'
  BY <1>1, PublishStep
<1>2. ASSUME NEW q \in Request, BeginSave(q) \/ BeginPropose(q) \/ BeginDecide(q) \/ Stops(q) PROVE IInv'
  BY <1>2, BeginSaveStep, BeginProposeStep, BeginDecideStep, StopsStep
<1>3. ASSUME NEW q \in Request, PutBodies(q) \/ ReadNumber(q) \/ Insert(q) \/ CheckHead(q) PROVE IInv'
  BY <1>3, PutBodiesStep, ReadNumberStep, InsertStep, CheckHeadStep
<1>4. ASSUME NEW q \in Request, ReadBack(q) \/ Discard(q) \/ Winner(q) \/ GetPage(q) PROVE IInv'
  BY <1>4, ReadBackStep, DiscardStep, WinnerStep, GetPageStep
<1>5. ASSUME NEW q \in Request, Reject(q) \/ Accept(q) PROVE IInv'
  BY <1>5, RejectStep, AcceptStep
<1>6. CASE UNCHANGED vars
  <2>1. UNCHANGED stores /\ req' = req
    BY <1>6 DEF vars, stores
  <2>2. Stored'
    BY <2>1, StoredKept DEF IInv
  <2>3. Requests' /\ OneWriter' /\ TypeOK'
    BY <2>1 DEF stores, IInv, Requests, Sound, Writer, Found, With, OneWriter, Only, TypeOK, Readable, Follows,
                AcceptedOf, RevsOf, Recorded, Head
  <2> QED BY <2>2, <2>3 DEF IInv
<1> QED BY <1>1, <1>2, <1>3, <1>4, <1>5, <1>6 DEF Next

LEMMA Invariance == Spec => []IInv
BY Initial, Inductive, PTL DEF Spec

(* Type correctness; and a page's head is an accepted revision of that page. *)
THEOREM TypeCorrect == Spec => []TypeOK
<1>1. IInv => TypeOK
  BY DEF IInv
<1> QED BY <1>1, Invariance, PTL

(* No cleanup deletes what a recorded revision names, however a batch, its reply,   *)
(* the read back or the deletes failed.                                        *)
THEOREM BodiesAreKept == Spec => []BodiesKept
<1>1. IInv => BodiesKept
  BY DEF IInv, Stored
<1> QED BY <1>1, Invariance, PTL

(* The stored freshness of a published page is exactly whether its inputs are current. *)
THEOREM FreshnessIsExact == Spec => []FreshnessExact
<1>1. IInv => FreshnessExact
  BY DEF IInv, Stored
<1> QED BY <1>1, Invariance, PTL

(* All answers to one mutation id are of the page recorded with it: a proposal's names   *)
(* the revision the id stands for, a save's one that was accepted there.          *)
THEOREM AnswersAgree == Spec => []AnsweredOnce
<1>1. IInv => AnsweredOnce
  <2> SUFFICES ASSUME IInv PROVE AnsweredOnce
    OBVIOUS
  <2>1. \A q \in Request : Doing(q, {"save", "propose"}, "answered") =>
          Found(req[q]) /\ req[q].at = "answered" /\ req[q].op \in {"save", "propose"}
    BY DEF Doing, IInv, Requests, Sound
  <2>2. ASSUME NEW q \in Request, NEW w \in Request,
               Doing(q, {"save", "propose"}, "answered"), Doing(w, {"save", "propose"}, "answered"),
               req[w].mutation = req[q].mutation
        PROVE  /\ req[w].page = req[q].page
               /\ req[w].op = "propose" /\ req[q].op = "propose" => req[w].rev = req[q].rev
    <3>1. \A r, l \in With(req[q].mutation) : r = l
      BY DEF With, IInv, Stored, OneOfMutation
    <3> QED BY <2>1, <2>2, <3>1 DEF Found
  <2> QED BY <2>1, <2>2 DEF AnsweredOnce, Found
<1> QED BY <1>1, Invariance, PTL

-----------------------------------------------------------------------------
(* Refinement: every step is a step of the page ledger or leaves it alone. *)
EntriesOf == \A r \in PageRev :
  /\ entry[r] = None <=> rev[r] = None
  /\ rev[r] # None => /\ entry[r] \in Entry
                      /\ entry[r].page = rev[r].page /\ entry[r].no = rev[r].no
                      /\ entry[r].base = rev[r].base /\ entry[r].status = rev[r].status

LEMMA Entries == TypeOK => EntriesOf
<1> SUFFICES ASSUME TypeOK, NEW r \in PageRev, rev[r] # None
             PROVE  /\ entry[r] # None /\ entry[r] \in Entry
                    /\ entry[r].page = rev[r].page /\ entry[r].no = rev[r].no
                    /\ entry[r].base = rev[r].base /\ entry[r].status = rev[r].status
  BY DEF EntriesOf, entry
<1>1. rev[r] \in Row
  BY DEF TypeOK
<1>2. entry[r] = [page |-> rev[r].page, no |-> rev[r].no, base |-> rev[r].base, status |-> rev[r].status]
  BY DEF entry
<1>3. entry[r] \in Entry
  BY <1>1, <1>2 DEF Row, Entry
<1> QED BY <1>2, <1>3, NoneAssumption

(* Steps that change neither rows nor heads. *)
LEMMA LedgerUnchanged ==
  ASSUME rev' = rev, \A p \in Page : Head(p)' = Head(p) PROVE UNCHANGED Ledger!vars
<1>1. head' = head
  BY DEF head
<1>2. entry' = entry
  BY DEF entry
<1> QED BY <1>1, <1>2 DEF Ledger!vars

LEMMA InsertIsAdd ==
  ASSUME IInv, IInv', NEW q \in Request, Doing(q, {"save", "propose"}, "insert"), Committed(q),
         NEW r, NEW p, NEW c, c = req[q], r = c.rev, p = c.page
  PROVE  /\ r \in PageRev /\ p \in Page
         /\ Ledger!Add(r, p, c.base, IF c.op = "save" THEN "accepted" ELSE "proposed")
<1>1. /\ c \in Call /\ c.op \in {"save", "propose"} /\ Writer(c) /\ CanInsert(c)
  BY WriterFacts DEF Doing, Committed
<1>2. r \in PageRev /\ p \in Page /\ c.no \in Nat \ {0} /\ c.base \in PageRev \cup {None}
      /\ Follows(p, c.no) /\ c.no \notin Numbers(p)
  BY <1>1 DEF Call, Writer, CanInsert
<1>3. \A l \in RevsOf(p) : rev[l].no < c.no
  BY <1>2, InsertsLast
<1>4. Inserted(r, p, c)
  BY CommitFacts
<1>5. EntriesOf
  BY Entries DEF IInv
<1>6. entry[r] = None
  BY <1>2, <1>4, <1>5 DEF EntriesOf, Inserted
<1>7. \A l \in PageRev : Ledger!Of(l, p) => entry[l].no < c.no
  BY <1>3, <1>5 DEF EntriesOf, Ledger!Of, RevsOf, Recorded
<1>8. c.no \in {1} \cup {entry[l].no + 1 : l \in {l \in PageRev : Ledger!Of(l, p)}}
  BY <1>2, <1>5 DEF Follows, EntriesOf, Ledger!Of, RevsOf, Recorded
<1>9. entry' = [entry EXCEPT ![r] = [page |-> p, no |-> c.no, base |-> c.base,
                                     status |-> IF c.op = "save" THEN "accepted" ELSE "proposed"]]
  <2>1. PICK status : status = IF c.op = "save" THEN "accepted" ELSE "proposed"
    OBVIOUS
  <2>2. /\ rev'[r] # None /\ rev'[r].page = p /\ rev'[r].no = c.no /\ rev'[r].base = c.base
        /\ rev'[r].status = status /\ \A l \in PageRev \ {r} : rev'[l] = rev[l]
    BY <1>4, <2>1 DEF Inserted
  <2>3. entry' = [entry EXCEPT ![r] = [page |-> p, no |-> c.no, base |-> c.base, status |-> status]]
    BY <1>2, <2>2 DEF entry
  <2> QED BY <2>1, <2>3
<1> QED BY <1>2, <1>6, <1>7, <1>8, <1>9 DEF Ledger!Add

LEMMA InsertLedger ==
  ASSUME IInv, IInv', NEW q \in Request, Insert(q) PROVE [Ledger!Next]_(Ledger!vars)
<1>1. Doing(q, {"save", "propose"}, "insert")
  BY DEF Insert
<1>2. CASE UNCHANGED <<rev, page>>
  BY <1>2, LedgerUnchanged DEF Head
<1>3. CASE Committed(q)
  <2>1. PICK c, r, p : c = req[q] /\ r = c.rev /\ p = c.page
    OBVIOUS
  <2>2. /\ r \in PageRev /\ p \in Page
        /\ Ledger!Add(r, p, c.base, IF c.op = "save" THEN "accepted" ELSE "proposed")
    BY <1>1, <1>3, <2>1, InsertIsAdd
  <2>3. Inserted(r, p, c) /\ c \in Call /\ Writer(c) /\ c.op \in {"save", "propose"}
        /\ CanInsert(c)
    BY <1>1, <1>3, <2>1, CommitFacts, WriterFacts DEF Doing, Committed
  <2>4. EntriesOf
    BY Entries DEF IInv
  <2>5. CASE c.op = "save"
    <3>1. c.base = None /\ c.no = 1
      BY <2>3, <2>5 DEF Writer
    <3>2. \A l \in RevsOf(p) : rev[l].no < 1 /\ rev[l].no \in Nat \ {0}
      <4>1. \A l \in RevsOf(p) : rev[l].no < 1
        BY <2>1, <2>2, <2>3, <3>1, InsertsLast DEF CanInsert
      <4> QED BY <4>1 DEF RevsOf, Recorded, IInv, TypeOK, Row
    <3>3. RevsOf(p) = {}
      BY <3>2
    <3>4. head[p] = None /\ \A l \in PageRev : ~Ledger!Of(l, p)
      BY <2>2, <2>4, <3>3 DEF head, IInv, TypeOK, EntriesOf, Ledger!Of, RevsOf, Recorded
    <3>5. Head(p)' = r /\ \A o \in Page \ {p} : Head(o)' = Head(o)
      BY <2>3, <2>5 DEF Inserted, Head
    <3>6. head' = [head EXCEPT ![p] = r]
      BY <2>2, <3>5 DEF head
    <3>7. Ledger!Publish(r, p)
      BY <2>2, <2>5, <3>1, <3>4, <3>6 DEF Ledger!Publish
    <3> QED BY <2>2, <3>7 DEF Ledger!Next
  <2>6. CASE c.op = "propose"
    <3>1. \A o \in Page : Head(o)' = Head(o)
      BY <2>3, <2>6 DEF Inserted, Head
    <3>2. UNCHANGED head
      BY <3>1 DEF head
    <3>3. c.base \in PageRev \cup {None} /\ AcceptedOf(c.base, p)
      BY <2>1, <2>3 DEF Call, Writer
    <3>4. c.base = None \/ (Ledger!Of(c.base, p) /\ Ledger!Has(c.base, "accepted"))
      BY <2>4, <3>3 DEF AcceptedOf, RevsOf, Recorded, EntriesOf, Ledger!Of, Ledger!Has
    <3>5. Ledger!Propose(r, p, c.base)
      BY <2>2, <2>6, <3>2, <3>4 DEF Ledger!Propose
    <3> QED BY <2>2, <3>3, <3>5 DEF Ledger!Next
  <2> QED BY <2>3, <2>5, <2>6
<1> QED BY <1>2, <1>3 DEF Insert, Committed

LEMMA RejectLedger ==
  ASSUME IInv, NEW q \in Request, Reject(q) PROVE [Ledger!Next]_(Ledger!vars)
<1>1. PICK r : r = req[q].rev
  OBVIOUS
<1>2. r \in PageRev /\ Recorded(r) /\ rev[r] \in Row
  BY <1>1, DeciderFacts DEF Reject, Doing
<1>3. \A p \in Page : Head(p)' = Head(p)
  BY DEF Reject, Head
<1>4. CASE UNCHANGED rev
  BY <1>3, <1>4, LedgerUnchanged
<1>5. CASE rev[r].status = "proposed" /\ rev' = [rev EXCEPT ![r].status = "rejected"]
  <2>1. EntriesOf
    BY Entries DEF IInv
  <2>2. /\ rev'[r] # None /\ rev'[r].page = rev[r].page /\ rev'[r].no = rev[r].no
        /\ rev'[r].base = rev[r].base /\ rev'[r].status = "rejected"
        /\ \A l \in PageRev \ {r} : rev'[l] = rev[l]
    BY <1>2, <1>5, StatusOnly DEF Reject, Status, Advances, Recorded
  <2>3. /\ entry[r] \in Entry /\ entry[r].page = rev[r].page /\ entry[r].no = rev[r].no
        /\ entry[r].base = rev[r].base /\ entry[r].status = rev[r].status /\ entry[r] # None
    BY <1>2, <2>1 DEF EntriesOf, Recorded
  <2>4. [entry[r] EXCEPT !.status = "rejected"] =
          [page |-> rev[r].page, no |-> rev[r].no, base |-> rev[r].base, status |-> "rejected"]
    BY <2>3 DEF Entry
  <2>5. entry' = [entry EXCEPT ![r] = [entry[r] EXCEPT !.status = "rejected"]]
    BY <1>2, <2>2, <2>4 DEF entry
  <2>6. Ledger!Reject(r)
    BY <1>3, <1>5, <2>3, <2>5 DEF Ledger!Reject, Ledger!Has, head
  <2> QED BY <1>2, <2>6 DEF Ledger!Next
<1> QED BY <1>1, <1>4, <1>5 DEF Reject

LEMMA AcceptLedger ==
  ASSUME IInv, NEW q \in Request, Accept(q) PROVE [Ledger!Next]_(Ledger!vars)
<1>1. PICK r, p : r = req[q].rev /\ p = req[q].page
  OBVIOUS
<1>2. r \in PageRev /\ p \in Page /\ Recorded(r) /\ rev[r].page = p /\ rev[r] \in Row
  BY <1>1, DeciderFacts DEF Accept, Doing
<1>3. CASE UNCHANGED <<rev, page>>
  BY <1>3, LedgerUnchanged DEF Head
<1>4. CASE /\ rev[r].status = "proposed" /\ Head(p) = rev[r].base
           /\ rev' = [rev EXCEPT ![r].status = "accepted"]
           /\ page' = [page EXCEPT ![p] = [head |-> r, fresh |-> Fresh(rev[r].inputs)]]
  <2>1. EntriesOf
    BY Entries DEF IInv
  <2>2. /\ rev'[r] # None /\ rev'[r].page = rev[r].page /\ rev'[r].no = rev[r].no
        /\ rev'[r].base = rev[r].base /\ rev'[r].status = "accepted"
        /\ \A l \in PageRev \ {r} : rev'[l] = rev[l]
    BY <1>2, <1>4, StatusOnly DEF Accept, Status, Advances, Recorded
  <2>3. /\ entry[r] \in Entry /\ entry[r].page = rev[r].page /\ entry[r].no = rev[r].no
        /\ entry[r].base = rev[r].base /\ entry[r].status = rev[r].status /\ entry[r] # None
    BY <1>2, <2>1 DEF EntriesOf, Recorded
  <2>4. [entry[r] EXCEPT !.status = "accepted"] =
          [page |-> rev[r].page, no |-> rev[r].no, base |-> rev[r].base, status |-> "accepted"]
    BY <2>3 DEF Entry
  <2>5. entry' = [entry EXCEPT ![r] = [entry[r] EXCEPT !.status = "accepted"]]
    BY <1>2, <2>2, <2>4 DEF entry
  <2>6. page'[p] = [head |-> r, fresh |-> Fresh(rev[r].inputs)] /\ \A o \in Page \ {p} : page'[o] = page[o]
    BY <1>2, <1>4 DEF IInv, TypeOK
  <2>7. [head |-> r, fresh |-> Fresh(rev[r].inputs)] \in PageRow
    BY <1>2 DEF PageRow, Fresh
  <2>8. Head(p)' = r /\ \A o \in Page \ {p} : Head(o)' = Head(o)
    BY <2>6, <2>7, NoneAssumption DEF Head
  <2>9. head' = [head EXCEPT ![p] = r]
    BY <1>2, <2>8 DEF head
  <2>10. Ledger!Accept(r)
    BY <1>2, <1>4, <2>3, <2>5, <2>9 DEF Ledger!Accept, Ledger!Has, head
  <2> QED BY <1>2, <2>10 DEF Ledger!Next
<1> QED BY <1>1, <1>3, <1>4, AcceptCases

LEMMA LedgerStep ==
  ASSUME IInv, IInv', [Next]_vars PROVE [Ledger!Next]_(Ledger!vars)
<1>1. ASSUME NEW s \in Source, Publish(s) PROVE [Ledger!Next]_(Ledger!vars)
  BY <1>1, PublishHeads, LedgerUnchanged
<1>2. ASSUME NEW q \in Request,
             \/ BeginSave(q) \/ BeginPropose(q) \/ PutBodies(q) \/ ReadNumber(q) \/ CheckHead(q)
             \/ ReadBack(q) \/ Discard(q) \/ Winner(q) \/ GetPage(q) \/ BeginDecide(q) \/ Stops(q)
      PROVE  [Ledger!Next]_(Ledger!vars)
  <2>1. rev' = rev /\ page' = page
    BY <1>2 DEF BeginSave, BeginPropose, PutBodies, ReadNumber, CheckHead, ReadBack, Discard, Winner,
                GetPage, BeginDecide, Stops
  <2> QED BY <2>1, LedgerUnchanged DEF Head
<1>3. ASSUME NEW q \in Request, Insert(q) \/ Reject(q) \/ Accept(q) PROVE [Ledger!Next]_(Ledger!vars)
  BY <1>3, InsertLedger, RejectLedger, AcceptLedger
<1>4. CASE UNCHANGED vars
  BY <1>4, LedgerUnchanged DEF vars, Head
<1> QED BY <1>1, <1>2, <1>3, <1>4 DEF Next

(* Accepted heads change only by compare-and-swap, decisions are made once and      *)
(* revisions are numbered in the order they appear, whatever interleaves.         *)
THEOREM PagesKeepLedger == Spec => LedgerSpec
<1>1. Init => Ledger!Init
  <2> SUFFICES ASSUME Init PROVE Ledger!Init
    OBVIOUS
  <2>1. \A p \in Page : Head(p) = None
    BY DEF Init, Head
  <2>2. \A r \in PageRev : rev[r] = None
    BY DEF Init
  <2>3. entry = [r \in PageRev |-> None]
    BY <2>2 DEF entry
  <2>4. head = [p \in Page |-> None]
    BY <2>1 DEF head
  <2> QED BY <2>3, <2>4 DEF Ledger!Init
<1>2. IInv /\ IInv' /\ [Next]_vars => [Ledger!Next]_(Ledger!vars)
  BY LedgerStep
<1> QED BY <1>1, <1>2, Invariance, PTL DEF Spec, LedgerSpec, Ledger!Spec

(* No accepted revision is newer than the head of its page, and none is older than  *)
(* the revision it was written against: a head, once replaced, never returns.      *)
THEOREM HeadsMoveForward == Spec => [](HeadNewest /\ BaseOlder)
<1>1. IInv => HeadNewest /\ BaseOlder
  BY DEF IInv, Stored
<1> QED BY <1>1, Invariance, PTL
=============================================================================
