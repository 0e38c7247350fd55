------------------------- MODULE PrivateInboxProofs -------------------------
(***************************************************************************)
(* Proofs about the private inbox, for every number of requests, ids and   *)
(* contents, whatever fails: its types, that it keeps the promise of       *)
(* CaptureLedger, and that failures and overlaps bound what is stored      *)
(* twice or left half done.                                                *)
(*                                                                         *)
(* What the promise rests on is that whatever a request has noted as done, *)
(* and whatever a fingerprint points to, has been stored: it is held, or   *)
(* its owner has deleted it.                                               *)
(***************************************************************************)
EXTENDS PrivateInbox, FiniteSetTheorems, TLAPS

(* What was stored: it is held, or its owner has deleted it.                 *)
Stored == Held \cup deleted

(* A request has an id when it stores, and only an adapter or the import     *)
(* looks at fingerprints.                                                    *)
Form(r) ==
    /\ r.pc \in {"look", "store", "register"} => r.todo # <<>>
    /\ r.pc = "look" => r.kind \in {"adapter", "import"}
    /\ r.kind = "none" => r.pc = "idle"
    /\ r.pc \in {"store", "register"} => r.id \in Ids
    /\ r.kind = "capture" => r.id \in Ids
    /\ r.kind = "capture" /\ r.pc \in {"store", "register"} => Len(r.todo) = 1
    /\ r.kind \in {"adapter", "import"} => r.todo \in Seq(Records) /\ r.id \in FreshIds \cup {None}

(* What it has noted as done is in s.                                        *)
Noted(r, s) ==
    /\ r.done \subseteq s
    /\ r.pc = "register" => <<r.id, Head(r.todo)>> \in s

Known(p, s) == \A x \in Records : p[x] # None => <<p[x], x>> \in s

(* The rows a migration has read have stayed where they were.                *)
Listing(l, t) == \A i \in Ids : l.rows[i] # None => t[i] = l.rows[i]

InboxInv ==
    /\ InboxTypeOK
    /\ \A c \in Clients : Form(req[c]) /\ Noted(req[c], Stored)
    /\ Known(prints, Stored)
    /\ told \subseteq Stored
    /\ Listing(listed, plain)

-----------------------------------------------------------------------------
(* What the invariant says of the variables.                                 *)
LEMMA StateFacts ==
    ASSUME InboxInv
    PROVE  /\ plain \in Table /\ sealed \in Table
           /\ prints \in [Records -> FreshIds \cup {None}]
           /\ events \subseteq Ids /\ requested \subseteq Ids /\ drawn \subseteq FreshIds
           /\ vaultOn \in BOOLEAN /\ req \in [Clients -> Req]
           /\ listed \in [on : BOOLEAN, rows : Table]
           /\ copies \in [Records -> SUBSET FreshIds]
           /\ told \subseteq Pairs /\ deleted \subseteq Pairs /\ faults \in 0..MaxFaults
           /\ \A c \in Clients : req[c] \in Req /\ Form(req[c]) /\ Noted(req[c], Stored)
  BY DEF InboxInv, InboxTypeOK

(* A request that has ended has nothing left.                                *)
LEMMA NoReqFacts ==
    /\ NoReq \in Req /\ Form(NoReq) /\ \A s : Noted(NoReq, s)
    /\ NoReq.kind = "none" /\ NoReq.done = {} /\ NoReq.id = None /\ NoReq.todo = <<>>
  BY DEF NoReq, Req, Form, Noted, Kinds, Steps

(* No row is the absence of one.                                             *)
LEMMA NoneFacts ==
    /\ None \notin Ids /\ None \notin Contents /\ None \notin FreshIds
    /\ FreshIds \subseteq Ids /\ NamedIds \subseteq Ids /\ Records \subseteq Contents
    /\ Captures \subseteq Contents
  BY InboxAssumption DEF Ids, Contents

(* The first of the records at hand, and the rest.                           *)
LEMMA TailFacts ==
    ASSUME NEW S, NEW q \in Seq(S), q # <<>>
    PROVE  /\ Head(q) \in S /\ Tail(q) \in Seq(S)
           /\ Len(q) # 1 => Tail(q) # <<>>
  <1>1. Len(q) \in Nat /\ Len(q) # 0
    OBVIOUS
  <1>2. Len(Tail(q)) = Len(q) - 1 /\ Tail(q) \in Seq(S) /\ Head(q) \in S
    BY <1>1
  <1> QED
    BY <1>1, <1>2

(* One request goes on as r, and nothing that was stored is lost.            *)
LEMMA ReqStep ==
    ASSUME InboxInv, InboxTypeOK', NEW c \in Clients, NEW r \in Req,
           req' = [req EXCEPT ![c] = r], Stored \subseteq Stored',
           Form(r), Noted(r, Stored'), Known(prints', Stored'), told' \subseteq Stored',
           Listing(listed', plain')
    PROVE  InboxInv'
  <1>1. ASSUME NEW d \in Clients
        PROVE  Form(req'[d]) /\ Noted(req'[d], Stored')
    <2>1. CASE d = c
      <3>1. req'[d] = r
        BY <2>1, StateFacts
      <3> QED
        BY <3>1
    <2>2. CASE d # c
      <3>1. req'[d] = req[d]
        BY <2>2, StateFacts
      <3>2. Form(req[d]) /\ Noted(req[d], Stored)
        BY StateFacts
      <3> QED
        BY <3>1, <3>2 DEF Noted
    <2> QED
      BY <2>1, <2>2
  <1> QED
    BY <1>1 DEF InboxInv

(* One request goes on, and the tables stay as they are.                     *)
LEMMA QuietStep ==
    ASSUME InboxInv, NEW c \in Clients, NEW r \in Req,
           req' = [req EXCEPT ![c] = r], Form(r), Noted(r, Stored),
           UNCHANGED <<tables, vaultOn, listed, deleted, copies>>,
           drawn' \subseteq FreshIds, requested' \subseteq Ids, told' \subseteq Stored,
           told' \subseteq Pairs, faults' \in 0..MaxFaults
    PROVE  InboxInv'
  <1>1. /\ plain' = plain /\ sealed' = sealed /\ prints' = prints /\ events' = events
        /\ vaultOn' = vaultOn /\ listed' = listed /\ deleted' = deleted /\ copies' = copies
    BY DEF tables
  <1>2. Stored' = Stored
    BY <1>1 DEF Stored, Held
  <1>3. req' \in [Clients -> Req]
    BY StateFacts
  <1>4. InboxTypeOK'
    BY <1>1, <1>3, StateFacts DEF InboxTypeOK
  <1> QED
    BY <1>1, <1>2, <1>4, ReqStep DEF InboxInv

(* Going on to the next record notes the one at hand as done.                *)
LEMMA AdvanceFacts ==
    ASSUME InboxInv, NEW c \in Clients, NEW i, Advance(c, i), NEW s, Stored \subseteq s,
           req[c].pc \in {"look", "store", "register"},
           i \in Ids, <<i, Head(req[c].todo)>> \in s
    PROVE  \E r \in Req : req' = [req EXCEPT ![c] = r] /\ Form(r) /\ Noted(r, s)
  <1> DEFINE q == req[c]
             pc == IF Len(q.todo) = 1 THEN "answer" ELSE "look"
             id == IF q.kind = "capture" THEN q.id ELSE None
             done == q.done \cup {<<i, Head(q.todo)>>}
             r == [q EXCEPT !.todo = Tail(q.todo), !.done = done, !.id = id, !.pc = pc]
  <1>1. q \in Req /\ Form(q) /\ Noted(q, Stored) /\ q.todo # <<>> /\ q.todo \in Seq(Contents)
    BY StateFacts DEF Form, Req
  <1>2. /\ Head(q.todo) \in Contents /\ Tail(q.todo) \in Seq(Contents)
        /\ Len(q.todo) # 1 => Tail(q.todo) # <<>>
        /\ q.todo \in Seq(Records) => Tail(q.todo) \in Seq(Records)
    BY <1>1, TailFacts
  <1>3. done \in SUBSET Pairs /\ id \in Ids \cup {None} /\ pc \in {"answer", "look"}
    BY <1>1, <1>2 DEF Req, Pairs
  <1>4. req' = [req EXCEPT ![c] = r]
    BY DEF Advance
  <1>5. done \subseteq s
    BY <1>1 DEF Noted
  <1> HIDE DEF done, id, pc
  <1>6. /\ r \in Req /\ r.todo = Tail(q.todo) /\ r.done = done /\ r.id = id /\ r.pc = pc
        /\ r.kind = q.kind
    BY <1>1, <1>2, <1>3 DEF Req, Steps
  <1> HIDE DEF r
  <1>7. Form(r)
    <2>1. pc = "look" => r.todo # <<>> /\ q.kind # "capture"
      BY <1>1, <1>2, <1>6 DEF Form, pc
    <2>2. pc = "look" => q.kind \in {"adapter", "import"}
      BY <1>1, <2>1 DEF Form, Req, Kinds
    <2>3. q.kind = "capture" => id \in Ids
      BY <1>1 DEF Form, id
    <2>4. q.kind \in {"adapter", "import"} => r.todo \in Seq(Records) /\ r.id \in FreshIds \cup {None}
      BY <1>1, <1>2, <1>6 DEF Form, id
    <2>5. q.kind # "none"
      BY <1>1 DEF Form
    <2> QED
      BY <1>3, <1>6, <2>1, <2>2, <2>3, <2>4, <2>5 DEF Form
  <1>8. Noted(r, s)
    BY <1>3, <1>5, <1>6 DEF Noted
  <1> QED
    BY <1>4, <1>6, <1>7, <1>8

-----------------------------------------------------------------------------
(* The requests that are begun: what they are to do is well-formed.          *)
LEMMA PostCaptureStep ==
    ASSUME InboxInv, NEW c \in Clients, NEW i \in NamedIds, NEW x \in Captures, PostCapture(c, i, x)
    PROVE  InboxInv'
  <1> DEFINE r == [NoReq EXCEPT !.kind = "capture", !.pc = "store", !.id = i,
                                !.todo = <<x>>, !.vault = vaultOn]
  <1>1. <<x>> \in Seq(Contents) /\ Len(<<x>>) = 1 /\ <<x>> # <<>> /\ i \in Ids
    BY NoneFacts
  <1>2. /\ r \in Req /\ r.kind = "capture" /\ r.pc = "store" /\ r.id = i /\ r.todo = <<x>>
        /\ r.done = {}
    BY <1>1, NoReqFacts, StateFacts DEF Req, NoReq, Kinds, Steps
  <1>3. req' = [req EXCEPT ![c] = r]
    BY DEF PostCapture
  <1> HIDE DEF r
  <1>4. Form(r) /\ Noted(r, Stored)
    BY <1>1, <1>2 DEF Form, Noted
  <1>5. /\ UNCHANGED <<tables, vaultOn, listed, deleted, copies>>
        /\ drawn' = drawn /\ requested' = requested /\ told' = told /\ faults' = faults
    BY DEF PostCapture, history
  <1> QED
    BY <1>2, <1>3, <1>4, <1>5, StateFacts, QuietStep DEF InboxInv

(* A batch is a sequence of records, and not empty.                          *)
LEMMA BatchFacts ==
    ASSUME NEW b \in Batches
    PROVE  b \in Seq(Records) /\ b \in Seq(Contents) /\ b # <<>>
  <1>1. PICK n \in 1..MaxBatch : b \in [1..n -> Records]
    BY DEF Batches
  <1>2. n \in Nat /\ n >= 1
    BY <1>1, InboxAssumption
  <1>3. b \in Seq(Records) /\ Len(b) = n
    BY <1>1, <1>2
  <1>4. b \in [1..n -> Contents]
    BY <1>1, NoneFacts
  <1>5. b \in Seq(Contents)
    BY <1>2, <1>4
  <1> QED
    BY <1>2, <1>3, <1>5

(* Adapters post a batch: the request is noted, nothing is stored yet.       *)
LEMMA PostRecordsStep ==
    ASSUME InboxInv, NEW c \in Clients, NEW k \in {"adapter", "import"}, NEW b \in Batches,
           PostRecords(c, k, b)
    PROVE  InboxInv'
  <1> DEFINE r == [NoReq EXCEPT !.kind = k, !.pc = "look", !.todo = b,
                                !.vault = (vaultOn \/ k = "import")]
  <1>1. b \in Seq(Records) /\ b \in Seq(Contents) /\ b # <<>>
    BY BatchFacts
  <1>2. (vaultOn \/ k = "import") \in BOOLEAN /\ k \in Kinds
    BY DEF Kinds
  <1>3. /\ r \in Req /\ r.kind = k /\ r.pc = "look" /\ r.id = None /\ r.todo = b
        /\ r.done = {}
    BY <1>1, <1>2, NoReqFacts DEF Req, NoReq, Steps
  <1>4. req' = [req EXCEPT ![c] = r]
    BY DEF PostRecords
  <1> HIDE DEF r
  <1>5. Form(r) /\ Noted(r, Stored)
    BY <1>1, <1>3 DEF Form, Noted
  <1>6. /\ UNCHANGED <<tables, vaultOn, listed, deleted, copies>>
        /\ drawn' = drawn /\ requested' = requested /\ told' = told /\ faults' = faults
    BY DEF PostRecords, history
  <1> QED
    BY <1>3, <1>4, <1>5, <1>6, StateFacts, QuietStep DEF InboxInv

(* A duplicate is noted under the id its fingerprint points to.              *)
LEMMA SkipDuplicateStep ==
    ASSUME InboxInv, NEW c \in Clients, SkipDuplicate(c),
           NEW x, x = Head(req[c].todo)
    PROVE  InboxInv'
  <1>1. /\ req[c].pc = "look" /\ req[c].todo \in Seq(Records) /\ req[c].todo # <<>>
    BY StateFacts DEF SkipDuplicate, Form
  <1>2. x \in Records
    BY <1>1, TailFacts
  <1>3. prints[x] # None /\ prints[x] \in Ids /\ <<prints[x], x>> \in Stored
    BY <1>2, StateFacts, NoneFacts DEF SkipDuplicate, InboxInv, Known
  <1>4. PICK r \in Req : req' = [req EXCEPT ![c] = r] /\ Form(r) /\ Noted(r, Stored)
    BY <1>1, <1>3, AdvanceFacts DEF SkipDuplicate
  <1>5. /\ UNCHANGED <<tables, vaultOn, listed, deleted, copies>>
        /\ drawn' = drawn /\ requested' = requested /\ told' = told /\ faults' = faults
    BY DEF SkipDuplicate, history
  <1> QED
    BY <1>4, <1>5, StateFacts, QuietStep DEF InboxInv

(* A new content gets an id.                                                 *)
LEMMA FindNoneStep ==
    ASSUME InboxInv, NEW c \in Clients, NEW i \in FreshIds, FindNone(c, i)
    PROVE  InboxInv'
  <1> DEFINE r == [req[c] EXCEPT !.pc = "store", !.id = i]
  <1>1. /\ req[c] \in Req /\ Form(req[c]) /\ Noted(req[c], Stored) /\ req[c].pc = "look" /\ i \in Ids
    BY StateFacts, NoneFacts DEF FindNone
  <1>2. /\ r \in Req /\ r.kind = req[c].kind /\ r.pc = "store" /\ r.id = i /\ r.todo = req[c].todo
        /\ r.done = req[c].done
    BY <1>1 DEF Req, Steps
  <1>3. req' = [req EXCEPT ![c] = r]
    BY StateFacts DEF FindNone
  <1> HIDE DEF r
  <1>4. Form(r) /\ Noted(r, Stored)
    BY <1>1, <1>2 DEF Form, Noted
  <1>5. /\ UNCHANGED <<tables, vaultOn, listed, deleted, copies>>
        /\ drawn' \subseteq FreshIds /\ requested' = requested /\ told' = told /\ faults' = faults
    BY StateFacts DEF FindNone, history
  <1> QED
    BY <1>2, <1>3, <1>4, <1>5, StateFacts, QuietStep DEF InboxInv

(* A request that ends, answered or not.                                     *)
LEMMA EndStep ==
    ASSUME InboxInv, NEW c \in Clients, StoreConflict(c) \/ Answer(c) \/ Abort(c)
    PROVE  InboxInv'
  <1>1. req' = [req EXCEPT ![c] = NoReq]
    BY DEF StoreConflict, Answer, Abort, EndReq
  <1>2. /\ UNCHANGED <<tables, vaultOn, listed, deleted, copies>> /\ drawn' = drawn
    BY DEF StoreConflict, Answer, Abort, history
  <1>3. req[c] \in Req /\ Form(req[c]) /\ Noted(req[c], Stored)
    BY StateFacts
  <1>4. requested' \subseteq Ids
    BY <1>3, StateFacts DEF StoreConflict, Answer, Abort, Form
  <1>5. told' \subseteq Stored /\ told' \subseteq Pairs
    BY <1>3, StateFacts DEF StoreConflict, Answer, Abort, history, Noted, InboxInv, Req
  <1>6. faults' \in 0..MaxFaults
    BY InboxAssumption, StateFacts DEF StoreConflict, Answer, Abort, history
  <1>7. NoReq \in Req /\ Form(NoReq) /\ Noted(NoReq, Stored)
    BY NoReqFacts
  <1> QED
    BY <1>1, <1>2, <1>4, <1>5, <1>6, <1>7, StateFacts, QuietStep

-----------------------------------------------------------------------------
(* Which captures two tables hold.                                           *)
HeldIn(a, b) == {p \in Pairs : a[p[1]] = p[2] \/ b[p[1]] = p[2]}

(* What it takes for a capture to be in them.                               *)
LEMMA HeldFacts ==
    ASSUME NEW a, NEW b
    PROVE  /\ HeldIn(a, b) \subseteq Pairs
           /\ \A i \in Ids, x \in Contents : <<i, x>> \in HeldIn(a, b) <=> a[i] = x \/ b[i] = x
  BY DEF HeldIn, Pairs

(* Sets of pairs are compared pair by pair.                                  *)
LEMMA PairsCompared ==
    ASSUME NEW S \in SUBSET Pairs, NEW T \in SUBSET Pairs
    PROVE  /\ (\A i \in Ids, x \in Contents : <<i, x>> \in S <=> <<i, x>> \in T) => S = T
           /\ (\A i \in Ids, x \in Contents : <<i, x>> \in S => <<i, x>> \in T) => S \subseteq T
  BY DEF Pairs

(* The captures held are those of the two tables, before and after a step.   *)
LEMMA HeldIs == Held = HeldIn(plain, sealed) /\ Held' = HeldIn(plain', sealed')
  BY DEF Held, HeldIn

(* A row is added to an empty place of one table.                            *)
LEMMA HeldAdded ==
    ASSUME NEW a \in Table, NEW b \in Table, NEW i \in Ids, NEW x \in Contents, a[i] = None,
           NEW d \in Table, \A j \in Ids : d[j] = IF j = i THEN x ELSE a[j]
    PROVE  /\ HeldIn(d, b) = HeldIn(a, b) \cup {<<i, x>>}
           /\ HeldIn(b, d) = HeldIn(b, a) \cup {<<i, x>>}
  <1>1. \A j \in Ids : d[j] = IF j = i THEN x ELSE a[j]
    OBVIOUS
  <1>2. <<i, x>> \in Pairs /\ None \notin Contents
    BY NoneFacts DEF Pairs
  <1>3. HeldIn(d, b) = HeldIn(a, b) \cup {<<i, x>>}
    <2> DEFINE T == HeldIn(a, b) \cup {<<i, x>>}
    <2>1. ASSUME NEW j \in Ids, NEW y \in Contents
          PROVE  <<j, y>> \in HeldIn(d, b) <=> <<j, y>> \in T
      <3>1. <<j, y>> \in HeldIn(d, b) <=> d[j] = y \/ b[j] = y
        BY HeldFacts
      <3>2. <<j, y>> \in HeldIn(a, b) <=> a[j] = y \/ b[j] = y
        BY HeldFacts
      <3>3. <<j, y>> = <<i, x>> <=> j = i /\ y = x
        OBVIOUS
      <3> QED
        BY <1>1, <1>2, <3>1, <3>2, <3>3
    <2>2. HeldIn(d, b) \in SUBSET Pairs /\ T \in SUBSET Pairs
      BY <1>2, HeldFacts
    <2> HIDE DEF T
    <2>3. HeldIn(d, b) = T
      BY <2>1, <2>2, PairsCompared
    <2> QED
      BY <2>3 DEF T
  <1>4. HeldIn(b, d) = HeldIn(b, a) \cup {<<i, x>>}
    <2> DEFINE T == HeldIn(b, a) \cup {<<i, x>>}
    <2>1. ASSUME NEW j \in Ids, NEW y \in Contents
          PROVE  <<j, y>> \in HeldIn(b, d) <=> <<j, y>> \in T
      <3>1. <<j, y>> \in HeldIn(b, d) <=> d[j] = y \/ b[j] = y
        BY HeldFacts
      <3>2. <<j, y>> \in HeldIn(b, a) <=> a[j] = y \/ b[j] = y
        BY HeldFacts
      <3>3. <<j, y>> = <<i, x>> <=> j = i /\ y = x
        OBVIOUS
      <3> QED
        BY <1>1, <1>2, <3>1, <3>2, <3>3
    <2>2. HeldIn(b, d) \in SUBSET Pairs /\ T \in SUBSET Pairs
      BY <1>2, HeldFacts
    <2> HIDE DEF T
    <2>3. HeldIn(b, d) = T
      BY <2>1, <2>2, PairsCompared
    <2> QED
      BY <2>3 DEF T
  <1> QED
    BY <1>1, <1>3, <1>4

(* A row is taken out of the second table.                                   *)
LEMMA HeldRemoved ==
    ASSUME NEW a \in Table, NEW b \in Table, NEW i \in Ids, b[i] # None
    PROVE  /\ HeldIn(a, [b EXCEPT ![i] = None]) \in {HeldIn(a, b), HeldIn(a, b) \ {<<i, b[i]>>}}
           /\ <<i, b[i]>> \in HeldIn(a, b) /\ b[i] \in Contents
           /\ [b EXCEPT ![i] = None] \in Table
  <1> DEFINE d == [b EXCEPT ![i] = None]
  <1>1. d \in Table /\ \A j \in Ids : d[j] = IF j = i THEN None ELSE b[j]
    BY DEF Table
  <1>2. b[i] \in Contents /\ None \notin Contents
    BY NoneFacts DEF Table
  <1>3. <<i, b[i]>> \in HeldIn(a, b)
    BY <1>2, HeldFacts
  <1> HIDE DEF d
  <1>4. CASE a[i] = b[i]
    <2>1. \A j \in Ids, y \in Contents : <<j, y>> \in HeldIn(a, d) <=> <<j, y>> \in HeldIn(a, b)
      <3> TAKE j \in Ids, y \in Contents
      <3>1. <<j, y>> \in HeldIn(a, d) <=> a[j] = y \/ d[j] = y
        BY HeldFacts
      <3>2. <<j, y>> \in HeldIn(a, b) <=> a[j] = y \/ b[j] = y
        BY HeldFacts
      <3> QED
        BY <1>1, <1>2, <1>4, <3>1, <3>2
    <2>2. HeldIn(a, d) = HeldIn(a, b)
      BY <2>1, HeldFacts, PairsCompared
    <2> QED
      BY <1>1, <1>2, <1>3, <2>2 DEF d
  <1>5. CASE a[i] # b[i]
    <2>1. \A j \in Ids, y \in Contents :
            <<j, y>> \in HeldIn(a, d) <=> <<j, y>> \in HeldIn(a, b) \ {<<i, b[i]>>}
      <3> TAKE j \in Ids, y \in Contents
      <3>1. <<j, y>> \in HeldIn(a, d) <=> a[j] = y \/ d[j] = y
        BY HeldFacts
      <3>2. <<j, y>> \in HeldIn(a, b) <=> a[j] = y \/ b[j] = y
        BY HeldFacts
      <3>3. <<j, y>> = <<i, b[i]>> <=> j = i /\ y = b[i]
        OBVIOUS
      <3> QED
        BY <1>1, <1>2, <1>5, <3>1, <3>2, <3>3
    <2> DEFINE T == HeldIn(a, b) \ {<<i, b[i]>>}
    <2>2. T \in SUBSET Pairs /\ HeldIn(a, d) \in SUBSET Pairs
      BY HeldFacts
    <2> HIDE DEF T
    <2>4. \A j \in Ids, y \in Contents : <<j, y>> \in HeldIn(a, d) <=> <<j, y>> \in T
      BY <2>1 DEF T
    <2>3. HeldIn(a, d) = T
      BY <2>2, <2>4, PairsCompared
    <2> QED
      BY <1>1, <1>2, <1>3, <2>3 DEF d, T
  <1> QED
    BY <1>4, <1>5

(* Rows that move from one table to the other are held as before.            *)
LEMMA HeldMoved ==
    ASSUME NEW a \in Table, NEW b \in Table, NEW rows \in Table,
           \A i \in Ids : rows[i] # None => a[i] = rows[i] /\ b[i] = None,
           NEW c, c = [i \in Ids |-> IF rows[i] # None THEN None ELSE a[i]],
           NEW d, d = [i \in Ids |-> IF rows[i] # None THEN rows[i] ELSE b[i]]
    PROVE  HeldIn(c, d) = HeldIn(a, b) /\ c \in Table /\ d \in Table
  <1>1. c \in Table /\ d \in Table
    BY DEF Table
  <1>2. \A i \in Ids : /\ c[i] = IF rows[i] # None THEN None ELSE a[i]
                      /\ d[i] = IF rows[i] # None THEN rows[i] ELSE b[i]
    OBVIOUS
  <1>3. \A j \in Ids, y \in Contents : <<j, y>> \in HeldIn(c, d) <=> <<j, y>> \in HeldIn(a, b)
    <2> TAKE j \in Ids, y \in Contents
    <2>1. <<j, y>> \in HeldIn(c, d) <=> c[j] = y \/ d[j] = y
      BY HeldFacts
    <2>2. <<j, y>> \in HeldIn(a, b) <=> a[j] = y \/ b[j] = y
      BY HeldFacts
    <2> QED
      BY <1>2, <2>1, <2>2, NoneFacts
  <1> QED
    BY <1>1, <1>3, HeldFacts, PairsCompared

-----------------------------------------------------------------------------
(* What is known when a request is about to store: an id and a content.      *)
LEMMA AtHand ==
    ASSUME InboxInv, NEW c \in Clients, req[c].pc \in {"store", "register"}
    PROVE  /\ req[c] \in Req /\ Form(req[c]) /\ Noted(req[c], Stored)
           /\ req[c].id \in Ids /\ Head(req[c].todo) \in Contents
           /\ Dedupe(c) => Head(req[c].todo) \in Records /\ req[c].id \in FreshIds
  <1>1. req[c] \in Req /\ Form(req[c]) /\ Noted(req[c], Stored)
    BY StateFacts
  <1>2. req[c].id \in Ids /\ req[c].todo # <<>> /\ req[c].todo \in Seq(Contents)
    BY <1>1 DEF Form, Req
  <1>3. Dedupe(c) => req[c].todo \in Seq(Records) /\ req[c].id \in FreshIds
    BY <1>1, <1>2, NoneFacts DEF Dedupe, Form
  <1> QED
    BY <1>1, <1>2, <1>3, TailFacts

(* Fingerprints and copies after a store.                                    *)
LEMMA RegisteredFacts ==
    ASSUME InboxInv, NEW c \in Clients, req[c].pc \in {"store", "register"}, NEW s,
           Stored \subseteq s, <<req[c].id, Head(req[c].todo)>> \in s
    PROVE  /\ Registered(c) \in [Records -> FreshIds \cup {None}]
           /\ Known(Registered(c), s)
           /\ Copied(c) \in [Records -> SUBSET FreshIds]
  <1> DEFINE x == Head(req[c].todo)
             i == req[c].id
  <1>1. Dedupe(c) => x \in Records /\ i \in FreshIds
    BY AtHand
  <1>2. prints \in [Records -> FreshIds \cup {None}] /\ copies \in [Records -> SUBSET FreshIds]
        /\ Known(prints, s)
    BY StateFacts DEF InboxInv, Known
  <1>3. Registered(c) = IF Dedupe(c) /\ prints[x] = None THEN [prints EXCEPT ![x] = i] ELSE prints
    BY DEF Registered
  <1>4. Copied(c) = IF Dedupe(c) THEN [copies EXCEPT ![x] = copies[x] \cup {i}] ELSE copies
    BY DEF Copied
  <1>5. <<i, x>> \in s
    OBVIOUS
  <1> HIDE DEF x, i
  <1>6. Copied(c) \in [Records -> SUBSET FreshIds]
    <2>1. CASE Dedupe(c)
      BY <1>1, <1>2, <1>4, <2>1
    <2>2. CASE ~Dedupe(c)
      BY <1>2, <1>4, <2>2
    <2> QED
      BY <2>1, <2>2
  <1>7. CASE Dedupe(c) /\ prints[x] = None
    <2>1. Registered(c) = [prints EXCEPT ![x] = i]
      BY <1>3, <1>7
    <2>2. Registered(c) \in [Records -> FreshIds \cup {None}]
      BY <1>1, <1>2, <1>7, <2>1
    <2>3. \A y \in Records : Registered(c)[y] = IF y = x THEN i ELSE prints[y]
      BY <1>2, <2>1
    <2>4. ASSUME NEW y \in Records, Registered(c)[y] # None
          PROVE  <<Registered(c)[y], y>> \in s
      <3>1. CASE y = x
        BY <1>5, <2>3, <3>1
      <3>2. CASE y # x
        BY <1>2, <2>3, <2>4, <3>2 DEF Known
      <3> QED
        BY <3>1, <3>2
    <2> QED
      BY <1>6, <2>2, <2>4 DEF Known
  <1>8. CASE ~(Dedupe(c) /\ prints[x] = None)
    <2>1. Registered(c) = prints
      BY <1>3, <1>8
    <2> QED
      BY <1>2, <1>6, <2>1
  <1> QED
    BY <1>7, <1>8

(* Without a vault everything is done at once.                               *)
LEMMA StorePlainStep ==
    ASSUME InboxInv, NEW c \in Clients, StorePlain(c),
           NEW i, i = req[c].id, NEW x, x = Head(req[c].todo)
    PROVE  InboxInv' /\ Held' = Held \cup {<<i, x>>} /\ <<i, x>> \in Pairs
  <1>1. /\ req[c].pc = "store" /\ plain[i] = None /\ plain' = [plain EXCEPT ![i] = x]
        /\ events' = events \cup {i} /\ prints' = Registered(c) /\ copies' = Copied(c)
        /\ Advance(c, i)
        /\ sealed' = sealed /\ vaultOn' = vaultOn /\ requested' = requested /\ listed' = listed
        /\ drawn' = drawn /\ told' = told /\ deleted' = deleted /\ faults' = faults
    BY DEF StorePlain
  <1>2. i \in Ids /\ x \in Contents
    BY <1>1, AtHand
  <1>3. Held' = Held \cup {<<i, x>>} /\ plain' \in Table
    <2>1. /\ HeldIn(plain', sealed) = HeldIn(plain, sealed) \cup {<<i, x>>}
          /\ plain' \in Table
      <3>1. plain \in Table /\ sealed \in Table /\ plain[i] = None /\ i \in Ids /\ x \in Contents
        BY <1>1, <1>2, StateFacts
      <3>2. plain' \in Table /\ \A j \in Ids : plain'[j] = IF j = i THEN x ELSE plain[j]
        BY <1>1, <3>1 DEF Table
      <3> QED
        BY <3>1, <3>2, HeldAdded
    <2> QED
      BY <1>1, <2>1, HeldIs
  <1>4. Stored \subseteq Stored' /\ <<i, x>> \in Stored'
    BY <1>1, <1>3 DEF Stored
  <1>5. /\ prints' \in [Records -> FreshIds \cup {None}]
        /\ Known(prints', Stored')
        /\ copies' \in [Records -> SUBSET FreshIds]
    BY <1>1, <1>4, RegisteredFacts
  <1>6. PICK r \in Req : req' = [req EXCEPT ![c] = r] /\ Form(r) /\ Noted(r, Stored')
    BY <1>1, <1>2, <1>4, AdvanceFacts
  <1>7. req' \in [Clients -> Req]
    BY <1>6, StateFacts
  <1>8. InboxTypeOK'
    BY <1>1, <1>2, <1>3, <1>5, <1>7, StateFacts DEF InboxTypeOK
  <1>9. Listing(listed', plain')
    <2>1. plain \in Table /\ Listing(listed, plain)
      BY StateFacts DEF InboxInv
    <2>2. \A j \in Ids : plain'[j] = IF j = i THEN x ELSE plain[j]
      BY <1>1, <2>1 DEF Table
    <2> QED
      BY <1>1, <2>1, <2>2 DEF Listing
  <1>10. told' \subseteq Stored'
    BY <1>1, <1>4 DEF InboxInv
  <1> QED
    BY <1>2, <1>3, <1>4, <1>5, <1>6, <1>8, <1>9, <1>10, ReqStep DEF Pairs

(* With one, the row comes first.                                            *)
LEMMA StoreSealedStep ==
    ASSUME InboxInv, NEW c \in Clients, StoreSealed(c),
           NEW i, i = req[c].id, NEW x, x = Head(req[c].todo)
    PROVE  InboxInv' /\ Held' = Held \cup {<<i, x>>} /\ <<i, x>> \in Pairs
  <1> DEFINE r == [req[c] EXCEPT !.pc = "register"]
  <1>1. /\ req[c].pc = "store" /\ sealed[i] = None /\ sealed' = [sealed EXCEPT ![i] = x]
        /\ copies' = Copied(c) /\ events' = events /\ prints' = prints
        /\ plain' = plain /\ vaultOn' = vaultOn /\ requested' = requested /\ listed' = listed
        /\ drawn' = drawn /\ told' = told /\ deleted' = deleted /\ faults' = faults
    BY DEF StoreSealed
  <1>2. req' = [req EXCEPT ![c] = r]
    BY StateFacts DEF StoreSealed
  <1>3. i \in Ids /\ x \in Contents /\ req[c] \in Req /\ Form(req[c]) /\ Noted(req[c], Stored)
    BY <1>1, AtHand
  <1>4. /\ r \in Req /\ r.pc = "register" /\ r.kind = req[c].kind /\ r.id = i
        /\ r.todo = req[c].todo /\ r.done = req[c].done
    BY <1>3 DEF Req, Steps
  <1> HIDE DEF r
  <1>5. Held' = Held \cup {<<i, x>>} /\ sealed' \in Table
    <2>1. /\ HeldIn(plain, sealed') = HeldIn(plain, sealed) \cup {<<i, x>>}
          /\ sealed' \in Table
      <3>1. plain \in Table /\ sealed \in Table /\ sealed[i] = None /\ i \in Ids /\ x \in Contents
        BY <1>1, <1>3, StateFacts
      <3>2. sealed' \in Table /\ \A j \in Ids : sealed'[j] = IF j = i THEN x ELSE sealed[j]
        BY <1>1, <3>1 DEF Table
      <3> QED
        BY <3>1, <3>2, HeldAdded
    <2> QED
      BY <1>1, <2>1, HeldIs
  <1>6. Stored \subseteq Stored' /\ <<i, x>> \in Stored'
    BY <1>1, <1>5 DEF Stored
  <1>7. Form(r) /\ Noted(r, Stored')
    BY <1>1, <1>3, <1>4, <1>6 DEF Form, Noted
  <1>8. copies' \in [Records -> SUBSET FreshIds]
    BY <1>1, <1>6, RegisteredFacts
  <1>9. req' \in [Clients -> Req]
    BY <1>2, <1>4, StateFacts
  <1>10. InboxTypeOK'
    BY <1>1, <1>5, <1>8, <1>9, StateFacts DEF InboxTypeOK
  <1>11. Known(prints', Stored') /\ told' \subseteq Stored' /\ Listing(listed', plain')
    BY <1>1, <1>6 DEF InboxInv, Known
  <1> QED
    BY <1>2, <1>3, <1>4, <1>5, <1>6, <1>7, <1>10, <1>11, ReqStep DEF Pairs

(* Event and fingerprint follow.                                             *)
LEMMA RegisterStep ==
    ASSUME InboxInv, NEW c \in Clients, Register(c),
           NEW i, i = req[c].id
    PROVE  InboxInv' /\ Held' = Held
  <1>1. /\ req[c].pc = "register" /\ plain' = plain /\ sealed' = sealed
        /\ events' = events \cup {i} /\ prints' = Registered(c) /\ copies' = copies
        /\ Advance(c, i)
        /\ vaultOn' = vaultOn /\ requested' = requested /\ listed' = listed
        /\ drawn' = drawn /\ told' = told /\ deleted' = deleted /\ faults' = faults
    BY DEF Register, history
  <1>2. i \in Ids /\ <<i, Head(req[c].todo)>> \in Stored
    BY <1>1, AtHand DEF Noted
  <1>3. Held' = Held /\ Stored' = Stored
    BY <1>1 DEF Held, Stored
  <1>4. prints' \in [Records -> FreshIds \cup {None}] /\ Known(prints', Stored')
    BY <1>1, <1>2, <1>3, RegisteredFacts
  <1>5. PICK r \in Req : req' = [req EXCEPT ![c] = r] /\ Form(r) /\ Noted(r, Stored')
    BY <1>1, <1>2, <1>3, AdvanceFacts
  <1>6. req' \in [Clients -> Req]
    BY <1>5, StateFacts
  <1>7. InboxTypeOK'
    BY <1>1, <1>2, <1>4, <1>6, StateFacts DEF InboxTypeOK
  <1>8. told' \subseteq Stored' /\ Listing(listed', plain')
    BY <1>1, <1>3 DEF InboxInv
  <1> QED
    BY <1>3, <1>4, <1>5, <1>7, <1>8, ReqStep

(* No request takes part.                                                    *)
LEMMA TableStep ==
    ASSUME InboxInv, req' = req, Stored \subseteq Stored', prints' = prints, told' = told,
           plain' \in Table, sealed' \in Table, vaultOn' \in BOOLEAN, deleted' \subseteq Pairs,
           events' = events, requested' = requested, drawn' = drawn, copies' = copies,
           faults' = faults, listed' \in [on : BOOLEAN, rows : Table], Listing(listed', plain')
    PROVE  InboxInv'
  <1>1. InboxTypeOK'
    BY StateFacts DEF InboxTypeOK
  <1>2. \A c \in Clients : Form(req'[c]) /\ Noted(req'[c], Stored')
    BY StateFacts DEF Noted
  <1> QED
    BY <1>1, <1>2 DEF InboxInv, Known

(* A deletion takes its capture out and notes it.                            *)
LEMMA DeleteStep ==
    ASSUME InboxInv, NEW i \in Ids, Delete(i), NEW p, p = <<i, sealed[i]>>
    PROVE  /\ InboxInv' /\ p \in Held /\ p \in Pairs /\ Held' \in {Held, Held \ {p}}
           /\ deleted' = deleted \cup {p}
  <1>1. /\ sealed[i] # None /\ sealed' = [sealed EXCEPT ![i] = None] /\ deleted' = deleted \cup {p}
        /\ plain' = plain /\ vaultOn' = vaultOn /\ requested' = requested /\ listed' = listed
        /\ events' = events /\ prints' = prints /\ copies' = copies /\ req' = req
        /\ drawn' = drawn /\ told' = told /\ faults' = faults
    BY DEF Delete
  <1>2. p \in Held /\ p \in Pairs /\ Held' \in {Held, Held \ {p}} /\ sealed' \in Table
    BY <1>1, StateFacts, HeldRemoved, HeldIs DEF Pairs
  <1>3. Stored \subseteq Stored'
    BY <1>1, <1>2 DEF Stored
  <1>4. deleted' \subseteq Pairs /\ Listing(listed', plain')
    BY <1>1, <1>2, StateFacts DEF InboxInv
  <1> QED
    BY <1>1, <1>2, <1>3, <1>4, StateFacts, TableStep

(* Listing and moving the plain rows, and a new start, show nothing.         *)
LEMMA MoveStep ==
    ASSUME InboxInv, Move \/ \E v \in BOOLEAN : Restart(v)
    PROVE  InboxInv' /\ Held' = Held /\ told' = told /\ deleted' = deleted
  <1>1. /\ requested' = requested /\ events' = events /\ prints' = prints /\ copies' = copies
        /\ req' = req /\ drawn' = drawn /\ told' = told /\ faults' = faults /\ deleted' = deleted
    BY DEF Move, ListPlain, Migrate, MigrateConflict, Restart, tables, history
  <1>2. EmptyTable \in Table /\ \A i \in Ids : EmptyTable[i] = None
    BY DEF EmptyTable, Table
  <1>3. NotListed \in [on : BOOLEAN, rows : Table] /\ Listing(NotListed, plain) /\ Listing(NotListed, plain')
    BY <1>2 DEF NotListed, Listing
  <1>4. CASE \/ ListPlain \/ MigrateConflict
             \/ \E v \in BOOLEAN : Restart(v)
    <2>1. plain' = plain /\ sealed' = sealed
      BY <1>4 DEF ListPlain, MigrateConflict, Restart, tables
    <2>2. Held' = Held /\ Stored' = Stored
      BY <1>1, <2>1 DEF Held, Stored
    <2>3. vaultOn' \in BOOLEAN
      BY <1>4, StateFacts DEF ListPlain, MigrateConflict, Restart
    <2>4. listed' \in [on : BOOLEAN, rows : Table] /\ Listing(listed', plain)
      <3>1. CASE ListPlain
        <4>1. listed' = [on |-> TRUE, rows |-> plain]
          BY <3>1 DEF ListPlain
        <4> QED
          BY <4>1, StateFacts DEF Listing
      <3>2. CASE ~ListPlain
        <4>1. listed' = NotListed \/ listed' = listed
          BY <1>4, <3>2 DEF MigrateConflict, Restart
        <4> QED
          BY <1>3, <4>1, StateFacts DEF InboxInv
      <3> QED
        BY <3>1, <3>2
    <2> QED
      BY <1>1, <2>1, <2>2, <2>3, <2>4, StateFacts, TableStep
  <1>5. CASE Migrate
    <2> DEFINE rows == listed.rows
    <2>1. /\ plain' = [i \in Ids |-> IF rows[i] # None THEN None ELSE plain[i]]
          /\ sealed' = [i \in Ids |-> IF rows[i] # None THEN rows[i] ELSE sealed[i]]
          /\ listed' = NotListed /\ vaultOn' = vaultOn
      BY <1>5 DEF Migrate
    <2>2. rows \in Table
      BY StateFacts
    <2>3. \A i \in Ids : rows[i] # None => plain[i] = rows[i] /\ sealed[i] = None
      BY <1>5 DEF Migrate, Rows, InboxInv, Listing
    <2> HIDE DEF rows
    <2>4. HeldIn(plain', sealed') = HeldIn(plain, sealed) /\ plain' \in Table /\ sealed' \in Table
      BY <2>1, <2>2, <2>3, StateFacts, HeldMoved
    <2>5. Held' = Held /\ Stored' = Stored
      BY <1>1, <2>4, HeldIs DEF Stored
    <2> QED
      BY <1>1, <1>3, <2>1, <2>4, <2>5, StateFacts, TableStep
  <1> QED
    BY <1>4, <1>5 DEF Move

-----------------------------------------------------------------------------
(* Every step keeps the invariant, and is one of the ledger's or not to be   *)
(* seen there.                                                               *)
LEMMA InboxStep ==
    ASSUME InboxInv, [InboxNext]_vars
    PROVE  InboxInv' /\ [Ledger!LedgerNext]_(Ledger!ledgerVars)
  <1>1. CASE UNCHANGED vars
    <2>1. /\ plain' = plain /\ sealed' = sealed /\ prints' = prints /\ events' = events
          /\ vaultOn' = vaultOn /\ listed' = listed /\ deleted' = deleted /\ copies' = copies
          /\ requested' = requested /\ req' = req /\ drawn' = drawn /\ told' = told /\ faults' = faults
      BY <1>1 DEF vars, tables, history
    <2>2. Held' = Held /\ Stored' = Stored
      BY <2>1 DEF Held, Stored
    <2> QED
      BY <2>1, <2>2, StateFacts, TableStep DEF InboxInv, Ledger!ledgerVars
  <1>2. ASSUME NEW c \in Clients, Serve(c)
        PROVE  InboxInv' /\ [Ledger!LedgerNext]_(Ledger!ledgerVars)
    <2>1. CASE \/ \E i \in NamedIds, x \in Captures : PostCapture(c, i, x)
               \/ \E k \in {"adapter", "import"}, b \in Batches : PostRecords(c, k, b)
               \/ SkipDuplicate(c) \/ \E i \in FreshIds : FindNone(c, i)
      <3>1. plain' = plain /\ sealed' = sealed /\ told' = told /\ deleted' = deleted
        BY <2>1 DEF PostCapture, PostRecords, SkipDuplicate, FindNone, tables, history
      <3>2. Held' = Held
        BY <3>1 DEF Held
      <3> QED
        BY <2>1, <3>1, <3>2, PostCaptureStep, PostRecordsStep, SkipDuplicateStep, FindNoneStep
           DEF Ledger!ledgerVars
    <2>2. CASE StorePlain(c) \/ StoreSealed(c)
      <3>1. PICK p \in Pairs : Held' = Held \cup {p}
        BY <2>2, StorePlainStep, StoreSealedStep
      <3>2. told' = told /\ deleted' = deleted
        BY <2>2 DEF StorePlain, StoreSealed
      <3>3. Ledger!Take(p)
        BY <3>1, <3>2 DEF Ledger!Take
      <3> QED
        BY <2>2, <3>1, <3>3, StorePlainStep, StoreSealedStep
           DEF Ledger!LedgerNext, Ledger!Captured, Pairs
    <2>3. CASE Register(c)
      <3>1. told' = told /\ deleted' = deleted
        BY <2>3 DEF Register, history
      <3> QED
        BY <2>3, <3>1, RegisterStep DEF Ledger!ledgerVars
    <2>4. CASE StoreConflict(c) \/ Abort(c)
      <3>1. plain' = plain /\ sealed' = sealed /\ told' = told /\ deleted' = deleted
        BY <2>4 DEF StoreConflict, Abort, tables, history
      <3>2. Held' = Held
        BY <3>1 DEF Held
      <3> QED
        BY <2>4, <3>1, <3>2, EndStep DEF Ledger!ledgerVars
    <2>5. CASE Answer(c)
      <3> DEFINE s == req[c].done
      <3>1. plain' = plain /\ sealed' = sealed /\ told' = told \cup s /\ deleted' = deleted
        BY <2>5 DEF Answer, tables
      <3>2. Held' = Held
        BY <3>1 DEF Held
      <3>3. s \subseteq Stored /\ s \in SUBSET Pairs
        BY StateFacts DEF Noted, Req
      <3>4. Ledger!Tell(s)
        BY <3>1, <3>2, <3>3 DEF Ledger!Tell, Stored
      <3> QED
        BY <2>5, <3>3, <3>4, EndStep DEF Ledger!LedgerNext, Ledger!Captured, Pairs
    <2> QED
      BY <1>2, <2>1, <2>2, <2>3, <2>4, <2>5 DEF Serve
  <1>3. ASSUME NEW i \in Ids, Delete(i)
        PROVE  InboxInv' /\ [Ledger!LedgerNext]_(Ledger!ledgerVars)
    <2>1. PICK p \in Pairs : /\ p \in Held /\ Held' \in {Held, Held \ {p}}
                             /\ deleted' = deleted \cup {p}
      BY <1>3, DeleteStep
    <2>2. told' = told
      BY <1>3 DEF Delete
    <2>3. Ledger!Drop(p)
      BY <2>1, <2>2 DEF Ledger!Drop
    <2> QED
      BY <1>3, <2>1, <2>3, DeleteStep DEF Ledger!LedgerNext, Ledger!Captured, Pairs
  <1>4. CASE Move \/ \E v \in BOOLEAN : Restart(v)
    BY <1>4, MoveStep DEF Ledger!ledgerVars
  <1> QED
    BY <1>1, <1>2, <1>3, <1>4 DEF InboxNext

(* An empty inbox satisfies it, and is an empty ledger.                      *)
LEMMA InboxStart ==
    ASSUME InboxInit
    PROVE  InboxInv /\ Ledger!LedgerInit
  <1>1. EmptyTable \in Table /\ \A i \in Ids : EmptyTable[i] = None
    BY DEF EmptyTable, Table
  <1>2. NotListed \in [on : BOOLEAN, rows : Table] /\ Listing(NotListed, plain)
    BY <1>1 DEF NotListed, Listing
  <1>3. plain = EmptyTable /\ sealed = EmptyTable /\ told = {} /\ deleted = {} /\ listed = NotListed
    BY DEF InboxInit
  <1>4. \A i \in Ids, x \in Contents : <<i, x>> \notin Held
    <2> TAKE i \in Ids, x \in Contents
    <2>1. <<i, x>> \in HeldIn(plain, sealed) <=> plain[i] = x \/ sealed[i] = x
      BY HeldFacts
    <2> QED
      BY <1>1, <1>3, <2>1, HeldIs, NoneFacts
  <1>5. Held = {}
    BY <1>4 DEF Held, Pairs
  <1>6. InboxTypeOK
    BY <1>1, <1>2, NoReqFacts, InboxAssumption DEF InboxInit, InboxTypeOK
  <1>7. Known(prints, Stored)
    BY DEF InboxInit, Known
  <1>8. \A c \in Clients : Form(req[c]) /\ Noted(req[c], Stored)
    BY NoReqFacts DEF InboxInit
  <1> QED
    BY <1>2, <1>3, <1>5, <1>6, <1>7, <1>8 DEF InboxInv, Ledger!LedgerInit

(* The invariant holds in every state of the inbox.                          *)
THEOREM InboxInvariant == InboxSpec => []InboxInv
  <1>1. InboxInit => InboxInv
    BY InboxStart
  <1>2. InboxInv /\ [InboxNext]_vars => InboxInv'
    BY InboxStep
  <1> QED
    BY <1>1, <1>2, PTL DEF InboxSpec

(* The variables have their types.                                           *)
THEOREM InboxTypes == InboxSpec => []InboxTypeOK
  <1>1. InboxInv => InboxTypeOK
    BY DEF InboxInv
  <1> QED
    BY <1>1, InboxInvariant, PTL

(* What an answer reports as stored is held until its owner deletes it,      *)
(* across migrations, restarts and failures (insert_capture,                 *)
(* plaintext_migration_apply.py, delete_encrypted_capture).                  *)
THEOREM InboxKeepsLedger == InboxSpec => ImplementsLedger
  <1>1. InboxInit => Ledger!LedgerInit
    BY InboxStart
  <1>2. InboxInv /\ [InboxNext]_vars => [Ledger!LedgerNext]_(Ledger!ledgerVars)
    BY InboxStep
  <1> QED
    BY <1>1, <1>2, InboxInvariant, PTL DEF InboxSpec, ImplementsLedger, Ledger!LedgerSpec

-----------------------------------------------------------------------------
(* What failures may have left behind is counted.  A request that fails      *)
(* leaves at most one thing undone, and everything else that is undone is in *)
(* the hands of a request.                                                   *)
Bounded(s, n) == IsFiniteSet(s) /\ Cardinality(s) <= n

(* The requests of adapters that are at step p with content x.               *)
Doing(x, p) == {c \in Clients : req[c].pc = p /\ Dedupe(c) /\ Head(req[c].todo) = x}

InTables == {i \in Ids : plain[i] # None \/ sealed[i] # None}

(* Ids that were stored in a first transaction whose second one will follow, *)
(* and those for which a dispatch will be started.                           *)
Half == {i \in Ids : \E c \in Clients : req[c].pc = "register" /\ req[c].id = i}
Pending == {i \in Ids : \E c \in Clients : /\ req[c].kind = "capture" /\ req[c].id = i
                                           /\ req[c].pc \in {"register", "answer"}}

Silent == InTables \ (events \cup Half)
Repeated == {x \in Records : copies[x] # {} /\ prints[x] = None /\ Doing(x, "register") = {}}
Stranded == {i \in NamedIds : i \in InTables /\ i \notin requested /\ i \notin Pending}

(* As long as a content has no fingerprint, each of its copies belongs to a  *)
(* request that is about to register it or to a failure; afterwards only the *)
(* requests that have not seen the fingerprint can add one.                  *)
CopiesCounted(x) ==
    IF prints[x] = None
      THEN Cardinality(copies[x]) <= Cardinality(Doing(x, "register")) + faults
      ELSE Cardinality(copies[x]) + Cardinality(Doing(x, "store")) <= Cardinality(Clients) + faults

CountInv ==
    /\ \A x \in Records : CopiesCounted(x)
    /\ \A c \in Clients : req[c].pc = "register" /\ Dedupe(c)
                            => req[c].id \in copies[Head(req[c].todo)]
    /\ Bounded(Silent, faults) /\ Bounded(Repeated, faults) /\ Bounded(Stranded, faults)

(* A set that does not grow keeps its bound; a failure may add one element.  *)
LEMMA BoundedFacts ==
    ASSUME NEW s, NEW n \in Nat, Bounded(s, n), NEW t
    PROVE  /\ t \subseteq s => Bounded(t, n)
           /\ \A x : t \subseteq s \cup {x} => Bounded(t, n + 1)
  <1>1. IsFiniteSet(s) /\ Cardinality(s) <= n /\ Cardinality(s) \in Nat
    BY FS_CardinalityType DEF Bounded
  <1>2. ASSUME t \subseteq s
        PROVE  Bounded(t, n)
    <2>1. IsFiniteSet(t) /\ Cardinality(t) <= Cardinality(s)
      BY <1>1, <1>2, FS_Subset
    <2>2. Cardinality(t) \in Nat
      BY <2>1, FS_CardinalityType
    <2> QED
      BY <1>1, <2>1, <2>2 DEF Bounded
  <1>3. ASSUME NEW x, t \subseteq s \cup {x}
        PROVE  Bounded(t, n + 1)
    <2>1. /\ IsFiniteSet(s \cup {x}) /\ Cardinality(s \cup {x}) \in Nat
          /\ Cardinality(s \cup {x}) <= Cardinality(s) + 1
      <3>1. /\ IsFiniteSet(s \cup {x})
            /\ Cardinality(s \cup {x}) = IF x \in s THEN Cardinality(s) ELSE Cardinality(s) + 1
        BY <1>1, FS_AddElement
      <3> QED
        BY <1>1, <3>1
    <2>2. IsFiniteSet(t) /\ Cardinality(t) <= Cardinality(s \cup {x})
      BY <1>3, <2>1, FS_Subset
    <2>3. Cardinality(t) \in Nat
      BY <2>2, FS_CardinalityType
    <2> QED
      BY <1>1, <2>1, <2>2, <2>3 DEF Bounded
  <1> QED
    BY <1>2, <1>3

(* Sets of requests are finite; so are the copies of a content.              *)
LEMMA CountFacts ==
    ASSUME InboxInv, NEW x \in Records
    PROVE  /\ \A p : /\ IsFiniteSet(Doing(x, p)) /\ Cardinality(Doing(x, p)) \in Nat
                     /\ Doing(x, p) \subseteq Clients
           /\ IsFiniteSet(copies[x]) /\ Cardinality(copies[x]) \in Nat
           /\ Cardinality(Clients) \in Nat
           /\ Cardinality(Doing(x, "register")) + Cardinality(Doing(x, "store"))
                <= Cardinality(Clients)
  <1>1. ASSUME NEW p
        PROVE  /\ IsFiniteSet(Doing(x, p)) /\ Cardinality(Doing(x, p)) \in Nat
               /\ Doing(x, p) \subseteq Clients
    <2>1. Doing(x, p) \subseteq Clients
      BY DEF Doing
    <2> QED
      BY <2>1, FS_Subset, FS_CardinalityType, InboxAssumption
  <1>2. IsFiniteSet(copies[x]) /\ Cardinality(copies[x]) \in Nat
    <2>1. copies[x] \subseteq FreshIds
      BY StateFacts
    <2> QED
      BY <2>1, FS_Subset, FS_CardinalityType, InboxAssumption
  <1>3. Cardinality(Doing(x, "register")) + Cardinality(Doing(x, "store")) <= Cardinality(Clients)
    <2> DEFINE a == Doing(x, "register")
               b == Doing(x, "store")
    <2>1. a \cap b = {} /\ a \cup b \subseteq Clients
      BY DEF Doing
    <2>2. IsFiniteSet(a) /\ IsFiniteSet(b) /\ Cardinality(a) \in Nat /\ Cardinality(b) \in Nat
      BY <1>1
    <2> HIDE DEF a, b
    <2>3. Cardinality(a \cup b) = Cardinality(a) + Cardinality(b) - Cardinality(a \cap b)
      BY <2>2, FS_Union
    <2>4. Cardinality(a \cap b) = 0
      BY <2>1, FS_EmptySet
    <2>5. Cardinality(a \cup b) <= Cardinality(Clients)
      BY <2>1, FS_Subset, InboxAssumption
    <2>6. Cardinality(a \cup b) = Cardinality(a) + Cardinality(b)
      BY <2>2, <2>3, <2>4
    <2>7. Cardinality(a) + Cardinality(b) <= Cardinality(Clients)
      BY <2>5, <2>6
    <2> QED
      BY <2>7 DEF a, b
  <1> QED
    BY <1>1, <1>2, <1>3, FS_CardinalityType, InboxAssumption

(* What becomes of these sets when request c goes on as r.                   *)
LEMMA DoingStep ==
    ASSUME InboxInv, NEW c \in Clients, NEW r, req' = [req EXCEPT ![c] = r], NEW x, NEW p
    PROVE  Doing(x, p)' = IF r.pc = p /\ r.kind \in {"adapter", "import"} /\ Head(r.todo) = x
                            THEN Doing(x, p) \cup {c} ELSE Doing(x, p) \ {c}
  <1>1. req'[c] = r /\ \A d \in Clients : d # c => req'[d] = req[d]
    BY StateFacts
  <1> QED
    BY <1>1 DEF Doing, Dedupe

LEMMA HandsStep ==
    ASSUME InboxInv, NEW c \in Clients, NEW r, req' = [req EXCEPT ![c] = r]
    PROVE  /\ Half \subseteq Half' \cup {req[c].id}
           /\ req[c].pc # "register" => Half \subseteq Half'
           /\ r.pc = "register" /\ r.id \in Ids => r.id \in Half'
           /\ Pending \subseteq Pending' \cup {req[c].id}
           /\ ~(req[c].kind = "capture" /\ req[c].pc \in {"register", "answer"})
                => Pending \subseteq Pending'
           /\ r.kind = "capture" /\ r.pc \in {"register", "answer"} /\ r.id \in Ids
                => r.id \in Pending'
  <1>1. req'[c] = r /\ \A d \in Clients : d # c => req'[d] = req[d]
    BY StateFacts
  <1>2. \A i \in Ids : (\E d \in Clients : req'[d].pc = "register" /\ req'[d].id = i) <=> i \in Half'
    BY DEF Half
  <1>3. \A i \in Ids : (\E d \in Clients : /\ req'[d].kind = "capture" /\ req'[d].id = i
                                           /\ req'[d].pc \in {"register", "answer"}) <=> i \in Pending'
    BY DEF Pending
  <1>4. /\ Half \subseteq Half' \cup {req[c].id}
        /\ req[c].pc # "register" => Half \subseteq Half'
    BY <1>1, <1>2 DEF Half
  <1>5. r.pc = "register" /\ r.id \in Ids => r.id \in Half'
    BY <1>1, <1>2
  <1>6. /\ Pending \subseteq Pending' \cup {req[c].id}
        /\ ~(req[c].kind = "capture" /\ req[c].pc \in {"register", "answer"})
             => Pending \subseteq Pending'
    BY <1>1, <1>3 DEF Pending
  <1>7. r.kind = "capture" /\ r.pc \in {"register", "answer"} /\ r.id \in Ids => r.id \in Pending'
    BY <1>1, <1>3
  <1> QED
    BY <1>4, <1>5, <1>6, <1>7

(* A request that advances has no transaction left half done.                *)
LEMMA AdvanceShape ==
    ASSUME InboxInv, NEW c \in Clients, NEW i, Advance(c, i)
    PROVE  \E r : /\ req' = [req EXCEPT ![c] = r]
                  /\ r.kind = req[c].kind /\ r.pc \in {"answer", "look"}
                  /\ req[c].kind = "capture" => r.id = req[c].id
                  /\ Len(req[c].todo) = 1 => r.pc = "answer"
  <1> DEFINE q == req[c]
             r == [q EXCEPT !.todo = Tail(q.todo), !.done = q.done \cup {<<i, Head(q.todo)>>},
                            !.id = IF q.kind = "capture" THEN q.id ELSE None,
                            !.pc = IF Len(q.todo) = 1 THEN "answer" ELSE "look"]
  <1>1. q \in Req
    BY StateFacts
  <1>2. req' = [req EXCEPT ![c] = r]
    BY DEF Advance
  <1>3. /\ r.kind = q.kind /\ r.pc \in {"answer", "look"}
        /\ q.kind = "capture" => r.id = q.id
        /\ Len(q.todo) = 1 => r.pc = "answer"
    BY <1>1 DEF Req
  <1> QED
    BY <1>2, <1>3

(* How the parts of the count carry over.                                    *)
LEMMA CountStep ==
    ASSUME InboxInv, CountInv, faults' \in Nat, faults <= faults',
           \A x \in Records : CopiesCounted(x)',
           \A c \in Clients : req'[c].pc = "register" /\ Dedupe(c)'
                                => req'[c].id \in copies'[Head(req'[c].todo)],
           \/ faults' = faults /\ Silent' \subseteq Silent
           \/ faults' = faults + 1 /\ \E i : Silent' \subseteq Silent \cup {i},
           \/ faults' = faults /\ Repeated' \subseteq Repeated
           \/ faults' = faults + 1 /\ \E x : Repeated' \subseteq Repeated \cup {x},
           \/ faults' = faults /\ Stranded' \subseteq Stranded
           \/ faults' = faults + 1 /\ \E i : Stranded' \subseteq Stranded \cup {i}
    PROVE  CountInv'
  <1>1. faults \in Nat
    BY StateFacts, InboxAssumption
  <1>2. Bounded(Silent, faults) /\ Bounded(Repeated, faults) /\ Bounded(Stranded, faults)
    BY DEF CountInv
  <1>3. Bounded(Silent', faults')
    <2>1. CASE faults' = faults /\ Silent' \subseteq Silent
      BY <1>1, <1>2, <2>1, BoundedFacts
    <2>2. CASE faults' = faults + 1 /\ \E i : Silent' \subseteq Silent \cup {i}
      BY <1>1, <1>2, <2>2, BoundedFacts
    <2> QED
      BY <2>1, <2>2
  <1>4. Bounded(Repeated', faults')
    <2>1. CASE faults' = faults /\ Repeated' \subseteq Repeated
      BY <1>1, <1>2, <2>1, BoundedFacts
    <2>2. CASE faults' = faults + 1 /\ \E i : Repeated' \subseteq Repeated \cup {i}
      BY <1>1, <1>2, <2>2, BoundedFacts
    <2> QED
      BY <2>1, <2>2
  <1>5. Bounded(Stranded', faults')
    <2>1. CASE faults' = faults /\ Stranded' \subseteq Stranded
      BY <1>1, <1>2, <2>1, BoundedFacts
    <2>2. CASE faults' = faults + 1 /\ \E i : Stranded' \subseteq Stranded \cup {i}
      BY <1>1, <1>2, <2>2, BoundedFacts
    <2> QED
      BY <2>1, <2>2
  <1>6. Bounded(Silent, faults)' /\ Bounded(Repeated, faults)' /\ Bounded(Stranded, faults)'
    BY <1>3, <1>4, <1>5 DEF Bounded
  <1> QED
    BY <1>6 DEF CountInv

(* A step that stores and registers nothing.                                 *)
LEMMA QuietCount ==
    ASSUME InboxInv, CountInv, NEW c \in Clients, NEW r, req' = [req EXCEPT ![c] = r],
           UNCHANGED <<tables, requested, copies, faults>>,
           req[c].pc # "register", ~(req[c].kind = "capture" /\ req[c].pc = "answer"),
           r.pc # "register",
           r.kind \in {"adapter", "import"} /\ r.pc = "store" => prints[Head(r.todo)] = None
    PROVE  CountInv'
  <1>1. /\ plain' = plain /\ sealed' = sealed /\ prints' = prints /\ events' = events
        /\ requested' = requested /\ copies' = copies /\ faults' = faults
    BY DEF tables
  <1>2. req'[c] = r /\ \A d \in Clients : d # c => req'[d] = req[d]
    BY StateFacts
  <1>3. InTables' = InTables /\ Half \subseteq Half' /\ Pending \subseteq Pending'
    BY <1>1, HandsStep DEF InTables
  <1>0. \A x, p : Doing(x, p)' = IF r.pc = p /\ r.kind \in {"adapter", "import"} /\ Head(r.todo) = x
                                     THEN Doing(x, p) \cup {c} ELSE Doing(x, p) \ {c}
    BY DoingStep
  <1>4. \A x : Doing(x, "register")' = Doing(x, "register")
    <2>1. \A x : Doing(x, "register")' = Doing(x, "register") \ {c}
      BY <1>0
    <2>2. \A x : c \notin Doing(x, "register")
      BY DEF Doing
    <2> QED
      BY <2>1, <2>2
  <1>5. ASSUME NEW x \in Records
        PROVE  CopiesCounted(x)'
    <2>1. CopiesCounted(x)
      BY DEF CountInv
    <2>2. CASE prints[x] = None
      BY <1>1, <1>4, <2>1, <2>2 DEF CopiesCounted
    <2>3. CASE prints[x] # None
      <3>1. Doing(x, "store")' \subseteq Doing(x, "store")
        <4>1. ~(r.pc = "store" /\ r.kind \in {"adapter", "import"} /\ Head(r.todo) = x)
          BY <2>3
        <4>2. Doing(x, "store")' = Doing(x, "store") \ {c}
          BY <1>0, <4>1
        <4> QED
          BY <4>2
      <3>2. /\ Cardinality(Doing(x, "store")') <= Cardinality(Doing(x, "store"))
            /\ Cardinality(Doing(x, "store")') \in Nat
        BY <3>1, CountFacts, FS_Subset, FS_CardinalityType
      <3> QED
        BY <1>1, <2>1, <2>3, <3>2, CountFacts, StateFacts, InboxAssumption DEF CopiesCounted
    <2> QED
      BY <2>2, <2>3
  <1>6. \A d \in Clients : req'[d].pc = "register" /\ Dedupe(d)'
                             => req'[d].id \in copies'[Head(req'[d].todo)]
    BY <1>1, <1>2 DEF CountInv, Dedupe
  <1>7. Silent' \subseteq Silent /\ Repeated' \subseteq Repeated /\ Stranded' \subseteq Stranded
    BY <1>1, <1>3, <1>4 DEF Silent, Repeated, Stranded
  <1> QED
    BY <1>1, <1>5, <1>6, <1>7, CountStep, StateFacts, InboxAssumption

(* An answer starts the dispatch of a capture.                               *)
LEMMA AnswerCount ==
    ASSUME InboxInv, CountInv, NEW c \in Clients, Answer(c)
    PROVE  CountInv'
  <1>1. /\ plain' = plain /\ sealed' = sealed /\ prints' = prints /\ events' = events
        /\ copies' = copies /\ faults' = faults /\ req' = [req EXCEPT ![c] = NoReq]
        /\ requested' = IF req[c].kind = "capture" THEN requested \cup {req[c].id} ELSE requested
        /\ req[c].pc = "answer"
    BY DEF Answer, EndReq, tables
  <1>2. req'[c] = NoReq /\ \A d \in Clients : d # c => req'[d] = req[d]
    BY <1>1, StateFacts
  <1>3. InTables' = InTables /\ Half \subseteq Half' /\ Pending \subseteq Pending' \cup {req[c].id}
        /\ (req[c].kind # "capture" => Pending \subseteq Pending')
    BY <1>1, HandsStep DEF InTables
  <1>4. \A x, p : p \in {"register", "store"} => Doing(x, p)' = Doing(x, p)
    <2>1. req' = [req EXCEPT ![c] = NoReq]
      BY <1>1
    <2>3. \A x, p : Doing(x, p)' = Doing(x, p) \ {c}
      BY <2>1, DoingStep, NoReqFacts
    <2>2. \A x, p : p \in {"register", "store"} => c \notin Doing(x, p)
      BY <1>1 DEF Doing
    <2> QED
      BY <2>2, <2>3
  <1>5. \A x \in Records : CopiesCounted(x)'
    BY <1>1, <1>4 DEF CopiesCounted, CountInv
  <1>6. \A d \in Clients : req'[d].pc = "register" /\ Dedupe(d)'
                             => req'[d].id \in copies'[Head(req'[d].todo)]
    BY <1>1, <1>2, NoReqFacts DEF CountInv, Dedupe
  <1>7. Silent' \subseteq Silent /\ Repeated' \subseteq Repeated /\ Stranded' \subseteq Stranded
    BY <1>1, <1>3, <1>4 DEF Silent, Repeated, Stranded
  <1> QED
    BY <1>1, <1>5, <1>6, <1>7, CountStep, StateFacts, InboxAssumption

(* A failure takes one request out.                                          *)
LEMMA AbortCount ==
    ASSUME InboxInv, CountInv, NEW c \in Clients, Abort(c)
    PROVE  CountInv'
  <1>1. /\ plain' = plain /\ sealed' = sealed /\ prints' = prints /\ events' = events
        /\ copies' = copies /\ faults' = faults + 1 /\ req' = [req EXCEPT ![c] = NoReq]
        /\ requested' = requested
    BY DEF Abort, EndReq, tables
  <1>2. req'[c] = NoReq /\ \A d \in Clients : d # c => req'[d] = req[d]
    BY <1>1, StateFacts
  <1>3. /\ InTables' = InTables /\ Half \subseteq Half' \cup {req[c].id}
        /\ Pending \subseteq Pending' \cup {req[c].id}
    BY <1>1, HandsStep DEF InTables
  <1>4. \A x, p : Doing(x, p)' = Doing(x, p) \ {c}
    BY <1>1, DoingStep, NoReqFacts
  <1>5. faults \in Nat
    BY StateFacts, InboxAssumption
  <1>6. ASSUME NEW x \in Records
        PROVE  CopiesCounted(x)'
    <2>1. CopiesCounted(x)
      BY DEF CountInv
    <2>2. \A p : /\ Cardinality(Doing(x, p)') \in Nat
                 /\ Cardinality(Doing(x, p)') <= Cardinality(Doing(x, p))
                 /\ Cardinality(Doing(x, p)) <= Cardinality(Doing(x, p)') + 1
      <3> TAKE p
      <3> DEFINE s == Doing(x, p)
      <3>1. IsFiniteSet(s) /\ Cardinality(s) \in Nat
        BY CountFacts
      <3> HIDE DEF s
      <3>2. /\ IsFiniteSet(s \ {c})
            /\ Cardinality(s \ {c}) = IF c \in s THEN Cardinality(s) - 1 ELSE Cardinality(s)
        BY <3>1, FS_RemoveElement
      <3>3. Cardinality(s \ {c}) \in Nat
        BY <3>2, FS_CardinalityType
      <3>4. Cardinality(s \ {c}) <= Cardinality(s) /\ Cardinality(s) <= Cardinality(s \ {c}) + 1
        BY <3>1, <3>2
      <3> QED
        BY <1>4, <3>3, <3>4 DEF s
    <2>3. Cardinality(copies[x]) \in Nat /\ Cardinality(Clients) \in Nat
      BY CountFacts
    <2>4. CASE prints[x] = None
      <3>1. /\ Cardinality(copies[x]) <= Cardinality(Doing(x, "register")) + faults
            /\ Cardinality(Doing(x, "register")) <= Cardinality(Doing(x, "register")') + 1
            /\ Cardinality(Doing(x, "register")) \in Nat /\ Cardinality(Doing(x, "register")') \in Nat
        BY <2>1, <2>2, <2>4, CountFacts DEF CopiesCounted
      <3>2. Cardinality(copies[x]) <= Cardinality(Doing(x, "register")') + (faults + 1)
        BY <1>5, <2>3, <3>1
      <3> QED
        BY <1>1, <2>4, <3>2 DEF CopiesCounted
    <2>5. CASE prints[x] # None
      <3>1. /\ Cardinality(copies[x]) + Cardinality(Doing(x, "store")) <= Cardinality(Clients) + faults
            /\ Cardinality(Doing(x, "store")') <= Cardinality(Doing(x, "store"))
            /\ Cardinality(Doing(x, "store")) \in Nat /\ Cardinality(Doing(x, "store")') \in Nat
        BY <2>1, <2>2, <2>5, CountFacts DEF CopiesCounted
      <3>2. Cardinality(copies[x]) + Cardinality(Doing(x, "store")') <= Cardinality(Clients) + (faults + 1)
        BY <1>5, <2>3, <3>1
      <3> QED
        BY <1>1, <2>5, <3>2 DEF CopiesCounted
    <2> QED
      BY <2>4, <2>5
  <1>7. \A d \in Clients : req'[d].pc = "register" /\ Dedupe(d)'
                             => req'[d].id \in copies'[Head(req'[d].todo)]
    BY <1>1, <1>2, NoReqFacts DEF CountInv, Dedupe
  <1>8. /\ Silent' \subseteq Silent \cup {req[c].id}
        /\ Repeated' \subseteq Repeated \cup {Head(req[c].todo)}
        /\ Stranded' \subseteq Stranded \cup {req[c].id}
    <2>1. Silent' \subseteq Silent \cup {req[c].id} /\ Stranded' \subseteq Stranded \cup {req[c].id}
      BY <1>1, <1>3 DEF Silent, Stranded
    <2>2. \A x : x # Head(req[c].todo) => Doing(x, "register")' = Doing(x, "register")
      BY <1>4 DEF Doing
    <2>3. Repeated' \subseteq Repeated \cup {Head(req[c].todo)}
      BY <1>1, <2>2 DEF Repeated
    <2> QED
      BY <2>1, <2>3
  <1>9. /\ \E i : Silent' \subseteq Silent \cup {i}
        /\ \E x : Repeated' \subseteq Repeated \cup {x}
        /\ \E i : Stranded' \subseteq Stranded \cup {i}
    BY <1>8
  <1>10. faults' \in Nat /\ faults <= faults'
    BY <1>1, <1>5
  <1> QED
    BY <1>1, <1>6, <1>7, <1>9, <1>10, CountStep

(* One copy more, by a request that has reached its store.                   *)
LEMMA CopiedFacts ==
    ASSUME InboxInv, NEW c \in Clients, req[c].pc = "store", Dedupe(c)
    PROVE  LET x == Head(req[c].todo)
               i == req[c].id
           IN  /\ x \in Records /\ i \in FreshIds /\ i # None
               /\ Copied(c) = [copies EXCEPT ![x] = copies[x] \cup {i}]
               /\ Copied(c)[x] = copies[x] \cup {i}
               /\ \A y \in Records : y # x => Copied(c)[y] = copies[y]
               /\ Cardinality(Copied(c)[x]) \in Nat
               /\ Cardinality(Copied(c)[x]) <= Cardinality(copies[x]) + 1
               /\ Cardinality(Doing(x, "store") \ {c}) = Cardinality(Doing(x, "store")) - 1
  <1> DEFINE x == Head(req[c].todo)
             i == req[c].id
             d == Doing(x, "store")
  <1>1. x \in Records /\ i \in FreshIds /\ i # None
    BY AtHand, NoneFacts
  <1>2. Copied(c) = [copies EXCEPT ![x] = copies[x] \cup {i}]
    BY DEF Copied
  <1>3. c \in d
    BY DEF Doing
  <1> HIDE DEF x, i
  <1>4. Copied(c)[x] = copies[x] \cup {i} /\ \A y \in Records : y # x => Copied(c)[y] = copies[y]
    BY <1>1, <1>2, StateFacts
  <1>5. IsFiniteSet(copies[x]) /\ Cardinality(copies[x]) \in Nat /\ IsFiniteSet(d)
    BY <1>1, CountFacts
  <1>6. Cardinality(Copied(c)[x]) \in Nat /\ Cardinality(Copied(c)[x]) <= Cardinality(copies[x]) + 1
    <2>1. /\ IsFiniteSet(copies[x] \cup {i})
          /\ Cardinality(copies[x] \cup {i}) = IF i \in copies[x] THEN Cardinality(copies[x])
                                                ELSE Cardinality(copies[x]) + 1
      BY <1>5, FS_AddElement
    <2> QED
      BY <1>4, <1>5, <2>1
  <1> HIDE DEF d
  <1>7. Cardinality(d \ {c}) = Cardinality(d) - 1
    <2>1. Cardinality(d \ {c}) = IF c \in d THEN Cardinality(d) - 1 ELSE Cardinality(d)
      BY <1>5, FS_RemoveElement
    <2> QED
      BY <1>3, <2>1
  <1> QED
    BY <1>1, <1>2, <1>4, <1>6, <1>7 DEF x, i, d

(* Row, event and fingerprint at once.                                       *)
LEMMA StorePlainCount ==
    ASSUME InboxInv, CountInv, NEW c \in Clients, StorePlain(c),
           NEW i, i = req[c].id, NEW x, x = Head(req[c].todo)
    PROVE  CountInv'
  <1>1. /\ req[c].pc = "store" /\ plain' = [plain EXCEPT ![i] = x] /\ sealed' = sealed
        /\ events' = events \cup {i} /\ prints' = Registered(c) /\ copies' = Copied(c)
        /\ Advance(c, i) /\ requested' = requested /\ faults' = faults
    BY DEF StorePlain
  <1>2. req[c] \in Req /\ Form(req[c]) /\ i \in Ids /\ faults \in Nat
    BY <1>1, AtHand, StateFacts, InboxAssumption
  <1>3. PICK r : /\ req' = [req EXCEPT ![c] = r]
                 /\ r.kind = req[c].kind /\ r.pc \in {"answer", "look"}
                 /\ req[c].kind = "capture" => r.id = i
                 /\ Len(req[c].todo) = 1 => r.pc = "answer"
    BY <1>1, AdvanceShape
  <1>4. req'[c] = r /\ \A d \in Clients : d # c => req'[d] = req[d]
    BY <1>3, StateFacts
  <1>5. \A y, p : Doing(y, p)' = IF r.pc = p /\ r.kind \in {"adapter", "import"} /\ Head(r.todo) = y
                                   THEN Doing(y, p) \cup {c} ELSE Doing(y, p) \ {c}
    BY <1>3, DoingStep
  <1>6. \A y : Doing(y, "store")' = Doing(y, "store") \ {c}
    BY <1>3, <1>5
  <1>7. \A y : Doing(y, "register")' = Doing(y, "register")
    <2>1. \A y : c \notin Doing(y, "register")
      BY <1>1 DEF Doing
    <2> QED
      BY <1>3, <1>5, <2>1
  <1>8. \A y \in Records : CopiesCounted(y)' /\ (y \in Repeated' => y \in Repeated)
    <2>1. CASE ~Dedupe(c)
      <3>1. prints' = prints /\ copies' = copies
        BY <1>1, <2>1 DEF Registered, Copied
      <3>2. \A y : Doing(y, "store")' = Doing(y, "store")
        <4>1. \A y : c \notin Doing(y, "store")
          BY <2>1 DEF Doing
        <4> QED
          BY <1>6, <4>1
      <3> QED
        BY <1>1, <1>7, <3>1, <3>2 DEF CopiesCounted, CountInv, Repeated
    <2>2. CASE Dedupe(c)
      <3>1. /\ x \in Records /\ i \in FreshIds /\ i # None
            /\ copies'[x] = copies[x] \cup {i} /\ \A y \in Records : y # x => copies'[y] = copies[y]
            /\ Cardinality(copies'[x]) \in Nat
            /\ Cardinality(copies'[x]) <= Cardinality(copies[x]) + 1
            /\ Cardinality(Doing(x, "store") \ {c}) = Cardinality(Doing(x, "store")) - 1
        BY <1>1, <2>2, CopiedFacts
      <3>2. prints'[x] # None /\ \A y \in Records : y # x => prints'[y] = prints[y]
        BY <1>1, <2>2, <3>1, StateFacts DEF Registered
      <3>3. ASSUME NEW y \in Records, y # x
            PROVE  CopiesCounted(y)' /\ (y \in Repeated' => y \in Repeated)
        <4>1. Doing(y, "store")' = Doing(y, "store")
          <5>1. c \notin Doing(y, "store")
            BY <3>3 DEF Doing
          <5> QED
            BY <1>6, <5>1
        <4> QED
          BY <1>1, <1>7, <3>1, <3>2, <3>3, <4>1 DEF CopiesCounted, CountInv, Repeated
      <3>4. CopiesCounted(x)'
        <4>1. CopiesCounted(x)
          BY <3>1 DEF CountInv
        <4>2. /\ Cardinality(copies[x]) \in Nat /\ Cardinality(Clients) \in Nat
              /\ Cardinality(Doing(x, "store")) \in Nat /\ Cardinality(Doing(x, "register")) \in Nat
              /\ Cardinality(Doing(x, "register")) + Cardinality(Doing(x, "store"))
                    <= Cardinality(Clients)
          BY <3>1, CountFacts
        <4>3. Cardinality(copies[x]) + Cardinality(Doing(x, "store")) <= Cardinality(Clients) + faults
          BY <1>2, <4>1, <4>2 DEF CopiesCounted
        <4>4. Cardinality(Doing(x, "store")') = Cardinality(Doing(x, "store")) - 1
          BY <1>6, <3>1
        <4>5. Cardinality(copies'[x]) + Cardinality(Doing(x, "store")') <= Cardinality(Clients) + faults
          BY <1>2, <3>1, <4>2, <4>3, <4>4
        <4> QED
          BY <1>1, <3>2, <4>5 DEF CopiesCounted
      <3>5. x \notin Repeated'
        BY <3>2 DEF Repeated
      <3> QED
        BY <3>3, <3>4, <3>5
    <2> QED
      BY <2>1, <2>2
  <1>9. \A d \in Clients : req'[d].pc = "register" /\ Dedupe(d)'
                             => req'[d].id \in copies'[Head(req'[d].todo)]
    <2> TAKE d \in Clients
    <2> HAVE req'[d].pc = "register" /\ Dedupe(d)'
    <2>1. d # c /\ req'[d] = req[d]
      BY <1>3, <1>4
    <2>2. req[d].pc = "register" /\ Dedupe(d)
      BY <2>1 DEF Dedupe
    <2>3. req[d].id \in copies[Head(req[d].todo)] /\ Head(req[d].todo) \in Records
      BY <2>2, AtHand DEF CountInv
    <2>4. copies[Head(req[d].todo)] \subseteq copies'[Head(req[d].todo)]
      <3>1. CASE Dedupe(c)
        BY <1>1, <2>3, <3>1, CopiedFacts
      <3>2. CASE ~Dedupe(c)
        BY <1>1, <3>2 DEF Copied
      <3> QED
        BY <3>1, <3>2
    <2> QED
      BY <2>1, <2>3, <2>4
  <1>10. InTables' \subseteq InTables \cup {i}
    BY <1>1, StateFacts DEF InTables, Table
  <1>11. Half \subseteq Half' /\ Pending \subseteq Pending' /\ (i \in NamedIds => i \in Pending')
    <2>1. Half \subseteq Half' /\ Pending \subseteq Pending'
      BY <1>1, <1>3, HandsStep
    <2>2. req[c].kind = "capture" => i \in Pending'
      <3>1. req[c].kind = "capture" => r.kind = "capture" /\ r.pc = "answer" /\ r.id \in Ids /\ r.id = i
        BY <1>1, <1>2, <1>3 DEF Form
      <3> QED
        BY <1>3, <3>1, HandsStep
    <2>3. req[c].kind # "capture" => Dedupe(c)
      BY <1>1, <1>2 DEF Req, Kinds, Form, Dedupe
    <2>4. Dedupe(c) => i \notin NamedIds
      BY <1>1, AtHand, InboxAssumption
    <2> QED
      BY <2>1, <2>2, <2>3, <2>4
  <1>12. Silent' \subseteq Silent /\ Stranded' \subseteq Stranded
    BY <1>1, <1>10, <1>11 DEF Silent, Stranded
  <1>13. Repeated' \subseteq Repeated
    BY <1>8 DEF Repeated
  <1> QED
    BY <1>1, <1>2, <1>8, <1>9, <1>12, <1>13, CountStep

(* The row alone: the request keeps it in its hands.                         *)
LEMMA StoreSealedCount ==
    ASSUME InboxInv, CountInv, NEW c \in Clients, StoreSealed(c),
           NEW i, i = req[c].id, NEW x, x = Head(req[c].todo)
    PROVE  CountInv'
  <1> DEFINE r == [req[c] EXCEPT !.pc = "register"]
  <1>1. /\ req[c].pc = "store" /\ sealed' = [sealed EXCEPT ![i] = x] /\ plain' = plain
        /\ events' = events /\ prints' = prints /\ copies' = Copied(c)
        /\ requested' = requested /\ faults' = faults
    BY DEF StoreSealed
  <1>2. req[c] \in Req /\ Form(req[c]) /\ i \in Ids /\ faults \in Nat
    BY <1>1, AtHand, StateFacts, InboxAssumption
  <1>3. /\ req' = [req EXCEPT ![c] = r] /\ r.kind = req[c].kind /\ r.pc = "register" /\ r.id = i
        /\ Head(r.todo) = x
    BY <1>2, StateFacts DEF StoreSealed, Req
  <1> HIDE DEF r
  <1>4. req'[c] = r /\ \A d \in Clients : d # c => req'[d] = req[d]
    BY <1>3, StateFacts
  <1>5. \A y, p : Doing(y, p)' = IF r.pc = p /\ r.kind \in {"adapter", "import"} /\ Head(r.todo) = y
                                   THEN Doing(y, p) \cup {c} ELSE Doing(y, p) \ {c}
    BY <1>3, DoingStep
  <1>6. \A y : Doing(y, "store")' = Doing(y, "store") \ {c}
    BY <1>3, <1>5
  <1>7. \A y : c \notin Doing(y, "register")
    BY <1>1 DEF Doing
  <1>8. \A y \in Records : CopiesCounted(y)' /\ (y \in Repeated' => y \in Repeated)
    <2>1. CASE ~Dedupe(c)
      <3>1. copies' = copies
        BY <1>1, <2>1 DEF Copied
      <3>2. r.kind \notin {"adapter", "import"}
        BY <1>3, <2>1 DEF Dedupe
      <3>3. \A y : Doing(y, "store")' = Doing(y, "store")
        <4>1. \A y : c \notin Doing(y, "store")
          BY <2>1 DEF Doing
        <4> QED
          BY <1>6, <4>1
      <3>4. \A y : Doing(y, "register")' = Doing(y, "register")
        BY <1>5, <1>7, <3>2
      <3> QED
        BY <1>1, <3>1, <3>3, <3>4 DEF CopiesCounted, CountInv, Repeated
    <2>2. CASE Dedupe(c)
      <3>1. /\ x \in Records /\ i \in FreshIds
            /\ copies'[x] = copies[x] \cup {i} /\ \A y \in Records : y # x => copies'[y] = copies[y]
            /\ Cardinality(copies'[x]) \in Nat
            /\ Cardinality(copies'[x]) <= Cardinality(copies[x]) + 1
            /\ Cardinality(Doing(x, "store") \ {c}) = Cardinality(Doing(x, "store")) - 1
        BY <1>1, <2>2, CopiedFacts
      <3>2. r.kind \in {"adapter", "import"}
        BY <1>3, <2>2 DEF Dedupe
      <3>3. ASSUME NEW y \in Records, y # x
            PROVE  CopiesCounted(y)' /\ (y \in Repeated' => y \in Repeated)
        <4>1. Doing(y, "store")' = Doing(y, "store")
          <5>1. c \notin Doing(y, "store")
            BY <3>3 DEF Doing
          <5> QED
            BY <1>6, <5>1
        <4>2. Doing(y, "register")' = Doing(y, "register")
          BY <1>3, <1>5, <1>7, <3>3
        <4> QED
          BY <1>1, <3>1, <3>3, <4>1, <4>2 DEF CopiesCounted, CountInv, Repeated
      <3>4. Doing(x, "register")' = Doing(x, "register") \cup {c}
        BY <1>3, <1>5, <3>2
      <3>5. CopiesCounted(x)'
        <4>1. CopiesCounted(x)
          BY <3>1 DEF CountInv
        <4>2. /\ Cardinality(copies[x]) \in Nat /\ Cardinality(Clients) \in Nat
              /\ Cardinality(Doing(x, "store")) \in Nat /\ Cardinality(Doing(x, "register")) \in Nat
              /\ IsFiniteSet(Doing(x, "register"))
          BY <3>1, CountFacts
        <4>3. Cardinality(Doing(x, "store")') = Cardinality(Doing(x, "store")) - 1
          BY <1>6, <3>1
        <4>4. Cardinality(Doing(x, "register")') = Cardinality(Doing(x, "register")) + 1
          <5> DEFINE d == Doing(x, "register")
          <5>1. IsFiniteSet(d) /\ c \notin d
            BY <1>7, <4>2
          <5> HIDE DEF d
          <5>2. Cardinality(d \cup {c}) = Cardinality(d) + 1
            BY <5>1, FS_AddElement
          <5> QED
            BY <3>4, <5>2 DEF d
        <4>5. CASE prints[x] = None
          <5>1. Cardinality(copies[x]) <= Cardinality(Doing(x, "register")) + faults
            BY <4>1, <4>5 DEF CopiesCounted
          <5>2. Cardinality(copies'[x]) <= Cardinality(Doing(x, "register")') + faults
            BY <1>2, <3>1, <4>2, <4>4, <5>1
          <5> QED
            BY <1>1, <4>5, <5>2 DEF CopiesCounted
        <4>6. CASE prints[x] # None
          <5>1. Cardinality(copies[x]) + Cardinality(Doing(x, "store")) <= Cardinality(Clients) + faults
            BY <4>1, <4>6 DEF CopiesCounted
          <5>2. Cardinality(copies'[x]) + Cardinality(Doing(x, "store")') <= Cardinality(Clients) + faults
            BY <1>2, <3>1, <4>2, <4>3, <5>1
          <5> QED
            BY <1>1, <4>6, <5>2 DEF CopiesCounted
        <4> QED
          BY <4>5, <4>6
      <3>6. x \notin Repeated'
        BY <3>4 DEF Repeated
      <3> QED
        BY <3>3, <3>5, <3>6
    <2> QED
      BY <2>1, <2>2
  <1>9. \A d \in Clients : req'[d].pc = "register" /\ Dedupe(d)'
                             => req'[d].id \in copies'[Head(req'[d].todo)]
    <2> TAKE d \in Clients
    <2> HAVE req'[d].pc = "register" /\ Dedupe(d)'
    <2>1. CASE d = c
      <3>1. Dedupe(c)
        BY <1>3, <1>4, <2>1 DEF Dedupe
      <3>2. x \in Records /\ copies'[x] = copies[x] \cup {i}
        BY <1>1, <3>1, CopiedFacts
      <3> QED
        BY <1>3, <1>4, <2>1, <3>2
    <2>2. CASE d # c
      <3>1. req'[d] = req[d] /\ req[d].pc = "register" /\ Dedupe(d)
        BY <1>4, <2>2 DEF Dedupe
      <3>2. req[d].id \in copies[Head(req[d].todo)] /\ Head(req[d].todo) \in Records
        BY <3>1, AtHand DEF CountInv
      <3>3. copies[Head(req[d].todo)] \subseteq copies'[Head(req[d].todo)]
        <4>1. CASE Dedupe(c)
          BY <1>1, <3>2, <4>1, CopiedFacts
        <4>2. CASE ~Dedupe(c)
          BY <1>1, <4>2 DEF Copied
        <4> QED
          BY <4>1, <4>2
      <3> QED
        BY <3>1, <3>2, <3>3
    <2> QED
      BY <2>1, <2>2
  <1>10. InTables' \subseteq InTables \cup {i}
    BY <1>1, StateFacts DEF InTables, Table
  <1>11. Half \subseteq Half' /\ Pending \subseteq Pending' /\ i \in Half' /\ (i \in NamedIds => i \in Pending')
    <2>1. Half \subseteq Half' /\ Pending \subseteq Pending'
      BY <1>1, <1>3, HandsStep
    <2>2. i \in Half' /\ (req[c].kind = "capture" => i \in Pending')
      BY <1>2, <1>3, HandsStep
    <2>3. req[c].kind # "capture" => Dedupe(c)
      BY <1>1, <1>2 DEF Req, Kinds, Form, Dedupe
    <2>4. Dedupe(c) => i \notin NamedIds
      BY <1>1, AtHand, InboxAssumption
    <2> QED
      BY <2>1, <2>2, <2>3, <2>4
  <1>12. Silent' \subseteq Silent /\ Stranded' \subseteq Stranded
    BY <1>1, <1>10, <1>11 DEF Silent, Stranded
  <1>13. Repeated' \subseteq Repeated
    BY <1>8 DEF Repeated
  <1> QED
    BY <1>1, <1>2, <1>8, <1>9, <1>12, <1>13, CountStep

(* Event and fingerprint: what was half done is whole.                       *)
LEMMA RegisterCount ==
    ASSUME InboxInv, CountInv, NEW c \in Clients, Register(c),
           NEW i, i = req[c].id, NEW x, x = Head(req[c].todo)
    PROVE  CountInv'
  <1>1. /\ req[c].pc = "register" /\ plain' = plain /\ sealed' = sealed
        /\ events' = events \cup {i} /\ prints' = Registered(c) /\ copies' = copies
        /\ Advance(c, i) /\ requested' = requested /\ faults' = faults
    BY DEF Register, history
  <1>2. req[c] \in Req /\ Form(req[c]) /\ i \in Ids /\ faults \in Nat
    BY <1>1, AtHand, StateFacts, InboxAssumption
  <1>3. PICK r : /\ req' = [req EXCEPT ![c] = r]
                 /\ r.kind = req[c].kind /\ r.pc \in {"answer", "look"}
                 /\ req[c].kind = "capture" => r.id = i
                 /\ Len(req[c].todo) = 1 => r.pc = "answer"
    BY <1>1, AdvanceShape
  <1>4. req'[c] = r /\ \A d \in Clients : d # c => req'[d] = req[d]
    BY <1>3, StateFacts
  <1>5. \A y, p : Doing(y, p)' = IF r.pc = p /\ r.kind \in {"adapter", "import"} /\ Head(r.todo) = y
                                   THEN Doing(y, p) \cup {c} ELSE Doing(y, p) \ {c}
    BY <1>3, DoingStep
  <1>6. \A y : Doing(y, "store")' = Doing(y, "store")
    <2>1. \A y : c \notin Doing(y, "store")
      BY <1>1 DEF Doing
    <2> QED
      BY <1>3, <1>5, <2>1
  <1>7. \A y : y # x \/ ~Dedupe(c) => Doing(y, "register")' = Doing(y, "register")
    <2>1. \A y : y # x \/ ~Dedupe(c) => c \notin Doing(y, "register")
      BY DEF Doing
    <2>2. \A y : Doing(y, "register")' = Doing(y, "register") \ {c}
      BY <1>3, <1>5
    <2> QED
      BY <2>1, <2>2
  <1>8. \A y \in Records : CopiesCounted(y)' /\ (y \in Repeated' => y \in Repeated)
    <2>1. CASE ~Dedupe(c)
      <3>1. prints' = prints
        BY <1>1, <2>1 DEF Registered
      <3> QED
        BY <1>1, <1>6, <1>7, <2>1, <3>1 DEF CopiesCounted, CountInv, Repeated
    <2>2. CASE Dedupe(c)
      <3>1. x \in Records /\ i \in FreshIds /\ i # None
        BY <1>1, <2>2, AtHand, NoneFacts
      <3>2. prints'[x] # None /\ \A y \in Records : y # x => prints'[y] = prints[y]
        BY <1>1, <2>2, <3>1, StateFacts DEF Registered
      <3>3. \A y \in Records : y # x => CopiesCounted(y)' /\ (y \in Repeated' => y \in Repeated)
        BY <1>1, <1>6, <1>7, <3>2 DEF CopiesCounted, CountInv, Repeated
      <3>4. CopiesCounted(x)'
        <4>1. CopiesCounted(x)
          BY <3>1 DEF CountInv
        <4>2. /\ Cardinality(copies[x]) \in Nat /\ Cardinality(Clients) \in Nat
              /\ Cardinality(Doing(x, "store")) \in Nat /\ Cardinality(Doing(x, "register")) \in Nat
              /\ Cardinality(Doing(x, "register")) + Cardinality(Doing(x, "store"))
                    <= Cardinality(Clients)
          BY <3>1, CountFacts
        <4>3. Cardinality(copies[x]) + Cardinality(Doing(x, "store")) <= Cardinality(Clients) + faults
          BY <1>2, <4>1, <4>2 DEF CopiesCounted
        <4> QED
          BY <1>1, <1>6, <3>2, <4>3 DEF CopiesCounted
      <3>5. x \notin Repeated'
        BY <3>2 DEF Repeated
      <3> QED
        BY <3>3, <3>4, <3>5
    <2> QED
      BY <2>1, <2>2
  <1>9. \A d \in Clients : req'[d].pc = "register" /\ Dedupe(d)'
                             => req'[d].id \in copies'[Head(req'[d].todo)]
    BY <1>1, <1>3, <1>4 DEF CountInv, Dedupe
  <1>10. InTables' = InTables
    BY <1>1 DEF InTables
  <1>11. Half \subseteq Half' \cup {i} /\ Pending \subseteq Pending'
    <2>1. Half \subseteq Half' \cup {i} /\ Pending \subseteq Pending' \cup {i}
      BY <1>3, HandsStep
    <2>2. CASE req[c].kind = "capture"
      <3>1. r.kind = "capture" /\ r.pc = "answer" /\ r.id \in Ids /\ r.id = i
        BY <1>1, <1>2, <1>3, <2>2 DEF Form
      <3>2. i \in Pending'
        BY <1>3, <3>1, HandsStep
      <3> QED
        BY <2>1, <3>2
    <2>3. CASE req[c].kind # "capture"
      BY <1>3, <2>1, <2>3, HandsStep
    <2> QED
      BY <2>2, <2>3
  <1>12. Silent' \subseteq Silent /\ Stranded' \subseteq Stranded
    BY <1>1, <1>10, <1>11 DEF Silent, Stranded
  <1>13. Repeated' \subseteq Repeated
    BY <1>8 DEF Repeated
  <1> QED
    BY <1>1, <1>2, <1>8, <1>9, <1>12, <1>13, CountStep

(* Deletions, migrations and restarts take no part in requests.              *)
LEMMA TableCount ==
    ASSUME InboxInv, CountInv,
           Move \/ (\E v \in BOOLEAN : Restart(v)) \/ (\E i \in Ids : Delete(i)) \/ UNCHANGED vars
    PROVE  CountInv'
  <1>1. /\ req' = req /\ events' = events /\ prints' = prints /\ copies' = copies
        /\ requested' = requested /\ faults' = faults
    BY DEF Move, ListPlain, Migrate, MigrateConflict, Restart, Delete, vars, tables, history
  <1>2. InTables' \subseteq InTables
    <2>1. CASE Migrate
      <3>1. /\ plain' = [i \in Ids |-> IF listed.rows[i] # None THEN None ELSE plain[i]]
            /\ sealed' = [i \in Ids |-> IF listed.rows[i] # None THEN listed.rows[i] ELSE sealed[i]]
        BY <2>1 DEF Migrate
      <3>2. \A i \in Ids : listed.rows[i] # None => plain[i] # None
        BY DEF InboxInv, Listing
      <3> QED
        BY <3>1, <3>2 DEF InTables
    <2>2. CASE \E i \in Ids : Delete(i)
      BY <2>2, StateFacts DEF Delete, InTables, Table
    <2>3. CASE ~Migrate /\ ~\E i \in Ids : Delete(i)
      <3>1. plain' = plain /\ sealed' = sealed
        BY <2>3 DEF Move, ListPlain, MigrateConflict, Restart, vars, tables
      <3> QED
        BY <3>1 DEF InTables
    <2> QED
      BY <2>1, <2>2, <2>3
  <1>3. Half' = Half /\ Pending' = Pending /\ \A x, p : Doing(x, p)' = Doing(x, p)
    BY <1>1 DEF Half, Pending, Doing, Dedupe
  <1>4. \A x \in Records : CopiesCounted(x)'
    BY <1>1, <1>3 DEF CopiesCounted, CountInv
  <1>5. \A d \in Clients : req'[d].pc = "register" /\ Dedupe(d)'
                             => req'[d].id \in copies'[Head(req'[d].todo)]
    BY <1>1 DEF CountInv, Dedupe
  <1>6. Silent' \subseteq Silent /\ Stranded' \subseteq Stranded /\ Repeated' \subseteq Repeated
    BY <1>1, <1>2, <1>3 DEF Silent, Stranded, Repeated
  <1> QED
    BY <1>1, <1>4, <1>5, <1>6, CountStep, StateFacts, InboxAssumption

(* Every step keeps the count.                                               *)
LEMMA CountKept ==
    ASSUME InboxInv, CountInv, [InboxNext]_vars
    PROVE  CountInv'
  <1>1. ASSUME NEW c \in Clients, Serve(c)
        PROVE  CountInv'
    <2>1. ASSUME NEW i \in NamedIds, NEW x \in Captures, PostCapture(c, i, x)
          PROVE  CountInv'
      <3> DEFINE r == [NoReq EXCEPT !.kind = "capture", !.pc = "store", !.id = i,
                                    !.todo = <<x>>, !.vault = vaultOn]
      <3>1. /\ req' = [req EXCEPT ![c] = r] /\ req[c].pc = "idle"
            /\ UNCHANGED <<tables, requested, copies, faults>>
        BY <2>1 DEF PostCapture, Idle, history
      <3>2. r.kind = "capture" /\ r.pc = "store"
        BY DEF NoReq
      <3> HIDE DEF r
      <3> QED
        BY <3>1, <3>2, QuietCount
    <2>2. ASSUME NEW k \in {"adapter", "import"}, NEW b \in Batches, PostRecords(c, k, b)
          PROVE  CountInv'
      <3> DEFINE r == [NoReq EXCEPT !.kind = k, !.pc = "look", !.todo = b,
                                    !.vault = (vaultOn \/ k = "import")]
      <3>1. /\ req' = [req EXCEPT ![c] = r] /\ req[c].pc = "idle"
            /\ UNCHANGED <<tables, requested, copies, faults>>
        BY <2>2 DEF PostRecords, Idle, history
      <3>2. r.pc = "look"
        BY DEF NoReq
      <3> HIDE DEF r
      <3> QED
        BY <3>1, <3>2, QuietCount
    <2>3. CASE SkipDuplicate(c)
      <3>1. /\ req[c].pc = "look" /\ Advance(c, prints[Head(req[c].todo)])
            /\ UNCHANGED <<tables, requested, copies, faults>>
        BY <2>3 DEF SkipDuplicate, history
      <3>2. PICK r : req' = [req EXCEPT ![c] = r] /\ r.pc \in {"answer", "look"}
        BY <3>1, AdvanceShape
      <3> QED
        BY <3>1, <3>2, QuietCount
    <2>4. ASSUME NEW i \in FreshIds, FindNone(c, i)
          PROVE  CountInv'
      <3> DEFINE r == [req[c] EXCEPT !.pc = "store", !.id = i]
      <3>1. /\ req[c].pc = "look" /\ prints[Head(req[c].todo)] = None
            /\ UNCHANGED <<tables, requested, copies, faults>>
        BY <2>4 DEF FindNone, history
      <3>2. req' = [req EXCEPT ![c] = r] /\ r.pc = "store" /\ Head(r.todo) = Head(req[c].todo)
        BY <2>4, StateFacts DEF FindNone, Req
      <3> HIDE DEF r
      <3> QED
        BY <3>1, <3>2, QuietCount
    <2>5. CASE StoreConflict(c)
      <3>1. /\ req[c].pc = "store" /\ req' = [req EXCEPT ![c] = NoReq]
            /\ UNCHANGED <<tables, requested, copies, faults>>
        BY <2>5 DEF StoreConflict, EndReq, history
      <3>2. NoReq.pc = "idle"
        BY DEF NoReq
      <3> QED
        BY <3>1, <3>2, QuietCount
    <2> QED
      BY <1>1, <2>1, <2>2, <2>3, <2>4, <2>5, StorePlainCount, StoreSealedCount, RegisterCount,
         AnswerCount, AbortCount DEF Serve
  <1> QED
    BY <1>1, TableCount DEF InboxNext

(* Nothing is undone in an empty inbox.                                      *)
LEMMA CountStart ==
    ASSUME InboxInit, InboxInv
    PROVE  CountInv
  <1>1. /\ \A i \in Ids : plain[i] = None /\ sealed[i] = None
        /\ \A x \in Records : prints[x] = None /\ copies[x] = {}
        /\ \A c \in Clients : req[c].pc = "idle"
        /\ faults = 0
    BY DEF InboxInit, EmptyTable, NoReq
  <1>2. Silent = {} /\ Repeated = {} /\ Stranded = {}
    BY <1>1 DEF Silent, Repeated, Stranded, InTables
  <1>3. Bounded({}, 0)
    BY FS_EmptySet DEF Bounded
  <1>4. ASSUME NEW x \in Records
        PROVE  CopiesCounted(x)
    <2>1. Cardinality(copies[x]) = 0 /\ Cardinality(Doing(x, "register")) \in Nat
      BY <1>1, CountFacts, FS_EmptySet
    <2> QED
      BY <1>1, <2>1 DEF CopiesCounted
  <1> QED
    BY <1>1, <1>2, <1>3, <1>4 DEF CountInv

(* The counts hold in every state of the inbox.                              *)
THEOREM InboxCounts == InboxSpec => []CountInv
  <1>1. InboxInit => CountInv
    BY InboxStart, CountStart
  <1>2. InboxInv /\ CountInv /\ [InboxNext]_vars => CountInv'
    BY CountKept
  <1> QED
    BY <1>1, <1>2, InboxInvariant, PTL DEF InboxSpec

(* One content is imported once, except by requests that overlap and by      *)
(* failures between a row and its fingerprint (insert_capture,               *)
(* register_fingerprint).                                                    *)
THEOREM InboxCopiesBounded == InboxSpec => []CopiesBounded
  <1>1. ASSUME InboxInv, CountInv, NEW x \in Records
        PROVE  Cardinality(copies[x]) <= Cardinality(Clients) + faults
    <2>1. CopiesCounted(x)
      BY <1>1 DEF CountInv
    <2>2. /\ Cardinality(copies[x]) \in Nat /\ Cardinality(Clients) \in Nat
          /\ Cardinality(Doing(x, "store")) \in Nat /\ Cardinality(Doing(x, "register")) \in Nat
          /\ Cardinality(Doing(x, "register")) + Cardinality(Doing(x, "store")) <= Cardinality(Clients)
      BY <1>1, CountFacts
    <2>3. faults \in Nat
      BY <1>1, StateFacts, InboxAssumption
    <2>4. CASE prints[x] = None
      <3>1. Cardinality(copies[x]) <= Cardinality(Doing(x, "register")) + faults
        BY <2>1, <2>4 DEF CopiesCounted
      <3> QED
        BY <2>2, <2>3, <3>1
    <2>5. CASE prints[x] # None
      <3>1. Cardinality(copies[x]) + Cardinality(Doing(x, "store")) <= Cardinality(Clients) + faults
        BY <2>1, <2>5 DEF CopiesCounted
      <3> QED
        BY <2>2, <2>3, <3>1
    <2> QED
      BY <2>4, <2>5
  <1>2. InboxInv /\ CountInv => CopiesBounded
    BY <1>1 DEF CopiesBounded
  <1> QED
    BY <1>2, InboxInvariant, InboxCounts, PTL

(* What no event speaks of, what a later import would repeat, and what no    *)
(* dispatch was started for, is in the hands of a request or due to a        *)
(* failure (insert_capture, _handle_private_capture).                        *)
THEOREM InboxNoneForgotten == InboxSpec => []NoneForgotten
  <1> DEFINE Open == {req[c].id : c \in Clients}
             Repeatable == {x \in Records : copies[x] # {} /\ prints[x] = None}
             Waiting == {i \in NamedIds \ requested : plain[i] # None \/ sealed[i] # None}
             silent == (Rows(plain) \cup Rows(sealed)) \ (events \cup Open)
             repeated == {x \in Repeatable : copies[x] \cap Open = {}}
  <1>1. ASSUME InboxInv, CountInv
        PROVE  NoneForgotten
    <2>1. Bounded(Silent, faults) /\ Bounded(Repeated, faults) /\ Bounded(Stranded, faults)
      BY <1>1 DEF CountInv
    <2>2. faults \in Nat
      BY <1>1, StateFacts, InboxAssumption
    <2>3. silent \subseteq Silent
      BY DEF Silent, InTables, Half, Rows
    <2>4. Waiting \ Open \subseteq Stranded
      BY NoneFacts DEF Stranded, InTables, Pending
    <2>5. repeated \subseteq Repeated
      <3> SUFFICES ASSUME NEW x \in repeated
                   PROVE  x \in Repeated
        OBVIOUS
      <3>1. x \in Records /\ copies[x] # {} /\ prints[x] = None /\ copies[x] \cap Open = {}
        OBVIOUS
      <3>2. ASSUME NEW c \in Doing(x, "register")
            PROVE  FALSE
        <4>1. c \in Clients /\ req[c].pc = "register" /\ Dedupe(c) /\ Head(req[c].todo) = x
          BY <3>2 DEF Doing
        <4>2. req[c].id \in copies[x]
          BY <1>1, <4>1 DEF CountInv
        <4> QED
          BY <3>1, <4>1, <4>2
      <3> QED
        BY <3>1, <3>2 DEF Repeated
    <2> HIDE DEF silent, repeated, Waiting, Open
    <2>6. Bounded(silent, faults) /\ Bounded(repeated, faults) /\ Bounded(Waiting \ Open, faults)
      BY <2>1, <2>2, <2>3, <2>4, <2>5, BoundedFacts
    <2> USE DEF silent, repeated, Waiting, Open
    <2> QED
      BY <2>6 DEF NoneForgotten, Bounded
  <1> QED
    BY <1>1, InboxInvariant, InboxCounts, PTL

=============================================================================
