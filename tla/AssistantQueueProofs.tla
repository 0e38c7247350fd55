------------------------ MODULE AssistantQueueProofs ------------------------
(***************************************************************************)
(* Proofs about the assistant inbox of the browser, for every number of    *)
(* pages, operations and captures.  The invariant QueueInv says of each    *)
(* operation under way what it may rely on as long as no other one has     *)
(* written what it works on (Reliable), and that a capture whose first     *)
(* write is still to come is nowhere (Births).                             *)
(***************************************************************************)
EXTENDS AssistantQueue, TLAPS

(* An operation is at a step of its kind, and has what the step needs.       *)
Shape(r) ==
    /\ r.pc \in {"send", "get"} => r.kind = "update"
    /\ r.pc = "put" => r.kind \in {"save", "update"}
    /\ r.pc = "add" => r.kind = "import"
    /\ r.pc = "clear" => r.kind \in {"import", "reset"}
    /\ r.pc = "backup" => r.kind \in {"import", "export"}
    /\ r.kind \in {"save", "update"} => r.c \in Captures
    /\ r.pc # "idle" => r.tab \in Tabs
    /\ r.kind = "none" => r.pc = "idle"
    /\ r.kind = "import" /\ r.pc \in {"backup", "clear"} => r.todo = DOMAIN r.chosen
    /\ r.kind = "import" => r.todo \subseteq DOMAIN r.chosen

(* What was written, according to IndexedDB as d says and to the writes z    *)
(* whose transactions were aborted.                                          *)
Lasting(d, z) == DOMAIN d \cup {c \in Captures : <<c, "put">> \in z}
Unset(c, z) == {m \in Marks : <<c, m>> \in z}

(* What a clean operation relies on: d is IndexedDB, m the memories, f the   *)
(* fallbacks, k the marks, z the aborted writes.                             *)
SavedThere(r, d, f, z) ==
    r.kind = "save" /\ r.pc = "list" /\ r.clean /\ ~f[r.tab] => r.c \in Lasting(d, z)

ReadAllMarks(r, k, z) ==
    r.kind = "update" /\ r.pc = "put" /\ r.clean => k[r.c] \subseteq r.read \cup Unset(r.c, z)

AddedThere(r, d, m, z) ==
    r.kind = "import" /\ r.pc \in {"add", "list"} /\ r.clean
        => DOMAIN r.chosen \ r.todo \subseteq Lasting(d, z) \cup DOMAIN m[r.tab]

Reliable(r, d, m, f, k, z) ==
    SavedThere(r, d, f, z) /\ ReadAllMarks(r, k, z) /\ AddedThere(r, d, m, z)

Saving(r, c) == r.kind = "save" /\ r.pc = "put" /\ r.c = c
Rewriting(r, c) == r.kind = "update" /\ r.pc = "put" /\ r.c = c

Unborn(c) == c \notin used \/ \E u \in Calls : Saving(call[u], c)

Nowhere(c) ==
    /\ c \notin DOMAIN db /\ c \notin DOMAIN file
    /\ \A t \in Tabs : c \notin DOMAIN memory[t]
    /\ \A v \in Calls : c \notin DOMAIN call[v].chosen /\ ~Rewriting(call[v], c)
    /\ marked[c] = {}

Births ==
    /\ \A c \in Captures : Unborn(c) => Nowhere(c)
    /\ \A c \in Captures : \A u, v \in Calls :
         Saving(call[u], c) /\ Saving(call[v], c) => u = v /\ c \in used

QueueInv ==
    /\ QueueTypeOK
    /\ \A u \in Calls : Shape(call[u])
    /\ \A u \in Calls : Reliable(call[u], db, memory, fallback, marked, undone)
    /\ Births
    /\ told \subseteq Lasting(db, undone)
    /\ MarksKept

-----------------------------------------------------------------------------
(* What is known of a set of captures and of writing one into it.            *)
LEMMA StoreFacts ==
    ASSUME NEW s \in Stores
    PROVE  /\ DOMAIN s \subseteq Captures
           /\ \A c \in DOMAIN s : s[c] \subseteq Marks
  BY DEF Stores

(* Writing a capture adds it with its marks and leaves the others alone.     *)
LEMMA PutFacts ==
    ASSUME NEW s \in Stores, NEW c \in Captures, NEW r \in SUBSET Marks
    PROVE  /\ Put(s, c, r) \in Stores
           /\ DOMAIN Put(s, c, r) = DOMAIN s \cup {c}
           /\ Put(s, c, r)[c] = r
           /\ \A x \in DOMAIN s : x # c => Put(s, c, r)[x] = s[x]
  <1>1. DOMAIN s \subseteq Captures /\ \A x \in DOMAIN s : s[x] \subseteq Marks
    BY StoreFacts
  <1>2. DOMAIN s \cup {c} \in SUBSET Captures
    BY <1>1
  <1>3. Put(s, c, r) \in [DOMAIN s \cup {c} -> SUBSET Marks]
    BY <1>1 DEF Put
  <1>4. Put(s, c, r) \in Stores
    BY <1>2, <1>3 DEF Stores
  <1>5. DOMAIN Put(s, c, r) = DOMAIN s \cup {c} /\ Put(s, c, r)[c] = r
    BY DEF Put
  <1>6. \A x \in DOMAIN s : x # c => Put(s, c, r)[x] = s[x]
    BY DEF Put
  <1> QED
    BY <1>4, <1>5, <1>6

(* No capture is in the empty set of captures.                               *)
LEMMA EmptyFacts == Empty \in Stores /\ DOMAIN Empty = {}
  BY DEF Stores, Empty

(* An operation that has ended, or not begun, is of the type.                *)
LEMMA NoCallType == NoCall \in Call
  BY EmptyFacts DEF NoCall, Call, Kinds, Steps, Marks

(* The marks a call writes are marks, and the stores in the state are what    *)
(* the lemmas above speak of.                                                *)
LEMMA InMemoryType ==
    ASSUME QueueTypeOK, NEW t \in Tabs, InDatabase(t) \/ InMemory(t) \/ Aborted(t)
    PROVE  /\ fallback' \in [Tabs -> BOOLEAN] /\ errors' \in 0..MaxErrors
           /\ \A x \in Tabs : fallback[x] => fallback'[x]
           /\ InDatabase(t) => fallback' = fallback
           /\ \A x \in Tabs : x # t => fallback'[x] = fallback[x]
  <1>1. fallback \in [Tabs -> BOOLEAN] /\ errors \in Nat /\ errors <= MaxErrors /\ MaxErrors \in Nat
    BY QueueAssumption DEF QueueTypeOK
  <1>2. CASE fallback' = fallback /\ errors' = errors
    BY <1>1, <1>2 DEF QueueTypeOK
  <1>3. CASE /\ ~InDatabase(t) /\ errors < MaxErrors /\ errors' = errors + 1
             /\ fallback' = [fallback EXCEPT ![t] = TRUE]
    <2>1. errors' \in 0..MaxErrors
      BY <1>1, <1>3, SMT
    <2> QED
      BY <1>1, <1>3, <2>1, Zenon
  <1>4. CASE Aborted(t)
    BY <1>1, <1>4 DEF Aborted
  <1> QED
    BY <1>2, <1>3, <1>4 DEF InDatabase, InMemory

(* MarkInMemory keeps the captures of each memory.                           *)
LEMMA MarkInMemoryFacts ==
    ASSUME QueueTypeOK, NEW t \in Tabs, NEW c \in Captures, NEW m \in Marks,
           MarkInMemory(t, c, m)
    PROVE  /\ memory' \in [Tabs -> Stores]
           /\ \A x \in Tabs : DOMAIN memory'[x] = DOMAIN memory[x]
  <1>1. CASE c \in DOMAIN memory[t]
    <2>1. memory[t] \in Stores
      BY DEF QueueTypeOK
    <2>2. memory[t][c] \cup {m} \in SUBSET Marks
      BY <1>1, <2>1, StoreFacts
    <2>3. /\ Put(memory[t], c, memory[t][c] \cup {m}) \in Stores
          /\ DOMAIN Put(memory[t], c, memory[t][c] \cup {m}) = DOMAIN memory[t]
      BY <1>1, <2>1, <2>2, PutFacts
    <2>4. memory' = [memory EXCEPT ![t] = Put(memory[t], c, memory[t][c] \cup {m})]
      BY <1>1 DEF MarkInMemory
    <2> QED
      BY <2>3, <2>4 DEF QueueTypeOK
  <1>2. CASE c \notin DOMAIN memory[t]
    BY <1>2 DEF MarkInMemory, QueueTypeOK
  <1> QED
    BY <1>1, <1>2

(* Marking an operation as soiled changes nothing else of any operation.     *)
LEMMA SoilFacts ==
    ASSUME call \in [Calls -> Call], NEW S
    PROVE  /\ Soil(S) \in [Calls -> Call]
           /\ \A v \in Calls : Soil(S)[v] = call[v] \/ Soil(S)[v] = [call[v] EXCEPT !.clean = FALSE]
           /\ \A v \in Calls : Soil(S)[v].clean => v \notin S /\ Soil(S)[v] = call[v]
  <1>1. ASSUME NEW v \in Calls
        PROVE  /\ [call[v] EXCEPT !.clean = FALSE] \in Call
               /\ [call[v] EXCEPT !.clean = FALSE].clean = FALSE
    BY DEF Call
  <1> QED
    BY <1>1 DEF Soil

-----------------------------------------------------------------------------
(* An operation goes on, the others stay or are soiled: it is enough to look *)
(* at the one that goes on, and at what the others that stay clean rely on.  *)
LEMMA OperationsKept ==
    ASSUME QueueInv, QueueTypeOK', NEW u \in Calls,
           Shape(call'[u]), Reliable(call'[u], db', memory', fallback', marked', undone'),
           \A v \in Calls \ {u} :
             \/ /\ call'[v] = call[v]
                /\ Reliable(call[v], db', memory', fallback', marked', undone')
             \/ call'[v] = [call[v] EXCEPT !.clean = FALSE]
    PROVE  /\ \A v \in Calls : Shape(call'[v])
           /\ \A v \in Calls : Reliable(call'[v], db', memory', fallback', marked', undone')
  <1> SUFFICES ASSUME NEW v \in Calls, v # u
               PROVE  Shape(call'[v]) /\ Reliable(call'[v], db', memory', fallback', marked', undone')
    OBVIOUS
  <1>1. call[v] \in Call /\ Shape(call[v])
    BY DEF QueueInv, QueueTypeOK
  <1>2. CASE call'[v] = call[v]
             /\ Reliable(call[v], db', memory', fallback', marked', undone')
    BY <1>1, <1>2
  <1>3. CASE call'[v] = [call[v] EXCEPT !.clean = FALSE]
    <2> DEFINE q == [call[v] EXCEPT !.clean = FALSE]
    <2>1. /\ q.clean = FALSE /\ q.pc = call[v].pc /\ q.kind = call[v].kind /\ q.c = call[v].c
          /\ q.tab = call[v].tab /\ q.todo = call[v].todo /\ q.chosen = call[v].chosen
      BY <1>1 DEF Call
    <2> HIDE DEF q
    <2>2. Shape(q)
      BY <1>1, <2>1 DEF Shape
    <2>3. Reliable(q, db', memory', fallback', marked', undone')
      BY <2>1 DEF Reliable, SavedThere, ReadAllMarks, AddedThere
    <2> QED
      BY <1>3, <2>2, <2>3 DEF q
  <1> QED
    BY <1>2, <1>3

(* No capture is born by a step that gives no id and begins no save: what    *)
(* was nowhere has to stay nowhere.                                          *)
LEMMA BirthsKept ==
    ASSUME QueueInv, used' = used,
           \A v \in Calls : \A c \in Captures : Saving(call'[v], c) => Saving(call[v], c),
           \A c \in Captures : Nowhere(c) /\ Unborn(c)' => Nowhere(c)'
    PROVE  Births'
  <1>1. \A c \in Captures : Unborn(c)' => Unborn(c)
    BY DEF Unborn
  <1>2. \A c \in Captures : Unborn(c)' => Nowhere(c)'
    BY <1>1 DEF QueueInv, Births
  <1>3. \A c \in Captures : \A v, w \in Calls :
          Saving(call'[v], c) /\ Saving(call'[w], c) => v = w /\ c \in used'
    BY DEF QueueInv, Births
  <1> QED
    BY <1>2, <1>3 DEF Births

(* A transaction is aborted, and no mark is counted but one it was to set.   *)
Undoing ==
    /\ undone \subseteq undone' /\ undone' \subseteq Writes
    /\ marked' \in [Captures -> SUBSET Marks]
    /\ \A c \in Captures : marked'[c] \subseteq marked[c] \cup Unset(c, undone')
    /\ \A c \in Captures : Nowhere(c) => marked'[c] = {}

(* What was written in the end stays written when nothing else is.           *)
LEMMA UndoingFacts ==
    ASSUME QueueInv, (marked' = marked /\ undone' = undone) \/ Undoing
    PROVE  /\ Undoing
           /\ Lasting(db, undone) \subseteq Lasting(db, undone')
           /\ \A c : Unset(c, undone) \subseteq Unset(c, undone')
  <1>1. Undoing
    BY DEF QueueInv, QueueTypeOK, Undoing, Nowhere
  <1> QED
    BY <1>1 DEF Undoing, Lasting, Unset

(* A step of one operation that writes nothing to IndexedDB and adds no      *)
(* capture to any memory.                                                    *)
LEMMA QuietStep ==
    ASSUME QueueInv, NEW u \in Calls, NEW r \in Call,
           call' = [call EXCEPT ![u] = r],
           Shape(r), ~(r.kind = "save" /\ r.pc = "put"),
           Reliable(r, db, memory', fallback', marked', undone'),
           (marked' = marked /\ undone' = undone) \/ Undoing, db' = db, used' = used,
           told' \subseteq Lasting(db, undone'), file' \in Stores, held' \subseteq Captures,
           memory' \in [Tabs -> Stores], fallback' \in [Tabs -> BOOLEAN],
           \A t \in Tabs : DOMAIN memory'[t] = DOMAIN memory[t],
           \A t \in Tabs : fallback[t] => fallback'[t],
           started' \in 0..MaxOperations, errors' \in 0..MaxErrors,
           \A c \in Captures : Nowhere(c) => /\ c \notin DOMAIN file'
                                            /\ c \notin DOMAIN r.chosen
                                            /\ ~Rewriting(r, c)
    PROVE  QueueInv'
  <1>1. call \in [Calls -> Call] /\ db \in Stores
    BY DEF QueueInv, QueueTypeOK
  <1>2. call' \in [Calls -> Call] /\ call'[u] = r /\ \A v \in Calls \ {u} : call'[v] = call[v]
    BY <1>1
  <1>3. told' \subseteq Captures
    BY <1>1, StoreFacts DEF Lasting
  <1>u. /\ Undoing /\ Lasting(db, undone) \subseteq Lasting(db, undone')
        /\ \A c : Unset(c, undone) \subseteq Unset(c, undone')
    BY UndoingFacts
  <1>4. QueueTypeOK'
    BY <1>2, <1>3, <1>u DEF QueueInv, QueueTypeOK, Undoing
  <1>5. ASSUME NEW v \in Calls
        PROVE  Reliable(call[v], db', memory', fallback', marked', undone')
    <2>1. Shape(call[v]) /\ Reliable(call[v], db, memory, fallback, marked, undone)
      BY DEF QueueInv
    <2>2. call[v].pc # "idle" => call[v].tab \in Tabs
      BY <2>1 DEF Shape
    <2>3. SavedThere(call[v], db', fallback', undone')
      BY <1>u, <2>1, <2>2 DEF Reliable, SavedThere
    <2>4. ReadAllMarks(call[v], marked', undone')
      <3>1. call[v].kind = "update" => call[v].c \in Captures
        BY <2>1 DEF Shape
      <3> QED
        BY <1>u, <2>1, <3>1 DEF Reliable, ReadAllMarks, Undoing
    <2>5. AddedThere(call[v], db', memory', undone')
      BY <1>u, <2>1, <2>2 DEF Reliable, AddedThere
    <2> QED
      BY <2>3, <2>4, <2>5 DEF Reliable
  <1>6. /\ \A v \in Calls : Shape(call'[v])
        /\ \A v \in Calls : Reliable(call'[v], db', memory', fallback', marked', undone')
    BY <1>2, <1>4, <1>5, OperationsKept
  <1>7. Births'
    <2>1. \A v \in Calls : \A c \in Captures : Saving(call'[v], c) => Saving(call[v], c)
      BY <1>2 DEF Saving
    <2>2. ASSUME NEW c \in Captures, Nowhere(c) PROVE Nowhere(c)'
      <3>1. \A v \in Calls : c \notin DOMAIN call'[v].chosen /\ ~Rewriting(call'[v], c)
        BY <1>2, <2>2 DEF Nowhere
      <3> QED
        BY <1>u, <2>2, <3>1 DEF Nowhere, Undoing
    <2> QED
      BY <2>1, <2>2, BirthsKept
  <1>8. MarksKept'
    <2>1. DOMAIN db \subseteq Captures
      BY <1>1, StoreFacts
    <2>2. \A c \in DOMAIN db : marked[c] \subseteq db[c] \cup Unset(c, undone')
      <3>1. \A c \in DOMAIN db : marked[c] \in SUBSET Marks
        BY <2>1 DEF QueueInv, QueueTypeOK
      <3> QED
        BY <1>u, <3>1 DEF QueueInv, MarksKept, Undoing, Unset
    <2>3. \A c \in DOMAIN db : marked'[c] \subseteq db[c] \cup Unset(c, undone')
      BY <1>u, <2>1, <2>2 DEF Undoing
    <2> QED
      BY <2>3 DEF MarksKept, Unset
  <1> QED
    BY <1>4, <1>6, <1>7, <1>8 DEF QueueInv

-----------------------------------------------------------------------------
(* The operations the owner starts, the save of a new capture apart.         *)
LEMMA StartStep ==
    ASSUME QueueInv, NEW u \in Calls, NEW r \in Call, Start(u, r),
           Shape(r), r.pc \in {"get", "send", "backup", "clear", "list"}, r.kind # "save",
           r.pc = "list" => r.kind # "import", DOMAIN r.chosen \subseteq DOMAIN file,
           UNCHANGED <<browser, held, used, promises, errors>>
    PROVE  QueueInv'
  <1>1. call' = [call EXCEPT ![u] = r] /\ started' \in 0..MaxOperations
    BY QueueAssumption DEF Start, QueueInv, QueueTypeOK
  <1>2. Reliable(r, db, memory', fallback', marked, undone)
    BY DEF Reliable, SavedThere, ReadAllMarks, AddedThere
  <1>3. \A c \in Captures : Nowhere(c) => /\ c \notin DOMAIN file'
                                         /\ c \notin DOMAIN r.chosen
                                         /\ ~Rewriting(r, c)
    BY DEF Nowhere, Rewriting, browser
  <1>4. /\ db' = db /\ marked' = marked /\ used' = used /\ told' = told /\ file' = file
        /\ held' = held /\ memory' = memory /\ fallback' = fallback /\ errors' = errors
        /\ undone' = undone
    BY DEF browser, promises
  <1> QED
    BY <1>1, <1>2, <1>3, <1>4, QuietStep DEF QueueInv, QueueTypeOK

(* What an owner asks for is a request of the type.                          *)
LEMMA RequestFacts ==
    ASSUME NEW k \in Kinds, NEW pc \in Steps, NEW t \in Tabs, NEW c \in Captures \cup {None}
    PROVE  /\ Request(k, pc, t, c) \in Call
           /\ Request(k, pc, t, c).kind = k /\ Request(k, pc, t, c).pc = pc
           /\ Request(k, pc, t, c).tab = t /\ Request(k, pc, t, c).c = c
           /\ Request(k, pc, t, c).chosen = Empty
  BY EmptyFacts DEF Request, NoCall, Call, Marks

(* Processed and Archive keep the invariant: they only begin an update.      *)
LEMMA ProcessStep ==
    ASSUME QueueInv, NEW u \in Calls, NEW t \in Tabs, NEW c \in Captures, Process(u, t, c)
    PROVE  QueueInv'
  <1> DEFINE r == Request("update", "get", t, c)
  <1>1. /\ r \in Call /\ r.kind = "update" /\ r.pc = "get" /\ r.tab = t /\ r.c = c
        /\ r.chosen = Empty
    <2>1. "update" \in Kinds /\ "get" \in Steps
      BY DEF Kinds, Steps
    <2> QED
      BY <2>1, RequestFacts
  <1>2. Start(u, r) /\ UNCHANGED <<browser, held, used, promises, errors>>
    BY DEF Process
  <1> HIDE DEF r
  <1>3. Shape(r) /\ DOMAIN r.chosen \subseteq DOMAIN file
    BY <1>1, EmptyFacts DEF Shape
  <1> QED
    BY <1>1, <1>2, <1>3, StartStep

(* So does sending a capture to the companion.                               *)
LEMMA SendStep ==
    ASSUME QueueInv, NEW u \in Calls, NEW t \in Tabs, NEW c \in Captures, Send(u, t, c)
    PROVE  QueueInv'
  <1> DEFINE q == Request("update", "send", t, c)
             r == [q EXCEPT !.mark = "sent"]
  <1>1. /\ q \in Call /\ q.kind = "update" /\ q.pc = "send" /\ q.tab = t /\ q.c = c
        /\ q.chosen = Empty
    <2>1. "update" \in Kinds /\ "send" \in Steps
      BY DEF Kinds, Steps
    <2> QED
      BY <2>1, RequestFacts
  <1>2. Start(u, r) /\ UNCHANGED <<browser, held, used, promises, errors>>
    BY DEF Send
  <1> HIDE DEF q
  <1>3. /\ r \in Call /\ r.kind = "update" /\ r.pc = "send" /\ r.tab = t /\ r.c = c
        /\ r.chosen = Empty
    BY <1>1 DEF Call, Marks
  <1> HIDE DEF r
  <1>4. Shape(r) /\ DOMAIN r.chosen \subseteq DOMAIN file
    BY <1>3, EmptyFacts DEF Shape
  <1> QED
    BY <1>2, <1>3, <1>4, StartStep

(* And an import, which has all it is to add before it.                      *)
LEMMA ImportStep ==
    ASSUME QueueInv, NEW u \in Calls, NEW t \in Tabs, Import(u, t)
    PROVE  QueueInv'
  <1> DEFINE q == Request("import", "backup", t, None)
             r == [q EXCEPT !.chosen = file, !.todo = DOMAIN file]
  <1>1. q \in Call /\ q.kind = "import" /\ q.pc = "backup" /\ q.tab = t
    <2>1. "import" \in Kinds /\ "backup" \in Steps
      BY DEF Kinds, Steps
    <2> QED
      BY <2>1, RequestFacts
  <1>2. Start(u, r) /\ UNCHANGED <<browser, held, used, promises, errors>>
    BY DEF Import
  <1>3. file \in Stores /\ DOMAIN file \subseteq Captures
    BY StoreFacts DEF QueueInv, QueueTypeOK
  <1> HIDE DEF q
  <1>4. /\ r \in Call /\ r.kind = "import" /\ r.pc = "backup" /\ r.tab = t
        /\ r.chosen = file /\ r.todo = DOMAIN file
    BY <1>1, <1>3 DEF Call
  <1> HIDE DEF r
  <1>5. Shape(r)
    BY <1>4 DEF Shape
  <1> QED
    BY <1>2, <1>4, <1>5, StartStep

(* And the operations that are about no capture.                             *)
LEMMA PlainStep ==
    ASSUME QueueInv, NEW u \in Calls, NEW t \in Tabs, Reset(u, t) \/ Export(u, t) \/ Refresh(u, t)
    PROVE  QueueInv'
  <1>1. ASSUME NEW k \in Kinds, NEW pc \in Steps,
               <<k, pc>> \in {<<"reset", "clear">>, <<"export", "backup">>, <<"refresh", "list">>},
               Start(u, Request(k, pc, t, None)),
               UNCHANGED <<browser, held, used, promises, errors>>
        PROVE  QueueInv'
    <2> DEFINE r == Request(k, pc, t, None)
    <2>1. r \in Call /\ r.kind = k /\ r.pc = pc /\ r.tab = t /\ r.chosen = Empty
      BY RequestFacts
    <2>2. Start(u, r)
      BY <1>1
    <2>3. \/ k = "reset" /\ pc = "clear"
          \/ k = "export" /\ pc = "backup"
          \/ k = "refresh" /\ pc = "list"
      BY <1>1
    <2> HIDE DEF r
    <2>4. Shape(r) /\ DOMAIN r.chosen \subseteq DOMAIN file
      BY <2>1, <2>3, EmptyFacts DEF Shape
    <2> QED
      BY <1>1, <2>1, <2>2, <2>3, <2>4, StartStep
  <1>2. /\ {"reset", "export", "refresh"} \subseteq Kinds
        /\ {"clear", "backup", "list"} \subseteq Steps
    BY DEF Kinds, Steps
  <1> QED
    BY <1>1, <1>2 DEF Reset, Export, Refresh

-----------------------------------------------------------------------------
(* The steps that are quiet.  An operation that ends leaves nothing behind.  *)
LEMMA EndFacts ==
    /\ NoCall \in Call /\ Shape(NoCall)
    /\ NoCall.kind = "none" /\ NoCall.pc = "idle" /\ NoCall.chosen = Empty
    /\ \A d, m, f, k, z : Reliable(NoCall, d, m, f, k, z)
    /\ \A c : ~Rewriting(NoCall, c) /\ ~Saving(NoCall, c)
  BY NoCallType, EmptyFacts
     DEF NoCall, Shape, Reliable, SavedThere, ReadAllMarks, AddedThere, Rewriting, Saving

(* What QuietStep asks of the parts of the state a step leaves alone.        *)
LEMMA QuietFacts ==
    ASSUME QueueInv
    PROVE  /\ db \in Stores /\ file \in Stores /\ held \subseteq Captures
           /\ memory \in [Tabs -> Stores] /\ fallback \in [Tabs -> BOOLEAN]
           /\ call \in [Calls -> Call] /\ told \subseteq Lasting(db, undone)
           /\ started \in 0..MaxOperations /\ errors \in 0..MaxErrors
           /\ \A u \in Calls : call[u] \in Call /\ Shape(call[u])
           /\ \A u \in Calls : Reliable(call[u], db, memory, fallback, marked, undone)
           /\ \A c \in Captures : Nowhere(c) => /\ c \notin DOMAIN db /\ c \notin DOMAIN file
                /\ \A t \in Tabs : c \notin DOMAIN memory[t]
                /\ \A u \in Calls : c \notin DOMAIN call[u].chosen /\ ~Rewriting(call[u], c)
  BY DEF QueueInv, QueueTypeOK, Nowhere

(* The post to the companion changes nothing in the inbox.                   *)
LEMMA PostStep ==
    ASSUME QueueInv, NEW u \in Calls, Post(u)
    PROVE  QueueInv'
  <1> DEFINE q == [call[u] EXCEPT !.pc = "get"]
  <1>1. call[u] \in Call /\ Shape(call[u]) /\ call[u].pc = "send"
    BY QuietFacts DEF Post
  <1>2. /\ q \in Call /\ q.pc = "get" /\ q.kind = "update" /\ q.c = call[u].c /\ q.tab = call[u].tab
        /\ q.chosen = call[u].chosen
    BY <1>1 DEF Call, Shape, Steps
  <1>3. call' = [call EXCEPT ![u] = q] \/ call' = [call EXCEPT ![u] = NoCall]
    BY QuietFacts DEF Post, Step
  <1> HIDE DEF q
  <1>4. Shape(q) /\ Reliable(q, db, memory, fallback, marked, undone)
    BY <1>1, <1>2 DEF Shape, Reliable, SavedThere, ReadAllMarks, AddedThere
  <1>5. \A c \in Captures : Nowhere(c) => c \notin DOMAIN q.chosen /\ ~Rewriting(q, c)
    <2>1. \A c \in Captures : Nowhere(c) => c \notin DOMAIN q.chosen
      BY <1>2 DEF Nowhere
    <2>3. \A c \in Captures : Nowhere(c) => ~Rewriting(q, c)
      BY <1>2 DEF Rewriting
    <2> QED
      BY <2>1, <2>3
  <1>6. held' \subseteq Captures
    BY <1>1, QuietFacts DEF Post, Shape
  <1>7. /\ db' = db /\ marked' = marked /\ used' = used /\ told' = told /\ file' = file
        /\ memory' = memory /\ fallback' = fallback /\ errors' = errors /\ started' = started
        /\ undone' = undone
    BY DEF Post, browser, promises
  <1>8. CASE call' = [call EXCEPT ![u] = q]
    BY <1>2, <1>4, <1>5, <1>6, <1>7, <1>8, QuietFacts, QuietStep
  <1>9. CASE call' = [call EXCEPT ![u] = NoCall]
    BY <1>6, <1>7, <1>9, EndFacts, EmptyFacts, QuietFacts, QuietStep
  <1> QED
    BY <1>3, <1>8, <1>9

(* The export puts nothing into the file that was nowhere.                   *)
LEMMA BackupStep ==
    ASSUME QueueInv, NEW u \in Calls, Backup(u)
    PROVE  QueueInv'
  <1> DEFINE t == call[u].tab
             q == [call[u] EXCEPT !.pc = "clear"]
  <1>1. /\ call[u] \in Call /\ Shape(call[u]) /\ call[u].pc = "backup" /\ t \in Tabs
        /\ InDatabase(t) \/ InMemory(t)
    BY QuietFacts DEF Backup, Shape
  <1>2. /\ q \in Call /\ q.pc = "clear" /\ q.kind = call[u].kind /\ q.c = call[u].c
        /\ q.tab = t /\ q.chosen = call[u].chosen /\ q.todo = call[u].todo
    BY <1>1 DEF Call, Steps
  <1>3. \/ call' = [call EXCEPT ![u] = q] /\ call[u].kind = "import"
        \/ call' = [call EXCEPT ![u] = NoCall]
    BY QuietFacts DEF Backup, Step
  <1>4. /\ db' = db /\ marked' = marked /\ used' = used /\ told' = told /\ held' = held
        /\ memory' = memory /\ started' = started /\ undone' = undone
    BY DEF Backup, promises
  <1>5. file' = db \/ file' = memory[t]
    BY DEF Backup
  <1>6. /\ fallback' \in [Tabs -> BOOLEAN] /\ errors' \in 0..MaxErrors
        /\ \A x \in Tabs : fallback[x] => fallback'[x]
    BY <1>1, InMemoryType DEF QueueInv
  <1>7. file' \in Stores /\ \A c \in Captures : Nowhere(c) => c \notin DOMAIN file'
    BY <1>1, <1>5, QuietFacts
  <1> HIDE DEF q
  <1>8. CASE call' = [call EXCEPT ![u] = q] /\ call[u].kind = "import"
    <2>1. Shape(q) /\ Reliable(q, db, memory, fallback', marked, undone)
      BY <1>1, <1>2, <1>8 DEF Shape, Reliable, SavedThere, ReadAllMarks, AddedThere
    <2>2. \A c \in Captures : Nowhere(c) => c \notin DOMAIN q.chosen /\ ~Rewriting(q, c)
      <3>1. \A c \in Captures : Nowhere(c) => c \notin DOMAIN q.chosen
        BY <1>2 DEF Nowhere
      <3>3. \A c \in Captures : Nowhere(c) => ~Rewriting(q, c)
        BY <1>2 DEF Rewriting
      <3> QED
        BY <3>1, <3>3
    <2> QED
      BY <1>2, <1>4, <1>6, <1>7, <1>8, <2>1, <2>2, QuietFacts, QuietStep
  <1>9. CASE call' = [call EXCEPT ![u] = NoCall]
    BY <1>4, <1>6, <1>7, <1>9, EndFacts, EmptyFacts, QuietFacts, QuietStep
  <1> QED
    BY <1>3, <1>8, <1>9

(* A save is reported only if the capture it wrote is still in IndexedDB.    *)
LEMMA ListStep ==
    ASSUME QueueInv, NEW u \in Calls, List(u)
    PROVE  QueueInv'
  <1> DEFINE t == call[u].tab
  <1>1. /\ call[u] \in Call /\ Shape(call[u]) /\ call[u].pc = "list" /\ t \in Tabs
        /\ InDatabase(t) \/ InMemory(t)
    BY QuietFacts DEF List, Shape
  <1>2. /\ db' = db /\ marked' = marked /\ used' = used /\ held' = held /\ file' = file
        /\ undone' = undone /\ memory' = memory /\ started' = started /\ call' = [call EXCEPT ![u] = NoCall]
    BY DEF List
  <1>3. /\ fallback' \in [Tabs -> BOOLEAN] /\ errors' \in 0..MaxErrors
        /\ \A x \in Tabs : fallback[x] => fallback'[x]
    BY <1>1, InMemoryType DEF QueueInv
  <1>4. told' \subseteq Lasting(db, undone)
    <2>1. SavedThere(call[u], db, fallback, undone)
      BY QuietFacts DEF Reliable
    <2>2. CASE call[u].kind = "save" /\ call[u].clean /\ ~fallback'[t]
      <3>1. call[u].c \in Lasting(db, undone)
        BY <1>1, <1>3, <2>1, <2>2 DEF SavedThere
      <3> QED
        BY <2>2, <3>1, QuietFacts DEF List
    <2>3. CASE ~(call[u].kind = "save" /\ call[u].clean /\ ~fallback'[t])
      BY <2>3, QuietFacts DEF List
    <2> QED
      BY <2>2, <2>3
  <1> QED
    BY <1>2, <1>3, <1>4, EndFacts, EmptyFacts, QuietFacts, QuietStep

(* An update has read all marks of its capture.                              *)
LEMMA GetStep ==
    ASSUME QueueInv, NEW u \in Calls, Get(u)
    PROVE  QueueInv'
  <1> DEFINE t == call[u].tab
             c == call[u].c
             p == [call[u] EXCEPT !.pc = "put", !.read = db[c]]
             q == [call[u] EXCEPT !.pc = "list"]
  <1>1. /\ call[u] \in Call /\ Shape(call[u]) /\ call[u].pc = "get" /\ call[u].kind = "update"
        /\ t \in Tabs /\ c \in Captures /\ call[u].mark \in Marks
        /\ InDatabase(t) \/ InMemory(t)
    BY QuietFacts DEF Get, Shape, Call
  <1>2. /\ q \in Call /\ q.pc = "list" /\ q.kind = "update" /\ q.c = c
        /\ q.tab = t /\ q.chosen = call[u].chosen /\ q.todo = call[u].todo
    BY <1>1 DEF Call, Steps
  <1>3. /\ db' = db /\ marked' = marked /\ used' = used /\ held' = held /\ file' = file
        /\ told' = told /\ started' = started /\ undone' = undone
    BY DEF Get, promises
  <1>4. /\ fallback' \in [Tabs -> BOOLEAN] /\ errors' \in 0..MaxErrors
        /\ \A x \in Tabs : fallback[x] => fallback'[x]
    BY <1>1, InMemoryType DEF QueueInv
  <1>5. CASE InDatabase(t) /\ c \in DOMAIN db /\ call' = [call EXCEPT ![u] = p] /\ memory' = memory
    <2>1. db[c] \in SUBSET Marks
      BY <1>5, QuietFacts, StoreFacts
    <2>2. /\ p \in Call /\ p.pc = "put" /\ p.kind = "update" /\ p.c = c /\ p.read = db[c]
          /\ p.tab = t /\ p.chosen = call[u].chosen /\ p.todo = call[u].todo
      BY <1>1, <2>1 DEF Call, Steps
    <2> HIDE DEF p
    <2>3. marked[c] \subseteq db[c] \cup Unset(c, undone)
      <3>1. marked[c] \in SUBSET Marks
        BY <1>1 DEF QueueInv, QueueTypeOK
      <3> QED
        BY <1>5, <3>1 DEF QueueInv, MarksKept, Unset
    <2>4. Shape(p) /\ Reliable(p, db, memory, fallback', marked, undone)
      BY <1>1, <2>2, <2>3 DEF Shape, Reliable, SavedThere, ReadAllMarks, AddedThere
    <2>5. \A x \in Captures : Nowhere(x) => x \notin DOMAIN p.chosen /\ ~Rewriting(p, x)
      <3>1. \A x \in Captures : Nowhere(x) => x \notin DOMAIN p.chosen
        BY <1>5, <2>2 DEF Nowhere
      <3>2. \A x \in Captures : Nowhere(x) => x \notin DOMAIN db
        BY QuietFacts
      <3>3. \A x \in Captures : Nowhere(x) => ~Rewriting(p, x)
        BY <1>5, <2>2, <3>2 DEF Rewriting
      <3> QED
        BY <3>1, <3>3
    <2> QED
      BY <1>3, <1>4, <1>5, <2>2, <2>4, <2>5, QuietFacts, QuietStep
  <1>6. ASSUME call' = [call EXCEPT ![u] = q], memory' \in [Tabs -> Stores],
               \A x \in Tabs : DOMAIN memory'[x] = DOMAIN memory[x]
        PROVE  QueueInv'
    <2> HIDE DEF q
    <2>1. Shape(q) /\ Reliable(q, db, memory', fallback', marked, undone)
      BY <1>1, <1>2 DEF Shape, Reliable, SavedThere, ReadAllMarks, AddedThere
    <2>2. \A x \in Captures : Nowhere(x) => x \notin DOMAIN q.chosen /\ ~Rewriting(q, x)
      <3>1. \A x \in Captures : Nowhere(x) => x \notin DOMAIN q.chosen
        BY <1>2 DEF Nowhere
      <3>3. \A x \in Captures : Nowhere(x) => ~Rewriting(q, x)
        BY <1>2 DEF Rewriting
      <3> QED
        BY <3>1, <3>3
    <2> QED
      BY <1>2, <1>3, <1>4, <1>6, <2>1, <2>2, QuietFacts, QuietStep
  <1>7. CASE InDatabase(t) /\ c \notin DOMAIN db /\ call' = [call EXCEPT ![u] = q] /\ memory' = memory
    BY <1>6, <1>7, QuietFacts
  <1>8. CASE MarkInMemory(t, c, call[u].mark) /\ Step(u, "list")
    <2>1. /\ memory' \in [Tabs -> Stores]
          /\ \A x \in Tabs : DOMAIN memory'[x] = DOMAIN memory[x]
      BY <1>1, <1>8, MarkInMemoryFacts DEF QueueInv
    <2>2. call' = [call EXCEPT ![u] = q]
      BY <1>8, QuietFacts DEF Step
    <2> QED
      BY <1>6, <2>1, <2>2
  <1>9. \/ InDatabase(t) /\ c \in DOMAIN db /\ call' = [call EXCEPT ![u] = p] /\ memory' = memory
        \/ InDatabase(t) /\ c \notin DOMAIN db /\ call' = [call EXCEPT ![u] = q] /\ memory' = memory
        \/ MarkInMemory(t, c, call[u].mark) /\ Step(u, "list")
    BY QuietFacts DEF Get
  <1> QED
    BY <1>5, <1>7, <1>8, <1>9

-----------------------------------------------------------------------------
(* A step of one operation that writes a capture, and soils those that have  *)
(* read it: what was stored stays stored.                                    *)
LEMMA GrowStep ==
    ASSUME QueueInv, QueueTypeOK', NEW u \in Calls,
           \A v \in Calls \ {u} :
             \/ call'[v] = call[v] /\ ReadAllMarks(call[v], marked', undone')
             \/ call'[v] = [call[v] EXCEPT !.clean = FALSE],
           Shape(call'[u]), Reliable(call'[u], db', memory', fallback', marked', undone'),
           ~(call'[u].kind = "save" /\ call'[u].pc = "put"),
           Lasting(db, undone) \subseteq Lasting(db', undone'), MarksKept', used' = used, told' = told, file' = file,
           \A t \in Tabs : DOMAIN memory[t] \subseteq DOMAIN memory'[t],
           \A t \in Tabs : fallback[t] => fallback'[t],
           \A c \in Captures : Nowhere(c) /\ Unborn(c)' =>
             /\ c \notin DOMAIN db' /\ \A t \in Tabs : c \notin DOMAIN memory'[t]
             /\ c \notin DOMAIN call'[u].chosen /\ ~Rewriting(call'[u], c) /\ marked'[c] = {}
    PROVE  QueueInv'
  <1>1. ASSUME NEW v \in Calls, ReadAllMarks(call[v], marked', undone')
        PROVE  Reliable(call[v], db', memory', fallback', marked', undone')
    <2>1. Shape(call[v]) /\ Reliable(call[v], db, memory, fallback, marked, undone)
      BY QuietFacts
    <2>2. call[v].pc # "idle" => call[v].tab \in Tabs
      BY <2>1 DEF Shape
    <2>3. SavedThere(call[v], db', fallback', undone')
      BY <2>1, <2>2 DEF Reliable, SavedThere
    <2>4. AddedThere(call[v], db', memory', undone')
      BY <2>1, <2>2 DEF Reliable, AddedThere
    <2> QED
      BY <1>1, <2>3, <2>4 DEF Reliable
  <1>2. \A v \in Calls \ {u} :
             \/ /\ call'[v] = call[v]
                /\ Reliable(call[v], db', memory', fallback', marked', undone')
             \/ call'[v] = [call[v] EXCEPT !.clean = FALSE]
    BY <1>1
  <1>3. /\ \A v \in Calls : Shape(call'[v])
        /\ \A v \in Calls : Reliable(call'[v], db', memory', fallback', marked', undone')
    BY <1>2, OperationsKept
  <1>4. \A v \in Calls \ {u} : /\ call'[v].kind = call[v].kind /\ call'[v].pc = call[v].pc
                               /\ call'[v].c = call[v].c /\ call'[v].chosen = call[v].chosen
    <2> TAKE v \in Calls \ {u}
    <2>1. call[v] \in Call
      BY QuietFacts
    <2> DEFINE r == [call[v] EXCEPT !.clean = FALSE]
    <2>2. /\ r.kind = call[v].kind /\ r.pc = call[v].pc
          /\ r.c = call[v].c /\ r.chosen = call[v].chosen
      BY <2>1 DEF Call
    <2>3. call'[v] = call[v] \/ call'[v] = r
      OBVIOUS
    <2> QED
      BY <2>2, <2>3
  <1>5. Births'
    <2>1. \A v \in Calls : \A c \in Captures : Saving(call'[v], c) => Saving(call[v], c)
      BY <1>4 DEF Saving
    <2>2. ASSUME NEW c \in Captures, Nowhere(c), Unborn(c)' PROVE Nowhere(c)'
      <3>1. \A v \in Calls : c \notin DOMAIN call'[v].chosen /\ ~Rewriting(call'[v], c)
        BY <1>4, <2>2 DEF Nowhere, Rewriting
      <3>2. c \notin DOMAIN file'
        BY <2>2 DEF Nowhere
      <3> QED
        BY <2>2, <3>1, <3>2 DEF Nowhere
    <2> QED
      BY <2>1, <2>2, BirthsKept
  <1>6. told' \subseteq Lasting(db', undone')
    BY QuietFacts
  <1> QED
    BY <1>3, <1>5, <1>6 DEF QueueInv

(* InMemory leaves its page without IndexedDB.                               *)
LEMMA InMemoryFalls ==
    ASSUME QueueInv, NEW t \in Tabs, InMemory(t)
    PROVE  fallback'[t]
  <1>1. fallback \in [Tabs -> BOOLEAN]
    BY QuietFacts
  <1> QED
    BY <1>1, Zenon DEF InMemory

(* A new capture has no marks to lose: it was nowhere.                       *)
LEMMA PutNewStep ==
    ASSUME QueueInv, NEW u \in Calls, PutNew(u),
           NEW t, t = call[u].tab, NEW c, c = call[u].c
    PROVE  QueueInv'
  <1> DEFINE q == [call[u] EXCEPT !.pc = "list"]
  <1>1. /\ call[u] \in Call /\ Shape(call[u]) /\ call[u].pc = "put" /\ call[u].kind = "save"
        /\ t \in Tabs /\ c \in Captures
        /\ InDatabase(t) \/ InMemory(t) \/ Aborted(t)
    BY QuietFacts DEF PutNew, Shape
  <1>2. /\ q \in Call /\ q.pc = "list" /\ q.kind = "save" /\ q.c = c
        /\ q.tab = t /\ q.chosen = call[u].chosen /\ q.todo = call[u].todo
    BY <1>1 DEF Call, Steps
  <1>3. /\ marked' = marked /\ used' = used /\ held' = held /\ file' = file
        /\ told' = told /\ started' = started
    BY DEF PutNew, promises
  <1>4. call' = [call EXCEPT ![u] = q]
    BY QuietFacts DEF PutNew, Step
  <1> HIDE DEF q
  <1>5. /\ call' \in [Calls -> Call] /\ call'[u] = q
        /\ \A v \in Calls \ {u} : call'[v] = call[v]
    BY <1>2, <1>4, QuietFacts
  <1>6. /\ fallback' \in [Tabs -> BOOLEAN] /\ errors' \in 0..MaxErrors
        /\ \A x \in Tabs : fallback[x] => fallback'[x]
    BY <1>1, InMemoryType DEF QueueInv
  <1>7. Saving(call[u], c) /\ Nowhere(c) /\ marked[c] = {}
    BY <1>1 DEF QueueInv, Births, Unborn, Saving, Nowhere
  <1>8. ~Unborn(c)'
    <2>1. \A v \in Calls : Saving(call[v], c) => v = u /\ c \in used
      BY <1>1, <1>7 DEF QueueInv, Births
    <2>2. \A v \in Calls : ~Saving(call'[v], c)
      BY <1>2, <1>5, <2>1 DEF Saving
    <2>3. c \in used'
      BY <1>3, <1>7, <2>1
    <2> QED
      BY <2>2, <2>3 DEF Unborn
  <1>9. Shape(q) /\ \A x \in Captures : ~Rewriting(q, x)
    BY <1>1, <1>2 DEF Shape, Rewriting
  <1>10. undone' = undone => \A v \in Calls : ReadAllMarks(call[v], marked', undone')
    BY <1>3, QuietFacts DEF Reliable
  <1>11. CASE /\ InDatabase(t) /\ db' = Put(db, c, {}) /\ memory' = memory
              /\ undone' = undone
    <2>1. db' \in Stores /\ DOMAIN db' = DOMAIN db \cup {c} /\ \A x \in DOMAIN db : x # c => db'[x] = db[x]
      <3>1. db \in Stores /\ {} \in SUBSET Marks
        BY QuietFacts
      <3>2. \A r \in SUBSET Marks :
              /\ Put(db, c, r) \in Stores /\ DOMAIN Put(db, c, r) = DOMAIN db \cup {c}
              /\ \A x \in DOMAIN db : x # c => Put(db, c, r)[x] = db[x]
        BY <1>1, <3>1, PutFacts
      <3> QED
        BY <1>11, <3>1, <3>2
    <2>2. Reliable(q, db', memory', fallback', marked', undone')
      BY <1>2, <2>1 DEF Lasting, Reliable, SavedThere, ReadAllMarks, AddedThere
    <2>3. MarksKept'
      BY <1>3, <1>7, <1>11, <2>1 DEF QueueInv, MarksKept
    <2>4. QueueTypeOK'
      BY <1>3, <1>5, <1>6, <1>11, <2>1 DEF QueueInv, QueueTypeOK
    <2>5. \A x \in Captures : Nowhere(x) /\ Unborn(x)' =>
             /\ x \notin DOMAIN db' /\ \A y \in Tabs : x \notin DOMAIN memory'[y]
             /\ x \notin DOMAIN q.chosen /\ marked'[x] = {}
      <3> TAKE x \in Captures
      <3> HAVE Nowhere(x) /\ Unborn(x)'
      <3>1. x # c
        BY <1>8
      <3>2. /\ x \notin DOMAIN db /\ x \notin DOMAIN q.chosen /\ marked[x] = {}
            /\ \A y \in Tabs : x \notin DOMAIN memory[y]
        BY <1>1, <1>2 DEF Nowhere
      <3> QED
        BY <1>3, <1>11, <2>1, <3>1, <3>2
    <2>6. Lasting(db, undone) \subseteq Lasting(db', undone')
      BY <1>11, <2>1 DEF Lasting
    <2> QED
      BY <1>2, <1>3, <1>5, <1>6, <1>9, <1>10, <1>11, <2>6, <2>2, <2>3, <2>4, <2>5, GrowStep
  <1>12. CASE /\ InMemory(t) /\ memory' = [memory EXCEPT ![t] = Put(memory[t], c, {})]
              /\ db' = db /\ undone' = undone
    <2>1. /\ memory' \in [Tabs -> Stores] /\ DOMAIN memory'[t] = DOMAIN memory[t] \cup {c}
          /\ \A y \in Tabs : y # t => memory'[y] = memory[y]
      <3>1. Put(memory[t], c, {}) \in Stores /\ DOMAIN Put(memory[t], c, {}) = DOMAIN memory[t] \cup {c}
        <4>1. memory[t] \in Stores /\ {} \in SUBSET Marks /\ c \in Captures
          BY <1>1, QuietFacts
        <4>2. \A s \in Stores : \A r \in SUBSET Marks :
                Put(s, c, r) \in Stores /\ DOMAIN Put(s, c, r) = DOMAIN s \cup {c}
          BY <4>1, PutFacts
        <4> QED
          BY <4>1, <4>2
      <3> QED
        BY <1>1, <1>12, <3>1, QuietFacts
    <2>2. Reliable(q, db', memory', fallback', marked', undone')
      BY <1>1, <1>2, <1>12, InMemoryFalls DEF Reliable, SavedThere, ReadAllMarks, AddedThere
    <2>3. MarksKept'
      BY <1>3, <1>12 DEF QueueInv, MarksKept
    <2>4. QueueTypeOK'
      BY <1>3, <1>5, <1>6, <1>12, <2>1 DEF QueueInv, QueueTypeOK
    <2>5. \A x \in Captures : Nowhere(x) /\ Unborn(x)' =>
             /\ x \notin DOMAIN db' /\ \A y \in Tabs : x \notin DOMAIN memory'[y]
             /\ x \notin DOMAIN q.chosen /\ marked'[x] = {}
      <3> TAKE x \in Captures
      <3> HAVE Nowhere(x) /\ Unborn(x)'
      <3>1. x # c
        BY <1>8
      <3>2. /\ x \notin DOMAIN db /\ x \notin DOMAIN q.chosen /\ marked[x] = {}
            /\ \A y \in Tabs : x \notin DOMAIN memory[y]
        BY <1>1, <1>2 DEF Nowhere
      <3> QED
        BY <1>3, <1>12, <2>1, <3>1, <3>2
    <2>6. \A y \in Tabs : DOMAIN memory[y] \subseteq DOMAIN memory'[y]
      BY <2>1
    <2> QED
      BY <1>2, <1>3, <1>5, <1>6, <1>9, <1>10, <1>12, <2>6, <2>2, <2>3, <2>4, <2>5, GrowStep
  <1>13. CASE Aborted(t) /\ undone' = undone \cup {<<c, "put">>}
    <2>1. db' = db /\ memory' = memory /\ fallback' = fallback
      BY <1>13 DEF Aborted
    <2>2. Undoing
      BY <1>1, <1>3, <1>13 DEF Undoing, QueueInv, QueueTypeOK, Writes, Nowhere
    <2>3. told' \subseteq Lasting(db, undone') /\ c \in Lasting(db, undone')
      BY <1>1, <1>3, <1>13, <2>2, UndoingFacts, QuietFacts DEF Lasting
    <2>4. Reliable(q, db, memory', fallback', marked', undone')
      BY <1>2, <2>3 DEF Reliable, SavedThere, ReadAllMarks, AddedThere
    <2>5. \A x \in Captures : Nowhere(x) => x \notin DOMAIN q.chosen
      BY <1>1, <1>2 DEF Nowhere
    <2> QED
      BY <1>2, <1>3, <1>4, <1>6, <1>9, <2>1, <2>2, <2>3, <2>4, <2>5, QuietFacts, QuietStep
  <1> QED
    BY <1>1, <1>11, <1>12, <1>13 DEF PutNew

(* An operation goes on as r and soils those of S.                           *)
LEMMA SoilStep ==
    ASSUME QueueInv, NEW u \in Calls, NEW S, u \notin S, NEW r \in Call,
           call' = [Soil(S) EXCEPT ![u] = r]
    PROVE  /\ call' \in [Calls -> Call] /\ call'[u] = r
           /\ \A v \in Calls \ {u} :
                \/ call'[v] = call[v] /\ v \notin S
                \/ call'[v] = [call[v] EXCEPT !.clean = FALSE]
  <1>1. call \in [Calls -> Call]
    BY QuietFacts
  <1>2. Soil(S) \in [Calls -> Call]
    BY <1>1, SoilFacts
  <1>3. \A v \in Calls : Soil(S)[v] = IF v \in S THEN [call[v] EXCEPT !.clean = FALSE] ELSE call[v]
    BY DEF Soil
  <1>4. call' \in [Calls -> Call] /\ call'[u] = r /\ \A v \in Calls \ {u} : call'[v] = Soil(S)[v]
    BY <1>2
  <1> QED
    BY <1>3, <1>4

(* A clean update writes back every mark, another one soils nothing but      *)
(* updates of the same capture.                                              *)
LEMMA PutUpdateStep ==
    ASSUME QueueInv, NEW u \in Calls, PutUpdate(u),
           NEW t, t = call[u].tab, NEW c, c = call[u].c
    PROVE  QueueInv'
  <1> DEFINE q == [call[u] EXCEPT !.pc = "list"]
             S == Updating(c) \ {u}
             k == (IF call[u].clean THEN marked[c] ELSE {}) \cup {call[u].mark}
             w == call[u].read \cup {call[u].mark}
  <1>1. /\ call[u] \in Call /\ Shape(call[u]) /\ call[u].pc = "put" /\ call[u].kind = "update"
        /\ t \in Tabs /\ c \in Captures /\ call[u].mark \in Marks /\ call[u].read \in SUBSET Marks
        /\ InDatabase(t) \/ InMemory(t) \/ Aborted(t)
    BY QuietFacts DEF PutUpdate, Shape, Call
  <1>2. /\ q \in Call /\ q.pc = "list" /\ q.kind = "update" /\ q.c = c
        /\ q.tab = t /\ q.chosen = call[u].chosen /\ q.todo = call[u].todo
    BY <1>1 DEF Call, Steps
  <1>3. /\ used' = used /\ held' = held /\ file' = file /\ told' = told /\ started' = started
    BY DEF PutUpdate
  <1>4. /\ fallback' \in [Tabs -> BOOLEAN] /\ errors' \in 0..MaxErrors
        /\ \A x \in Tabs : fallback[x] => fallback'[x]
    BY <1>1, InMemoryType DEF QueueInv
  <1>5. marked \in [Captures -> SUBSET Marks]
    BY DEF QueueInv, QueueTypeOK
  <1>6. /\ Shape(q) /\ (\A x \in Captures : ~Rewriting(q, x))
        /\ \A d, m, f, mk, z : Reliable(q, d, m, f, mk, z)
    BY <1>1, <1>2 DEF Shape, Rewriting, Reliable, SavedThere, ReadAllMarks, AddedThere
  <1>7. CASE /\ InDatabase(t) /\ db' = Put(db, c, w) /\ memory' = memory
             /\ call' = [Soil(S) EXCEPT ![u].pc = "list"]
             /\ marked' = [marked EXCEPT ![c] = k]
             /\ undone' = undone \ {<<c, call[u].mark>>}
    <2>1. Soil(S) \in [Calls -> Call] /\ Soil(S)[u] = call[u] /\ u \notin S
      BY SoilFacts, QuietFacts DEF Soil
    <2>2. call' = [Soil(S) EXCEPT ![u] = q]
      BY <1>7, <2>1
    <2> HIDE DEF q
    <2>3. /\ call' \in [Calls -> Call] /\ call'[u] = q
          /\ \A v \in Calls \ {u} :
               \/ call'[v] = call[v] /\ v \notin S
               \/ call'[v] = [call[v] EXCEPT !.clean = FALSE]
      BY <1>2, <2>1, <2>2, SoilStep
    <2>4. k \in SUBSET Marks /\ w \in SUBSET Marks
      BY <1>1, <1>5
    <2>5. k \subseteq w \cup Unset(c, undone')
      <3>1. ReadAllMarks(call[u], marked, undone)
        BY QuietFacts DEF Reliable
      <3> QED
        BY <1>1, <1>7, <3>1 DEF ReadAllMarks, Unset
    <2> HIDE DEF k, w, S
    <2>6. /\ db' \in Stores /\ DOMAIN db' = DOMAIN db \cup {c} /\ db'[c] = w
          /\ \A x \in DOMAIN db : x # c => db'[x] = db[x]
      <3>1. db \in Stores /\ c \in Captures
        BY <1>1, QuietFacts
      <3>2. /\ Put(db, c, w) \in Stores /\ DOMAIN Put(db, c, w) = DOMAIN db \cup {c}
            /\ Put(db, c, w)[c] = w /\ \A x \in DOMAIN db : x # c => Put(db, c, w)[x] = db[x]
        BY <2>4, <3>1, PutFacts
      <3> QED
        BY <1>7, <3>2
    <2>7. /\ marked' \in [Captures -> SUBSET Marks] /\ marked'[c] = k
          /\ \A x \in Captures : x # c => marked'[x] = marked[x]
      BY <1>1, <1>5, <1>7, <2>4
    <2>8. MarksKept'
      <3>1. DOMAIN db \subseteq Captures
        BY QuietFacts, StoreFacts
      <3> QED
        BY <1>7, <2>5, <2>6, <2>7, <3>1 DEF QueueInv, MarksKept, Unset
    <2>9. \A v \in Calls \ {u} :
             \/ call'[v] = call[v] /\ ReadAllMarks(call[v], marked', undone')
             \/ call'[v] = [call[v] EXCEPT !.clean = FALSE]
      <3>1. ASSUME NEW v \in Calls \ {u}, v \notin S PROVE ReadAllMarks(call[v], marked', undone')
        <4>1. ReadAllMarks(call[v], marked, undone) /\ Shape(call[v])
          BY QuietFacts DEF Reliable
        <4>2. call[v].pc = "put" => call[v].c # c
          BY <3>1 DEF S, Updating
        <4>3. call[v].c # c => Unset(call[v].c, undone') = Unset(call[v].c, undone)
          BY <1>7 DEF Unset
        <4> QED
          BY <2>7, <4>1, <4>2, <4>3 DEF ReadAllMarks, Shape
      <3> QED
        BY <2>3, <3>1
    <2>10. QueueTypeOK'
      BY <1>3, <1>4, <1>7, <2>3, <2>6, <2>7 DEF QueueInv, QueueTypeOK
    <2>11. \A x \in Captures : Nowhere(x) /\ Unborn(x)' =>
             /\ x \notin DOMAIN db' /\ \A y \in Tabs : x \notin DOMAIN memory'[y]
             /\ x \notin DOMAIN q.chosen /\ marked'[x] = {}
      <3> TAKE x \in Captures
      <3> HAVE Nowhere(x) /\ Unborn(x)'
      <3>1. /\ x \notin DOMAIN db /\ x \notin DOMAIN q.chosen /\ marked[x] = {}
            /\ (\A y \in Tabs : x \notin DOMAIN memory[y]) /\ ~Rewriting(call[u], x)
        BY <1>1, <1>2 DEF Nowhere
      <3>2. x # c
        BY <1>1, <3>1 DEF Rewriting
      <3> QED
        BY <1>7, <2>6, <2>7, <3>1, <3>2
    <2>12. Lasting(db, undone) \subseteq Lasting(db', undone')
      BY <1>1, <1>7, <2>6 DEF Lasting, Marks
    <2> QED
      BY <1>2, <1>3, <1>4, <1>6, <1>7, <2>3, <2>12, <2>8, <2>9, <2>10, <2>11, GrowStep
  <1>8. CASE /\ InMemory(t) /\ MarkInMemory(t, c, call[u].mark) /\ Step(u, "list")
             /\ db' = db /\ marked' = marked /\ undone' = undone
    <2>1. /\ memory' \in [Tabs -> Stores]
          /\ \A x \in Tabs : DOMAIN memory'[x] = DOMAIN memory[x]
      BY <1>1, <1>8, MarkInMemoryFacts DEF QueueInv
    <2>2. call' = [call EXCEPT ![u] = q]
      BY <1>8, QuietFacts DEF Step
    <2>3. \A x \in Captures : Nowhere(x) => x \notin DOMAIN q.chosen
      BY <1>2 DEF Nowhere
    <2> HIDE DEF q
    <2> QED
      BY <1>2, <1>3, <1>4, <1>6, <1>8, <2>1, <2>2, <2>3, QuietFacts, QuietStep
  <1>9. CASE /\ Aborted(t) /\ Step(u, "list")
             /\ marked' = [marked EXCEPT ![c] = marked[c] \cup {call[u].mark}]
             /\ undone' = undone \cup {<<c, call[u].mark>>}
    <2>1. /\ db' = db /\ memory' = memory /\ fallback' = fallback
          /\ call' = [call EXCEPT ![u] = q]
      BY <1>9, QuietFacts DEF Aborted, Step
    <2>2. \A x \in Captures : Nowhere(x) => x \notin DOMAIN q.chosen /\ x # c
      BY <1>1, <1>2 DEF Nowhere, Rewriting
    <2> HIDE DEF q
    <2>3. /\ marked' \in [Captures -> SUBSET Marks] /\ marked'[c] = marked[c] \cup {call[u].mark}
          /\ \A x \in Captures : x # c => marked'[x] = marked[x]
      BY <1>1, <1>5, <1>9
    <2>4. undone \subseteq undone' /\ undone' \subseteq Writes /\ call[u].mark \in Unset(c, undone')
      BY <1>1, <1>9 DEF QueueInv, QueueTypeOK, Writes, Unset
    <2>5. Undoing
      BY <1>1, <2>2, <2>3, <2>4 DEF Undoing, Nowhere
    <2>6. told' \subseteq Lasting(db, undone')
      BY <1>3, <2>5, UndoingFacts, QuietFacts
    <2> QED
      BY <1>2, <1>3, <1>4, <1>6, <2>1, <2>2, <2>5, <2>6, QuietFacts, QuietStep
  <1> QED
    BY <1>7, <1>8, <1>9 DEF PutUpdate

(* A new id is given to one save only.                                       *)
LEMMA SaveStep ==
    ASSUME QueueInv, NEW u \in Calls, NEW t \in Tabs, NEW c \in Captures, Save(u, t, c)
    PROVE  QueueInv'
  <1> DEFINE r == Request("save", "put", t, c)
  <1>1. /\ r \in Call /\ r.kind = "save" /\ r.pc = "put" /\ r.tab = t /\ r.c = c
        /\ r.chosen = Empty
    <2>1. "save" \in Kinds /\ "put" \in Steps
      BY DEF Kinds, Steps
    <2> QED
      BY <2>1, RequestFacts
  <1>2. /\ db' = db /\ marked' = marked /\ told' = told /\ file' = file /\ held' = held
        /\ memory' = memory /\ fallback' = fallback /\ errors' = errors
        /\ undone' = undone
    BY DEF Save, browser, promises
  <1>3. c \notin used /\ used' = used \cup {c} /\ Start(u, r)
    BY DEF Save
  <1> HIDE DEF r
  <1>4. call' = [call EXCEPT ![u] = r] /\ started' \in 0..MaxOperations
    BY <1>3, QueueAssumption DEF Start, QueueInv, QueueTypeOK
  <1>5. /\ call' \in [Calls -> Call] /\ call'[u] = r
        /\ \A v \in Calls \ {u} : call'[v] = call[v]
    BY <1>1, <1>4, QuietFacts
  <1>6. QueueTypeOK'
    BY <1>2, <1>3, <1>4, <1>5 DEF QueueInv, QueueTypeOK
  <1>7. Shape(r) /\ Reliable(r, db', memory', fallback', marked', undone') /\ \A x : ~Rewriting(r, x)
    BY <1>1, EmptyFacts DEF Shape, Reliable, SavedThere, ReadAllMarks, AddedThere, Rewriting
  <1>8. /\ \A v \in Calls : Shape(call'[v])
        /\ \A v \in Calls : Reliable(call'[v], db', memory', fallback', marked', undone')
    BY <1>2, <1>5, <1>6, <1>7, QuietFacts, OperationsKept
  <1>9. Births'
    <2>1. Nowhere(c) /\ \A v \in Calls : ~Saving(call[v], c)
      BY <1>3 DEF QueueInv, Births, Unborn
    <2>2. \A x : Saving(r, x) => x = c
      BY <1>1 DEF Saving
    <2>3. ASSUME NEW x \in Captures, Nowhere(x) PROVE Nowhere(x)'
      <3>1. \A v \in Calls : x \notin DOMAIN call'[v].chosen /\ ~Rewriting(call'[v], x)
        BY <1>1, <1>5, <1>7, <2>3, EmptyFacts DEF Nowhere
      <3> QED
        BY <1>2, <2>3, <3>1 DEF Nowhere
    <2>4. \A x \in Captures : Unborn(x)' => Nowhere(x)
      <3> SUFFICES ASSUME NEW x \in Captures, x # c, Unborn(x)' PROVE Unborn(x)
        BY <2>1 DEF QueueInv, Births
      <3> QED
        BY <1>3, <1>5, <2>2 DEF Unborn
    <2>5. \A x \in Captures : \A v, w \in Calls :
            Saving(call'[v], x) /\ Saving(call'[w], x) => v = w /\ x \in used'
      BY <1>3, <1>5, <2>1, <2>2 DEF QueueInv, Births
    <2> QED
      BY <2>3, <2>4, <2>5 DEF Births
  <1>10. told' \subseteq Lasting(db', undone') /\ MarksKept'
    BY <1>2 DEF QueueInv, MarksKept
  <1> QED
    BY <1>6, <1>8, <1>9, <1>10 DEF QueueInv

(* An import adds a capture of its file, and soils the updates of it.        *)
LEMMA AddStep ==
    ASSUME QueueInv, NEW u \in Calls, Add(u),
           NEW t, t = call[u].tab
    PROVE  QueueInv'
  <1>1. PICK c \in call[u].todo :
          LET r == call[u].chosen[c]
              rest == call[u].todo \ {c}
          IN  /\ \/ /\ InDatabase(t) /\ db' = Put(db, c, r)
                    /\ marked' = [marked EXCEPT ![c] = {}]
                    /\ undone' = undone \ {<<c, "put">>} /\ memory' = memory
                 \/ /\ Aborted(t) /\ undone' = undone \cup {<<c, "put">>} /\ marked' = marked
                 \/ /\ InMemory(t) /\ memory' = [memory EXCEPT ![t] = Put(memory[t], c, r)]
                    /\ db' = db /\ marked' = marked /\ undone' = undone
              /\ call' = [Soil(Updating(c) \ {u}) EXCEPT
                            ![u].todo = rest,
                            ![u].pc = IF rest = {} THEN "list" ELSE "add"]
    BY DEF Add
  <1> DEFINE r == call[u].chosen[c]
             rest == call[u].todo \ {c}
             S == Updating(c) \ {u}
             q == [call[u] EXCEPT !.todo = rest, !.pc = IF rest = {} THEN "list" ELSE "add"]
  <1>2. /\ call[u] \in Call /\ Shape(call[u]) /\ call[u].pc = "add" /\ call[u].kind = "import"
        /\ call[u].todo \subseteq DOMAIN call[u].chosen /\ call[u].chosen \in Stores
    BY QuietFacts DEF Add, Shape, Call
  <1>3. t \in Tabs /\ c \in Captures /\ r \in SUBSET Marks /\ c \in DOMAIN call[u].chosen
    BY <1>2, StoreFacts DEF Shape
  <1>4. /\ q \in Call /\ q.pc \in {"add", "list"} /\ q.kind = "import" /\ q.clean = call[u].clean
        /\ q.tab = t /\ q.chosen = call[u].chosen /\ q.todo = rest
    BY <1>2 DEF Call, Steps
  <1>5. /\ used' = used /\ held' = held /\ file' = file /\ told' = told /\ started' = started
    BY DEF Add
  <1>6. /\ fallback' \in [Tabs -> BOOLEAN] /\ errors' \in 0..MaxErrors
        /\ \A x \in Tabs : fallback[x] => fallback'[x]
    BY <1>1, <1>3, InMemoryType DEF QueueInv
  <1>7. marked \in [Captures -> SUBSET Marks]
    BY DEF QueueInv, QueueTypeOK
  <1>8. /\ call' \in [Calls -> Call] /\ call'[u] = q
        /\ \A v \in Calls \ {u} :
             \/ call'[v] = call[v] /\ v \notin S
             \/ call'[v] = [call[v] EXCEPT !.clean = FALSE]
    <2>1. Soil(S) \in [Calls -> Call] /\ Soil(S)[u] = call[u] /\ u \notin S
      BY SoilFacts, QuietFacts DEF Soil
    <2>2. call' = [Soil(S) EXCEPT ![u] = q]
      BY <1>1, <2>1
    <2> HIDE DEF q, S
    <2> QED
      BY <1>4, <2>1, <2>2, SoilStep
  <1> HIDE DEF q
  <1>9. Shape(q) /\ \A x \in Captures : ~Rewriting(q, x)
    BY <1>2, <1>3, <1>4 DEF Shape, Rewriting
  <1>10. call[u].clean => DOMAIN call[u].chosen \ call[u].todo \subseteq Lasting(db, undone) \cup DOMAIN memory[t]
    BY <1>2, QuietFacts DEF Reliable, AddedThere
  <1>11. ASSUME NEW x \in Captures, Nowhere(x)
         PROVE  /\ x \notin DOMAIN db /\ x \notin DOMAIN q.chosen /\ marked[x] = {} /\ x # c
                /\ \A y \in Tabs : x \notin DOMAIN memory[y]
    <2>1. /\ x \notin DOMAIN db /\ x \notin DOMAIN call[u].chosen /\ marked[x] = {}
          /\ \A y \in Tabs : x \notin DOMAIN memory[y]
      BY <1>11 DEF Nowhere
    <2> QED
      BY <1>3, <1>4, <2>1
  <1>12. CASE /\ InDatabase(t) /\ db' = Put(db, c, r) /\ memory' = memory
              /\ marked' = [marked EXCEPT ![c] = {}] /\ undone' = undone \ {<<c, "put">>}
    <2> HIDE DEF r, rest
    <2>0. \A x, m : m \in Marks /\ <<x, m>> \in undone => <<x, m>> \in undone'
      BY <1>12 DEF Marks
    <2>1. /\ db' \in Stores /\ DOMAIN db' = DOMAIN db \cup {c} /\ db'[c] = r
          /\ \A x \in DOMAIN db : x # c => db'[x] = db[x]
      <3>1. db \in Stores
        BY QuietFacts
      <3>2. /\ Put(db, c, r) \in Stores /\ DOMAIN Put(db, c, r) = DOMAIN db \cup {c}
            /\ Put(db, c, r)[c] = r /\ \A x \in DOMAIN db : x # c => Put(db, c, r)[x] = db[x]
        BY <1>3, <3>1, PutFacts
      <3> QED
        BY <1>12, <3>2
    <2>2. /\ marked' \in [Captures -> SUBSET Marks] /\ marked'[c] = {}
          /\ \A x \in Captures : x # c => marked'[x] = marked[x]
      BY <1>3, <1>7, <1>12
    <2>3. MarksKept'
      <3>1. DOMAIN db \subseteq Captures
        BY QuietFacts, StoreFacts
      <3> QED
        BY <1>12, <2>0, <2>1, <2>2, <3>1 DEF QueueInv, QueueTypeOK, MarksKept
    <2>4. \A v \in Calls \ {u} :
             \/ call'[v] = call[v] /\ ReadAllMarks(call[v], marked', undone')
             \/ call'[v] = [call[v] EXCEPT !.clean = FALSE]
      <3>1. ASSUME NEW v \in Calls \ {u}, v \notin S PROVE ReadAllMarks(call[v], marked', undone')
        <4>1. ReadAllMarks(call[v], marked, undone) /\ Shape(call[v])
          BY QuietFacts DEF Reliable
        <4>2. call[v].pc = "put" => call[v].c # c
          BY <3>1 DEF Updating
        <4> QED
          BY <2>0, <2>2, <4>1, <4>2 DEF ReadAllMarks, Shape, Unset
      <3> HIDE DEF S
      <3> QED
        BY <1>8, <3>1
    <2>5. QueueTypeOK'
      BY <1>5, <1>6, <1>8, <1>12, <2>1, <2>2 DEF QueueInv, QueueTypeOK
    <2>8. Lasting(db, undone) \subseteq Lasting(db', undone')
      BY <1>12, <2>1 DEF Lasting
    <2>6. Reliable(q, db', memory', fallback', marked', undone')
      BY <1>4, <1>10, <1>12, <2>1, <2>8 DEF Lasting, Reliable, SavedThere, ReadAllMarks, AddedThere, rest
    <2>7. \A x \in Captures : Nowhere(x) /\ Unborn(x)' =>
             /\ x \notin DOMAIN db' /\ \A y \in Tabs : x \notin DOMAIN memory'[y]
             /\ x \notin DOMAIN q.chosen /\ marked'[x] = {}
      BY <1>11, <1>12, <2>1, <2>2
    <2> QED
      BY <1>4, <1>5, <1>6, <1>8, <1>9, <1>12, <2>8, <2>3, <2>4, <2>5, <2>6, <2>7, GrowStep
  <1>13. CASE /\ InMemory(t) /\ memory' = [memory EXCEPT ![t] = Put(memory[t], c, r)]
              /\ db' = db /\ marked' = marked /\ undone' = undone
    <2> HIDE DEF r, rest
    <2>1. /\ memory' \in [Tabs -> Stores] /\ DOMAIN memory'[t] = DOMAIN memory[t] \cup {c}
          /\ \A y \in Tabs : y # t => memory'[y] = memory[y]
      <3>1. memory[t] \in Stores
        BY <1>3, QuietFacts
      <3>2. \A s \in Stores : Put(s, c, r) \in Stores /\ DOMAIN Put(s, c, r) = DOMAIN s \cup {c}
        BY <1>3, PutFacts
      <3> QED
        BY <1>3, <1>13, <3>1, <3>2, QuietFacts
    <2>2. MarksKept'
      BY <1>13 DEF QueueInv, MarksKept
    <2>3. \A v \in Calls \ {u} :
             \/ call'[v] = call[v] /\ ReadAllMarks(call[v], marked', undone')
             \/ call'[v] = [call[v] EXCEPT !.clean = FALSE]
      BY <1>8, <1>13, QuietFacts DEF Reliable
    <2>4. QueueTypeOK'
      BY <1>5, <1>6, <1>8, <1>13, <2>1 DEF QueueInv, QueueTypeOK
    <2>5. Reliable(q, db', memory', fallback', marked', undone')
      BY <1>4, <1>10, <1>13, <2>1 DEF Reliable, SavedThere, ReadAllMarks, AddedThere, rest
    <2>6. \A x \in Captures : Nowhere(x) /\ Unborn(x)' =>
             /\ x \notin DOMAIN db' /\ \A y \in Tabs : x \notin DOMAIN memory'[y]
             /\ x \notin DOMAIN q.chosen /\ marked'[x] = {}
      BY <1>11, <1>13, <2>1
    <2>7. \A y \in Tabs : DOMAIN memory[y] \subseteq DOMAIN memory'[y]
      BY <2>1
    <2>8. /\ Lasting(db, undone) \subseteq Lasting(db', undone') /\ Shape(call'[u])
          /\ Reliable(call'[u], db', memory', fallback', marked', undone')
          /\ ~(call'[u].kind = "save" /\ call'[u].pc = "put")
      BY <1>4, <1>8, <1>9, <1>13, <2>5
    <2>9. \A x \in Captures : Nowhere(x) /\ Unborn(x)' =>
             /\ x \notin DOMAIN db' /\ \A y \in Tabs : x \notin DOMAIN memory'[y]
             /\ x \notin DOMAIN call'[u].chosen /\ ~Rewriting(call'[u], x) /\ marked'[x] = {}
      BY <1>8, <1>9, <2>6
    <2> QED
      BY <1>5, <1>6, <2>2, <2>3, <2>4, <2>7, <2>8, <2>9, GrowStep
  <1>14. CASE Aborted(t) /\ undone' = undone \cup {<<c, "put">>} /\ marked' = marked
    <2> HIDE DEF r, rest
    <2>1. db' = db /\ memory' = memory /\ fallback' = fallback
      BY <1>14 DEF Aborted
    <2>2. /\ Lasting(db, undone) \subseteq Lasting(db', undone') /\ c \in Lasting(db', undone')
          /\ undone' \subseteq Writes /\ \A x : Unset(x, undone) \subseteq Unset(x, undone')
      BY <1>3, <1>14, <2>1 DEF QueueInv, QueueTypeOK, Lasting, Writes, Unset
    <2>3. MarksKept'
      BY <1>14, <2>1 DEF QueueInv, MarksKept
    <2>4. \A v \in Calls \ {u} :
             \/ call'[v] = call[v] /\ ReadAllMarks(call[v], marked', undone')
             \/ call'[v] = [call[v] EXCEPT !.clean = FALSE]
      <3>1. \A v \in Calls : ReadAllMarks(call[v], marked', undone')
        BY <1>14, <2>2, QuietFacts DEF Reliable, ReadAllMarks
      <3> QED
        BY <1>8, <3>1
    <2>5. QueueTypeOK'
      BY <1>5, <1>6, <1>8, <1>14, <2>1, <2>2 DEF QueueInv, QueueTypeOK
    <2>6. Reliable(q, db', memory', fallback', marked', undone')
      BY <1>4, <1>10, <2>1, <2>2 DEF Reliable, SavedThere, ReadAllMarks, AddedThere, rest
    <2>7. \A x \in Captures : Nowhere(x) /\ Unborn(x)' =>
             /\ x \notin DOMAIN db' /\ \A y \in Tabs : x \notin DOMAIN memory'[y]
             /\ x \notin DOMAIN q.chosen /\ marked'[x] = {}
      BY <1>11, <1>14, <2>1
    <2> QED
      BY <1>4, <1>5, <1>6, <1>8, <1>9, <2>1, <2>2, <2>3, <2>4, <2>5, <2>6, <2>7, GrowStep
  <1> QED
    BY <1>1, <1>12, <1>13, <1>14

(* Clearing soils all other operations, so none of them relies on what is    *)
(* gone.                                                                     *)
LEMMA ClearStep ==
    ASSUME QueueInv, NEW u \in Calls, Clear(u),
           NEW t, t = call[u].tab
    PROVE  QueueInv'
  <1> DEFINE S == {v \in Calls \ {u} : call[v].pc # "idle"}
             pc == IF call[u].kind = "import" THEN "add" ELSE "list"
             q == [call[u] EXCEPT !.pc = pc, !.clean = TRUE]
  <1>1. /\ call[u] \in Call /\ Shape(call[u]) /\ call[u].pc = "clear" /\ t \in Tabs
        /\ call[u].kind \in {"import", "reset"}
        /\ InDatabase(t) \/ InMemory(t) \/ Aborted(t)
    BY QuietFacts DEF Clear, Shape, Call
  <1>2. /\ q \in Call /\ q.pc = pc /\ q.kind = call[u].kind
        /\ q.tab = t /\ q.chosen = call[u].chosen /\ q.todo = call[u].todo
    BY <1>1 DEF Call, Steps
  <1>3. /\ used' = used /\ held' = held /\ file' = file /\ started' = started
        /\ undone' = undone
    BY DEF Clear, promises
  <1>4. /\ fallback' \in [Tabs -> BOOLEAN] /\ errors' \in 0..MaxErrors
    BY <1>1, InMemoryType DEF QueueInv
  <1>5. /\ call' \in [Calls -> Call] /\ call'[u] = q
        /\ \A v \in Calls \ {u} :
             \/ call'[v] = call[v] /\ v \notin S
             \/ call'[v] = [call[v] EXCEPT !.clean = FALSE]
    <2>1. Soil(S) \in [Calls -> Call] /\ Soil(S)[u] = call[u] /\ u \notin S
      BY SoilFacts, QuietFacts DEF Soil
    <2>2. call' = [Soil(S) EXCEPT ![u] = q]
      BY <2>1 DEF Clear
    <2> HIDE DEF q, S
    <2> QED
      BY <1>2, <2>1, <2>2, SoilStep
  <1> HIDE DEF q
  <1>6. Shape(q) /\ \A x \in Captures : ~Rewriting(q, x)
    BY <1>1, <1>2 DEF Shape, Rewriting
  <1>7. /\ db' \in Stores /\ DOMAIN db' \subseteq DOMAIN db
        /\ memory' \in [Tabs -> Stores] /\ \A y \in Tabs : DOMAIN memory'[y] \subseteq DOMAIN memory[y]
        /\ marked' \in [Captures -> SUBSET Marks] /\ \A x \in Captures : marked'[x] \subseteq marked[x]
        /\ told' \subseteq Lasting(db', undone') /\ told' \subseteq Captures
    <2>1. marked \in [Captures -> SUBSET Marks] /\ told \subseteq Captures
      BY DEF QueueInv, QueueTypeOK
    <2>2. CASE db' = Empty /\ told' = {} /\ marked' = [c \in Captures |-> {}] /\ memory' = memory
      BY <2>1, <2>2, EmptyFacts, QuietFacts
    <2>3. CASE memory' = [memory EXCEPT ![t] = Empty] /\ db' = db /\ told' = told /\ marked' = marked
      BY <1>1, <1>3, <2>1, <2>3, EmptyFacts, QuietFacts
    <2>4. CASE UNCHANGED <<memory, db, promises>>
      BY <2>1, <2>4, QuietFacts DEF promises
    <2> QED
      BY <2>2, <2>3, <2>4 DEF Clear, promises, Aborted
  <1>8. QueueTypeOK'
    BY <1>3, <1>4, <1>5, <1>7 DEF QueueInv, QueueTypeOK
  <1>9. Reliable(q, db', memory', fallback', marked', undone')
    BY <1>1, <1>2 DEF Reliable, SavedThere, ReadAllMarks, AddedThere, Shape
  <1>10. \A v \in Calls \ {u} :
           \/ call'[v] = call[v] /\ Reliable(call[v], db', memory', fallback', marked', undone')
           \/ call'[v] = [call[v] EXCEPT !.clean = FALSE]
    <2>1. ASSUME NEW v \in Calls \ {u}, v \notin S
          PROVE  Reliable(call[v], db', memory', fallback', marked', undone')
      BY <2>1 DEF Reliable, SavedThere, ReadAllMarks, AddedThere
    <2> HIDE DEF S
    <2> QED
      BY <1>5, <2>1
  <1>11. /\ \A v \in Calls : Shape(call'[v])
         /\ \A v \in Calls : Reliable(call'[v], db', memory', fallback', marked', undone')
    BY <1>5, <1>6, <1>8, <1>9, <1>10, OperationsKept
  <1>12. \A v \in Calls \ {u} : /\ call'[v].kind = call[v].kind /\ call'[v].pc = call[v].pc
                                /\ call'[v].c = call[v].c /\ call'[v].chosen = call[v].chosen
    <2> TAKE v \in Calls \ {u}
    <2>1. call[v] \in Call
      BY QuietFacts
    <2> DEFINE r == [call[v] EXCEPT !.clean = FALSE]
    <2>2. /\ r.kind = call[v].kind /\ r.pc = call[v].pc
          /\ r.c = call[v].c /\ r.chosen = call[v].chosen
      BY <2>1 DEF Call
    <2>3. call'[v] = call[v] \/ call'[v] = r
      BY <1>5
    <2> QED
      BY <2>2, <2>3
  <1>13. Births'
    <2>1. \A v \in Calls : \A c \in Captures : Saving(call'[v], c) => Saving(call[v], c)
      BY <1>1, <1>2, <1>5, <1>12 DEF Saving
    <2>2. ASSUME NEW c \in Captures, Nowhere(c) PROVE Nowhere(c)'
      <3>1. \A v \in Calls : c \notin DOMAIN call'[v].chosen /\ ~Rewriting(call'[v], c)
        BY <1>2, <1>5, <1>6, <1>12, <2>2 DEF Nowhere, Rewriting
      <3>2. marked[c] = {} /\ c \notin DOMAIN db /\ c \notin DOMAIN file /\ \A y \in Tabs : c \notin DOMAIN memory[y]
        BY <2>2 DEF Nowhere
      <3>3. marked'[c] = {} /\ c \notin DOMAIN db' /\ c \notin DOMAIN file' /\ \A y \in Tabs : c \notin DOMAIN memory'[y]
        BY <1>3, <1>7, <3>2
      <3> QED
        BY <3>1, <3>3 DEF Nowhere
    <2> QED
      BY <1>3, <2>1, <2>2, BirthsKept
  <1>14. MarksKept'
    <2>1. CASE DOMAIN db' = {}
      BY <2>1 DEF MarksKept
    <2>2. CASE db' = db /\ marked' = marked
      BY <1>3, <2>2 DEF QueueInv, MarksKept
    <2> QED
      BY <2>1, <2>2, EmptyFacts DEF Clear, promises, Aborted
  <1> QED
    BY <1>7, <1>8, <1>11, <1>13, <1>14 DEF QueueInv

(* A page loaded again loses its memory with its operations.                 *)
LEMMA ReloadStep ==
    ASSUME QueueInv, NEW t \in Tabs, Reload(t)
    PROVE  QueueInv'
  <1>1. /\ db' = db /\ marked' = marked /\ told' = told /\ file' = file /\ held' = held
        /\ used' = used /\ started' = started /\ undone' = undone
        /\ memory' = [memory EXCEPT ![t] = Empty]
    BY DEF Reload, promises
  <1>2. /\ memory' \in [Tabs -> Stores] /\ DOMAIN memory'[t] = {}
        /\ \A y \in Tabs : y # t => memory'[y] = memory[y]
    BY <1>1, EmptyFacts, QuietFacts
  <1>3. /\ fallback' \in [Tabs -> BOOLEAN] /\ errors' \in 0..MaxErrors
        /\ \A y \in Tabs : y # t => fallback'[y] = fallback[y]
    <2>1. fallback \in [Tabs -> BOOLEAN]
      BY QuietFacts
    <2>2. fallback' = [fallback EXCEPT ![t] = FALSE] \/ fallback' = [fallback EXCEPT ![t] = TRUE]
      BY DEF Reload
    <2>3. errors' \in 0..MaxErrors
      BY QueueAssumption, QuietFacts DEF Reload
    <2> QED
      BY <2>1, <2>2, <2>3, Zenon
  <1>4. call' \in [Calls -> Call] /\ \A v \in Calls : \/ call'[v] = NoCall
                                                      \/ call'[v] = call[v] /\ call[v].tab # t
    BY EndFacts, QuietFacts DEF Reload
  <1>5. QueueTypeOK'
    BY <1>1, <1>2, <1>3, <1>4 DEF QueueInv, QueueTypeOK
  <1>6. ASSUME NEW v \in Calls
        PROVE  Shape(call'[v]) /\ Reliable(call'[v], db', memory', fallback', marked', undone')
    <2>1. CASE call'[v] = NoCall
      BY <2>1, EndFacts
    <2>2. CASE call'[v] = call[v] /\ call[v].tab # t
      <3>1. Shape(call[v]) /\ Reliable(call[v], db, memory, fallback, marked, undone)
        BY QuietFacts
      <3>2. call[v].pc # "idle" => call[v].tab \in Tabs \ {t}
        BY <2>2, <3>1 DEF Shape
      <3> QED
        BY <1>1, <1>2, <1>3, <2>2, <3>1, <3>2 DEF Reliable, SavedThere, ReadAllMarks, AddedThere
    <2> QED
      BY <1>4, <2>1, <2>2
  <1>7. Births'
    <2>1. \A v \in Calls : \A c \in Captures : Saving(call'[v], c) => Saving(call[v], c)
      BY <1>4, EndFacts
    <2>2. ASSUME NEW c \in Captures, Nowhere(c) PROVE Nowhere(c)'
      <3>1. \A v \in Calls : c \notin DOMAIN call'[v].chosen /\ ~Rewriting(call'[v], c)
        BY <1>4, <2>2, EndFacts, EmptyFacts DEF Nowhere
      <3> QED
        BY <1>1, <1>2, <2>2, <3>1 DEF Nowhere
    <2> QED
      BY <1>1, <2>1, <2>2, BirthsKept
  <1>8. told' \subseteq Lasting(db', undone') /\ MarksKept'
    BY <1>1 DEF QueueInv, MarksKept
  <1> QED
    BY <1>5, <1>6, <1>7, <1>8 DEF QueueInv

-----------------------------------------------------------------------------
(* Every step of the inbox keeps the invariant.                              *)
LEMMA QueueStep ==
    ASSUME QueueInv, [QueueNext]_vars
    PROVE  QueueInv'
  <1>1. CASE UNCHANGED vars
    <2>1. /\ db' = db /\ memory' = memory /\ fallback' = fallback /\ file' = file
          /\ call' = call /\ held' = held /\ used' = used /\ told' = told
          /\ marked' = marked /\ started' = started /\ errors' = errors /\ undone' = undone
      BY <1>1 DEF vars, browser, promises
    <2>2. QueueTypeOK' /\ told' \subseteq Lasting(db', undone') /\ MarksKept'
      BY <2>1 DEF QueueInv, QueueTypeOK, MarksKept
    <2>3. Births'
      BY <2>1 DEF QueueInv, Births, Unborn, Nowhere
    <2> QED
      BY <2>1, <2>2, <2>3 DEF QueueInv
  <1>2. ASSUME NEW u \in Calls, Proceed(u) PROVE QueueInv'
    BY <1>2, PostStep, GetStep, PutUpdateStep, PutNewStep, BackupStep, ClearStep, AddStep, ListStep
       DEF Proceed
  <1>3. ASSUME NEW u \in Calls, NEW t \in Tabs, Operate(u, t) PROVE QueueInv'
    BY <1>3, SaveStep, ProcessStep, SendStep, ImportStep, PlainStep DEF Operate
  <1>4. ASSUME NEW t \in Tabs, Reload(t) PROVE QueueInv'
    BY <1>4, ReloadStep
  <1> QED
    BY <1>1, <1>2, <1>3, <1>4 DEF QueueNext

(* It holds when the application is opened for the first time.               *)
LEMMA QueueStart == QueueInit => QueueInv
  <1> SUFFICES ASSUME QueueInit PROVE QueueInv
    OBVIOUS
  <1>1. QueueTypeOK
    BY EndFacts, EmptyFacts, QueueAssumption DEF QueueInit, QueueTypeOK
  <1>2. \A u \in Calls : call[u] = NoCall
    BY DEF QueueInit
  <1>3. Births
    BY <1>2, EndFacts, EmptyFacts DEF QueueInit, Births, Unborn, Nowhere
  <1> QED
    BY <1>1, <1>2, <1>3, EndFacts, EmptyFacts DEF QueueInit, QueueInv, MarksKept

(* The invariant holds in every state of the inbox.                          *)
THEOREM QueueInvariant == QueueSpec => []QueueInv
  <1>1. QueueInit => QueueInv
    BY QueueStart
  <1>2. QueueInv /\ [QueueNext]_vars => QueueInv'
    BY QueueStep
  <1> QED
    BY <1>1, <1>2, PTL DEF QueueSpec

(* The variables have their types.                                           *)
THEOREM QueueTypes == QueueSpec => []QueueTypeOK
  <1>1. QueueInv => QueueTypeOK
    BY DEF QueueInv
  <1> QED
    BY <1>1, QueueInvariant, PTL

(* What the owner was told to be in IndexedDB is there until the inbox is    *)
(* cleared (capture, import and reset of assets/js/app.js).                  *)
THEOREM QueueToldIsKept == QueueSpec => []ToldIsKept
  <1>1. QueueInv => ToldIsKept
    BY DEF QueueInv, Lasting, ToldIsKept
  <1> QED
    BY <1>1, QueueInvariant, PTL

(* The mark of an update that has come back is not lost (updateCapture of    *)
(* assets/js/assistant-storage.js).                                          *)
THEOREM QueueMarksKept == QueueSpec => []MarksKept
  <1>1. QueueInv => MarksKept
    BY DEF QueueInv
  <1> QED
    BY <1>1, QueueInvariant, PTL

(* An import that meets a failing request halfway has put every capture      *)
(* added so far into IndexedDB or into the memory of the page                *)
(* (importAssistantCaptures and withFallback).                               *)
THEOREM QueueImportKept == QueueSpec => []ImportKept
  <1>1. QueueInv => ImportKept
    BY DEF QueueInv, Reliable, AddedThere, Lasting, ImportKept
  <1> QED
    BY <1>1, QueueInvariant, PTL

=============================================================================
