--------------------------- MODULE AssistantQueue ---------------------------
(***************************************************************************)
(* The assistant inbox of the browser: assets/js/assistant-storage.js and  *)
(* the operations of assets/js/app.js on it.                               *)
(*                                                                         *)
(* The captures are in IndexedDB, which the tabs share.  A tab in which    *)
(* any request to IndexedDB has failed works on a map in its memory from   *)
(* then on, empty at first and gone when the page is loaded again.  Every  *)
(* request is awaited, so the steps of the operations interleave: an       *)
(* update reads and writes in two transactions, an import clears the store *)
(* and adds its captures one by one.                                       *)
(*                                                                         *)
(* A request may succeed whose transaction is aborted in the end: the page *)
(* has gone on by then and does not hear of it.  IndexedDB lets no other   *)
(* transaction at the store before that, so both are one step here.        *)
(***************************************************************************)
EXTENDS Naturals

CONSTANTS
    Tabs,           \* pages that show the application
    Calls,          \* operations under way at a time
    Captures,       \* assistant inputs, by id
    None,
    MaxErrors,      \* bound: failing requests and aborted transactions
    MaxOperations   \* bound: operations of the owner

ASSUME QueueAssumption ==
    /\ None \notin Tabs /\ None \notin Captures
    /\ MaxErrors \in Nat /\ MaxOperations \in Nat

VARIABLES
    db,         \* IndexedDB: the captures in it, with their marks
    memory,     \* tab -> memoryCaptures
    fallback,   \* tab -> useMemory
    call,       \* the operations under way
    file,       \* the captures in the export downloaded last
    held,       \* the captures the companion has
    used,       \* the ids given so far
    told,       \* history: captures reported to be in IndexedDB, and not
                \* cleared since
    marked,     \* history: the marks whose update has come back, likewise
    undone,     \* history: writes that came back and whose transaction was
                \* aborted, until the same is written again
    started,    \* how many operations the owner has started
    errors      \* requests that failed, transactions that were aborted

browser == <<db, memory, fallback, file>>
promises == <<told, marked, undone>>
vars == <<browser, call, held, used, promises, started, errors>>

-----------------------------------------------------------------------------
(* What an update sets: a status, or that the workspace has the capture.     *)
Marks == {"status", "sent"}

Stores == UNION {[S -> SUBSET Marks] : S \in SUBSET Captures}
Empty == [c \in {} |-> {}]
Put(s, c, r) == [x \in DOMAIN s \cup {c} |-> IF x = c THEN r ELSE s[x]]

(* The writes of a capture that may be undone: itself, or a mark of it.      *)
Writes == Captures \X ({"put"} \cup Marks)

Kinds == {"none", "save", "update", "import", "reset", "export", "refresh"}
Steps == {"idle", "send", "get", "put", "backup", "clear", "add", "list"}

(* `read`: the record an update has read.  `todo`: what an import has still  *)
(* to add of `chosen`.  `clean`: no other operation has written what this    *)
(* one has read or written.                                                  *)
Call == [kind : Kinds, pc : Steps, tab : Tabs \cup {None}, c : Captures \cup {None},
         mark : Marks, read : SUBSET Marks, chosen : Stores, todo : SUBSET Captures,
         clean : BOOLEAN]

NoCall == [kind |-> "none", pc |-> "idle", tab |-> None, c |-> None, mark |-> "status",
           read |-> {}, chosen |-> Empty, todo |-> {}, clean |-> TRUE]

QueueInit ==
    /\ db = Empty /\ file = Empty
    /\ memory = [t \in Tabs |-> Empty]
    /\ fallback = [t \in Tabs |-> FALSE]
    /\ call = [u \in Calls |-> NoCall]
    /\ held = {} /\ used = {} /\ told = {}
    /\ marked = [c \in Captures |-> {}] /\ undone = {}
    /\ started = 0 /\ errors = 0

-----------------------------------------------------------------------------
(* withFallback of tab t: the operation is done in IndexedDB, or in memory   *)
(* if a request fails now or has failed before.                              *)
InDatabase(t) == ~fallback[t] /\ UNCHANGED <<fallback, errors>>

InMemory(t) ==
    \/ fallback[t] /\ UNCHANGED <<fallback, errors>>
    \/ /\ ~fallback[t] /\ errors < MaxErrors
       /\ errors' = errors + 1
       /\ fallback' = [fallback EXCEPT ![t] = TRUE]

(* runStore resolves when the request has succeeded; then the transaction is *)
(* aborted, for want of space, say.  Only onerror is listened to.            *)
Aborted(t) ==
    /\ ~fallback[t] /\ errors < MaxErrors
    /\ errors' = errors + 1
    /\ UNCHANGED <<db, memory, fallback>>

(* Other operations have written what those of S have read or written.       *)
Soil(S) == [v \in Calls |-> IF v \in S THEN [call[v] EXCEPT !.clean = FALSE] ELSE call[v]]

Updating(c) == {v \in Calls : call[v].pc = "put" /\ call[v].c = c}

Step(u, pc) == call' = [call EXCEPT ![u].pc = pc]
Start(u, r) ==
    /\ call[u].pc = "idle" /\ started < MaxOperations
    /\ started' = started + 1
    /\ call' = [call EXCEPT ![u] = r]
Request(k, pc, t, c) == [NoCall EXCEPT !.kind = k, !.pc = pc, !.tab = t, !.c = c]

-----------------------------------------------------------------------------
(* The owner's operations.  Those on a capture are on its card, and a page   *)
(* may show the card of one that is there no more.                           *)

(* handleAssistantCapture: saveAssistantCapture with a new id.               *)
Save(u, t, c) ==
    /\ c \notin used
    /\ used' = used \cup {c}
    /\ Start(u, Request("save", "put", t, c))
    /\ UNCHANGED <<browser, held, promises, errors>>

(* The buttons Processed and Archive.                                        *)
Process(u, t, c) ==
    /\ c \in used
    /\ Start(u, Request("update", "get", t, c))
    /\ UNCHANGED <<browser, held, used, promises, errors>>

(* sendAssistantCaptureToCompanion.                                          *)
Send(u, t, c) ==
    /\ c \in used
    /\ Start(u, [Request("update", "send", t, c) EXCEPT !.mark = "sent"])
    /\ UNCHANGED <<browser, held, used, promises, errors>>

(* handleImport of the file downloaded last: what is there is exported       *)
(* first.  importAssistantCaptures returns early for a file without captures.*)
Import(u, t) ==
    /\ DOMAIN file # {}
    /\ Start(u, [Request("import", "backup", t, None) EXCEPT
                    !.chosen = file, !.todo = DOMAIN file])
    /\ UNCHANGED <<browser, held, used, promises, errors>>

Reset(u, t) ==
    /\ Start(u, Request("reset", "clear", t, None))
    /\ UNCHANGED <<browser, held, used, promises, errors>>

Export(u, t) ==
    /\ Start(u, Request("export", "backup", t, None))
    /\ UNCHANGED <<browser, held, used, promises, errors>>

Refresh(u, t) ==
    /\ Start(u, Request("refresh", "list", t, None))
    /\ UNCHANGED <<browser, held, used, promises, errors>>

-----------------------------------------------------------------------------
(* sendCapture: the companion stores the capture and answers with its id, or *)
(* refuses, because the id is taken, say; then the capture is not marked.    *)
(* An answer can be lost on its way.                                         *)
Post(u) ==
    LET c == call[u].c IN
      /\ call[u].pc = "send"
      /\ \/ /\ c \notin held
            /\ held' = held \cup {c}
            /\ Step(u, "get") \/ call' = [call EXCEPT ![u] = NoCall]
         \/ /\ call' = [call EXCEPT ![u] = NoCall]
            /\ UNCHANGED held
      /\ UNCHANGED <<browser, used, promises, errors, started>>

MarkInMemory(t, c, m) ==
    memory' = IF c \in DOMAIN memory[t]
                THEN [memory EXCEPT ![t] = Put(@, c, memory[t][c] \cup {m})]
                ELSE memory

(* updateCapture: the record is read; an id that is not there is no error.   *)
Get(u) ==
    LET t == call[u].tab
        c == call[u].c
    IN  /\ call[u].pc = "get"
        /\ \/ /\ InDatabase(t)
              /\ call' = IF c \in DOMAIN db
                           THEN [call EXCEPT ![u].pc = "put", ![u].read = db[c]]
                           ELSE [call EXCEPT ![u].pc = "list"]
              /\ UNCHANGED memory
           \/ /\ InMemory(t)
              /\ MarkInMemory(t, c, call[u].mark)
              /\ Step(u, "list")
        /\ UNCHANGED <<db, file, held, used, promises, started>>

(* Mutant: the update writes the patch over nothing.                         *)
PutPatchOnly(u) ==
    LET t == call[u].tab
        c == call[u].c
    IN  /\ call[u].pc = "put" /\ call[u].kind = "update"
        /\ InDatabase(t)
        /\ db' = Put(db, c, {call[u].mark})
        /\ call' = [Soil(Updating(c) \ {u}) EXCEPT ![u].pc = "list"]
        /\ marked' = [marked EXCEPT ![c] = (IF call[u].clean THEN @ ELSE {}) \cup {call[u].mark}]
        /\ UNCHANGED <<memory, file, held, used, told, undone, started>>

(* The record is written with the patch, as it was read.                     *)
PutUpdate(u) ==
    LET t == call[u].tab
        c == call[u].c
    IN  /\ call[u].pc = "put" /\ call[u].kind = "update"
        /\ \/ /\ InDatabase(t)
              /\ db' = Put(db, c, call[u].read \cup {call[u].mark})
              /\ call' = [Soil(Updating(c) \ {u}) EXCEPT ![u].pc = "list"]
              /\ marked' = [marked EXCEPT
                   ![c] = (IF call[u].clean THEN @ ELSE {}) \cup {call[u].mark}]
              /\ undone' = undone \ {<<c, call[u].mark>>}
              /\ UNCHANGED memory
           \/ /\ Aborted(t)
              /\ Step(u, "list")
              /\ marked' = [marked EXCEPT ![c] = @ \cup {call[u].mark}]
              /\ undone' = undone \cup {<<c, call[u].mark>>}
           \/ /\ InMemory(t)
              /\ MarkInMemory(t, c, call[u].mark)
              /\ Step(u, "list")
              /\ UNCHANGED <<db, marked, undone>>
        /\ UNCHANGED <<file, held, used, told, started>>

(* addCapture of a new capture.                                              *)
PutNew(u) ==
    LET t == call[u].tab
        c == call[u].c
    IN  /\ call[u].pc = "put" /\ call[u].kind = "save"
        /\ \/ InDatabase(t) /\ db' = Put(db, c, {}) /\ UNCHANGED <<memory, undone>>
           \/ Aborted(t) /\ undone' = undone \cup {<<c, "put">>}
           \/ /\ InMemory(t)
              /\ memory' = [memory EXCEPT ![t] = Put(@, c, {})]
              /\ UNCHANGED <<db, undone>>
        /\ Step(u, "list")
        /\ UNCHANGED <<file, held, used, told, marked, started>>

(* exportState: the file, for its own sake or as the backup of an import.    *)
Backup(u) ==
    LET t == call[u].tab IN
      /\ call[u].pc = "backup"
      /\ \/ InDatabase(t) /\ file' = db
         \/ InMemory(t) /\ file' = memory[t]
      /\ IF call[u].kind = "import" THEN Step(u, "clear")
                                    ELSE call' = [call EXCEPT ![u] = NoCall]
      /\ UNCHANGED <<db, memory, held, used, promises, started>>

(* clearCaptures: what had been reported so far was to be forgotten.         *)
Clear(u) ==
    LET t == call[u].tab
        next == IF call[u].kind = "import" THEN "add" ELSE "list"
    IN  /\ call[u].pc = "clear"
        /\ \/ /\ InDatabase(t)
              /\ db' = Empty /\ told' = {} /\ marked' = [c \in Captures |-> {}]
              /\ UNCHANGED <<memory, undone>>
           \/ Aborted(t) /\ UNCHANGED promises
           \/ /\ InMemory(t)
              /\ memory' = [memory EXCEPT ![t] = Empty]
              /\ UNCHANGED <<db, promises>>
        /\ call' = [Soil({v \in Calls \ {u} : call[v].pc # "idle"}) EXCEPT ![u].pc = next, ![u].clean = TRUE]
        /\ UNCHANGED <<file, held, used, started>>

(* Mutant: a capture whose request fails is not added to the memory.         *)
AddOrDrop(u) ==
    LET t == call[u].tab IN
      /\ call[u].pc = "add"
      /\ \E c \in call[u].todo :
           LET r == call[u].chosen[c]
               rest == call[u].todo \ {c}
           IN  /\ \/ /\ InDatabase(t) /\ db' = Put(db, c, r)
                     /\ marked' = [marked EXCEPT ![c] = {}]
                     /\ UNCHANGED <<memory, undone>>
                  \/ /\ InMemory(t) /\ UNCHANGED <<memory, db, marked, undone>>
               /\ call' = [Soil(Updating(c) \ {u}) EXCEPT
                             ![u].todo = rest,
                             ![u].pc = IF rest = {} THEN "list" ELSE "add"]
      /\ UNCHANGED <<file, held, used, told, started>>

(* importAssistantCaptures: addCapture of the next one.                      *)
Add(u) ==
    LET t == call[u].tab IN
      /\ call[u].pc = "add"
      /\ \E c \in call[u].todo :
           LET r == call[u].chosen[c]
               rest == call[u].todo \ {c}
           IN  /\ \/ /\ InDatabase(t) /\ db' = Put(db, c, r)
                     /\ marked' = [marked EXCEPT ![c] = {}]
                     /\ undone' = undone \ {<<c, "put">>}
                     /\ UNCHANGED memory
                  \/ /\ Aborted(t)
                     /\ undone' = undone \cup {<<c, "put">>}
                     /\ UNCHANGED marked
                  \/ /\ InMemory(t) /\ memory' = [memory EXCEPT ![t] = Put(@, c, r)]
                     /\ UNCHANGED <<db, marked, undone>>
               /\ call' = [Soil(Updating(c) \ {u}) EXCEPT
                             ![u].todo = rest,
                             ![u].pc = IF rest = {} THEN "list" ELSE "add"]
      /\ UNCHANGED <<file, held, used, told, started>>

(* Mutant: where a capture has gone is read before it is listed.             *)
ListAfterReport(u) ==
    LET t == call[u].tab IN
      /\ call[u].pc = "list"
      /\ InDatabase(t) \/ InMemory(t)
      /\ told' = IF call[u].kind = "save" /\ call[u].clean
                   THEN told \cup {call[u].c} ELSE told
      /\ call' = [call EXCEPT ![u] = NoCall]
      /\ UNCHANGED <<db, memory, file, held, used, marked, undone, started>>

(* listCaptures, and what the owner is told: getStatus is read afterwards.   *)
List(u) ==
    LET t == call[u].tab IN
      /\ call[u].pc = "list"
      /\ InDatabase(t) \/ InMemory(t)
      /\ told' = IF call[u].kind = "save" /\ call[u].clean /\ ~fallback'[t]
                   THEN told \cup {call[u].c} ELSE told
      /\ call' = [call EXCEPT ![u] = NoCall]
      /\ UNCHANGED <<db, memory, file, held, used, marked, undone, started>>

(* The page is loaded again: its memory and its operations are gone.         *)
(* boot opens IndexedDB and lists it, which may fail.                        *)
Reload(t) ==
    /\ \/ errors' = errors /\ fallback' = [fallback EXCEPT ![t] = FALSE]
       \/ errors < MaxErrors /\ errors' = errors + 1 /\ fallback' = [fallback EXCEPT ![t] = TRUE]
    /\ memory' = [memory EXCEPT ![t] = Empty]
    /\ call' = [u \in Calls |-> IF call[u].tab = t THEN NoCall ELSE call[u]]
    /\ UNCHANGED <<db, file, held, used, promises, started>>

-----------------------------------------------------------------------------
Operate(u, t) ==
    \/ \E c \in Captures : Save(u, t, c) \/ Process(u, t, c) \/ Send(u, t, c)
    \/ Import(u, t) \/ Reset(u, t) \/ Export(u, t) \/ Refresh(u, t)

Proceed(u) ==
    \/ Post(u) \/ Get(u) \/ PutUpdate(u) \/ PutNew(u)
    \/ Backup(u) \/ Clear(u) \/ Add(u) \/ List(u)

QueueNext ==
    \/ \E u \in Calls : Proceed(u) \/ \E t \in Tabs : Operate(u, t)
    \/ \E t \in Tabs : Reload(t)

QueueSpec == QueueInit /\ [][QueueNext]_vars

-----------------------------------------------------------------------------
(* The variables have their types.                                           *)
QueueTypeOK ==
    /\ db \in Stores /\ file \in Stores
    /\ memory \in [Tabs -> Stores]
    /\ fallback \in [Tabs -> BOOLEAN]
    /\ call \in [Calls -> Call]
    /\ held \subseteq Captures /\ used \subseteq Captures /\ told \subseteq Captures
    /\ marked \in [Captures -> SUBSET Marks] /\ undone \subseteq Writes
    /\ started \in 0..MaxOperations /\ errors \in 0..MaxErrors

(* A capture the owner was told to be in IndexedDB is there until the inbox  *)
(* is cleared, whatever requests fail and however many pages work on it,     *)
(* unless the transaction that was to write it was aborted after its request *)
(* had succeeded: then the report itself was wrong.                          *)
ToldIsKept == \A c \in told : c \in DOMAIN db \/ <<c, "put">> \in undone

(* An update that has come back is not lost: the mark is there until the     *)
(* inbox is cleared, unless another update had read the capture before, or   *)
(* its own transaction was aborted.                                          *)
MarksKept ==
    \A c \in DOMAIN db : \A m \in marked[c] : m \in db[c] \/ <<c, m>> \in undone

(* After a failure in the middle of an import, each capture added so far is  *)
(* in IndexedDB or in the memory of the page, if nobody else clears them and *)
(* its own transaction was not aborted.                                      *)
ImportKept ==
    \A u \in Calls :
        call[u].kind = "import" /\ call[u].pc \in {"add", "list"} /\ call[u].clean
            => \A c \in DOMAIN call[u].chosen \ call[u].todo :
                  \/ c \in DOMAIN db \cup DOMAIN memory[call[u].tab]
                  \/ <<c, "put">> \in undone

=============================================================================
