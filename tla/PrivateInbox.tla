---------------------------- MODULE PrivateInbox ----------------------------
(***************************************************************************)
(* companion/private_store.py as the threads of companion/server.py and    *)
(* the import script use it, with scripts/plaintext_migration_apply.py and *)
(* the deletion of encrypted captures.                                     *)
(*                                                                         *)
(* A capture is a row in one of two tables, each with a primary key of its *)
(* own; a table of fingerprints, which only the adapters use, tells which  *)
(* contents have been stored before.  Every SQLite transaction is a step;  *)
(* a request keeps what it learnt in one for the next in its locals.       *)
(* How a row is encrypted is the subject of EncryptedVault.                *)
(***************************************************************************)
EXTENDS Naturals, Sequences, FiniteSets

CONSTANTS
    NamedIds,       \* ids that single captures bring along, a retry the same; one
                    \* that comes without is like one with an id of its own
    FreshIds,       \* ids that normalize_capture draws for an adapter's records
    Records,        \* contents of adapter records (source, kind, title, ...),
    Captures,       \* and of single captures, which have other sources
    None,           \* no row, no fingerprint
    Clients,        \* requests in threads of the server, and import scripts
    MaxBatch,       \* bound: records of one adapter request
    MaxFaults       \* bound: requests that fail or are killed half-way

ASSUME InboxAssumption ==
    /\ IsFiniteSet(Clients) /\ IsFiniteSet(FreshIds)
    /\ NamedIds \cap FreshIds = {}
    /\ Records \cap Captures = {}
    /\ None \notin NamedIds \cup FreshIds \cup Records \cup Captures
    /\ MaxBatch \in Nat \ {0} /\ MaxFaults \in Nat

VARIABLES
    plain,      \* mobile_captures: id -> content
    sealed,     \* encrypted_mobile_captures: id -> content
    prints,     \* capture_ingest_fingerprints: content -> id
    events,     \* audit_events: the ids whose creation is on record
    vaultOn,    \* whether the server was started with a vault
    requested,  \* the ids a dispatch was started for
    req,        \* client -> the request it serves and its locals
    listed,     \* the rows a migration has read, if one is under way
    drawn,      \* random ids in use, which are never drawn again
    copies,     \* history: content -> the ids it was stored under by adapters
    told,       \* history: what answers have reported as stored
    deleted,    \* history: what owners have deleted
    faults      \* history: requests that ended half-way

tables == <<plain, sealed, prints, events>>
history == <<copies, told, deleted, faults>>
vars == <<tables, vaultOn, requested, req, listed, drawn, history>>

-----------------------------------------------------------------------------
Ids == NamedIds \cup FreshIds
Contents == Records \cup Captures
Table == [Ids -> Contents \cup {None}]
EmptyTable == [i \in Ids |-> None]
Rows(t) == {i \in Ids : t[i] # None}
Pairs == Ids \X Contents

Batches == UNION {[1..n -> Records] : n \in 1..MaxBatch}

(* `capture` is a POST of one capture by the browser, `adapter` one of phone *)
(* records, `import` the script, which has a vault in any case.              *)
Kinds == {"none", "capture", "adapter", "import"}
Steps == {"idle", "look", "store", "register", "answer"}

Req == [kind : Kinds, pc : Steps, id : Ids \cup {None}, todo : Seq(Contents),
        vault : BOOLEAN, done : SUBSET Pairs]

NoReq == [kind |-> "none", pc |-> "idle", id |-> None, todo |-> <<>>,
          vault |-> FALSE, done |-> {}]

NotListed == [on |-> FALSE, rows |-> EmptyTable]

InboxInit ==
    /\ plain = EmptyTable /\ sealed = EmptyTable
    /\ prints = [x \in Records |-> None]
    /\ events = {} /\ requested = {} /\ drawn = {}
    /\ vaultOn \in BOOLEAN
    /\ req = [c \in Clients |-> NoReq]
    /\ listed = NotListed
    /\ copies = [x \in Records |-> {}]
    /\ told = {} /\ deleted = {} /\ faults = 0

Idle(c) == req[c].pc = "idle"
EndReq(c) == req' = [req EXCEPT ![c] = NoReq]
Dedupe(c) == req[c].kind \in {"adapter", "import"}

(* The record at hand is stored, or was: on to the next one or the answer.   *)
Advance(c, i) ==
    LET r == req[c] IN
      req' = [req EXCEPT ![c] =
                [r EXCEPT !.todo = Tail(r.todo),
                          !.done = r.done \cup {<<i, Head(r.todo)>>},
                          !.id = IF r.kind = "capture" THEN r.id ELSE None,
                          !.pc = IF Len(r.todo) = 1 THEN "answer" ELSE "look"]]

-----------------------------------------------------------------------------
(* _handle_private_capture, up to its insert: no fingerprint is looked at.   *)
PostCapture(c, i, x) ==
    /\ Idle(c)
    /\ req' = [req EXCEPT ![c] = [NoReq EXCEPT !.kind = "capture", !.pc = "store", !.id = i,
                                              !.todo = <<x>>, !.vault = vaultOn]]
    /\ UNCHANGED <<tables, vaultOn, requested, listed, drawn, history>>

(* _handle_phone_adapter_capture and the import script.                      *)
PostRecords(c, k, batch) ==
    /\ Idle(c)
    /\ k \in {"adapter", "import"}
    /\ req' = [req EXCEPT ![c] = [NoReq EXCEPT !.kind = k, !.pc = "look", !.todo = batch,
                                              !.vault = (vaultOn \/ k = "import")]]
    /\ UNCHANGED <<tables, vaultOn, requested, listed, drawn, history>>

(* insert_capture, the fingerprint is known: the record is skipped.          *)
SkipDuplicate(c) ==
    /\ req[c].pc = "look"
    /\ LET x == Head(req[c].todo) IN
         /\ prints[x] # None
         /\ Advance(c, prints[x])
    /\ UNCHANGED <<tables, vaultOn, requested, listed, drawn, history>>

(* insert_capture, the fingerprint is new: normalize_capture has drawn i.    *)
FindNone(c, i) ==
    /\ req[c].pc = "look"
    /\ prints[Head(req[c].todo)] = None
    /\ i \in FreshIds \ drawn
    /\ drawn' = drawn \cup {i}
    /\ req' = [req EXCEPT ![c].pc = "store", ![c].id = i]
    /\ UNCHANGED <<tables, vaultOn, requested, listed, history>>

(* register_fingerprint: INSERT OR IGNORE.                                   *)
Registered(c) ==
    LET x == Head(req[c].todo) IN
      IF Dedupe(c) /\ prints[x] = None
        THEN [prints EXCEPT ![x] = req[c].id]
        ELSE prints

Copied(c) ==
    IF Dedupe(c)
      THEN [copies EXCEPT ![Head(req[c].todo)] = @ \cup {req[c].id}]
      ELSE copies

(* insert_capture without a vault: row, event and fingerprint together.      *)
StorePlain(c) ==
    /\ req[c].pc = "store" /\ ~req[c].vault
    /\ plain[req[c].id] = None
    /\ plain' = [plain EXCEPT ![req[c].id] = Head(req[c].todo)]
    /\ events' = events \cup {req[c].id}
    /\ prints' = Registered(c)
    /\ copies' = Copied(c)
    /\ Advance(c, req[c].id)
    /\ UNCHANGED <<sealed, vaultOn, requested, listed, drawn, told, deleted, faults>>

(* insert_capture with a vault, first transaction: encrypt_capture_record.   *)
StoreSealed(c) ==
    /\ req[c].pc = "store" /\ req[c].vault
    /\ sealed[req[c].id] = None
    /\ sealed' = [sealed EXCEPT ![req[c].id] = Head(req[c].todo)]
    /\ copies' = Copied(c)
    /\ req' = [req EXCEPT ![c].pc = "register"]
    /\ UNCHANGED <<plain, prints, events, vaultOn, requested, listed, drawn, told, deleted, faults>>

(* Mutant: the event without the fingerprint.                                *)
RegisterEvent(c) ==
    /\ req[c].pc = "register"
    /\ events' = events \cup {req[c].id}
    /\ Advance(c, req[c].id)
    /\ UNCHANGED <<plain, sealed, prints, vaultOn, requested, listed, drawn, history>>

(* Second transaction: event and fingerprint.                                *)
Register(c) ==
    /\ req[c].pc = "register"
    /\ events' = events \cup {req[c].id}
    /\ prints' = Registered(c)
    /\ Advance(c, req[c].id)
    /\ UNCHANGED <<plain, sealed, vaultOn, requested, listed, drawn, history>>

(* The id is taken: an IntegrityError, answered with 500.                    *)
StoreConflict(c) ==
    /\ req[c].pc = "store"
    /\ (IF req[c].vault THEN sealed ELSE plain)[req[c].id] # None
    /\ EndReq(c)
    /\ UNCHANGED <<tables, vaultOn, requested, listed, drawn, history>>

(* Mutant: no dispatch for what went into the vault.                         *)
AnswerOnly(c) ==
    /\ req[c].pc = "answer"
    /\ requested' = IF req[c].kind = "capture" /\ ~req[c].vault
                      THEN requested \cup {req[c].id}
                      ELSE requested
    /\ told' = told \cup req[c].done
    /\ EndReq(c)
    /\ UNCHANGED <<tables, vaultOn, listed, drawn, copies, deleted, faults>>

(* trigger_capture_auto_dispatch for a capture of the browser, and the 201.  *)
Answer(c) ==
    /\ req[c].pc = "answer"
    /\ requested' = IF req[c].kind = "capture" THEN requested \cup {req[c].id} ELSE requested
    /\ told' = told \cup req[c].done
    /\ EndReq(c)
    /\ UNCHANGED <<tables, vaultOn, listed, drawn, copies, deleted, faults>>

(* A transaction fails (a full disk, a lock held too long), or the process   *)
(* is killed: the request ends where it is.                                  *)
Abort(c) ==
    /\ ~Idle(c)
    /\ faults < MaxFaults
    /\ faults' = faults + 1
    /\ EndReq(c)
    /\ UNCHANGED <<tables, vaultOn, requested, listed, drawn, copies, told, deleted>>

(* The server is started again, with or without a vault.  One that is killed *)
(* aborts its requests first.                                                *)
Restart(v) ==
    /\ \A c \in Clients : req[c].kind \in {"none", "import"}
    /\ v # vaultOn
    /\ vaultOn' = v
    /\ UNCHANGED <<tables, requested, req, listed, drawn, history>>

(* delete_encrypted_capture: neither the event nor the fingerprint goes.     *)
Delete(i) ==
    /\ sealed[i] # None
    /\ sealed' = [sealed EXCEPT ![i] = None]
    /\ deleted' = deleted \cup {<<i, sealed[i]>>}
    /\ UNCHANGED <<plain, prints, events, vaultOn, requested, req, listed, drawn, copies, told, faults>>

-----------------------------------------------------------------------------
(* plaintext_migration_apply.py: plaintext_rows, and the rows encrypted.  Its *)
(* owner confirms each migration and runs one at a time.                     *)
ListPlain ==
    /\ ~listed.on
    /\ listed' = [on |-> TRUE, rows |-> plain]
    /\ UNCHANGED <<tables, vaultOn, requested, req, drawn, history>>

(* Mutant: every row leaves the plaintext table, those stored since the      *)
(* listing included.                                                         *)
MigrateAll ==
    LET rows == listed.rows IN
      /\ listed.on
      /\ \A i \in Rows(rows) : sealed[i] = None
      /\ sealed' = [i \in Ids |-> IF rows[i] # None THEN rows[i] ELSE sealed[i]]
      /\ plain' = EmptyTable
      /\ listed' = NotListed
      /\ UNCHANGED <<prints, events, vaultOn, requested, req, drawn, history>>

(* The transaction of main: the listed rows into the one table, their ids    *)
(* out of the other.                                                         *)
Migrate ==
    LET rows == listed.rows IN
      /\ listed.on
      /\ \A i \in Rows(rows) : sealed[i] = None
      /\ sealed' = [i \in Ids |-> IF rows[i] # None THEN rows[i] ELSE sealed[i]]
      /\ plain' = [i \in Ids |-> IF rows[i] # None THEN None ELSE plain[i]]
      /\ listed' = NotListed
      /\ UNCHANGED <<prints, events, vaultOn, requested, req, drawn, history>>

(* An id is in both tables: everything is rolled back.                       *)
MigrateConflict ==
    /\ listed.on
    /\ \E i \in Rows(listed.rows) : sealed[i] # None
    /\ listed' = NotListed
    /\ UNCHANGED <<tables, vaultOn, requested, req, drawn, history>>

-----------------------------------------------------------------------------
Serve(c) ==
    \/ \E i \in NamedIds, x \in Captures : PostCapture(c, i, x)
    \/ \E k \in {"adapter", "import"}, batch \in Batches : PostRecords(c, k, batch)
    \/ SkipDuplicate(c)
    \/ \E i \in FreshIds : FindNone(c, i)
    \/ StorePlain(c) \/ StoreSealed(c) \/ Register(c) \/ StoreConflict(c)
    \/ Answer(c)
    \/ Abort(c)

Move == ListPlain \/ Migrate \/ MigrateConflict

InboxNext ==
    \/ \E c \in Clients : Serve(c)
    \/ Move
    \/ \E i \in Ids : Delete(i)
    \/ \E v \in BOOLEAN : Restart(v)

InboxSpec == InboxInit /\ [][InboxNext]_vars

-----------------------------------------------------------------------------
(* The variables have their types.                                           *)
InboxTypeOK ==
    /\ plain \in Table /\ sealed \in Table
    /\ prints \in [Records -> FreshIds \cup {None}]
    /\ events \subseteq Ids /\ requested \subseteq Ids /\ drawn \subseteq FreshIds
    /\ vaultOn \in BOOLEAN
    /\ req \in [Clients -> Req]
    /\ listed \in [on : BOOLEAN, rows : Table]
    /\ copies \in [Records -> SUBSET FreshIds]
    /\ told \subseteq Pairs /\ deleted \subseteq Pairs
    /\ faults \in 0..MaxFaults

Held == {p \in Pairs : plain[p[1]] = p[2] \/ sealed[p[1]] = p[2]}

(* What an answer reported as stored, or as a duplicate of something stored, *)
(* is held in one of the tables until its owner deletes it, whatever the     *)
(* requests, migrations, restarts and failures in between; a migration is    *)
(* not to be seen.                                                           *)
Ledger == INSTANCE CaptureLedger WITH held <- Held, dropped <- deleted, told <- told
ImplementsLedger == Ledger!LedgerSpec

(* One content is imported once, except by requests that overlap, or whose   *)
(* fingerprint a failure kept from being registered.                         *)
CopiesBounded ==
    \A x \in Records : Cardinality(copies[x]) <= Cardinality(Clients) + faults

(* Only a failure, or a request that is still under way, leaves behind a     *)
(* capture no audit event speaks of, an import a later one would repeat, or  *)
(* a capture that is held but for which no dispatch was ever started; the    *)
(* last stays so, since a retry of the browser meets the taken id.           *)
NoneForgotten ==
    LET Open == {req[c].id : c \in Clients}
        Repeatable == {x \in Records : copies[x] # {} /\ prints[x] = None}
        Waiting == {i \in NamedIds \ requested : plain[i] # None \/ sealed[i] # None}
    IN  /\ Cardinality((Rows(plain) \cup Rows(sealed)) \ (events \cup Open)) <= faults
        /\ Cardinality({x \in Repeatable : copies[x] \cap Open = {}}) <= faults
        /\ Cardinality(Waiting \ Open) <= faults

=============================================================================
