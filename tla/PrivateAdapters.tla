-------------------------- MODULE PrivateAdapters --------------------------
(***************************************************************************)
(* The owner's own data on its way into the private inbox: files exported  *)
(* from address books and calendars, taken up by                           *)
(* pnh_private_data_adapter_batch_plan.py one import process after the     *)
(* other, and the live adapters of                                         *)
(* pnh_live_private_data_adapter_batch_sync.py, one sync process each.     *)
(*                                                                         *)
(* A record is stored once because its fingerprint, made of source, title  *)
(* and body, is looked up first; but a record without a title is called    *)
(* after its place in the export, and a live transcript after the          *)
(* temporary file it was written to.  Row and fingerprint are two          *)
(* transactions.  What several processes do to the inbox at a time is the  *)
(* subject of PrivateInbox: here one batch runs at a time.                 *)
(***************************************************************************)
EXTENDS Naturals, Sequences, FiniteSets

CONSTANTS
    Files,        \* the exported files, a sequence in the order of their names,
    Live,         \* and the live adapters likewise
    Name,         \* the name that a file or adapter stores its records under:
                  \* a live calendar shares it with an exported one
    Transcripts,  \* the sources that are one text, not a list of records
    Records,      \* records an export may hold
    Unnamed,      \* the ones without a title, name or summary of their own
    Refused,      \* the ones the inbox refuses: too large, say, or without a body
    Exports,      \* what an export may hold: sequences of records
    TempNames,    \* numbers that names of temporary files are drawn from
    Limit,        \* records that one import takes (--limit, 50 in the code)
    Plans         \* bounds, see `plan`

Sources == {Files[k] : k \in DOMAIN Files} \cup {Live[k] : k \in DOMAIN Live}

Plan == [edits : Nat, deletes : Nat, faults : Nat, batches : BOOLEAN, posts : BOOLEAN,
         sends : Nat, sessions : Nat, covers : Nat, audits : Nat, summaries : Nat]

ASSUME AdaptersAssumption ==
    /\ Files \in Seq(Sources) /\ Live \in Seq(Sources)
    /\ Plans \subseteq Plan
    /\ {Files[k] : k \in DOMAIN Files} \cap {Live[k] : k \in DOMAIN Live} = {}
    /\ DOMAIN Name = Sources
    /\ Transcripts \subseteq Sources
    /\ \A s \in Transcripts, t \in Sources : Name[s] = Name[t] => s = t
    /\ Unnamed \subseteq Records /\ Refused \subseteq Records
    /\ Exports \subseteq Seq(Records)
    /\ TempNames \subseteq Nat \ {0}
    /\ Limit \in Nat \ {0}

VARIABLES
    export,   \* source -> the records its file or URL now holds, none if it
              \* is missing, empty or cannot be parsed
    inbox,    \* the captures, in the order they were stored
    known,    \* capture_ingest_fingerprints
    batch,    \* the batch that runs, and its import process
    cut,      \* history: contents whose import ended between row and fingerprint
    plan      \* bounds: how often what is not forced to happen may still happen

adapterVars == <<export, inbox, known, batch, cut, plan>>

-----------------------------------------------------------------------------
(* Source name, title and body make up the fingerprint.  Title 0 is          *)
(* one the record has itself, or that of the file.                           *)
Content(n, r, t) == [from |-> n, body |-> r, title |-> t]

Stored(c, vault) == [what |-> c, sealed |-> vault]

IsLive(s) == \E k \in DOMAIN Live : Live[k] = s

Taken(s) == IF Len(export[s]) > Limit THEN 1..Limit ELSE DOMAIN export[s]

(* Mutant: every record is called after its place.                           *)
ParsedByPlace(s, temp) == [k \in Taken(s) |-> Content(Name[s], export[s][k], k)]

(* parse_adapter_records and parse_live_records; `temp` is the number in the *)
(* name of the temporary file.                                               *)
Parsed(s, temp) ==
    [k \in Taken(s) |->
       Content(Name[s], export[s][k],
               IF s \in Transcripts THEN (IF IsLive(s) THEN temp ELSE 0)
               ELSE IF export[s][k] \in Unnamed THEN k ELSE 0)]

NoBatch == [kind |-> "none", pos |-> 0, step |-> "next", todo |-> << >>]

Order(b) == IF b.kind = "files" THEN Files ELSE Live

Source == Order(batch)[batch.pos]

AdaptersInit ==
    /\ export \in [Sources -> Exports]
    /\ \A s \in Transcripts : Len(export[s]) <= 1
    /\ inbox = << >>
    /\ known = {}
    /\ batch = NoBatch
    /\ cut = << >>
    /\ plan \in Plans

Spend(what) ==
    /\ plan[what] > 0
    /\ plan' = [plan EXCEPT ![what] = @ - 1]

-----------------------------------------------------------------------------
(* The owner exports anew, and deletes a capture from the vault.             *)
Edit(s, x) ==
    /\ Spend("edits")
    /\ s \in Transcripts => Len(x) <= 1
    /\ export' = [export EXCEPT ![s] = x]
    /\ UNCHANGED <<inbox, known, batch, cut>>

Delete(k) ==
    /\ Spend("deletes")
    /\ inbox[k].sealed
    /\ inbox' = SubSeq(inbox, 1, k - 1) \o SubSeq(inbox, k + 1, Len(inbox))
    /\ UNCHANGED <<export, known, batch, cut>>

(* main of the two batch scripts.                                            *)
StartBatch(kind) ==
    /\ batch = NoBatch
    /\ plan.batches
    /\ batch' = [NoBatch EXCEPT !.kind = kind, !.pos = 1]
    /\ UNCHANGED <<export, inbox, known, cut, plan>>

NextSource == [batch EXCEPT !.pos = @ + 1, !.step = "next", !.todo = << >>]

(* Mutant: the first failure ends any batch.                                 *)
FailureEnds == NoBatch

(* A failed import ends a batch of files (run_imports raises), but not one   *)
(* of live adapters, which notes it and goes on (run_adapter).               *)
AfterFailure == IF batch.kind = "files" THEN NoBatch ELSE NextSource

Open(temp) ==
    /\ batch.kind # "none" /\ batch.step = "next"
    /\ batch.pos <= Len(Order(batch))
    /\ export[Source] # << >>
    /\ batch' = [batch EXCEPT !.step = "store", !.todo = Parsed(Source, temp)]
    /\ UNCHANGED <<export, inbox, known, cut, plan>>

(* AdapterImportError: no record was found.                                  *)
Unreadable ==
    /\ batch.kind # "none" /\ batch.step = "next"
    /\ batch.pos <= Len(Order(batch))
    /\ export[Source] = << >>
    /\ batch' = AfterFailure
    /\ UNCHANGED <<export, inbox, known, cut, plan>>

(* insert_capture with dedupe: normalize_capture may refuse the record, which *)
(* ends the import there each time; then skip, or row first and fingerprint   *)
(* second.                                                                    *)
NextFits == batch.step = "store" /\ batch.todo # << >> /\ Head(batch.todo).body \notin Refused

RejectRecord ==
    /\ batch.step = "store" /\ batch.todo # << >>
    /\ ~NextFits
    /\ batch' = AfterFailure
    /\ UNCHANGED <<export, inbox, known, cut, plan>>

SkipRecord ==
    /\ NextFits
    /\ Head(batch.todo) \in known
    /\ batch' = [batch EXCEPT !.todo = Tail(@)]
    /\ UNCHANGED <<export, inbox, known, cut, plan>>

StoreRow ==
    /\ NextFits
    /\ Head(batch.todo) \notin known
    /\ inbox' = Append(inbox, Stored(Head(batch.todo), TRUE))
    /\ batch' = [batch EXCEPT !.step = "register"]
    /\ UNCHANGED <<export, known, cut, plan>>

RegisterRow ==
    /\ batch.step = "register"
    /\ known' = known \cup {Head(batch.todo)}
    /\ batch' = [batch EXCEPT !.step = "store", !.todo = Tail(@)]
    /\ UNCHANGED <<export, inbox, cut, plan>>

CloseSource ==
    /\ batch.step = "store" /\ batch.todo = << >>
    /\ batch' = NextSource
    /\ UNCHANGED <<export, inbox, known, cut, plan>>

EndBatch ==
    /\ batch.kind # "none" /\ batch.step = "next"
    /\ batch.pos > Len(Order(batch))
    /\ batch' = NoBatch
    /\ UNCHANGED <<export, inbox, known, cut, plan>>

(* An import process fails or is killed half-way; if it was killed because   *)
(* its time was up, TimeoutExpired ends either batch.                        *)
ImportEnds(timeUp) ==
    /\ batch.kind # "none" /\ batch.pos <= Len(Order(batch))
    /\ Spend("faults")
    /\ cut' = IF batch.step = "register" THEN Append(cut, Head(batch.todo)) ELSE cut
    /\ batch' = IF timeUp THEN NoBatch ELSE AfterFailure
    /\ UNCHANGED <<export, inbox, known>>

BatchStep ==
    \/ \E temp \in TempNames : Open(temp)
    \/ Unreadable \/ RejectRecord \/ SkipRecord \/ StoreRow \/ RegisterRow \/ CloseSource \/ EndBatch

AdaptersNext ==
    \/ \E s \in Sources, x \in Exports : Edit(s, x)
    \/ \E k \in DOMAIN inbox : Delete(k)
    \/ \E kind \in {"files", "live"} : StartBatch(kind)
    \/ BatchStep
    \/ \E timeUp \in BOOLEAN : ImportEnds(timeUp)

-----------------------------------------------------------------------------
(* A record that has a title of its own is held once, however often it is    *)
(* imported and however the export around it changes; only an import that    *)
(* was cut short after the row was stored adds a copy, and nothing adds one  *)
(* to what the owner has deleted.  Live transcripts have no such title.      *)
(* (docs/CURRENT_CAPABILITIES.md:89, capture_fingerprint.)                   *)
NamedOnce ==
    \A s \in Sources, r \in Records \ Unnamed :
      ~(s \in Transcripts /\ IsLive(s)) =>
        Cardinality({k \in DOMAIN inbox :
                       inbox[k].what.from = Name[s] /\ inbox[k].what.body = r})
          <= 1 + Cardinality({k \in DOMAIN cut : cut[k].from = Name[s] /\ cut[k].body = r})

(* What an import of the source stores when nothing disturbs it: the records *)
(* before the first one that is refused.                                     *)
Accepted(s) == {k \in Taken(s) : \A l \in 1..k : export[s][l] \notin Refused}

TakenUp(s) ==
    \A k \in Accepted(s) : \E c \in known : c.from = Name[s] /\ c.body = export[s][k]

(* The import of the source succeeds.                                        *)
Importable(s) == export[s] # << >> /\ Accepted(s) = Taken(s)

(* A batch that begins will come to it.                                      *)
Ahead(s) ==
    /\ batch.pos = 1 /\ batch.step = "next"
    /\ \E k \in DOMAIN Order(batch) :
         /\ Order(batch)[k] = s
         /\ batch.kind = "files" => \A l \in 1..(k - 1) : Importable(Files[l])

(* A batch takes up all it can: one live adapter that fails, for want of     *)
(* records or because one is refused, keeps no other from it, a file only    *)
(* those after it by name, and a refused record only what comes after it.    *)
(* That holds of a batch that begins when no import is killed and no export  *)
(* changes any more, whatever earlier ones left behind.                      *)
BatchTakesAll ==
    \A s \in Sources :
        Ahead(s) /\ plan.edits = 0 /\ plan.faults = 0 ~> TakenUp(s)

=============================================================================
