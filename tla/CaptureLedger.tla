--------------------------- MODULE CaptureLedger ---------------------------
(***************************************************************************)
(* What the private inbox promises to those who send it captures: what an  *)
(* answer reports as stored is held until its owner deletes it.  In which  *)
(* table it is held, and that it may move from one to the other, is not to *)
(* be seen here.                                                           *)
(***************************************************************************)
CONSTANTS Ids, Contents

VARIABLES
    held,       \* the captures that are stored: pairs of an id and a content
    dropped,    \* the captures their owner has deleted
    told        \* the captures some answer has reported as stored

ledgerVars == <<held, dropped, told>>

Captured == Ids \X Contents

LedgerInit == held = {} /\ dropped = {} /\ told = {}

Take(p) ==
    /\ held' = held \cup {p}
    /\ UNCHANGED <<dropped, told>>

(* Another copy of the same capture may remain.                              *)
Drop(p) ==
    /\ p \in held
    /\ held' \in {held, held \ {p}}
    /\ dropped' = dropped \cup {p}
    /\ UNCHANGED told

(* One answer may report several captures.                                   *)
Tell(s) ==
    /\ s \subseteq held \cup dropped
    /\ told' = told \cup s
    /\ UNCHANGED <<held, dropped>>

LedgerNext ==
    \/ \E p \in Captured : Take(p) \/ Drop(p)
    \/ \E s \in SUBSET Captured : Tell(s)

LedgerSpec == LedgerInit /\ [][LedgerNext]_ledgerVars

=============================================================================
