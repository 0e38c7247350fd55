------------------------- MODULE CompanionSessions -------------------------
(***************************************************************************)
(* Pairing, browser sessions and owner devices: the handlers of            *)
(* companion/server.py, the JSON file of companion/owner_device_sessions.py*)
(* they share, and assets/js/companion-bridge.js at the other end.         *)
(*                                                                         *)
(* The server handles every request in a thread of its own, without locks. *)
(* Reading the device file, opening it for writing (which empties it) and  *)
(* filling it are steps of their own; what was read stays in the thread's  *)
(* copy.  A browser forgets its session token when it is reloaded, but     *)
(* keeps its device credential.  A session is known by the browser that    *)
(* holds its token: other sessions cannot be used any more.                *)
(***************************************************************************)
EXTENDS Naturals, FiniteSets

CONSTANTS
    Browsers,       \* browsers, each with a storage of its own
    Threads,        \* requests the server handles at a time
    None,
    MaxDevices,     \* max_devices of issue_owner_device_credential
    MaxCreds,       \* bound: owner-device credentials
    MaxRestarts,    \* bound: restarts of the server
    MaxLost         \* bound: answers that do not arrive

ASSUME SessionsAssumption ==
    /\ IsFiniteSet(Threads)
    /\ None \notin Browsers /\ None \notin Nat
    /\ MaxDevices \in Nat \ {0} /\ MaxCreds \in Nat
    /\ MaxRestarts \in Nat /\ MaxLost \in Nat

VARIABLES
    devices,    \* owner_devices.json as last written: credential -> its record
    cut,        \* whether the file is empty or unreadable instead
    expired,    \* the credentials older than ttl_days
    codeOpen,   \* whether the pairing code is unused and not expired
    sessions,   \* _browser_sessions: the browsers whose token is known
    work,       \* thread -> the request it handles and its locals
    token,      \* browser -> whether it has a session token, known or not
    cred,       \* browser -> its credential in localStorage
    issued,     \* how many credentials were made; they are numbered, so that
                \* the file, newest first, is ordered by falling number
    pairings,   \* history: how often this server's code was accepted, and how
    rivals,     \* many requests had compared it when it was accepted first
    settled,    \* history: what the file said of a credential when no thread
                \* held a copy of it; a revocation is remembered
    restarts, lost

file == <<devices, cut>>
admitted == <<pairings, rivals>>
server == <<file, expired, codeOpen, sessions, issued, admitted>>
client == <<token, cred>>
bounds == <<restarts, lost>>
vars == <<server, work, client, settled, bounds>>

-----------------------------------------------------------------------------
Creds == 1..MaxCreds
Store == [Creds -> {"none", "active", "revoked"}]
NoDevices == [k \in Creds |-> "none"]

Kinds == {"none", "pair", "restore", "revoke"}
Steps == {"idle", "check", "mark", "load", "save", "write", "accept", "refuse"}

(* `over`: another thread has written since this one opened the file.        *)
Work == [kind : Kinds, pc : Steps, from : Browsers \cup {None}, cred : Creds \cup {None},
         copy : Store, over : BOOLEAN]

NoWork == [kind |-> "none", pc |-> "idle", from |-> None, cred |-> None,
           copy |-> NoDevices, over |-> FALSE]

SessionsInit ==
    /\ devices = NoDevices /\ cut = FALSE
    /\ expired = {} /\ codeOpen = TRUE /\ sessions = {}
    /\ work = [t \in Threads |-> NoWork]
    /\ token = [b \in Browsers |-> FALSE]
    /\ cred = [b \in Browsers |-> None]
    /\ issued = 0 /\ pairings = 0 /\ rivals = 0 /\ settled = NoDevices
    /\ restarts = 0 /\ lost = 0

Active(d) == {k \in Creds : d[k] = "active"}
Revoked(d) == {k \in Creds : d[k] = "revoked"}

Idle(t) == work[t].pc = "idle"
Go(t, pc) == work' = [work EXCEPT ![t].pc = pc]
EndWork(t) == work' = [work EXCEPT ![t] = NoWork]

Request(t, k, b, c) ==
    [NoWork EXCEPT !.kind = k, !.from = b, !.cred = c,
                   !.pc = IF k = "pair" THEN "check" ELSE "load"]

-----------------------------------------------------------------------------
(* companion-bridge.js.                                                      *)

(* pair: the owner has typed the code of the running server.                 *)
Pair(b, t) ==
    /\ Idle(t)
    /\ issued + Cardinality({u \in Threads : work[u].kind = "pair" /\ work[u].cred = None}) < MaxCreds
    /\ work' = [work EXCEPT ![t] = Request(t, "pair", b, None)]
    /\ UNCHANGED <<server, client, bounds>>

(* checkCompanionStatus: restoreOwnerDeviceSession, unless isPaired.         *)
CheckStatus(b, t) ==
    /\ Idle(t)
    /\ ~token[b] /\ cred[b] # None
    /\ work' = [work EXCEPT ![t] = Request(t, "restore", b, cred[b])]
    /\ UNCHANGED <<server, client, bounds>>

(* revokeOwnerDeviceSession: token and credential are forgotten before the   *)
(* request is sent.                                                          *)
Disconnect(b, t) ==
    /\ Idle(t)
    /\ token[b] \/ cred[b] # None
    /\ token' = [token EXCEPT ![b] = FALSE]
    /\ cred' = [cred EXCEPT ![b] = None]
    /\ sessions' = sessions \ {b}
    /\ work' = IF cred[b] = None THEN work
               ELSE [work EXCEPT ![t] = Request(t, "revoke", b, cred[b])]
    /\ UNCHANGED <<file, expired, codeOpen, issued, admitted, bounds>>

(* The same without a server to be reached: the device stays active there.   *)
DisconnectOffline(b) ==
    /\ cred[b] # None /\ lost < MaxLost
    /\ lost' = lost + 1
    /\ token' = [token EXCEPT ![b] = FALSE]
    /\ cred' = [cred EXCEPT ![b] = None]
    /\ sessions' = sessions \ {b}
    /\ UNCHANGED <<file, expired, codeOpen, issued, admitted, work, restarts>>

(* The page is loaded again: the token was only in memory, and nobody waits  *)
(* for the answers under way.                                                *)
Reload(b) ==
    /\ token' = [token EXCEPT ![b] = FALSE]
    /\ sessions' = sessions \ {b}
    /\ work' = [t \in Threads |->
                  IF work[t].from = b THEN [work[t] EXCEPT !.from = None] ELSE work[t]]
    /\ UNCHANGED <<file, expired, codeOpen, issued, admitted, cred, bounds>>

(* The answer of a pairing or a restored session arrives.                    *)
Accepted(t) ==
    LET b == work[t].from IN
      /\ work[t].pc = "accept" /\ work[t].kind \in {"pair", "restore"}
      /\ b # None
      /\ token' = [token EXCEPT ![b] = TRUE]
      /\ sessions' = sessions \cup {b}
      /\ cred' = IF work[t].kind = "pair" THEN [cred EXCEPT ![b] = work[t].cred] ELSE cred
      /\ EndWork(t)
      /\ UNCHANGED <<file, expired, codeOpen, issued, admitted, bounds>>

(* A refusal arrives: a refused credential is forgotten.                     *)
Refused(t) ==
    LET b == work[t].from IN
      /\ work[t].pc = "refuse"
      /\ b # None
      /\ token' = [token EXCEPT ![b] = FALSE]
      /\ sessions' = sessions \ {b}
      /\ cred' = IF work[t].kind = "restore" THEN [cred EXCEPT ![b] = None] ELSE cred
      /\ EndWork(t)
      /\ UNCHANGED <<file, expired, codeOpen, issued, admitted, bounds>>

(* The answer to a revocation, or one that nobody waits for.                 *)
Unheard(t) ==
    /\ work[t].pc \in {"accept", "refuse"}
    /\ work[t].kind = "revoke" \/ work[t].from = None
    /\ EndWork(t)
    /\ UNCHANGED <<server, client, bounds>>

(* The connection breaks; the thread does not notice.                        *)
LoseAnswer(t) ==
    /\ work[t].from # None /\ lost < MaxLost
    /\ lost' = lost + 1
    /\ work' = [work EXCEPT ![t].from = None]
    /\ UNCHANGED <<server, client, restarts>>

-----------------------------------------------------------------------------
(* The handlers of server.py.                                                *)

(* create_browser_session: the code is compared ...                          *)
PairCheck(t) ==
    /\ work[t].pc = "check"
    /\ Go(t, IF codeOpen THEN "mark" ELSE "refuse")
    /\ UNCHANGED <<server, client, bounds>>

CountPairing ==
    /\ pairings' = pairings + 1
    /\ rivals' = IF pairings = 0 THEN Cardinality({u \in Threads : work[u].pc = "mark"})
                                 ELSE rivals

(* Mutant: the code stays valid until it expires.                            *)
PairUnmarked(t) ==
    /\ work[t].pc = "mark"
    /\ CountPairing
    /\ Go(t, "load")
    /\ UNCHANGED <<file, expired, codeOpen, sessions, issued, client, bounds>>

(* ... and marked as used; the session is registered, and reaches its        *)
(* browser with the answer.                                                  *)
PairMark(t) ==
    /\ work[t].pc = "mark"
    /\ codeOpen' = FALSE
    /\ CountPairing
    /\ Go(t, "load")
    /\ UNCHANGED <<file, expired, sessions, issued, client, bounds>>

(* load_store, and what follows in memory.                                   *)
LoadToIssue(t) ==
    LET k == issued + 1
        kept == {j \in Creds : devices[j] # "none" /\ j \notin expired} \cup {k}
        newest == {j \in kept : Cardinality({i \in kept : i > j}) < MaxDevices}
    IN  /\ work[t].pc = "load" /\ work[t].kind = "pair" /\ ~cut
        /\ issued' = k
        /\ work' = [work EXCEPT ![t].pc = "save", ![t].cred = k,
                                ![t].copy = [j \in Creds |->
                                    IF j = k THEN "active"
                                    ELSE IF j \in newest THEN devices[j] ELSE "none"]]
        /\ UNCHANGED <<file, expired, codeOpen, sessions, admitted, client, bounds>>

(* Mutant: a device that is seen again is renewed, revoked or not.           *)
LoadToRenew(t) ==
    /\ work[t].pc = "load" /\ work[t].kind = "restore" /\ ~cut
    /\ work' = IF devices[work[t].cred] # "none" /\ work[t].cred \notin expired
                 THEN [work EXCEPT ![t].pc = "save",
                                   ![t].copy = [devices EXCEPT ![work[t].cred] = "active"]]
                 ELSE [work EXCEPT ![t].pc = "refuse"]
    /\ UNCHANGED <<server, client, bounds>>

LoadToValidate(t) ==
    /\ work[t].pc = "load" /\ work[t].kind = "restore" /\ ~cut
    /\ work' = IF work[t].cred \in Active(devices) \ expired
                 THEN [work EXCEPT ![t].pc = "save", ![t].copy = devices]
                 ELSE [work EXCEPT ![t].pc = "refuse"]
    /\ UNCHANGED <<server, client, bounds>>

(* Mutant: a revoked device is struck from the file.                         *)
LoadToRemove(t) ==
    /\ work[t].pc = "load" /\ work[t].kind = "revoke" /\ ~cut
    /\ work' = IF work[t].cred \in Active(devices)
                 THEN [work EXCEPT ![t].pc = "save",
                                   ![t].copy = [devices EXCEPT ![work[t].cred] = "none"]]
                 ELSE [work EXCEPT ![t].pc = "accept"]
    /\ UNCHANGED <<server, client, bounds>>

LoadToRevoke(t) ==
    /\ work[t].pc = "load" /\ work[t].kind = "revoke" /\ ~cut
    /\ work' = IF work[t].cred \in Active(devices)
                 THEN [work EXCEPT ![t].pc = "save",
                                   ![t].copy = [devices EXCEPT ![work[t].cred] = "revoked"]]
                 ELSE [work EXCEPT ![t].pc = "accept"]
    /\ UNCHANGED <<server, client, bounds>>

(* Mutant: a file that does not parse counts as an empty one.                *)
LoadAsEmpty(t) ==
    /\ work[t].pc = "load" /\ cut
    /\ IF work[t].kind = "restore" THEN Go(t, "refuse") ELSE EndWork(t)
    /\ UNCHANGED <<server, client, bounds>>

(* The file does not parse: an exception that no handler catches.  The       *)
(* connection is closed without an answer.                                   *)
LoadFails(t) ==
    /\ work[t].pc = "load" /\ cut
    /\ EndWork(t)
    /\ UNCHANGED <<server, client, bounds>>

(* save_store: write_text opens the file ...                                 *)
OpenFile(t) ==
    /\ work[t].pc = "save"
    /\ cut' = TRUE
    /\ work' = [work EXCEPT ![t].pc = "write", ![t].over = FALSE]
    /\ UNCHANGED <<devices, expired, codeOpen, sessions, issued, admitted, client, bounds>>

(* ... and writes.  If another thread has written meanwhile, the end of a    *)
(* longer text may remain.                                                   *)
WriteFile(t) ==
    /\ work[t].pc = "write"
    /\ devices' = work[t].copy
    /\ cut' \in IF work[t].over THEN BOOLEAN ELSE {FALSE}
    /\ work' = [u \in Threads |->
                  IF u = t THEN [work[t] EXCEPT !.pc = "accept", !.copy = NoDevices, !.over = FALSE]
                  ELSE IF work[u].pc = "write" THEN [work[u] EXCEPT !.over = TRUE] ELSE work[u]]
    /\ UNCHANGED <<expired, codeOpen, sessions, issued, admitted, client, bounds>>

(* The server is killed, perhaps while it writes, and started again with a   *)
(* new code.                                                                 *)
Restart ==
    /\ restarts < MaxRestarts
    /\ restarts' = restarts + 1
    /\ sessions' = {} /\ codeOpen' = TRUE
    /\ pairings' = 0 /\ rivals' = 0
    /\ work' = [t \in Threads |-> NoWork]
    /\ UNCHANGED <<file, expired, issued, client, lost>>

(* Time passes: the code, a session, a credential.                           *)
CodeExpires ==
    /\ codeOpen
    /\ codeOpen' = FALSE
    /\ UNCHANGED <<file, expired, sessions, issued, admitted, work, client, bounds>>

SessionExpires(b) ==
    /\ b \in sessions
    /\ sessions' = sessions \ {b}
    /\ UNCHANGED <<file, expired, codeOpen, issued, admitted, work, client, bounds>>

CredentialExpires(k) ==
    /\ k \in 1..issued \ expired
    /\ expired' = expired \cup {k}
    /\ UNCHANGED <<file, codeOpen, sessions, issued, admitted, work, client, bounds>>

-----------------------------------------------------------------------------
Load(t) == LoadToIssue(t) \/ LoadToValidate(t) \/ LoadToRevoke(t)

Handle(t) ==
    \/ PairCheck(t) \/ PairMark(t)
    \/ Load(t) \/ LoadFails(t)
    \/ OpenFile(t) \/ WriteFile(t)
    \/ Accepted(t) \/ Refused(t) \/ Unheard(t)

Use(b) ==
    \/ \E t \in Threads : Pair(b, t) \/ CheckStatus(b, t) \/ Disconnect(b, t)
    \/ DisconnectOffline(b) \/ Reload(b) \/ SessionExpires(b)

SessionsStep ==
    \/ \E b \in Browsers : Use(b)
    \/ \E t \in Threads : Handle(t) \/ LoseAnswer(t)
    \/ Restart \/ CodeExpires
    \/ \E k \in Creds : CredentialExpires(k)

Copies(w) == {t \in DOMAIN w : w[t].pc \in {"save", "write"}}

Settle ==
    settled' = [k \in Creds |->
        IF Copies(work') # {} \/ settled[k] = "revoked" \/ devices'[k] = "none"
          THEN settled[k]
          ELSE devices'[k]]

SessionsNext == SessionsStep /\ Settle

SessionsSpec == SessionsInit /\ [][SessionsNext]_vars

-----------------------------------------------------------------------------
(* The variables have their types.                                           *)
SessionsTypeOK ==
    /\ devices \in Store /\ cut \in BOOLEAN
    /\ expired \subseteq Creds /\ codeOpen \in BOOLEAN
    /\ sessions \subseteq Browsers
    /\ work \in [Threads -> Work]
    /\ token \in [Browsers -> BOOLEAN]
    /\ cred \in [Browsers -> Creds \cup {None}]
    /\ issued \in 0..MaxCreds /\ pairings \in Nat /\ rivals \in 0..Cardinality(Threads)
    /\ settled \in Store
    /\ restarts \in 0..MaxRestarts /\ lost \in 0..MaxLost

(* A device that the file had as revoked at a time when no thread held a     *)
(* copy of it is never active again: only a request that overlaps the        *)
(* revocation itself can undo it.                                            *)
RevokedForGood ==
    /\ Revoked(settled) \cap Active(devices) = {}
    /\ \A t \in Copies(work) : Revoked(settled) \cap Active(work[t].copy) = {}

(* A device that was in the file at such a time is there until it expires or *)
(* as many newer ones have come as the file holds: no save drops another.    *)
KeptOrOutlived ==
    \A k \in Creds :
        settled[k] # "none" /\ devices[k] = "none"
            => k \in expired \/ issued >= k + MaxDevices

(* One pairing code admits one request, or those that had compared it before *)
(* one of them marked it as used: a request that comes later is refused.     *)
PairedAtOnce == pairings <= rivals

(* A browser forgets its credential when it is refused.  One that it still   *)
(* has is refused only because it expired, has been outlived, or was never   *)
(* in the file without an overlap: not because another request was just then *)
(* rewriting the file.                                                       *)
RefusedForCause ==
    [][\A t \in Threads :
          LET k == work[t].cred IN
            /\ work[t].kind = "restore" /\ work[t].pc = "load" /\ work'[t].pc = "refuse"
            /\ work[t].from # None /\ cred[work[t].from] = k
            => k \in expired \/ settled[k] = "none" \/ issued >= k + MaxDevices]_vars

=============================================================================
